-------------------------- MODULE BulkOnly_proofs --------------------------
(* Proofs about BulkOnly, for any set of tasks, any directions of their data *)
(* and any bounds.                                                           *)

EXTENDS BulkOnly, FiniteSetTheorems, SequenceTheorems, TLAPS

Wrappers == [task : Tasks \cup {NoTask}, state : States]

(* A data stage is only waited for by a command that has one.                *)
DirectionKnown ==
    currentState = "BulkIOComplete" /\ request # NoTask
        => Direction[request] # "none"

Typed == TypeOK /\ DirectionKnown

(* What a completion that belongs to a command can lead to: the next         *)
(* transfer, a helper, the end of the command, a reset or an abort.          *)
Posted(left) ==
    /\ \E q \in Pipes, s \in States :
           Post(left, q, request, s) /\ currentState' = s
    /\ UNCHANGED <<taskVars, helpers, resetVars>>

Helped(left) == /\ helpers' = Begins(helpers, "start")
                /\ pending' = left
                /\ UNCHANGED <<taskVars, resetVars>>

Failed(left)  == Fails(left)
Reset(left)   == ResetDeviceNow(left, FALSE) /\ UNCHANGED helpers
Aborted(left) == AbortCurrentSCSITask(left) /\ UNCHANGED <<helpers, resetVars>>

Outcome(left) == \/ Posted(left) \/ Helped(left) \/ Failed(left) \/ Reset(left)
                 \/ Aborted(left)

-----------------------------------------------------------------------------
(* The state machine.                                                        *)

(* Posting a transfer is one of the outcomes and sets the next state.        *)
LEMMA TransferOutcome ==
  ASSUME NEW left, NEW p \in Pipes, NEW state \in States, Transfer(left, p, state)
  PROVE  Outcome(left) /\ currentState' = state
BY DEF Transfer, Outcome, Posted, Failed

(* Starting a thread that clears a stall is an outcome and remembers the     *)
(* pipe.                                                                     *)
LEMMA ClearOutcome ==
  ASSUME NEW left, NEW p, NEW state,
         ClearFeatureEndpointStall(left, p, state)
  PROVE  Outcome(left) /\ currentState' = state /\ stalledPipe' = p
BY DEF ClearFeatureEndpointStall, Outcome, Helped, Failed

(* Asking for a reset is an outcome and leaves the state alone.              *)
LEMMA DeviceResetOutcome ==
  ASSUME NEW left, DeviceReset(left)
  PROVE  Outcome(left) /\ currentState' = currentState
BY DEF DeviceReset, Outcome, Reset

(* A Bulk-Only reset, or the USB reset it falls back to, is an outcome.      *)
LEMMA ResetDeviceOutcome ==
  ASSUME NEW left, BulkDeviceResetDevice(left)
  PROVE  Outcome(left) /\ currentState' \in {currentState, "ResetCompleted"}
<1>1. CASE UseUSBReset \/ resetCount > 0
  BY <1>1, DeviceResetOutcome DEF BulkDeviceResetDevice
<1>2. CASE ~(UseUSBReset \/ resetCount > 0)
  <2>1. Transfer(left, "control", "ResetCompleted")
    BY <1>2 DEF BulkDeviceResetDevice
  <2> QED
    BY <2>1, TransferOutcome DEF Pipes, States
<1> QED
  BY <1>1, <1>2

(* The answer to a good status wrapper is an outcome.                        *)
LEMMA GoodStatusOutcome ==
  ASSUME NEW left, GoodStatus(left)
  PROVE  Outcome(left) /\ currentState' \in {currentState, "ResetCompleted"}
BY ResetDeviceOutcome DEF GoodStatus, Outcome, Failed

(* A completion of a command's transfer has one of the outcomes, leaves a    *)
(* state of the state machine, and begins a data stage only with a command   *)
(* that has one.                                                             *)
StateKept ==
    /\ currentState' \in States
    /\ stalledPipe' \in {"in", "out"}
    /\ currentState' = "BulkIOComplete"
           => currentState = "BulkIOComplete" \/ Direction[request] # "none"

(* Every case of BulkOnlyExecuteCommandCompletion is an outcome, and leaves  *)
(* a state of the table behind.                                              *)
LEMMA NextStateOutcome ==
  ASSUME Typed, request \in Tasks, NEW left, NEW status, NextState(left, status)
  PROVE  Outcome(left) /\ StateKept
<1> USE DEF StateKept
<1>0. /\ currentState \in States /\ stalledPipe \in {"in", "out"}
      /\ Direction[request] \in {"in", "out", "none"}
      /\ currentState = "BulkIOComplete" => Direction[request] # "none"
  BY TaskAssumption, DirectionAssumption DEF Typed, TypeOK, DirectionKnown
<1>1. CASE currentState = "CommandSent" /\ CommandSent(left, status)
  <2>1. CASE status = "ok" /\ Direction[request] = "none"
    <3>1. Transfer(left, "in", "StatusReceived") /\ stalledPipe' = stalledPipe
      BY <1>1, <2>1 DEF CommandSent
    <3> QED
      BY <1>0, <3>1, TransferOutcome DEF Pipes, States
  <2>2. CASE status = "ok" /\ Direction[request] # "none"
    <3>1. /\ Transfer(left, Direction[request], "BulkIOComplete")
          /\ stalledPipe' = stalledPipe
      BY <1>1, <2>2 DEF CommandSent
    <3> QED
      BY <1>0, <2>2, <3>1, TransferOutcome DEF Pipes, States
  <2>3. CASE status = "stall" /\ ~UseUSBReset
    <3>1. /\ Transfer(left, "control", "CheckCBWBulkStall")
          /\ stalledPipe' = stalledPipe
      BY <1>1, <2>3 DEF CommandSent
    <3> QED
      BY <1>0, <3>1, TransferOutcome DEF Pipes, States
  <2>4. CASE status # "ok" /\ ~(status = "stall" /\ ~UseUSBReset)
    <3>1. DeviceReset(left) /\ stalledPipe' = stalledPipe
      BY <1>1, <2>4 DEF CommandSent
    <3> QED
      BY <1>0, <3>1, DeviceResetOutcome
  <2> QED
    BY <2>1, <2>2, <2>3, <2>4
<1>2. CASE currentState = "CheckCBWBulkStall" /\ CheckCBWBulkStall(left)
  BY <1>0, <1>2, ClearOutcome, ResetDeviceOutcome DEF CheckCBWBulkStall, States
<1>3. CASE ClearCBWBulkStall(left)
  BY <1>0, <1>3 DEF ClearCBWBulkStall, Outcome, Failed
<1>4. CASE currentState = "BulkIOComplete" /\ BulkIOComplete(left, status)
  <2>1. CASE status = "ok"
    <3>1. Transfer(left, "in", "StatusReceived") /\ stalledPipe' = stalledPipe
      BY <1>4, <2>1 DEF BulkIOComplete
    <3> QED
      BY <1>0, <3>1, TransferOutcome DEF Pipes, States
  <2>2. CASE status \in {"overrun", "deviceError"}
    <3>1. DeviceReset(left) /\ stalledPipe' = stalledPipe
      BY <1>4, <2>2 DEF BulkIOComplete
    <3> QED
      BY <1>0, <3>1, DeviceResetOutcome
  <2>3. CASE status = "timeout"
    <3>1. BulkDeviceResetDevice(left) /\ stalledPipe' = stalledPipe
      BY <1>4, <2>3 DEF BulkIOComplete
    <3> QED
      BY <1>0, <3>1, ResetDeviceOutcome DEF States
  <2>4. CASE status \notin {"ok", "overrun", "deviceError", "timeout"}
    <3>1. /\ stalledPipe' = Direction[request]
          /\ Transfer(left, "control", "CheckBulkStall")
      BY <1>4, <2>4 DEF BulkIOComplete
    <3> QED
      BY <1>0, <1>4, <3>1, TransferOutcome DEF Pipes, States
  <2> QED
    BY <2>1, <2>2, <2>3, <2>4
<1>5. CASE /\ currentState \in {"CheckBulkStall", "CheckBulkStallPostCSW"}
           /\ CheckBulkStall(left)
  BY <1>0, <1>5, ClearOutcome, ResetDeviceOutcome DEF CheckBulkStall, States
<1>6. CASE /\ currentState \in {"ClearBulkStall", "ClearBulkStallPostCSW"}
           /\ ClearBulkStall(left)
  BY <1>0, <1>6, TransferOutcome DEF ClearBulkStall, States, Pipes
<1>7. CASE currentState = "StatusReceived" /\ StatusReceived(left, status)
  <2>1. CASE status = "ok"
    <3>1. GoodStatus(left) /\ stalledPipe' = stalledPipe
      BY <1>7, <2>1 DEF StatusReceived
    <3> QED
      BY <1>0, <1>7, <3>1, GoodStatusOutcome DEF States
  <2>2. CASE status = "stall"
    <3>1. /\ Transfer(left, "control", "CheckBulkStallPostCSW")
          /\ stalledPipe' = IF inUse' THEN "in" ELSE stalledPipe
      BY <1>7, <2>2 DEF StatusReceived
    <3> QED
      BY <1>0, <3>1, TransferOutcome DEF Pipes, States
  <2>3. CASE status \notin {"ok", "stall"}
    <3>1. /\ \/ /\ Post(left, "in", request, "StatusReceived2ndTime")
                /\ currentState' = "StatusReceived2ndTime"
                /\ UNCHANGED <<taskVars, helpers, resetVars>>
             \/ BulkDeviceResetDevice(left)
          /\ stalledPipe' = stalledPipe
      BY <1>7, <2>3 DEF StatusReceived
    <3>2. CASE BulkDeviceResetDevice(left)
      BY <1>0, <1>7, <3>1, <3>2, ResetDeviceOutcome DEF States
    <3>3. CASE ~BulkDeviceResetDevice(left)
      BY <1>0, <3>1, <3>3 DEF Outcome, Posted, Pipes, States
    <3> QED
      BY <3>2, <3>3
  <2> QED
    BY <2>1, <2>2, <2>3
<1>8. CASE /\ currentState = "StatusReceived2ndTime"
           /\ StatusReceived2ndTime(left, status)
  BY <1>0, <1>8, GoodStatusOutcome, ResetDeviceOutcome
     DEF StatusReceived2ndTime, States
<1>9. CASE currentState = "ResetCompleted" /\ ResetCompleted(left, status)
  BY <1>0, <1>9, ClearOutcome, DeviceResetOutcome DEF ResetCompleted, States
<1>10. CASE currentState = "ClearBulkInCompleted" /\ ClearBulkInCompleted(left)
  BY <1>10, ClearOutcome DEF ClearBulkInCompleted, States
<1>11. CASE currentState = "ClearBulkOutCompleted" /\ ClearBulkOutCompleted(left)
  BY <1>0, <1>11 DEF ClearBulkOutCompleted, Outcome, Aborted
<1> QED
  BY <1>1, <1>2, <1>3, <1>4, <1>5, <1>6, <1>7, <1>8, <1>9, <1>10, <1>11
     DEF NextState
-----------------------------------------------------------------------------
(* Types.                                                                    *)

(* A pipe that loses its first transfer holds a sequence of wrappers still.  *)
LEMMA AfterATransfer ==
  ASSUME NEW f \in [Pipes -> Seq(Wrappers)], NEW p \in Pipes, f[p] # <<>>
  PROVE  [f EXCEPT ![p] = Tail(@)] \in [Pipes -> Seq(Wrappers)]
BY HeadTailProperties

(* So does a pipe that a wrapper is posted on.                               *)
LEMMA AfterAPost ==
  ASSUME NEW f \in [Pipes -> Seq(Wrappers)], NEW p \in Pipes, NEW w \in Wrappers
  PROVE  [f EXCEPT ![p] = Append(@, w)] \in [Pipes -> Seq(Wrappers)]
BY AppendProperties

(* A thread that ends or moves on leaves natural numbers in the table of     *)
(* threads.                                                                  *)
LEMMA AfterAMove ==
  ASSUME NEW S, NEW f \in [S -> Nat], NEW pc \in S, f[pc] > 0
  PROVE  /\ Ends(f, pc) \in [S -> Nat]
         /\ \A to \in S : Moves(f, pc, to) \in [S -> Nat]
<1>1. f[pc] - 1 \in Nat
  OBVIOUS
<1>2. Ends(f, pc) \in [S -> Nat]
  BY <1>1 DEF Ends
<1>3. ASSUME NEW to \in S PROVE Moves(f, pc, to) \in [S -> Nat]
  <2>1. f[to] + 1 \in Nat
    OBVIOUS
  <2> QED
    BY <1>1, <2>1 DEF Moves
<1> QED
  BY <1>2, <1>3

(* The variables that a command, a reset or an abort works on.               *)
TaskTyped ==
    /\ inUse \in BOOLEAN /\ attached \in BOOLEAN
    /\ terminating \in BOOLEAN /\ deferred \in BOOLEAN
    /\ request \in Tasks \cup {NoTask}
    /\ resetCount \in 0 .. MaxResets + 1
    /\ completed \in [Tasks -> Nat]

ResetTyped ==
    /\ resetInProgress \in BOOLEAN /\ blockOnReset \in BOOLEAN
    /\ resetters \in [ResetterPcs -> Nat]
    /\ lost \subseteq Tasks

OtherTyped ==
    /\ inactive \in BOOLEAN /\ interface \in BOOLEAN
    /\ resettingDevice \in BOOLEAN
    /\ currentState \in States
    /\ stalledPipe \in {"in", "out"}
    /\ sender \in [Tasks -> SenderPcs]
    /\ waiter \in WaiterPcs
    /\ termination \in Terminations
    /\ resumes \in 0 .. Resumes

(* The type invariant cut into the groups of variables that steps leave      *)
(* alone together.                                                           *)
LEMMA TypedParts ==
    TypeOK <=> /\ TaskTyped /\ ResetTyped /\ OtherTyped
               /\ pending \in [Pipes -> Seq(Wrappers)]
               /\ helpers \in [HelperPcs -> Nat]
BY DEF TypeOK, TaskTyped, ResetTyped, OtherTyped, Wrappers

(* The same of the state after a step.                                       *)
LEMMA TypedPartsNext ==
    TypeOK' <=> /\ TaskTyped' /\ ResetTyped' /\ OtherTyped'
                /\ pending' \in [Pipes -> Seq(Wrappers)]
                /\ helpers' \in [HelperPcs -> Nat]
BY DEF TypeOK, TaskTyped, ResetTyped, OtherTyped, Wrappers

(* A step that leaves the task's variables alone keeps their types.          *)
LEMMA TaskUnchanged == TaskTyped /\ UNCHANGED taskVars => TaskTyped'
BY DEF TaskTyped, taskVars

(* A step that leaves the reset's variables alone keeps their types.         *)
LEMMA ResetUnchanged == ResetTyped /\ UNCHANGED resetVars => ResetTyped'
BY DEF ResetTyped, resetVars

(* A step that leaves the device, the state and the threads alone keeps      *)
(* their types.                                                              *)
LEMMA OtherUnchanged ==
    OtherTyped /\ UNCHANGED <<deviceVars, currentState, stalledPipe, threadVars>>
        => OtherTyped'
BY DEF OtherTyped, deviceVars, threadVars

(* The reset count that every task starts with is within its bounds.         *)
LEMMA NoResetYet == 0 \in 0 .. MaxResets + 1
BY ResetAssumption

(* Giving a task back leaves typed variables and no request.                 *)
LEMMA CompleteTyped ==
  ASSUME TaskTyped, NEW left, CompleteSCSICommand(left)
  PROVE  /\ TaskTyped' /\ pending' = left
         /\ request' = NoTask
<1>1. /\ inUse' = FALSE /\ request' = NoTask /\ deferred' = FALSE
      /\ attached' \in BOOLEAN /\ terminating' \in BOOLEAN
      /\ pending' = left
  BY DEF TaskTyped, CompleteSCSICommand, CheckDeferredTermination
<1>3. completed' \in [Tasks -> Nat]
  <2>1. completed' = [completed EXCEPT ![request] = @ + 1]
    BY DEF CompleteSCSICommand, CommandCompleted
  <2>2. CASE request \in Tasks
    <3>1. completed[request] + 1 \in Nat
      BY <2>2 DEF TaskTyped
    <3> QED
      BY <2>1, <3>1 DEF TaskTyped
  <2>3. CASE request \notin Tasks
    BY <2>1, <2>3 DEF TaskTyped
  <2> QED
    BY <2>2, <2>3
<1>2. resetCount' \in 0 .. MaxResets + 1
  BY NoResetYet DEF CompleteSCSICommand
<1> QED
  BY <1>1, <1>2, <1>3 DEF TaskTyped

(* So does aborting it, if there is one.                                     *)
LEMMA AbortTyped ==
  ASSUME TaskTyped, NEW left, AbortCurrentSCSITask(left)
  PROVE  /\ TaskTyped' /\ pending' = left
         /\ request' \in {request, NoTask}
<1>1. CASE inUse /\ request # NoTask
  <2>1. /\ inUse' = FALSE /\ request' = NoTask /\ deferred' = FALSE
        /\ attached' \in BOOLEAN /\ terminating' \in BOOLEAN
        /\ completed' \in [Tasks -> Nat] /\ pending' = left
    BY <1>1 DEF TaskTyped, AbortCurrentSCSITask, CommandCompleted,
       CheckDeferredTermination
  <2>2. resetCount' \in 0 .. MaxResets + 1
    BY <1>1, ResetAssumption DEF TaskTyped, AbortCurrentSCSITask
  <2> QED
    BY <2>1, <2>2 DEF TaskTyped
<1>2. CASE ~(inUse /\ request # NoTask)
  BY <1>2 DEF TaskTyped, AbortCurrentSCSITask, taskVars
<1> QED
  BY <1>1, <1>2

(* Only tasks are lost.                                                      *)
LEMMA LosesTyped ==
  ASSUME TaskTyped, ResetTyped, Loses
  PROVE  lost' \subseteq Tasks
BY DEF TaskTyped, ResetTyped, Loses

(* A reset that is carried out at once leaves typed variables, and either    *)
(* the same request or none.                                                 *)
LEMMA ResetNowTyped ==
  ASSUME TaskTyped, ResetTyped, NEW left, NEW w \in BOOLEAN,
         ResetDeviceNow(left, w)
  PROVE  /\ TaskTyped' /\ ResetTyped' /\ pending' = left
         /\ request' \in {request, NoTask}
<1>1. CASE AbortCurrentSCSITask(left) /\ UNCHANGED resetVars
  BY <1>1, AbortTyped, ResetUnchanged
<1>2. CASE /\ pending' = left
           /\ resetInProgress' = TRUE
           /\ blockOnReset' = ~w
           /\ resetters' = Begins(resetters, "check")
           /\ UNCHANGED <<taskVars, lost>>
  BY <1>2 DEF TaskTyped, ResetTyped, taskVars, Begins, ResetterPcs
<1>3. CASE /\ pending' = left
           /\ resetInProgress' = FALSE
           /\ blockOnReset' = ~w
           /\ IF w THEN UNCHANGED lost ELSE Loses
           /\ UNCHANGED <<taskVars, resetters>>
  <2>1. lost' \subseteq Tasks
    BY <1>3, LosesTyped DEF ResetTyped
  <2> QED
    BY <1>3, <2>1 DEF TaskTyped, ResetTyped, taskVars
<1> QED
  BY <1>1, <1>2, <1>3 DEF ResetDeviceNow

(* Every outcome leaves typed variables, and either the same request or      *)
(* none.                                                                     *)
LEMMA OutcomeTyped ==
  ASSUME Typed, request \in Tasks, NEW left \in [Pipes -> Seq(Wrappers)],
         Outcome(left)
  PROVE  /\ TaskTyped' /\ ResetTyped'
         /\ pending' \in [Pipes -> Seq(Wrappers)]
         /\ helpers' \in [HelperPcs -> Nat]
         /\ request' \in {request, NoTask}
<1>0. TaskTyped /\ ResetTyped /\ helpers \in [HelperPcs -> Nat]
  BY TypedParts DEF Typed
<1>1. CASE Posted(left)
  <2>1. PICK q \in Pipes, s \in States : Post(left, q, request, s)
    BY <1>1 DEF Posted
  <2>2. pending' \in [Pipes -> Seq(Wrappers)]
    <3>1. [task |-> request, state |-> s] \in Wrappers
      BY DEF Wrappers
    <3> QED
      BY <2>1, <3>1, AfterAPost DEF Post
  <2>3. UNCHANGED <<taskVars, helpers, resetVars>> /\ request' = request
    BY <1>1 DEF Posted, taskVars
  <2> QED
    BY <1>0, <2>2, <2>3, TaskUnchanged, ResetUnchanged
<1>2. CASE Helped(left)
  <2>1. /\ UNCHANGED <<taskVars, resetVars>> /\ request' = request
        /\ pending' = left
        /\ helpers' \in [HelperPcs -> Nat]
    BY <1>0, <1>2 DEF Helped, Begins, HelperPcs, taskVars
  <2> QED
    BY <1>0, <2>1, TaskUnchanged, ResetUnchanged
<1>3. CASE Failed(left)
  BY <1>0, <1>3, CompleteTyped, ResetUnchanged DEF Failed, Fails
<1>4. CASE Reset(left)
  <2>1. ResetDeviceNow(left, FALSE) /\ helpers' = helpers
    BY <1>4 DEF Reset
  <2>2. /\ TaskTyped' /\ ResetTyped' /\ pending' = left
        /\ request' \in {request, NoTask}
    BY <1>0, <2>1, ResetNowTyped
  <2> QED
    BY <1>0, <2>1, <2>2
<1>5. CASE Aborted(left)
  BY <1>0, <1>5, AbortTyped, ResetUnchanged DEF Aborted
<1> QED
  BY <1>1, <1>2, <1>3, <1>4, <1>5 DEF Outcome

(* What a completion does: nothing for a request that is gone, or one of the *)
(* outcomes.                                                                 *)
LEMMA CompletionOutcome ==
  ASSUME Typed, NEW p \in Pipes, NEW status, ExecuteCommandCompletion(p, status)
  PROVE  LET left == [pending EXCEPT ![p] = Tail(@)] IN
         \/ /\ DoubleCallback
            /\ pending' = left
            /\ UNCHANGED <<taskVars, currentState, stalledPipe, helpers,
                           resetVars>>
         \/ ~DoubleCallback /\ Outcome(left) /\ StateKept
<1> DEFINE left == [pending EXCEPT ![p] = Tail(@)]
<1> SUFFICES ASSUME ~DoubleCallback PROVE Outcome(left) /\ StateKept
  BY DEF ExecuteCommandCompletion
<1>0. /\ request \in Tasks /\ inUse
      /\ currentState \in States /\ stalledPipe \in {"in", "out"}
  BY DEF Typed, TypeOK, DoubleCallback
<1>1. CASE Fails(left) /\ UNCHANGED <<currentState, stalledPipe>>
  BY <1>0, <1>1 DEF Outcome, Failed, StateKept
<1>2. CASE DeviceReset(left) /\ UNCHANGED stalledPipe
  BY <1>0, <1>2, DeviceResetOutcome DEF StateKept
<1>3. CASE NextState(left, status)
  BY <1>0, <1>3, NextStateOutcome
<1> QED
  BY <1>1, <1>2, <1>3 DEF ExecuteCommandCompletion

(* The completion of a transfer keeps the types.                             *)
LEMMA CompletionTyped ==
  ASSUME Typed, NEW p \in Pipes, NEW status, ExecuteCommandCompletion(p, status)
  PROVE  Typed'
<1> DEFINE left == [pending EXCEPT ![p] = Tail(@)]
<1>0. /\ TaskTyped /\ ResetTyped /\ OtherTyped
      /\ helpers \in [HelperPcs -> Nat]
  BY TypedParts DEF Typed
<1>1. left \in [Pipes -> Seq(Wrappers)]
  BY AfterATransfer, TypedParts DEF Typed, ExecuteCommandCompletion
<1>2. UNCHANGED <<deviceVars, threadVars>>
  BY DEF ExecuteCommandCompletion
<1>3. CASE /\ pending' = left
           /\ UNCHANGED <<taskVars, currentState, stalledPipe, helpers,
                          resetVars>>
  <2>1. request' = request /\ currentState' = currentState
    BY <1>3 DEF taskVars
  <2>2. TypeOK'
    BY <1>0, <1>1, <1>2, <1>3, TaskUnchanged, ResetUnchanged, OtherUnchanged,
       TypedPartsNext
  <2> QED
    BY <2>1, <2>2 DEF Typed, DirectionKnown
<1>4. CASE ~DoubleCallback /\ Outcome(left) /\ StateKept
  <2>0. request \in Tasks
    BY <1>4 DEF DoubleCallback, Typed, TypeOK
  <2>1. /\ TaskTyped' /\ ResetTyped'
        /\ pending' \in [Pipes -> Seq(Wrappers)]
        /\ helpers' \in [HelperPcs -> Nat]
        /\ request' \in {request, NoTask}
    BY <1>1, <1>4, <2>0, OutcomeTyped
  <2>2. OtherTyped'
    BY <1>0, <1>2, <1>4 DEF OtherTyped, StateKept, deviceVars, threadVars
  <2>3. DirectionKnown'
    BY <1>4, <2>0, <2>1 DEF DirectionKnown, StateKept, Typed
  <2> QED
    BY <2>1, <2>2, <2>3, TypedPartsNext DEF Typed
<1> QED
  BY <1>3, <1>4, CompletionOutcome

(* The steps of a sender: only its own place, the request block and the      *)
(* transfer it starts change.                                                *)
LEMMA SenderTyped ==
  ASSUME Typed, NEW t \in Tasks, SendSCSICommand(t)
  PROVE  Typed'
<1> USE DEF At
<1>0. /\ TaskTyped /\ ResetTyped /\ OtherTyped
      /\ pending \in [Pipes -> Seq(Wrappers)]
      /\ helpers \in [HelperPcs -> Nat]
      /\ DirectionKnown
  BY TypedParts DEF Typed
<1>1. CASE AcceptSCSITask(t)
  <2>1. TaskTyped' /\ ResetTyped'
    BY <1>0, <1>1 DEF AcceptSCSITask, TaskTyped, ResetTyped, resetVars
  <2>2. OtherTyped' /\ DirectionKnown'
    BY <1>0, <1>1 DEF AcceptSCSITask, OtherTyped, DirectionKnown, deviceVars,
       SenderPcs
  <2>3. pending' = pending /\ helpers' = helpers
    BY <1>1 DEF AcceptSCSITask
  <2> QED
    BY <1>0, <2>1, <2>2, <2>3, TypedPartsNext DEF Typed
<1>2. CASE BuildRequest(t)
  <2>1. TaskTyped' /\ ResetTyped'
    BY <1>0, <1>2 DEF BuildRequest, TaskTyped, ResetTyped, resetVars
  <2>2. OtherTyped' /\ DirectionKnown'
    BY <1>0, <1>2 DEF BuildRequest, OtherTyped, DirectionKnown, deviceVars,
       SenderPcs, States
  <2>3. pending' = pending /\ helpers' = helpers
    BY <1>2 DEF BuildRequest
  <2> QED
    BY <1>0, <2>1, <2>2, <2>3, TypedPartsNext DEF Typed
<1>3. CASE BulkOnlySendCBWPacket(t)
  <2>1. /\ TaskTyped' /\ ResetTyped' /\ request' = request
        /\ helpers' = helpers
    BY <1>0, <1>3, TaskUnchanged, ResetUnchanged
       DEF BulkOnlySendCBWPacket, taskVars
  <2>2. OtherTyped' /\ DirectionKnown'
    BY <1>0, <1>3 DEF BulkOnlySendCBWPacket, OtherTyped, DirectionKnown,
       deviceVars, SenderPcs, States
  <2>3. pending' \in [Pipes -> Seq(Wrappers)]
    <3>1. CASE Post(pending, "out", t, "CommandSent")
      BY <1>0, <3>1, AfterAPost DEF Post, Wrappers, Pipes, States
    <3>2. CASE Post(pending, "control", t, "CheckCBWBulkStall")
      BY <1>0, <3>2, AfterAPost DEF Post, Wrappers, Pipes, States
    <3>3. CASE UNCHANGED pending
      BY <1>0, <3>3
    <3> QED
      BY <1>3, <3>1, <3>2, <3>3 DEF BulkOnlySendCBWPacket
  <2> QED
    BY <1>0, <2>1, <2>2, <2>3, TypedPartsNext DEF Typed
<1>4. CASE GatedCompleteSCSICommand(t)
  <2>1. TaskTyped' /\ ResetTyped'
    <3>1. completed' \in [Tasks -> Nat]
      <4>1. completed[t] + 1 \in Nat
        BY <1>0 DEF TaskTyped
      <4> QED
        BY <1>0, <1>4, <4>1
           DEF GatedCompleteSCSICommand, TaskTyped, CommandCompleted
    <3>2. resetCount' \in 0 .. MaxResets + 1
      BY <1>4, NoResetYet DEF GatedCompleteSCSICommand
    <3> QED
      BY <1>0, <1>4, <3>1, <3>2
         DEF GatedCompleteSCSICommand, TaskTyped, ResetTyped, resetVars,
         CheckDeferredTermination
  <2>2. OtherTyped' /\ DirectionKnown'
    BY <1>0, <1>4 DEF GatedCompleteSCSICommand, OtherTyped, DirectionKnown,
       deviceVars, SenderPcs
  <2>3. pending' = pending /\ helpers' = helpers
    BY <1>4 DEF GatedCompleteSCSICommand
  <2> QED
    BY <1>0, <2>1, <2>2, <2>3, TypedPartsNext DEF Typed
<1> QED
  BY <1>1, <1>2, <1>3, <1>4 DEF SendSCSICommand

(* An abort of a pipe is a completion with an error and keeps them, too.     *)
LEMMA AbortPipeTyped ==
  ASSUME Typed, NEW p \in Pipes, Abort(p)
  PROVE  Typed'
BY CompletionTyped DEF Abort

(* What the steps of a stall thread have in common keeps the types, given    *)
(* those of the transfers, of the threads and of the lost tasks.             *)
LEMMA HelperFrameTyped ==
  ASSUME Typed, HelperFrame, pending' \in [Pipes -> Seq(Wrappers)],
         helpers' \in [HelperPcs -> Nat], lost' \subseteq Tasks
  PROVE  Typed'
<1>0. /\ TaskTyped /\ ResetTyped /\ OtherTyped /\ DirectionKnown
  BY TypedParts DEF Typed
<1>1. TaskTyped' /\ ResetTyped' /\ OtherTyped'
  BY <1>0, TaskUnchanged, OtherUnchanged DEF HelperFrame, ResetTyped
<1>2. DirectionKnown'
  BY <1>0 DEF HelperFrame, DirectionKnown, taskVars
<1> QED
  BY <1>1, <1>2, TypedPartsNext DEF Typed

(* A step of a thread that clears a stall keeps the types.                   *)
LEMMA HelperTyped ==
  ASSUME Typed, ClearPipeStall
  PROVE  Typed'
<1>0. /\ TaskTyped /\ ResetTyped /\ OtherTyped
      /\ pending \in [Pipes -> Seq(Wrappers)]
      /\ helpers \in [HelperPcs -> Nat]
      /\ lost \subseteq Tasks
  BY TypedParts DEF Typed, ResetTyped
<1>1. ASSUME NEW pc \in HelperPcs, helpers[pc] > 0
      PROVE  /\ Ends(helpers, pc) \in [HelperPcs -> Nat]
             /\ \A to \in HelperPcs :
                    Moves(helpers, pc, to) \in [HelperPcs -> Nat]
  BY <1>0, <1>1, AfterAMove
<1>2. ASSUME Loses PROVE lost' \subseteq Tasks
  BY <1>0, <1>2, LosesTyped
<1>3. CASE ClearStart
  <2>1. /\ HelperFrame /\ pending' = pending /\ helpers["start"] > 0
        /\ lost' \subseteq Tasks
        /\ \/ helpers' = Ends(helpers, "start")
           \/ \E to \in HelperPcs : helpers' = Moves(helpers, "start", to)
    BY <1>0, <1>2, <1>3 DEF ClearStart, HelperPcs
  <2>2. helpers' \in [HelperPcs -> Nat]
    BY <1>1, <2>1 DEF HelperPcs
  <2> QED
    BY <1>0, <2>1, <2>2, HelperFrameTyped
<1>4. ASSUME NEW pc \in HelperPcs, NEW p \in Pipes, ClearPipe(pc, p)
      PROVE  Typed'
  <2>1. CASE Abort(p)
    BY <2>1, AbortPipeTyped
  <2>2. CASE ~Abort(p)
    <3>1. /\ HelperFrame /\ pending' = pending /\ helpers[pc] > 0
          /\ lost' \subseteq Tasks
          /\ \/ helpers' = Ends(helpers, pc)
             \/ helpers' = Moves(helpers, pc, "request")
      BY <1>0, <1>2, <1>4, <2>2 DEF ClearPipe
    <3>2. helpers' \in [HelperPcs -> Nat]
      BY <1>1, <3>1 DEF HelperPcs
    <3> QED
      BY <1>0, <3>1, <3>2, HelperFrameTyped
  <2> QED
    BY <2>1, <2>2
<1>5. CASE ClearRequest
  <2>1. /\ HelperFrame /\ helpers["request"] > 0
        /\ helpers' = Ends(helpers, "request")
        /\ lost' \subseteq Tasks
        /\ \/ pending' = pending
           \/ Post(pending, "control", request, currentState)
    BY <1>0, <1>2, <1>5 DEF ClearRequest
  <2>2. helpers' \in [HelperPcs -> Nat]
    BY <1>1, <2>1 DEF HelperPcs
  <2>3. pending' \in [Pipes -> Seq(Wrappers)]
    <3>1. [task |-> request, state |-> currentState] \in Wrappers
      BY <1>0 DEF Wrappers, TaskTyped, OtherTyped
    <3> QED
      BY <1>0, <2>1, <3>1, AfterAPost DEF Post, Pipes
  <2> QED
    BY <2>1, <2>2, <2>3, HelperFrameTyped
<1> QED
  BY <1>3, <1>4, <1>5 DEF ClearPipeStall, HelperPcs, Pipes

(* A step of a reset thread keeps the types.                                 *)
LEMMA ResetterTyped ==
  ASSUME Typed, sResetDevice
  PROVE  Typed'
<1>0. /\ TaskTyped /\ ResetTyped /\ OtherTyped /\ DirectionKnown
      /\ pending \in [Pipes -> Seq(Wrappers)]
      /\ helpers \in [HelperPcs -> Nat]
      /\ resetters \in [ResetterPcs -> Nat]
  BY TypedParts DEF Typed, ResetTyped
<1>1. ASSUME NEW pc \in ResetterPcs, resetters[pc] > 0
      PROVE  /\ Ends(resetters, pc) \in [ResetterPcs -> Nat]
             /\ \A to \in ResetterPcs :
                    Moves(resetters, pc, to) \in [ResetterPcs -> Nat]
  BY <1>0, <1>1, AfterAMove
<1>2. ASSUME ResetterFrame, TaskTyped', request' \in {request, NoTask},
             resetters' \in [ResetterPcs -> Nat],
             resetInProgress' \in BOOLEAN, blockOnReset' \in BOOLEAN,
             pending' = pending, inactive' \in BOOLEAN,
             resettingDevice' \in BOOLEAN, waiter' \in WaiterPcs,
             termination' \in Terminations
      PROVE  Typed'
  <2>1. ResetTyped' /\ OtherTyped' /\ helpers' = helpers
    BY <1>0, <1>2 DEF ResetterFrame, ResetTyped, OtherTyped
  <2>2. DirectionKnown'
    BY <1>0, <1>2 DEF ResetterFrame, DirectionKnown
  <2> QED
    BY <1>0, <1>2, <2>1, <2>2, TypedPartsNext DEF Typed
<1>3. CASE ResetCheck
  <2>1. /\ ResetterFrame /\ resetters["check"] > 0
        /\ \E to \in {"reset", "detach"} :
               resetters' = Moves(resetters, "check", to)
        /\ UNCHANGED <<taskVars, inactive, resettingDevice, resetInProgress,
                       blockOnReset, pending, waiter, termination>>
    BY <1>3 DEF ResetCheck
  <2>2. resetters' \in [ResetterPcs -> Nat]
    BY <1>1, <2>1 DEF ResetterPcs
  <2>3. TaskTyped' /\ request' = request
    BY <1>0, <2>1, TaskUnchanged DEF taskVars
  <2> QED
    BY <1>0, <1>2, <2>1, <2>2, <2>3 DEF ResetTyped, OtherTyped
<1>4. CASE ResetDevice
  <2>1. /\ ResetterFrame /\ resetters["reset"] > 0
        /\ \E to \in {"resetting", "detach"} :
               resetters' = Moves(resetters, "reset", to)
        /\ resettingDevice' \in {resettingDevice, TRUE}
        /\ UNCHANGED <<taskVars, inactive, resetInProgress, blockOnReset,
                       pending, waiter, termination>>
    BY <1>4 DEF ResetDevice
  <2>2. resetters' \in [ResetterPcs -> Nat]
    BY <1>1, <2>1 DEF ResetterPcs
  <2>3. TaskTyped' /\ request' = request
    BY <1>0, <2>1, TaskUnchanged DEF taskVars
  <2> QED
    BY <1>0, <1>2, <2>1, <2>2, <2>3 DEF ResetTyped, OtherTyped
<1>5. CASE ResetPort
  <2>1. CASE Abort("control")
    BY <2>1, AbortPipeTyped DEF Pipes
  <2>2. CASE ~Abort("control")
    <3>1. /\ ResetterFrame /\ resetters["resetting"] > 0
          /\ \E to \in {"toggleIn", "detach"} :
                 resetters' = Moves(resetters, "resetting", to)
          /\ resettingDevice' = FALSE
          /\ UNCHANGED <<taskVars, inactive, resetInProgress, blockOnReset,
                         pending, waiter, termination>>
      BY <1>5, <2>2 DEF ResetPort
    <3>2. resetters' \in [ResetterPcs -> Nat]
      BY <1>1, <3>1 DEF ResetterPcs
    <3>3. TaskTyped' /\ request' = request
      BY <1>0, <3>1, TaskUnchanged DEF taskVars
    <3> QED
      BY <1>0, <1>2, <3>1, <3>2, <3>3 DEF ResetTyped, OtherTyped
  <2> QED
    BY <2>1, <2>2
<1>6. ASSUME NEW pc \in ResetterPcs, NEW p \in Pipes, NEW to \in ResetterPcs,
             ResetToggle(pc, p, to)
      PROVE  Typed'
  <2>1. CASE Abort(p)
    BY <2>1, AbortPipeTyped
  <2>2. CASE ~Abort(p)
    <3>1. /\ ResetterFrame /\ resetters[pc] > 0
          /\ resetters' = Moves(resetters, pc, to)
          /\ UNCHANGED <<taskVars, inactive, resettingDevice, resetInProgress,
                         blockOnReset, pending, waiter, termination>>
      BY <1>6, <2>2 DEF ResetToggle
    <3>2. resetters' \in [ResetterPcs -> Nat]
      BY <1>1, <3>1
    <3>3. TaskTyped' /\ request' = request
      BY <1>0, <3>1, TaskUnchanged DEF taskVars
    <3> QED
      BY <1>0, <1>2, <3>1, <3>2, <3>3 DEF ResetTyped, OtherTyped
  <2> QED
    BY <2>1, <2>2
<1>7. CASE ResetFailed
  <2>1. resetters' \in [ResetterPcs -> Nat]
    BY <1>1, <1>7 DEF ResetFailed, ResetterPcs
  <2>2. TaskTyped' /\ request' = request
    BY <1>0, <1>7 DEF ResetFailed, TaskTyped
  <2> QED
    BY <1>0, <1>2, <1>7, <2>1, <2>2 DEF ResetFailed, ResetTyped, OtherTyped
<1>8. CASE ResetAbort
  <2>1. resetters' \in [ResetterPcs -> Nat]
    BY <1>1, <1>8 DEF ResetAbort, ResetterPcs
  <2>2. TaskTyped' /\ request' \in {request, NoTask} /\ pending' = pending
    BY <1>0, <1>8, AbortTyped DEF ResetAbort
  <2> QED
    BY <1>0, <1>2, <1>8, <2>1, <2>2 DEF ResetAbort, ResetTyped, OtherTyped
<1>9. CASE ResetFinish
  <2>1. resetters' \in [ResetterPcs -> Nat]
    BY <1>1, <1>9 DEF ResetFinish, ResetterPcs
  <2>2. TaskTyped' /\ request' = request
    BY <1>0, <1>9, TaskUnchanged DEF ResetFinish, taskVars
  <2>3. /\ waiter' \in WaiterPcs /\ termination' \in Terminations
        /\ inactive' \in BOOLEAN
    BY <1>0, <1>9 DEF ResetFinish, OtherTyped, TaskTyped, WaiterPcs, Terminations
  <2> QED
    BY <1>0, <1>2, <1>9, <2>1, <2>2, <2>3
       DEF ResetFinish, ResetTyped, OtherTyped
<1> QED
  BY <1>3, <1>4, <1>5, <1>6, <1>7, <1>8, <1>9
     DEF sResetDevice, ResetterPcs, Pipes

(* A port that has been resumed keeps the types.                             *)
LEMMA ResumeTyped ==
  ASSUME Typed, PortHasBeenResumed
  PROVE  Typed'
<1>0. /\ TaskTyped /\ ResetTyped /\ OtherTyped /\ DirectionKnown
      /\ pending \in [Pipes -> Seq(Wrappers)]
      /\ helpers \in [HelperPcs -> Nat]
  BY TypedParts DEF Typed
<1>1. /\ TaskTyped' /\ ResetTyped' /\ pending' = pending
      /\ request' \in {request, NoTask} /\ helpers' = helpers
      /\ currentState' = currentState
  BY <1>0, ResetNowTyped DEF PortHasBeenResumed
<1>2. resumes' \in 0 .. Resumes
  BY <1>0, ResetAssumption DEF PortHasBeenResumed, OtherTyped
<1>3. OtherTyped'
  BY <1>0, <1>2 DEF PortHasBeenResumed, OtherTyped, WaiterPcs, deviceVars
<1>4. DirectionKnown'
  BY <1>0, <1>1 DEF DirectionKnown
<1> QED
  BY <1>0, <1>1, <1>3, <1>4, TypedPartsNext DEF Typed

(* A step of the thread that waits for a reset keeps the types.              *)
LEMMA WaiterTyped ==
  ASSUME Typed, GatedWaitForReset
  PROVE  Typed'
<1>0. /\ TaskTyped /\ ResetTyped /\ OtherTyped /\ DirectionKnown
      /\ pending \in [Pipes -> Seq(Wrappers)]
      /\ helpers \in [HelperPcs -> Nat]
  BY TypedParts DEF Typed
<1>1. TaskTyped' /\ ResetTyped' /\ pending' = pending /\ helpers' = helpers
  BY <1>0, TaskUnchanged, ResetUnchanged DEF GatedWaitForReset
<1>2. OtherTyped' /\ DirectionKnown'
  BY <1>0 DEF GatedWaitForReset, OtherTyped, DirectionKnown, WaiterPcs,
     deviceVars, taskVars
<1> QED
  BY <1>0, <1>1, <1>2, TypedPartsNext DEF Typed

(* A step of the termination keeps the types.                                *)
LEMMA TerminationTyped ==
  ASSUME Typed, Terminate \/ WillTerminate \/ DidTerminate \/ CloseProvider
  PROVE  Typed'
<1>0. /\ TaskTyped /\ ResetTyped /\ OtherTyped /\ DirectionKnown
      /\ pending \in [Pipes -> Seq(Wrappers)]
      /\ helpers \in [HelperPcs -> Nat]
  BY TypedParts DEF Typed
<1>1. CASE Abort("in") \/ Abort("out")
  BY <1>1, AbortPipeTyped DEF Pipes
<1>2. CASE ~(Abort("in") \/ Abort("out"))
  <2>1. /\ TerminationFrame
        /\ termination' \in Terminations
        /\ terminating' \in BOOLEAN /\ deferred' \in BOOLEAN
        /\ inactive' \in BOOLEAN /\ interface' \in BOOLEAN
    BY <1>0, <1>2 DEF Terminate, WillTerminate, DidTerminate, CloseProvider,
       TaskTyped, OtherTyped, Terminations
  <2>2. TaskTyped' /\ ResetTyped' /\ pending' = pending /\ helpers' = helpers
    BY <1>0, <2>1, ResetUnchanged DEF TerminationFrame, TaskTyped
  <2>3. OtherTyped' /\ DirectionKnown'
    BY <1>0, <2>1 DEF TerminationFrame, OtherTyped, DirectionKnown
  <2> QED
    BY <1>0, <2>2, <2>3, TypedPartsNext DEF Typed
<1> QED
  BY <1>1, <1>2

(* The types hold before the first command.                                  *)
LEMMA InitTyped == Init => Typed
<1> SUFFICES ASSUME Init PROVE Typed
  OBVIOUS
<1>1. TaskTyped
  BY NoResetYet DEF Init, TaskTyped
<1>2. ResetTyped
  BY DEF Init, ResetTyped
<1>6. OtherTyped
  <2>1. resumes \in 0 .. Resumes
    BY ResetAssumption DEF Init
  <2> QED
    BY <2>1 DEF Init, OtherTyped, States, SenderPcs, WaiterPcs, Terminations
<1>3. pending \in [Pipes -> Seq(Wrappers)]
  BY DEF Init
<1>4. helpers \in [HelperPcs -> Nat]
  BY DEF Init
<1>5. DirectionKnown
  BY DEF Init, DirectionKnown
<1> QED
  BY <1>1, <1>2, <1>3, <1>4, <1>5, <1>6, TypedParts DEF Typed

(* Every step of the driver keeps them.                                      *)
LEMMA NextTyped == Typed /\ [Next]_vars => Typed'
<1> SUFFICES ASSUME Typed, [Next]_vars PROVE Typed'
  OBVIOUS
<1>1. CASE \E t \in Tasks : SendSCSICommand(t)
  BY <1>1, SenderTyped
<1>2. CASE \E p \in Pipes : Completion(p)
  BY <1>2, CompletionTyped DEF Completion
<1>3. CASE ClearPipeStall
  BY <1>3, HelperTyped
<1>4. CASE sResetDevice
  BY <1>4, ResetterTyped
<1>5. CASE PortHasBeenResumed
  BY <1>5, ResumeTyped
<1>6. CASE GatedWaitForReset
  BY <1>6, WaiterTyped
<1>7. CASE Terminate \/ WillTerminate \/ DidTerminate \/ CloseProvider
  BY <1>7, TerminationTyped
<1>8. CASE UNCHANGED vars
  <2>1. /\ TaskTyped /\ ResetTyped /\ OtherTyped /\ DirectionKnown
        /\ pending \in [Pipes -> Seq(Wrappers)]
        /\ helpers \in [HelperPcs -> Nat]
    BY TypedParts DEF Typed
  <2>2. TaskTyped' /\ ResetTyped'
    BY <1>8, <2>1 DEF vars, TaskTyped, ResetTyped
  <2>3. OtherTyped' /\ DirectionKnown' /\ pending' = pending
        /\ helpers' = helpers
    BY <1>8, <2>1 DEF vars, OtherTyped, DirectionKnown
  <2> QED
    BY <2>1, <2>2, <2>3, TypedPartsNext DEF Typed
<1> QED
  BY <1>1, <1>2, <1>3, <1>4, <1>5, <1>6, <1>7, <1>8 DEF Next

(* Every variable keeps its kind: the consecutive resets stay below their    *)
(* limit, no thread leaves a point where none is, and no completion ends in  *)
(* a state that the state machine does not have.                             *)
THEOREM TypeCorrect == Spec => []TypeOK
<1>1. Typed => TypeOK
  BY DEF Typed
<1> QED
  BY <1>1, InitTyped, NextTyped, PTL DEF Spec

-----------------------------------------------------------------------------
(* A command of BulkOnly is in one pair of hands from the moment it is       *)
(* accepted to the moment it is given back.                                  *)


(* Who carries the command on, apart from its sender.                        *)
Others == InFlight(pending) + Helping(helpers) + Resetting(resetters)

(* The driver has no command, its sender still has it, or it was sent.  An   *)
(* agent that gives up leaves the command in the request block for ever.     *)
Idle == ~inUse /\ Senders = {} /\ Others = 0 /\ lost = {}

Sending ==
    /\ inUse /\ Others = 0 /\ lost = {}
    /\ \E t \in Tasks : Senders = {t} /\ (sender[t] = "built" => request = t)

Carried ==
    /\ inUse /\ Senders = {} /\ request \in Tasks
    /\ sender[request] = "done" /\ completed[request] = 0
    /\ \/ Others = 1 /\ lost = {}
       \/ Others = 0 /\ lost = {request}

Charge == Idle \/ Sending \/ Carried

Current ==
    \A p \in Pipes : \A i \in DOMAIN pending[p] :
        pending[p][i] = [task |-> request, state |-> currentState]

Once ==
    \A t \in Tasks : completed[t] <= 1 /\ (sender[t] # "done" => completed[t] = 0)

(* The interface is closed, or the termination is on its way to close it.    *)
Ended == \/ termination = "closed"
         \/ termination = "sleeping" /\ ~deferred

Quiet == Ended => Others = 0 /\ \A t \in Tasks : sender[t] # "built"

Order == Charge /\ Current /\ Once /\ Quiet

Ending ==
    /\ termination # "none" => inactive
    /\ interface <=> termination # "closed"
    /\ deferred => inUse

IInv == Typed /\ Ending /\ (resumes = 0 => Order)

-----------------------------------------------------------------------------
(* Counting the agents.                                                      *)

(* The transfers of a device in flight are those of its three pipes.         *)
LEMMA InFlightIs ==
  ASSUME NEW f, NEW a \in Nat, NEW b \in Nat, NEW c \in Nat,
         Len(f["in"]) = a, Len(f["out"]) = b, Len(f["control"]) = c
  PROVE  InFlight(f) = a + b + c
BY DEF InFlight

(* Every pipe holds a sequence, so the transfers in flight are a number.     *)
LEMMA LengthsAreNatural ==
  ASSUME NEW f \in [Pipes -> Seq(Wrappers)]
  PROVE  /\ f["in"] \in Seq(Wrappers) /\ f["out"] \in Seq(Wrappers)
         /\ f["control"] \in Seq(Wrappers)
         /\ Len(f["in"]) \in Nat /\ Len(f["out"]) \in Nat
         /\ Len(f["control"]) \in Nat
         /\ InFlight(f) \in Nat
<1>1. /\ f["in"] \in Seq(Wrappers) /\ f["out"] \in Seq(Wrappers)
      /\ f["control"] \in Seq(Wrappers)
  BY DEF Pipes
<1>2. /\ Len(f["in"]) \in Nat /\ Len(f["out"]) \in Nat
      /\ Len(f["control"]) \in Nat
  BY <1>1, LenProperties
<1>3. InFlight(f) \in Nat
  <2>1. PICK a \in Nat, b \in Nat, c \in Nat :
            Len(f["in"]) = a /\ Len(f["out"]) = b /\ Len(f["control"]) = c
    BY <1>2
  <2>2. InFlight(f) = a + b + c
    BY <2>1, InFlightIs
  <2> QED
    BY <2>2
<1> QED
  BY <1>1, <1>2, <1>3

(* The three counts of agents are natural numbers.                           *)
LEMMA CountsAreNatural ==
  ASSUME Typed
  PROVE  /\ InFlight(pending) \in Nat /\ Helping(helpers) \in Nat
         /\ Resetting(resetters) \in Nat
<1>1. InFlight(pending) \in Nat
  <2>1. pending \in [Pipes -> Seq(Wrappers)]
    BY TypedParts DEF Typed
  <2> QED
    BY <2>1, LengthsAreNatural
<1>2. Helping(helpers) \in Nat
  BY TypedParts DEF Typed, Helping, HelperPcs
<1>3. Resetting(resetters) \in Nat
  BY TypedParts DEF Typed, ResetTyped, Resetting, ResetterPcs
<1> QED
  BY <1>1, <1>2, <1>3

(* When no transfer is in flight every pipe is empty.                        *)
LEMMA NothingInFlight ==
  ASSUME NEW f \in [Pipes -> Seq(Wrappers)], InFlight(f) = 0
  PROVE  \A p \in Pipes : f[p] = <<>>
<1>1. Len(f["in"]) = 0 /\ Len(f["out"]) = 0 /\ Len(f["control"]) = 0
  <2>1. PICK a \in Nat, b \in Nat, c \in Nat :
            Len(f["in"]) = a /\ Len(f["out"]) = b /\ Len(f["control"]) = c
    BY LengthsAreNatural
  <2>2. InFlight(f) = a + b + c
    BY <2>1, InFlightIs
  <2>3. a = 0 /\ b = 0 /\ c = 0
    BY <2>2
  <2> QED
    BY <2>1, <2>3
<1>2. f["in"] = <<>> /\ f["out"] = <<>> /\ f["control"] = <<>>
  BY <1>1, LengthsAreNatural, EmptySeq
<1> QED
  BY <1>2 DEF Pipes

(* A completion takes one transfer away.                                     *)
LEMMA CountAfterATransfer ==
  ASSUME NEW f \in [Pipes -> Seq(Wrappers)], NEW p \in Pipes, f[p] # <<>>
  PROVE  InFlight([f EXCEPT ![p] = Tail(@)]) = InFlight(f) - 1
<1>0. PICK g \in [Pipes -> Seq(Wrappers)] : g = [f EXCEPT ![p] = Tail(@)]
  BY AfterATransfer
<1>1. f[p] \in Seq(Wrappers)
  OBVIOUS
<1>2. Len(Tail(f[p])) = Len(f[p]) - 1
  BY <1>1, HeadTailProperties
<1>3. g[p] = Tail(f[p]) /\ \A q \in Pipes \ {p} : g[q] = f[q]
  BY <1>0
<1>4. PICK a \in Nat, b \in Nat, c \in Nat :
          Len(f["in"]) = a /\ Len(f["out"]) = b /\ Len(f["control"]) = c
  BY LengthsAreNatural
<1>5. InFlight(f) = a + b + c
  BY <1>4, InFlightIs
<1>6. Len(f[p]) \in Nat \ {0}
  BY <1>1, LenProperties, EmptySeq
<1> SUFFICES InFlight(g) = InFlight(f) - 1
  BY <1>0
<1>7. CASE p = "in"
  <2>1. PICK d \in Nat : d = a - 1 /\ Len(g["in"]) = d
    BY <1>2, <1>3, <1>4, <1>6, <1>7 DEF Pipes
  <2>2. Len(g["out"]) = b /\ Len(g["control"]) = c
    BY <1>3, <1>4, <1>7 DEF Pipes
  <2>3. Len(g["in"]) = d
    BY <2>1
  <2>4. InFlight(g) = d + b + c
    BY <2>2, <2>3, InFlightIs
  <2> QED
    BY <1>5, <2>1, <2>4
<1>8. CASE p = "out"
  <2>1. PICK d \in Nat : d = b - 1 /\ Len(g["out"]) = d
    BY <1>2, <1>3, <1>4, <1>6, <1>8 DEF Pipes
  <2>2. Len(g["in"]) = a /\ Len(g["control"]) = c
    BY <1>3, <1>4, <1>8 DEF Pipes
  <2>3. Len(g["out"]) = d
    BY <2>1
  <2>4. InFlight(g) = a + d + c
    BY <2>2, <2>3, InFlightIs
  <2> QED
    BY <1>5, <2>1, <2>4
<1>9. CASE p = "control"
  <2>1. PICK d \in Nat : d = c - 1 /\ Len(g["control"]) = d
    BY <1>2, <1>3, <1>4, <1>6, <1>9 DEF Pipes
  <2>2. Len(g["in"]) = a /\ Len(g["out"]) = b
    BY <1>3, <1>4, <1>9 DEF Pipes
  <2>3. Len(g["control"]) = d
    BY <2>1
  <2>4. InFlight(g) = a + b + d
    BY <2>2, <2>3, InFlightIs
  <2> QED
    BY <1>5, <2>1, <2>4
<1> QED
  BY <1>7, <1>8, <1>9 DEF Pipes

(* A transfer that is started is the only one, for the step it is started at.*)
LEMMA OnePosted ==
  ASSUME NEW f \in [Pipes -> Seq(Wrappers)], InFlight(f) = 0, NEW q \in Pipes,
         NEW t, NEW s, Post(f, q, t, s)
  PROVE  /\ InFlight(pending') = 1
         /\ \A p \in Pipes : \A i \in DOMAIN pending'[p] :
                pending'[p][i] = [task |-> t, state |-> s]
<1> DEFINE w == [task |-> t, state |-> s]
<1>1. \A p \in Pipes : f[p] = <<>>
  BY NothingInFlight
<1>2. pending' = [f EXCEPT ![q] = Append(f[q], w)]
  BY DEF Post
<1>3. pending'[q] = Append(<<>>, w) /\ \A p \in Pipes \ {q} : pending'[p] = <<>>
  BY <1>1, <1>2
<1> HIDE DEF w
<1>4. Append(<<>>, w) = <<w>>
  OBVIOUS
<1>5. /\ Len(<<w>>) = 1 /\ DOMAIN <<w>> = {1} /\ <<w>>[1] = w
      /\ Len(<<>>) = 0 /\ DOMAIN <<>> = {}
  OBVIOUS
<1>6. InFlight(pending') = 1
  <2>1. \E a, b, c \in Nat :
            /\ Len(pending'["in"]) = a /\ Len(pending'["out"]) = b
            /\ Len(pending'["control"]) = c /\ a + b + c = 1
    <3>1. CASE q = "in"
      <4>1. /\ Len(pending'["in"]) = 1 /\ Len(pending'["out"]) = 0
            /\ Len(pending'["control"]) = 0
        BY <1>3, <1>4, <1>5, <3>1 DEF Pipes
      <4> QED
        BY <4>1
    <3>2. CASE q = "out"
      <4>1. /\ Len(pending'["in"]) = 0 /\ Len(pending'["out"]) = 1
            /\ Len(pending'["control"]) = 0
        BY <1>3, <1>4, <1>5, <3>2 DEF Pipes
      <4> QED
        BY <4>1
    <3>3. CASE q = "control"
      <4>1. /\ Len(pending'["in"]) = 0 /\ Len(pending'["out"]) = 0
            /\ Len(pending'["control"]) = 1
        BY <1>3, <1>4, <1>5, <3>3 DEF Pipes
      <4> QED
        BY <4>1
    <3> QED
      BY <3>1, <3>2, <3>3 DEF Pipes
  <2> QED
    BY <2>1, InFlightIs
<1>7. \A p \in Pipes : \A i \in DOMAIN pending'[p] : pending'[p][i] = w
  BY <1>3, <1>4, <1>5
<1> QED
  BY <1>6, <1>7 DEF w

(* A thread that moves from one point to another stays one thread.           *)
LEMMA HelpersCount ==
  ASSUME NEW f \in [HelperPcs -> Nat]
  PROVE  /\ Helping(f) \in Nat
         /\ Helping(Begins(f, "start")) = Helping(f) + 1
         /\ \A pc \in HelperPcs :
                f[pc] > 0 => /\ Helping(f) > 0
                             /\ Helping(Ends(f, pc)) = Helping(f) - 1
         /\ \A pc, to \in HelperPcs :
                pc # to => Helping(Moves(f, pc, to)) = Helping(f)
<1>1. Helping(f) \in Nat
  BY DEF Helping, HelperPcs
<1>2. Helping(Begins(f, "start")) = Helping(f) + 1
  BY DEF Helping, HelperPcs, Begins
<1>3. ASSUME NEW pc \in HelperPcs, f[pc] > 0
      PROVE  Helping(f) > 0 /\ Helping(Ends(f, pc)) = Helping(f) - 1
  BY <1>3 DEF Helping, HelperPcs, Ends
<1>4. ASSUME NEW pc \in HelperPcs, NEW to \in HelperPcs, pc # to
      PROVE  Helping(Moves(f, pc, to)) = Helping(f)
  <2>1. \A x \in HelperPcs : f[x] \in Nat
    OBVIOUS
  <2>2. ASSUME NEW x \in HelperPcs
        PROVE  Moves(f, pc, to)[x] = f[x] - (IF x = pc THEN 1 ELSE 0)
                                          + (IF x = to THEN 1 ELSE 0)
    BY <1>4, <2>1 DEF Moves
  <2> QED
    BY <2>1, <2>2 DEF Helping, HelperPcs
<1> QED
  BY <1>1, <1>2, <1>3, <1>4

(* How a reset thread that starts, moves on or ends changes the number of    *)
(* those at work: one at "finish" is not counted any more.                   *)
LEMMA ResettersCount ==
  ASSUME NEW f \in [ResetterPcs -> Nat]
  PROVE  /\ Resetting(f) \in Nat
         /\ Resetting(Begins(f, "check")) = Resetting(f) + 1
         /\ Resetting(Ends(f, "finish")) = Resetting(f)
         /\ \A pc \in ResetterPcs \ {"finish"} :
                f[pc] > 0 => /\ Resetting(f) > 0
                             /\ Resetting(Moves(f, pc, "finish"))
                                    = Resetting(f) - 1
         /\ \A pc, to \in ResetterPcs \ {"finish"} :
                pc # to => Resetting(Moves(f, pc, to)) = Resetting(f)
<1>1. Resetting(f) \in Nat
  BY DEF Resetting, ResetterPcs
<1>2. Resetting(Begins(f, "check")) = Resetting(f) + 1
  BY DEF Resetting, ResetterPcs, Begins
<1>3. Resetting(Ends(f, "finish")) = Resetting(f)
  BY DEF Resetting, ResetterPcs, Ends
<1>4. ASSUME NEW pc \in ResetterPcs \ {"finish"}, f[pc] > 0
      PROVE  /\ Resetting(f) > 0
             /\ Resetting(Moves(f, pc, "finish")) = Resetting(f) - 1
  BY <1>4 DEF Resetting, ResetterPcs, Moves
<1>5. ASSUME NEW pc \in ResetterPcs \ {"finish"},
             NEW to \in ResetterPcs \ {"finish"}, pc # to
      PROVE  Resetting(Moves(f, pc, to)) = Resetting(f)
  <2>1. \A x \in ResetterPcs : f[x] \in Nat
    OBVIOUS
  <2>2. ASSUME NEW x \in ResetterPcs
        PROVE  Moves(f, pc, to)[x] = f[x] - (IF x = pc THEN 1 ELSE 0)
                                          + (IF x = to THEN 1 ELSE 0)
    BY <1>5, <2>1 DEF Moves
  <2> QED
    BY <2>1, <2>2 DEF Resetting, ResetterPcs
<1> QED
  BY <1>1, <1>2, <1>3, <1>4, <1>5

-----------------------------------------------------------------------------
(* What a step of the agent that has the command may do: go on with it, give *)
(* it back, or give it up.                                                   *)

GoesOn ==
    /\ Others' = 1 /\ Current'
    /\ UNCHANGED <<inUse, request, completed, deferred, lost>>

GivesBack ==
    /\ Others' = 0 /\ Current'
    /\ inUse' = FALSE /\ deferred' = FALSE
    /\ completed' = [completed EXCEPT ![request] = @ + 1]
    /\ UNCHANGED lost

GivesUp ==
    /\ Others' = 0 /\ Current'
    /\ lost' = lost \cup {request}
    /\ UNCHANGED <<inUse, request, completed, deferred>>

(* An agent has the command alone, and the interface is open.                *)
LEMMA AnAgent ==
  ASSUME Typed, Order, Others # 0
  PROVE  /\ inUse /\ Senders = {} /\ request \in Tasks
         /\ sender[request] = "done" /\ completed[request] = 0
         /\ Others = 1 /\ lost = {} /\ ~Ended
BY DEF Order, Charge, Idle, Sending, Carried, Quiet

(* A step of the only agent that goes on with the command, gives it back or  *)
(* gives it up, leaves at most one agent, and no task without one but a lost *)
(* one.                                                                      *)
LEMMA AgentStep ==
  ASSUME Typed, Order, Others # 0, UNCHANGED <<sender, termination>>,
         GoesOn \/ GivesBack \/ GivesUp
  PROVE  Order'
<1>0. /\ inUse /\ Senders = {} /\ request \in Tasks
      /\ sender[request] = "done" /\ completed[request] = 0
      /\ Others = 1 /\ lost = {} /\ ~Ended
      /\ Once /\ completed \in [Tasks -> Nat]
  BY AnAgent, TypedParts DEF Order, Typed, TaskTyped
<1>1. Senders' = {} /\ sender' = sender
  BY <1>0 DEF Senders
<1>2. CASE GoesOn
  <2>1. Carried' /\ Once' /\ ~Ended' /\ Current'
    BY <1>0, <1>1, <1>2 DEF GoesOn, Carried, Once, Ended
  <2> QED
    BY <2>1 DEF Order, Charge, Quiet
<1>3. CASE GivesBack
  <2>1. Idle' /\ Current'
    BY <1>0, <1>1, <1>3 DEF GivesBack, Idle
  <2>2. Once'
    <3>1. completed' = [completed EXCEPT ![request] = 1]
      BY <1>0, <1>3 DEF GivesBack
    <3> QED
      BY <1>0, <1>1, <3>1 DEF Once
  <2>3. \A t \in Tasks : sender'[t] # "built"
    BY <1>0, <1>1 DEF Senders
  <2> QED
    BY <2>1, <2>2, <2>3 DEF Order, Charge, Quiet, Idle
<1>4. CASE GivesUp
  <2>1. Carried' /\ Once' /\ ~Ended' /\ Current'
    BY <1>0, <1>1, <1>4 DEF GivesUp, Carried, Once, Ended
  <2> QED
    BY <2>1 DEF Order, Charge, Quiet
<1> QED
  BY <1>2, <1>3, <1>4

(* With no transfer on a pipe there is none that belongs to an old task.     *)
LEMMA NothingIsCurrent ==
  ASSUME pending' \in [Pipes -> Seq(Wrappers)], InFlight(pending') = 0
  PROVE  Current'
<1>1. \A p \in Pipes : pending'[p] = <<>>
  BY NothingInFlight
<1> QED
  BY <1>1 DEF Current

(* Each outcome of a completion passes the command on, when the agent it     *)
(* comes from was the only one.                                              *)
LEMMA ResetPassesOn ==
  ASSUME Typed, inUse, request \in Tasks,
         NEW left \in [Pipes -> Seq(Wrappers)], InFlight(left) = 0,
         Helping(helpers) = 0, Resetting(resetters) = 0,
         ResetDeviceNow(left, FALSE), UNCHANGED helpers
  PROVE  GoesOn \/ GivesBack \/ GivesUp
<1>0. /\ pending' = left /\ InFlight(pending') = 0 /\ Helping(helpers') = 0
      /\ request # NoTask /\ resetters \in [ResetterPcs -> Nat]
  BY TaskAssumption, TypedParts
     DEF Typed, ResetTyped, ResetDeviceNow, AbortCurrentSCSITask
<1>1. Current'
  BY <1>0, NothingIsCurrent
<1>2. CASE AbortCurrentSCSITask(left) /\ UNCHANGED resetVars
  <2>1. Others' = 0
    BY <1>0, <1>2 DEF resetVars, Others
  <2> QED
    BY <1>0, <1>1, <1>2, <2>1 DEF AbortCurrentSCSITask, GivesBack,
       CommandCompleted, CheckDeferredTermination, resetVars
<1>3. CASE /\ resetters' = Begins(resetters, "check")
           /\ UNCHANGED <<taskVars, lost>>
  <2>1. Others' = 1
    BY <1>0, <1>3, ResettersCount DEF Others
  <2> QED
    BY <1>1, <1>3, <2>1 DEF GoesOn, taskVars
<1>4. CASE Loses /\ UNCHANGED <<taskVars, resetters>>
  <2>1. Others' = 0
    BY <1>0, <1>4 DEF Others
  <2> QED
    BY <1>0, <1>1, <1>4, <2>1 DEF GivesUp, Loses, taskVars
<1> QED
  BY <1>2, <1>3, <1>4 DEF ResetDeviceNow

(* What the only agent does at the end of its turn, when nothing else is     *)
(* under way, is to go on, to give the task back, or to give it up.          *)
LEMMA OutcomePassesOn ==
  ASSUME Typed, inUse, request \in Tasks,
         NEW left \in [Pipes -> Seq(Wrappers)], InFlight(left) = 0,
         Helping(helpers) = 0, Resetting(resetters) = 0, Outcome(left)
  PROVE  GoesOn \/ GivesBack \/ GivesUp
<1>0. /\ request # NoTask
      /\ helpers \in [HelperPcs -> Nat]
  BY TaskAssumption, TypedParts DEF Typed
<1>1. CASE Posted(left)
  <2>1. PICK q \in Pipes, s \in States :
            Post(left, q, request, s) /\ currentState' = s
    BY <1>1 DEF Posted
  <2>2. /\ InFlight(pending') = 1
        /\ \A p \in Pipes : \A i \in DOMAIN pending'[p] :
               pending'[p][i] = [task |-> request, state |-> s]
    BY <2>1, OnePosted
  <2>3. UNCHANGED <<taskVars, helpers, resetVars>>
    BY <1>1 DEF Posted
  <2>4. Others' = 1
    BY <2>2, <2>3 DEF Others, resetVars
  <2>5. Current'
    BY <2>1, <2>2, <2>3 DEF Current, taskVars
  <2> QED
    BY <2>3, <2>4, <2>5 DEF GoesOn, taskVars, resetVars
<1>2. CASE Helped(left)
  <2>1. Others' = 1
    BY <1>0, <1>2, HelpersCount DEF Helped, Others, resetVars
  <2>2. Current'
    BY <1>2, NothingIsCurrent DEF Helped
  <2> QED
    BY <1>2, <2>1, <2>2 DEF Helped, GoesOn, taskVars, resetVars
<1>3. CASE Failed(left)
  <2>1. pending' = left /\ UNCHANGED <<helpers, resetVars>>
    BY <1>3 DEF Failed, Fails, CompleteSCSICommand
  <2>2. Others' = 0 /\ Current'
    BY <2>1, NothingIsCurrent DEF Others, resetVars
  <2> QED
    BY <1>3, <2>1, <2>2 DEF Failed, Fails, CompleteSCSICommand, GivesBack,
       CommandCompleted, CheckDeferredTermination, resetVars
<1>4. CASE Reset(left)
  BY <1>4, ResetPassesOn DEF Reset
<1>5. CASE Aborted(left)
  <2>1. pending' = left /\ UNCHANGED <<helpers, resetVars>>
    BY <1>5 DEF Aborted, AbortCurrentSCSITask
  <2>2. Others' = 0 /\ Current'
    BY <2>1, NothingIsCurrent DEF Others, resetVars
  <2> QED
    BY <1>0, <1>5, <2>1, <2>2 DEF Aborted, AbortCurrentSCSITask, GivesBack,
       CommandCompleted, CheckDeferredTermination, resetVars
<1> QED
  BY <1>1, <1>2, <1>3, <1>4, <1>5 DEF Outcome

(* The agent is alone: when it is a transfer there is no other, no helper    *)
(* and no reset; and so for the others.                                      *)
LEMMA AloneInFlight ==
  ASSUME Typed, Order, NEW p \in Pipes, pending[p] # <<>>
  PROVE  /\ Others # 0
         /\ InFlight([pending EXCEPT ![p] = Tail(@)]) = 0
         /\ Helping(helpers) = 0 /\ Resetting(resetters) = 0
<1> DEFINE left == [pending EXCEPT ![p] = Tail(@)]
<1>0. pending \in [Pipes -> Seq(Wrappers)]
  BY TypedParts DEF Typed
<1>1. left \in [Pipes -> Seq(Wrappers)]
  BY <1>0, AfterATransfer
<1>2. InFlight(left) \in Nat
  BY <1>1, LengthsAreNatural
<1>3. InFlight(left) = InFlight(pending) - 1
  BY <1>0, CountAfterATransfer
<1> HIDE DEF left
<1>4. /\ InFlight(pending) \in Nat /\ Helping(helpers) \in Nat
      /\ Resetting(resetters) \in Nat
  BY CountsAreNatural
<1>5. Others # 0
  BY <1>2, <1>3, <1>4 DEF Others
<1>6. Others = 1
  BY <1>5, AnAgent
<1>7. InFlight(left) = 0 /\ Helping(helpers) = 0 /\ Resetting(resetters) = 0
  BY <1>2, <1>3, <1>4, <1>6 DEF Others
<1> QED
  BY <1>5, <1>7 DEF left

(* A thread that clears a stall is the only agent.                           *)
LEMMA AloneHelping ==
  ASSUME Typed, Order, NEW pc \in HelperPcs, helpers[pc] > 0
  PROVE  /\ Others # 0 /\ InFlight(pending) = 0
         /\ Helping(helpers) = 1 /\ Resetting(resetters) = 0
<1>1. Helping(helpers) > 0
  BY HelpersCount, TypedParts DEF Typed
<1>2. /\ InFlight(pending) \in Nat /\ Helping(helpers) \in Nat
      /\ Resetting(resetters) \in Nat
  BY CountsAreNatural
<1>3. Others # 0
  BY <1>1, <1>2 DEF Others
<1>4. Others = 1
  BY <1>3, AnAgent
<1> QED
  BY <1>1, <1>2, <1>3, <1>4 DEF Others

(* A reset thread that has not reached its last step is the only agent.      *)
LEMMA AloneResetting ==
  ASSUME Typed, Order, NEW pc \in ResetterPcs \ {"finish"}, resetters[pc] > 0
  PROVE  /\ Others # 0 /\ InFlight(pending) = 0
         /\ Helping(helpers) = 0 /\ Resetting(resetters) = 1
<1>1. Resetting(resetters) > 0
  BY ResettersCount, TypedParts DEF Typed, ResetTyped
<1>2. /\ InFlight(pending) \in Nat /\ Helping(helpers) \in Nat
      /\ Resetting(resetters) \in Nat
  BY CountsAreNatural
<1>3. Others # 0
  BY <1>1, <1>2 DEF Others
<1>4. Others = 1
  BY <1>3, AnAgent
<1> QED
  BY <1>1, <1>2, <1>3, <1>4 DEF Others

(* The completion of a transfer keeps the order of the agents.               *)
LEMMA CompletionOrder ==
  ASSUME Typed, Order, NEW p \in Pipes, NEW status,
         ExecuteCommandCompletion(p, status)
  PROVE  Order'
<1> DEFINE left == [pending EXCEPT ![p] = Tail(@)]
<1>0. /\ pending[p] # <<>> /\ UNCHANGED <<sender, termination>>
      /\ pending \in [Pipes -> Seq(Wrappers)]
  BY TypedParts DEF ExecuteCommandCompletion, threadVars, Typed
<1>1. /\ Others # 0 /\ InFlight(left) = 0
      /\ Helping(helpers) = 0 /\ Resetting(resetters) = 0
  BY <1>0, AloneInFlight
<1>2. inUse /\ request \in Tasks /\ ~DoubleCallback
  BY <1>1, AnAgent, TaskAssumption DEF DoubleCallback
<1>3. left \in [Pipes -> Seq(Wrappers)]
  BY <1>0, AfterATransfer
<1>4. Outcome(left)
  BY <1>2, CompletionOutcome
<1> HIDE DEF left
<1>5. GoesOn \/ GivesBack \/ GivesUp
  BY <1>1, <1>2, <1>3, <1>4, OutcomePassesOn
<1> QED
  BY <1>0, <1>1, <1>5, AgentStep

-----------------------------------------------------------------------------
(* The threads.                                                              *)

(* A step that touches nothing of the task, its transfers and its threads    *)
(* keeps the order of the agents.                                            *)
LEMMA OrderKept ==
  ASSUME Order, Resetting(resetters') = Resetting(resetters),
         UNCHANGED <<inUse, request, currentState, pending, sender, helpers,
                     completed, lost>>,
         Ended' => Ended \/ ~inUse
  PROVE  Order'
<1>1. Others' = Others /\ Senders' = Senders
  BY DEF Others, Senders
<1>2. (Idle <=> Idle') /\ (Sending <=> Sending') /\ (Carried <=> Carried')
  BY <1>1 DEF Idle, Sending, Carried
<1>3. (Current <=> Current') /\ (Once <=> Once')
  BY DEF Current, Once
<1>4. Quiet'
  <2>1. CASE Ended
    BY <1>1, <2>1 DEF Order, Quiet
  <2>2. CASE ~inUse
    BY <1>1, <2>2 DEF Order, Charge, Idle, Sending, Carried, Senders, Quiet
  <2> QED
    BY <2>1, <2>2 DEF Quiet
<1> QED
  BY <1>2, <1>3, <1>4 DEF Order, Charge

(* A step of a thread that clears a stall keeps the order of the agents.     *)
LEMMA HelperOrder ==
  ASSUME Typed, Order, ClearPipeStall, Typed'
  PROVE  Order'
<1>0. /\ pending \in [Pipes -> Seq(Wrappers)]
      /\ pending' \in [Pipes -> Seq(Wrappers)]
      /\ helpers \in [HelperPcs -> Nat]
  BY TypedParts, TypedPartsNext DEF Typed
<1>1. ASSUME NEW pc \in HelperPcs, helpers[pc] > 0, helpers' = Ends(helpers, pc),
             UNCHANGED pending, HelperFrame, Loses
      PROVE  Order'
  <2>1. /\ Others # 0 /\ InFlight(pending) = 0
        /\ Helping(helpers) = 1 /\ Resetting(resetters) = 0
    BY <1>1, AloneHelping
  <2>2. Others' = 0
    BY <1>0, <1>1, <2>1, HelpersCount DEF Others, HelperFrame
  <2>3. Current'
    BY <1>0, <1>1, <2>1, NothingIsCurrent
  <2>4. inUse /\ request \in Tasks /\ request # NoTask
    BY <2>1, AnAgent, TaskAssumption
  <2>5. GivesUp
    BY <1>1, <2>2, <2>3, <2>4 DEF GivesUp, Loses, HelperFrame, taskVars
  <2> QED
    BY <1>1, <2>1, <2>5, AgentStep DEF HelperFrame, threadVars
<1>2. ASSUME NEW pc \in HelperPcs, NEW to \in HelperPcs, pc # to,
             helpers[pc] > 0, helpers' = Moves(helpers, pc, to),
             UNCHANGED <<pending, lost>>, HelperFrame
      PROVE  Order'
  <2>1. /\ Others # 0 /\ InFlight(pending) = 0
        /\ Helping(helpers) = 1 /\ Resetting(resetters) = 0
    BY <1>2, AloneHelping
  <2>2. Others' = 1
    BY <1>0, <1>2, <2>1, HelpersCount DEF Others, HelperFrame
  <2>3. Current'
    BY <1>0, <1>2, <2>1, NothingIsCurrent
  <2>4. GoesOn
    BY <1>2, <2>2, <2>3 DEF GoesOn, HelperFrame, taskVars
  <2> QED
    BY <1>2, <2>1, <2>4, AgentStep DEF HelperFrame, threadVars
<1>3. CASE ClearStart
  BY <1>1, <1>2, <1>3 DEF ClearStart, HelperPcs
<1>4. ASSUME NEW pc \in {"clearIn", "clearOut"}, NEW p \in Pipes,
             ClearPipe(pc, p)
      PROVE  Order'
  <2>1. CASE Abort(p)
    BY <2>1, CompletionOrder DEF Abort
  <2>2. CASE ~Abort(p)
    BY <1>1, <1>2, <1>4, <2>2 DEF ClearPipe, HelperPcs
  <2> QED
    BY <2>1, <2>2
<1>5. CASE ClearRequest
  <2>1. CASE Loses /\ UNCHANGED pending
    BY <1>1, <1>5, <2>1 DEF ClearRequest, HelperPcs
  <2>2. CASE Post(pending, "control", request, currentState) /\ UNCHANGED lost
    <3>1. /\ Others # 0 /\ InFlight(pending) = 0
          /\ Helping(helpers) = 1 /\ Resetting(resetters) = 0
      BY <1>5, AloneHelping DEF ClearRequest, HelperPcs
    <3>2. /\ InFlight(pending') = 1
          /\ \A p \in Pipes : \A i \in DOMAIN pending'[p] :
                 pending'[p][i] = [task |-> request, state |-> currentState]
      BY <1>0, <2>2, <3>1, OnePosted DEF Pipes
    <3>3. /\ HelperFrame /\ helpers' = Ends(helpers, "request")
          /\ helpers["request"] > 0
      BY <1>5 DEF ClearRequest
    <3>4. Helping(helpers') = 0
      BY <1>0, <3>1, <3>3, HelpersCount DEF HelperPcs
    <3>5. Others' = 1 /\ Current'
      BY <3>1, <3>2, <3>3, <3>4 DEF Others, HelperFrame, Current, taskVars
    <3>6. GoesOn
      BY <2>2, <3>3, <3>5 DEF GoesOn, HelperFrame, taskVars
    <3> QED
      BY <3>1, <3>3, <3>6, AgentStep DEF HelperFrame, threadVars
  <2> QED
    BY <1>5, <2>1, <2>2 DEF ClearRequest
<1> QED
  BY <1>3, <1>4, <1>5 DEF ClearPipeStall, Pipes

(* A step of a reset thread keeps the order of the agents.                   *)
LEMMA ResetterOrder ==
  ASSUME Typed, Order, sResetDevice, Typed'
  PROVE  Order'
<1>0. /\ pending \in [Pipes -> Seq(Wrappers)]
      /\ pending' \in [Pipes -> Seq(Wrappers)]
      /\ resetters \in [ResetterPcs -> Nat]
  BY TypedParts, TypedPartsNext DEF Typed, ResetTyped
<1> DEFINE Working == ResetterPcs \ {"finish"}
<1>1. ASSUME NEW pc \in Working, NEW to \in Working, pc # to,
             resetters[pc] > 0, resetters' = Moves(resetters, pc, to),
             UNCHANGED <<pending, inUse, request, completed, deferred,
                         termination>>,
             ResetterFrame
      PROVE  Order'
  <2>1. Resetting(resetters') = Resetting(resetters)
    BY <1>0, <1>1, ResettersCount
  <2> QED
    BY <1>1, <2>1, OrderKept DEF ResetterFrame, Ended
<1>2. CASE ResetCheck
  BY <1>1, <1>2 DEF ResetCheck, ResetterPcs, taskVars
<1>3. CASE ResetDevice
  BY <1>1, <1>3 DEF ResetDevice, ResetterPcs, taskVars
<1>4. CASE ResetPort
  <2>1. CASE Abort("control")
    BY <2>1, CompletionOrder DEF Abort, Pipes
  <2>2. CASE ~Abort("control")
    BY <1>1, <1>4, <2>2 DEF ResetPort, ResetterPcs, taskVars
  <2> QED
    BY <2>1, <2>2
<1>5. ASSUME NEW pc \in Working, NEW p \in Pipes, NEW to \in Working, pc # to,
             ResetToggle(pc, p, to)
      PROVE  Order'
  <2>1. CASE Abort(p)
    BY <2>1, CompletionOrder DEF Abort
  <2>2. CASE ~Abort(p)
    BY <1>1, <1>5, <2>2 DEF ResetToggle, taskVars
  <2> QED
    BY <2>1, <2>2
<1>6. CASE ResetFailed
  BY <1>1, <1>6 DEF ResetFailed, ResetterPcs
<1>7. CASE ResetAbort
  <2>1. /\ resetters["abort"] > 0 /\ ResetterFrame
        /\ resetters' = Moves(resetters, "abort", "finish")
        /\ AbortCurrentSCSITask(pending) /\ UNCHANGED termination
    BY <1>7 DEF ResetAbort
  <2>2. /\ Others # 0 /\ InFlight(pending) = 0
        /\ Helping(helpers) = 0 /\ Resetting(resetters) = 1
    BY <2>1, AloneResetting DEF ResetterPcs
  <2>3. Resetting(resetters') = 0
    BY <1>0, <2>1, <2>2, ResettersCount DEF ResetterPcs
  <2>4. pending' = pending
    BY <2>1 DEF AbortCurrentSCSITask
  <2>5. Others' = 0 /\ Current'
    BY <1>0, <2>1, <2>2, <2>3, <2>4, NothingIsCurrent DEF Others, ResetterFrame
  <2>6. inUse /\ request \in Tasks /\ request # NoTask
    BY <2>2, AnAgent, TaskAssumption
  <2>7. GivesBack
    BY <2>1, <2>5, <2>6 DEF GivesBack, AbortCurrentSCSITask, CommandCompleted,
       CheckDeferredTermination, ResetterFrame
  <2> QED
    BY <2>1, <2>2, <2>7, AgentStep DEF ResetterFrame
<1>8. CASE ResetFinish
  <2>1. Resetting(resetters') = Resetting(resetters)
    BY <1>0, <1>8, ResettersCount DEF ResetFinish
  <2>2. Ended' => Ended
    BY <1>8 DEF ResetFinish, Ended, taskVars
  <2> QED
    BY <1>8, <2>1, <2>2, OrderKept DEF ResetFinish, ResetterFrame, taskVars
<1> QED
  BY <1>2, <1>3, <1>4, <1>5, <1>6, <1>7, <1>8
     DEF sResetDevice, ResetterPcs, Pipes

(* A sender that is under way has the command.                               *)
LEMMA ASender ==
  ASSUME Order, NEW t \in Tasks, sender[t] \notin {"idle", "done"}
  PROVE  /\ inUse /\ Senders = {t} /\ Others = 0 /\ lost = {}
         /\ sender[t] = "built" => request = t
         /\ completed[t] = 0
<1>1. t \in Senders
  BY DEF Senders
<1>2. PICK u \in Tasks : Senders = {u} /\ (sender[u] = "built" => request = u)
  BY <1>1 DEF Order, Charge, Idle, Sending, Carried
<1>3. inUse /\ Others = 0 /\ lost = {}
  BY <1>1 DEF Order, Charge, Idle, Sending, Carried
<1>4. completed[t] = 0
  BY DEF Order, Once
<1> QED
  BY <1>1, <1>2, <1>3, <1>4

(* A step of the client in SendSCSICommand keeps the order of the agents;    *)
(* once the device is closed it is refused.                                  *)
LEMMA SenderOrder ==
  ASSUME Typed, Ending, Order, NEW t \in Tasks, SendSCSICommand(t), Typed'
  PROVE  Order'
<1>0. /\ pending \in [Pipes -> Seq(Wrappers)]
      /\ pending' \in [Pipes -> Seq(Wrappers)]
      /\ sender \in [Tasks -> SenderPcs] /\ completed \in [Tasks -> Nat]
      /\ InFlight(pending) \in Nat /\ Helping(helpers) \in Nat
      /\ Resetting(resetters) \in Nat
  BY TypedParts, TypedPartsNext, CountsAreNatural
     DEF Typed, OtherTyped, TaskTyped
<1>1. Others = 0 => InFlight(pending) = 0
  BY <1>0 DEF Others
<1>2. CASE AcceptSCSITask(t)
  <2>1. /\ ~inUse /\ inUse' /\ sender[t] = "idle"
        /\ sender' = [sender EXCEPT ![t] = "accepted"]
        /\ UNCHANGED <<request, currentState, pending, helpers, resetters,
                       completed, lost, deferred, termination>>
    BY <1>2 DEF AcceptSCSITask, At, resetVars
  <2>2. Idle
    BY <2>1 DEF Order, Charge, Sending, Carried
  <2>3. Senders' = {t} /\ sender'[t] = "accepted"
    BY <1>0, <2>1, <2>2 DEF Senders, Idle
  <2>4. Others' = 0 /\ Current'
    BY <2>1, <2>2 DEF Others, Idle, Current, Order
  <2>5. Sending'
    BY <2>1, <2>2, <2>3, <2>4 DEF Sending, Idle
  <2>6. Once'
    BY <1>0, <2>1 DEF Once, Order
  <2>7. \A u \in Tasks : sender'[u] # "built"
    BY <1>0, <2>1, <2>2 DEF Senders, Idle
  <2> QED
    BY <2>4, <2>5, <2>6, <2>7 DEF Order, Charge, Quiet
<1>3. CASE BuildRequest(t)
  <2>1. /\ sender[t] = "accepted"
        /\ \/ inactive /\ sender' = [sender EXCEPT ![t] = "failed"]
           \/ /\ ~inactive /\ sender' = [sender EXCEPT ![t] = "built"]
              /\ request' = t
        /\ UNCHANGED <<inUse, pending, helpers, resetters, completed, lost,
                       deferred, termination>>
    BY <1>3 DEF BuildRequest, At, resetVars
  <2>2. /\ inUse /\ Senders = {t} /\ Others = 0 /\ lost = {}
        /\ completed[t] = 0
    BY <2>1, ASender
  <2>3. /\ Senders' = {t}
        /\ \A u \in Tasks \ {t} : sender'[u] \in {"idle", "done"}
    BY <1>0, <2>1, <2>2 DEF Senders
  <2>4. Others' = 0 /\ Current'
    <3>1. Others' = 0 /\ InFlight(pending') = 0
      BY <1>1, <2>1, <2>2 DEF Others
    <3> QED
      BY <1>0, <3>1, NothingIsCurrent
  <2>5. Sending'
    BY <1>0, <2>1, <2>2, <2>3, <2>4 DEF Sending
  <2>6. Once'
    BY <1>0, <2>1, <2>2 DEF Once, Order
  <2>7. Quiet'
    <3>1. CASE inactive
      BY <1>0, <2>1, <2>3, <2>4, <3>1 DEF Quiet
    <3>2. CASE ~inactive
      BY <2>1, <3>2 DEF Ending, Ended, Quiet
    <3> QED
      BY <3>1, <3>2
  <2> QED
    BY <2>4, <2>5, <2>6, <2>7 DEF Order, Charge
<1>4. CASE BulkOnlySendCBWPacket(t)
  <2>1. /\ sender[t] = "built"
        /\ UNCHANGED <<inUse, request, helpers, resetters, completed, lost,
                       deferred, termination>>
    BY <1>4 DEF BulkOnlySendCBWPacket, At, resetVars, taskVars
  <2>2. /\ inUse /\ Senders = {t} /\ Others = 0 /\ lost = {}
        /\ request = t /\ completed[t] = 0
    BY <2>1, ASender
  <2>3. ~Ended'
    BY <2>1 DEF Order, Quiet, Ended
  <2>4. CASE /\ sender' = [sender EXCEPT ![t] = "failed"]
             /\ UNCHANGED pending
    <3>1. Senders' = {t} /\ sender'[t] = "failed"
      BY <1>0, <2>2, <2>4 DEF Senders
    <3>2. Others' = 0 /\ InFlight(pending') = 0
      BY <1>1, <2>1, <2>2, <2>4 DEF Others
    <3>3. Current'
      BY <1>0, <3>2, NothingIsCurrent
    <3>4. Once'
      BY <1>0, <2>1, <2>2, <2>4 DEF Once, Order
    <3> QED
      BY <2>1, <2>2, <2>3, <3>1, <3>2, <3>3, <3>4
         DEF Order, Charge, Sending, Quiet
  <2>5. CASE /\ sender' = [sender EXCEPT ![t] = "done"]
             /\ \E q \in Pipes, s \in States :
                    Post(pending, q, t, s) /\ currentState' = s
    <3>1. Senders' = {} /\ sender'[t] = "done"
      BY <1>0, <2>2, <2>5 DEF Senders
    <3>2. PICK q \in Pipes, s \in States :
              Post(pending, q, t, s) /\ currentState' = s
      BY <2>5
    <3>3. /\ InFlight(pending') = 1
          /\ \A p \in Pipes : \A i \in DOMAIN pending'[p] :
                 pending'[p][i] = [task |-> t, state |-> s]
      <4>1. InFlight(pending) = 0
        BY <1>1, <2>2
      <4>2. Post(pending, q, t, s) /\ pending \in [Pipes -> Seq(Wrappers)]
        BY <1>0, <3>2
      <4> QED
        BY <4>1, <4>2, OnePosted
    <3>4. Others' = 1
      BY <1>0, <2>1, <2>2, <3>3 DEF Others
    <3>5. Current'
      BY <2>1, <2>2, <3>2, <3>3 DEF Current
    <3>6. Once'
      BY <1>0, <2>1, <2>2, <2>5 DEF Once, Order
    <3> QED
      BY <2>1, <2>2, <2>3, <3>1, <3>4, <3>5, <3>6
         DEF Order, Charge, Carried, Quiet
  <2> QED
    BY <1>4, <2>4, <2>5 DEF BulkOnlySendCBWPacket, At, Pipes, States
<1>5. CASE GatedCompleteSCSICommand(t)
  <2>1. /\ sender[t] = "failed" /\ sender' = [sender EXCEPT ![t] = "done"]
        /\ inUse' = FALSE /\ completed' = [completed EXCEPT ![t] = @ + 1]
        /\ UNCHANGED <<request, currentState, pending, helpers, resetters, lost,
                       termination>>
    BY <1>5 DEF GatedCompleteSCSICommand, At, resetVars, CommandCompleted
  <2>2. Senders = {t} /\ Others = 0 /\ lost = {} /\ completed[t] = 0
    BY <2>1, ASender
  <2>3. Senders' = {}
    BY <1>0, <2>1, <2>2 DEF Senders
  <2>4. Others' = 0 /\ Current'
    BY <2>1, <2>2 DEF Others, Order, Current
  <2>5. Once'
    <3>1. completed' = [completed EXCEPT ![t] = 1]
      BY <2>1, <2>2
    <3> QED
      BY <1>0, <2>1, <3>1 DEF Once, Order
  <2>6. Idle'
    BY <2>1, <2>2, <2>3, <2>4 DEF Idle
  <2>7. \A u \in Tasks : sender'[u] # "built"
    BY <2>3 DEF Senders
  <2> QED
    BY <2>4, <2>5, <2>6, <2>7 DEF Order, Charge, Quiet
<1> QED
  BY <1>2, <1>3, <1>4, <1>5 DEF SendSCSICommand

(* A step of the termination keeps the order of the agents.                  *)
LEMMA TerminationOrder ==
  ASSUME Typed, Order, Terminate \/ WillTerminate \/ DidTerminate \/ CloseProvider
  PROVE  Order'
<1>1. CASE Abort("in") \/ Abort("out")
  BY <1>1, CompletionOrder DEF Abort, Pipes
<1>2. CASE ~(Abort("in") \/ Abort("out"))
  <2>1. TerminationFrame
    BY <1>2 DEF Terminate, WillTerminate, DidTerminate, CloseProvider
  <2>2. inUse \in BOOLEAN
    BY TypedParts DEF Typed, TaskTyped
  <2>3. Ended' => Ended \/ ~inUse
    BY <1>2, <2>2
       DEF Terminate, WillTerminate, DidTerminate, CloseProvider, Ended
  <2> QED
    BY <2>1, <2>3, OrderKept DEF TerminationFrame, resetVars
<1> QED
  BY <1>1, <1>2

(* A step of the thread that waits for a reset, and a stutter, keep the      *)
(* order of the agents.                                                      *)
LEMMA OtherOrder ==
  ASSUME Order, GatedWaitForReset \/ UNCHANGED vars
  PROVE  Order'
<1>1. UNCHANGED <<inUse, request, currentState, pending, sender, helpers,
                  resetters, completed, lost, deferred, termination>>
  BY DEF GatedWaitForReset, vars, taskVars, resetVars
<1> QED
  BY <1>1, OrderKept DEF Ended

-----------------------------------------------------------------------------
(* The end of the driver, also with resets that a resume asked for.          *)

(* Whoever ends the command lets go of a termination that waits for it.      *)
LEMMA WaitEnds ==
  ASSUME deferred => inUse, NEW left,
         \/ UNCHANGED taskVars
         \/ CompleteSCSICommand(left)
         \/ AbortCurrentSCSITask(left)
         \/ \E w \in BOOLEAN : ResetDeviceNow(left, w)
  PROVE  deferred' => inUse'
BY DEF taskVars, CompleteSCSICommand, AbortCurrentSCSITask, ResetDeviceNow,
   CheckDeferredTermination

(* The completion of a transfer keeps what holds at the end of a             *)
(* termination.                                                              *)
LEMMA CompletionEnding ==
  ASSUME Typed, Ending, NEW p \in Pipes, NEW status,
         ExecuteCommandCompletion(p, status)
  PROVE  Ending'
<1> DEFINE left == [pending EXCEPT ![p] = Tail(@)]
<1>1. UNCHANGED <<termination, inactive, interface>>
  BY DEF ExecuteCommandCompletion, deviceVars, threadVars
<1>2. UNCHANGED taskVars \/ Outcome(left)
  BY CompletionOutcome
<1> HIDE DEF left
<1>3. \/ UNCHANGED taskVars
      \/ CompleteSCSICommand(left)
      \/ AbortCurrentSCSITask(left)
      \/ \E w \in BOOLEAN : ResetDeviceNow(left, w)
  BY <1>2 DEF Outcome, Posted, Helped, Failed, Fails, Reset, Aborted
<1>4. deferred' => inUse'
  BY <1>3, WaitEnds DEF Ending
<1> QED
  BY <1>1, <1>4 DEF Ending

(* So does every other step: the thread that terminates sleeps until the     *)
(* task is given back, and a new task is refused by then.                    *)
LEMMA NextEnding == Typed /\ Ending /\ [Next]_vars => Ending'
<1> SUFFICES ASSUME Typed, Ending, [Next]_vars PROVE Ending'
  OBVIOUS
<1>0. ASSUME UNCHANGED <<inUse, deferred, termination, inactive, interface>>
      PROVE  Ending'
  BY <1>0 DEF Ending
<1>1. ASSUME NEW t \in Tasks, SendSCSICommand(t)
      PROVE  Ending'
  BY <1>1 DEF SendSCSICommand, AcceptSCSITask, BuildRequest,
     BulkOnlySendCBWPacket, GatedCompleteSCSICommand, CheckDeferredTermination,
     Ending, deviceVars, taskVars
<1>2. CASE \E p \in Pipes : Completion(p)
  BY <1>2, CompletionEnding DEF Completion
<1>3. CASE ClearPipeStall
  <2>1. CASE \E p \in Pipes : Abort(p)
    BY <2>1, CompletionEnding DEF Abort
  <2>2. CASE HelperFrame
    BY <1>0, <2>2 DEF HelperFrame, taskVars, deviceVars, threadVars
  <2> QED
    BY <1>3, <2>1, <2>2
       DEF ClearPipeStall, ClearStart, ClearPipe, ClearRequest, Pipes
<1>4. CASE sResetDevice
  <2>1. CASE \E p \in Pipes : Abort(p)
    BY <2>1, CompletionEnding DEF Abort
  <2>2. CASE ResetFinish
    BY <2>2 DEF ResetFinish, ResetterFrame, taskVars, Ending
  <2>3. CASE ResetAbort
    <3>1. deferred' => inUse'
      BY <2>3, WaitEnds DEF ResetAbort, Ending
    <3> QED
      BY <2>3, <3>1 DEF ResetAbort, ResetterFrame, Ending
  <2>4. CASE UNCHANGED <<inUse, deferred, termination, inactive, interface>>
    BY <1>0, <2>4
  <2> QED
    BY <1>4, <2>1, <2>2, <2>3, <2>4
       DEF sResetDevice, ResetCheck, ResetDevice, ResetPort, ResetToggle,
       ResetFailed, ResetterFrame, taskVars, Pipes
<1>5. CASE PortHasBeenResumed
  <2>1. deferred' => inUse'
    BY <1>5, WaitEnds DEF PortHasBeenResumed, Ending
  <2> QED
    BY <1>5, <2>1 DEF PortHasBeenResumed, deviceVars, Ending
<1>6. CASE GatedWaitForReset \/ UNCHANGED vars
  BY <1>0, <1>6 DEF GatedWaitForReset, vars, taskVars, deviceVars
<1>7. CASE Terminate \/ WillTerminate \/ DidTerminate \/ CloseProvider
  <2>1. CASE Abort("in") \/ Abort("out")
    BY <2>1, CompletionEnding DEF Abort, Pipes
  <2>2. inUse \in BOOLEAN /\ deferred \in BOOLEAN
    BY TypedParts DEF Typed, TaskTyped
  <2>3. CASE ~(Abort("in") \/ Abort("out"))
    BY <1>7, <2>2, <2>3 DEF Terminate, WillTerminate, DidTerminate, CloseProvider,
       TerminationFrame, Ending
  <2> QED
    BY <2>1, <2>3
<1> QED
  BY <1>1, <1>2, <1>3, <1>4, <1>5, <1>6, <1>7 DEF Next

-----------------------------------------------------------------------------
(* The invariant.                                                            *)

(* The invariant holds before the first command.                             *)
LEMMA InitInvariant == Init => IInv
<1> SUFFICES ASSUME Init PROVE IInv
  OBVIOUS
<1>1. Typed
  BY InitTyped
<1>2. Ending
  BY DEF Init, Ending
<1>3. InFlight(pending) = 0 /\ Helping(helpers) = 0 /\ Resetting(resetters) = 0
  <2>1. /\ Len(pending["in"]) = 0 /\ Len(pending["out"]) = 0
        /\ Len(pending["control"]) = 0
    BY DEF Init, Pipes
  <2> QED
    BY <2>1, InFlightIs
       DEF Init, Helping, Resetting, HelperPcs, ResetterPcs
<1>4. Idle
  BY <1>3 DEF Init, Idle, Others, Senders
<1>5. Current /\ Once
  BY DEF Init, Current, Once
<1>6. Quiet
  BY DEF Init, Quiet, Ended
<1> QED
  BY <1>1, <1>2, <1>4, <1>5, <1>6 DEF IInv, Order, Charge

(* Every step of the driver keeps it.                                        *)
LEMMA NextInvariant == IInv /\ [Next]_vars => IInv'
<1> SUFFICES ASSUME IInv, [Next]_vars PROVE IInv'
  OBVIOUS
<1>1. Typed /\ Ending /\ Typed' /\ Ending'
  BY NextTyped, NextEnding DEF IInv
<1> SUFFICES ASSUME resumes' = 0 PROVE Order'
  BY <1>1 DEF IInv
<1>2. resumes \in Nat /\ (resumes = 0 => Order)
  BY ResetAssumption, TypedParts DEF IInv, Typed, OtherTyped
<1>3. CASE PortHasBeenResumed
  BY <1>2, <1>3 DEF PortHasBeenResumed
<1>4. CASE ~PortHasBeenResumed
  <2>1. resumes' = resumes
    BY <1>4 DEF Next, SendSCSICommand, AcceptSCSITask, BuildRequest,
       BulkOnlySendCBWPacket, GatedCompleteSCSICommand, Completion,
       ExecuteCommandCompletion, Abort, ClearPipeStall, ClearStart, ClearPipe,
       ClearRequest, HelperFrame, sResetDevice, ResetCheck, ResetDevice,
       ResetPort, ResetToggle, ResetFailed, ResetAbort, ResetFinish,
       ResetterFrame, GatedWaitForReset, Terminate, WillTerminate,
       DidTerminate, CloseProvider, TerminationFrame, threadVars, vars
  <2>2. Order
    BY <1>2, <2>1
  <2> QED
    BY <1>1, <1>4, <2>2, SenderOrder, CompletionOrder, HelperOrder,
       ResetterOrder, OtherOrder, TerminationOrder DEF Next, Completion
<1> QED
  BY <1>3, <1>4

(* Hence it holds in every state of every behaviour.                         *)
LEMMA Invariance == Spec => []IInv
BY InitInvariant, NextInvariant, PTL DEF Spec

(* A command in use has exactly one agent that carries it on, or none when   *)
(* the agent gave up, through every recovery; a driver without a command has *)
(* none: the sender, the completions, the helpers and the resets never work  *)
(* on one command at the same time.                                          *)
THEOREM OneAgent == Spec => []OneInCharge
<1>1. IInv => OneInCharge
  <2> SUFFICES ASSUME IInv, resumes = 0
               PROVE  IF inUse THEN Agents = (IF request \in lost THEN 0 ELSE 1)
                               ELSE Agents = 0
    BY DEF OneInCharge
  <2>1. Charge /\ Others \in Nat
    <3>1. /\ InFlight(pending) \in Nat /\ Helping(helpers) \in Nat
          /\ Resetting(resetters) \in Nat
      BY CountsAreNatural DEF IInv
    <3> QED
      BY <3>1 DEF IInv, Order, Others
  <2>2. Cardinality({}) = 0 /\ \A t : Cardinality({t}) = 1
    BY FS_EmptySet, FS_Singleton
  <2>3. Senders = {} => Agents = Others
    <3>1. /\ InFlight(pending) \in Nat /\ Helping(helpers) \in Nat
          /\ Resetting(resetters) \in Nat
      BY CountsAreNatural DEF IInv
    <3> QED
      BY <2>2, <3>1 DEF Agents, Others
  <2>4. CASE Idle
    BY <2>3, <2>4 DEF Idle
  <2>5. CASE Sending
    <3>1. Cardinality(Senders) = 1
      BY <2>2, <2>5 DEF Sending
    <3>2. /\ InFlight(pending) \in Nat /\ Helping(helpers) \in Nat
          /\ Resetting(resetters) \in Nat
      BY CountsAreNatural DEF IInv
    <3>3. Agents = 1
      BY <2>5, <3>1, <3>2 DEF Agents, Sending, Others
    <3> QED
      BY <2>5, <3>3 DEF Sending
  <2>6. CASE Carried
    BY <2>3, <2>6 DEF Carried
  <2> QED
    BY <2>1, <2>4, <2>5, <2>6 DEF Charge
<1> QED
  BY <1>1, Invariance, PTL

(* Every transfer that is under way belongs to the command in the request    *)
(* block and to the state the block is in: a completion is never taken for   *)
(* that of another step.                                                     *)
THEOREM CompletionsInStep == Spec => []InStep
<1>1. IInv => InStep
  BY DEF IInv, Order, Current, InStep
<1> QED
  BY <1>1, Invariance, PTL

(* No task is given back to the SCSI layer twice, whoever ends it.           *)
THEOREM GivenBackOnce == Spec => []CompletedOnce
<1>1. IInv => CompletedOnce
  BY DEF IInv, Order, Once, CompletedOnce
<1> QED
  BY <1>1, Invariance, PTL

(* A termination only waits while there is a command whose end wakes it.     *)
THEOREM NoIdleWait == Spec => []WaitIsForATask
<1>1. IInv => WaitIsForATask
  BY DEF IInv, Ending, WaitIsForATask
<1> QED
  BY <1>1, Invariance, PTL

(* Nothing uses the pipes of an interface that has been closed.              *)
THEOREM QuietAtTheEnd == Spec => []ClosedIsQuiet
<1>1. IInv => ClosedIsQuiet
  <2> SUFFICES ASSUME IInv, resumes = 0, ~interface
               PROVE  /\ \A t \in Tasks : sender[t] # "built"
                      /\ pending = [p \in Pipes |-> <<>>]
                      /\ Helping(helpers) = 0 /\ Resetting(resetters) = 0
    BY DEF ClosedIsQuiet
  <2>1. Others = 0 /\ \A t \in Tasks : sender[t] # "built"
    BY DEF IInv, Ending, Order, Quiet, Ended
  <2>2. /\ InFlight(pending) \in Nat /\ Helping(helpers) \in Nat
        /\ Resetting(resetters) \in Nat
    BY CountsAreNatural DEF IInv
  <2>3. InFlight(pending) = 0 /\ Helping(helpers) = 0 /\ Resetting(resetters) = 0
    BY <2>1, <2>2 DEF Others
  <2>4. pending \in [Pipes -> Seq(Wrappers)]
    BY TypedParts DEF IInv, Typed
  <2>5. pending = [p \in Pipes |-> <<>>]
    BY <2>3, <2>4, NothingInFlight
  <2> QED
    BY <2>1, <2>3, <2>5
<1> QED
  BY <1>1, Invariance, PTL
=============================================================================
