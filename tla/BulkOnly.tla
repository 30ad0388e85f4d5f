------------------------------ MODULE BulkOnly ------------------------------
(* The mass storage driver with the Bulk-Only protocol: one SCSI command at  *)
(* a time goes through a state machine that is driven by the completions of  *)
(* its USB transfers and that recovers from stalls, errors and time-outs.    *)
(* Around it run threads of their own: the client's thread in                *)
(* SendSCSICommand, sResetDevice, the helper that clears a stalled pipe, a   *)
(* thread that waits for a reset after a resume, and the termination.        *)
(*                                                                           *)
(* A completion, willTerminate and didTerminate run in the gate of the work  *)
(* loop and are one action each; the threads run outside of it and have one  *)
(* action for each stretch between two points where another may come in.     *)
(*                                                                           *)
(* Left out: the CBI protocol, the contents of the wrappers, the LUNs, the   *)
(* power saving of the port, and the wait for the reconfiguration message,   *)
(* which ends after a time-out in any case.                                  *)
(*                                                                           *)
(* An operator with the comment "Bug: ..." is a wrong variant of the one     *)
(* that follows it, kept to show that a property below can be violated.      *)

EXTENDS Naturals, Sequences, FiniteSets

CONSTANTS
    Tasks,          \* SCSI tasks, each sent once by a thread of its own
    NoTask,         \* the request field is NULL
    Direction,      \* GetDataTransferDirection of each task
    UseUSBReset,    \* fUseUSBResetNotBOReset
    MaxResets,      \* kMaxConsecutiveResets
    Resumes,        \* bound: resets that a resume of the port asks for
    Events          \* bound: tasks sent and resets asked for, together

Pipes == {"in", "out", "control"}

ASSUME TaskAssumption == NoTask \notin Tasks
ASSUME DirectionAssumption == Direction \in [Tasks -> {"in", "out", "none"}]
ASSUME ResetAssumption ==
    UseUSBReset \in BOOLEAN /\ {MaxResets, Resumes, Events} \subseteq Nat

VARIABLES
    inUse,              \* fBulkOnlyCommandStructInUse
    request,            \* the task in the request block
    currentState,       \* the state in the request block
    stalledPipe,        \* fPotentiallyStalledPipe
    resetCount,         \* fConsecutiveResetCount
    attached,           \* fDeviceAttached
    terminating,        \* fTerminating
    inactive,           \* isInactive()
    deferred,           \* fTerminationDeferred
    interface,          \* fInterface is not NULL
    resetInProgress,    \* fResetInProgress
    blockOnReset,       \* fBlockOnResetThread
    resettingDevice,    \* _RESET_IN_PROGRESS of the IOUSBDevice
    pending,            \* transfers the controller has, for each pipe
    sender,             \* where SendSCSICommand of each task is
    resetters,          \* how many sResetDevice threads are at each point
    helpers,            \* how many ClearPipeStall threads are at each point
    waiter,             \* where the thread that waits for a reset is
    termination,        \* where the termination is
    completed,          \* calls of CommandCompleted for each task
    lost,               \* history: see EveryTaskEnds
    resumes             \* resets asked for by a resume so far

blockVars  == <<inUse, request, currentState>>
taskVars   == <<inUse, request, resetCount, attached, terminating, deferred,
                completed>>
resetVars  == <<resetInProgress, blockOnReset, resetters, lost>>
threadVars == <<sender, waiter, termination, resumes>>
deviceVars == <<inactive, interface, resettingDevice>>
vars == <<inUse, request, currentState, stalledPipe, resetCount, attached,
          terminating, inactive, deferred, interface, resetInProgress,
          blockOnReset, resettingDevice, pending, sender, resetters, helpers,
          waiter, termination, completed, lost, resumes>>

States == {"none", "CommandSent", "CheckCBWBulkStall", "ClearCBWBulkStall",
           "BulkIOComplete", "CheckBulkStall", "ClearBulkStall",
           "CheckBulkStallPostCSW", "ClearBulkStallPostCSW", "StatusReceived",
           "StatusReceived2ndTime", "ResetCompleted", "ClearBulkInCompleted",
           "ClearBulkOutCompleted"}

SenderPcs    == {"idle", "accepted", "built", "failed", "done"}
ResetterPcs  == {"check", "reset", "resetting", "toggleIn", "toggleOut",
                 "detach", "abort", "finish"}
HelperPcs    == {"start", "clearIn", "clearOut", "request"}
WaiterPcs    == {"idle", "test", "sleep", "asleep"}
Terminations == {"none", "terminate", "willTerminate", "sleeping", "closed"}

(* kIOReturnNotResponding and kIOReturnAborted are "gone".                   *)
Statuses == {"ok", "stall", "gone", "overrun", "deviceError", "timeout"}

TypeOK ==
    /\ {inUse, attached, terminating, inactive, deferred, interface,
        resetInProgress, blockOnReset, resettingDevice} \subseteq BOOLEAN
    /\ request \in Tasks \cup {NoTask}
    /\ currentState \in States
    /\ stalledPipe \in {"in", "out"}
    /\ resetCount \in 0 .. MaxResets + 1
    /\ pending \in [Pipes -> Seq([task : Tasks \cup {NoTask}, state : States])]
    /\ sender \in [Tasks -> SenderPcs]
    /\ resetters \in [ResetterPcs -> Nat]
    /\ helpers \in [HelperPcs -> Nat]
    /\ waiter \in WaiterPcs
    /\ termination \in Terminations
    /\ completed \in [Tasks -> Nat]
    /\ lost \subseteq Tasks
    /\ resumes \in 0 .. Resumes

Init ==
    /\ inUse = FALSE /\ request = NoTask /\ currentState = "none"
    /\ stalledPipe = "in"
    /\ resetCount = 0
    /\ attached = TRUE
    /\ terminating = FALSE /\ inactive = FALSE /\ deferred = FALSE
    /\ interface = TRUE
    /\ resetInProgress = FALSE /\ blockOnReset = FALSE
    /\ resettingDevice = FALSE
    /\ pending = [p \in Pipes |-> <<>>]
    /\ sender = [t \in Tasks |-> "idle"]
    /\ resetters = [pc \in ResetterPcs |-> 0]
    /\ helpers = [pc \in HelperPcs |-> 0]
    /\ waiter = "idle"
    /\ termination = "none"
    /\ completed = [t \in Tasks |-> 0]
    /\ lost = {}
    /\ resumes = 0

(* The threads of a kind are alike: only their number at each point counts.  *)
Begins(threads, pc)    == [threads EXCEPT ![pc] = @ + 1]
Ends(threads, pc)      == [threads EXCEPT ![pc] = @ - 1]
Moves(threads, pc, to) == [threads EXCEPT ![pc] = @ - 1, ![to] = @ + 1]

-----------------------------------------------------------------------------
(* The end of a command.  CommandCompleted gives the task back to the SCSI   *)
(* layer, whose next command is another AcceptSCSITask.  Each operator takes *)
(* the transfers that are left, after the one that was completed is gone.    *)

CommandCompleted(t) == completed' = [completed EXCEPT ![t] = @ + 1]

(* Bug: nobody tells a termination that waits that the command is over.      *)
CheckDeferredForgets == UNCHANGED deferred

CheckDeferredTermination == deferred' = FALSE

CompleteSCSICommand(left) ==
    /\ inUse' = FALSE /\ request' = NoTask
    /\ resetCount' = 0
    /\ CommandCompleted(request)
    /\ CheckDeferredTermination
    /\ pending' = left
    /\ UNCHANGED <<attached, terminating>>

AbortCurrentSCSITask(left) ==
    /\ pending' = left
    /\ IF inUse /\ request # NoTask
       THEN /\ inUse' = FALSE /\ request' = NoTask
            /\ resetCount' = IF resetCount > MaxResets THEN resetCount
                                                       ELSE resetCount + 1
            /\ attached' = (attached /\ resetCount' <= MaxResets)
            /\ terminating' = (terminating \/ ~attached')
            /\ CommandCompleted(request)
            /\ CheckDeferredTermination
       ELSE UNCHANGED taskVars

(* The only thread that could end the command gives up.                      *)
Loses == lost' = IF inUse /\ request # NoTask THEN lost \cup {request} ELSE lost

ResetDeviceNow(left, waitForReset) ==
    \/ /\ terminating \/ inactive
       /\ AbortCurrentSCSITask(left)
       /\ UNCHANGED resetVars
    \/ /\ ~terminating /\ ~inactive
       /\ pending' = left
       /\ resetInProgress' = TRUE
       /\ blockOnReset' = ~waitForReset
       /\ resetters' = Begins(resetters, "check")
       /\ UNCHANGED <<taskVars, lost>>
    \/ /\ ~terminating /\ ~inactive     \* kernel_thread_start fails
       /\ pending' = left
       /\ resetInProgress' = FALSE
       /\ blockOnReset' = ~waitForReset
       /\ IF waitForReset THEN UNCHANGED lost ELSE Loses
       /\ UNCHANGED <<taskVars, resetters>>

-----------------------------------------------------------------------------
(* What a state does next.  Each may fail at once, and then ends the command *)
(* with an error.                                                            *)

Fails(left) == CompleteSCSICommand(left) /\ UNCHANGED <<helpers, resetVars>>

Post(left, p, t, state) ==
    pending' = [left EXCEPT ![p] = Append(@, [task |-> t, state |-> state])]

(* Bug: the next state is not recorded when the transfer is started.         *)
TransferForgets(left, p, state) ==
    /\ UNCHANGED currentState
    /\ \/ /\ Post(left, p, request, state)
          /\ UNCHANGED <<taskVars, helpers, resetVars>>
       \/ Fails(left)

(* BulkOnlyTransferData, BulkOnlyReceiveCSWPacket, GetStatusEndpointStatus   *)
Transfer(left, p, state) ==
    /\ currentState' = state
    /\ \/ /\ Post(left, p, request, state)
          /\ UNCHANGED <<taskVars, helpers, resetVars>>
       \/ Fails(left)

ClearFeatureEndpointStall(left, p, state) ==
    /\ currentState' = state
    /\ stalledPipe' = p
    /\ \/ /\ helpers' = Begins(helpers, "start")
          /\ pending' = left
          /\ UNCHANGED <<taskVars, resetVars>>
       \/ Fails(left)

DeviceReset(left) ==
    /\ ResetDeviceNow(left, FALSE)
    /\ UNCHANGED <<currentState, helpers>>

BulkDeviceResetDevice(left) ==
    IF UseUSBReset \/ resetCount > 0
    THEN DeviceReset(left)
    ELSE Transfer(left, "control", "ResetCompleted")

-----------------------------------------------------------------------------
(* BulkOnlyExecuteCommandCompletion: one operator for each state.            *)

CommandSent(left, status) ==
    /\ UNCHANGED stalledPipe
    /\ CASE status = "ok" /\ Direction[request] = "none" ->
              Transfer(left, "in", "StatusReceived")
         [] status = "ok" /\ Direction[request] # "none" ->
              Transfer(left, Direction[request], "BulkIOComplete")
         [] status = "stall" /\ ~UseUSBReset ->
              Transfer(left, "control", "CheckCBWBulkStall")
         [] OTHER -> DeviceReset(left)

(* Bug: the halt of the control pipe is cleared, not that of the data pipe.  *)
CheckCBWControl(left) ==
    \/ ClearFeatureEndpointStall(left, "control", "ClearCBWBulkStall")
    \/ BulkDeviceResetDevice(left) /\ UNCHANGED stalledPipe

CheckCBWBulkStall(left) ==
    \/ ClearFeatureEndpointStall(left, "out", "ClearCBWBulkStall")
    \/ BulkDeviceResetDevice(left) /\ UNCHANGED stalledPipe

ClearCBWBulkStall(left) ==
    Fails(left) /\ UNCHANGED <<currentState, stalledPipe>>

BulkIOComplete(left, status) ==
    CASE status = "ok" ->
           Transfer(left, "in", "StatusReceived") /\ UNCHANGED stalledPipe
      [] status \in {"overrun", "deviceError"} ->
           DeviceReset(left) /\ UNCHANGED stalledPipe
      [] status = "timeout" ->
           BulkDeviceResetDevice(left) /\ UNCHANGED stalledPipe
      [] OTHER ->
           /\ stalledPipe' = Direction[request]
           /\ Transfer(left, "control", "CheckBulkStall")

CheckBulkStall(left) ==
    \/ ClearFeatureEndpointStall(left, stalledPipe,
           IF currentState = "CheckBulkStall" THEN "ClearBulkStall"
                                              ELSE "ClearBulkStallPostCSW")
    \/ BulkDeviceResetDevice(left) /\ UNCHANGED stalledPipe

ClearBulkStall(left) ==
    /\ Transfer(left, "in", IF currentState = "ClearBulkStall"
                            THEN "StatusReceived" ELSE "StatusReceived2ndTime")
    /\ UNCHANGED stalledPipe

(* The wrapper says that the command passed or failed, or has a wrong tag or *)
(* an unknown status; or it reports a phase error.                           *)
GoodStatus(left) ==
    \/ Fails(left) /\ UNCHANGED currentState
    \/ BulkDeviceResetDevice(left)

StatusReceived(left, status) ==
    CASE status = "ok" -> GoodStatus(left) /\ UNCHANGED stalledPipe
      [] status = "stall" ->
           /\ Transfer(left, "control", "CheckBulkStallPostCSW")
           /\ stalledPipe' = IF inUse' THEN "in" ELSE stalledPipe
      [] OTHER ->
           /\ \/ /\ Post(left, "in", request, "StatusReceived2ndTime")
                 /\ currentState' = "StatusReceived2ndTime"
                 /\ UNCHANGED <<taskVars, helpers, resetVars>>
              \/ BulkDeviceResetDevice(left)
           /\ UNCHANGED stalledPipe

StatusReceived2ndTime(left, status) ==
    /\ IF status = "ok" THEN GoodStatus(left) ELSE BulkDeviceResetDevice(left)
    /\ UNCHANGED stalledPipe

ResetCompleted(left, status) ==
    IF status = "ok"
    THEN ClearFeatureEndpointStall(left, "in", "ClearBulkInCompleted")
    ELSE DeviceReset(left) /\ UNCHANGED stalledPipe

ClearBulkInCompleted(left) ==
    ClearFeatureEndpointStall(left, "out", "ClearBulkOutCompleted")

(* Bug: the recovery ends without giving the command back.                   *)
ClearBulkOutForgets(left) ==
    /\ pending' = left
    /\ UNCHANGED <<taskVars, currentState, stalledPipe, helpers, resetVars>>

ClearBulkOutCompleted(left) ==
    /\ AbortCurrentSCSITask(left)
    /\ UNCHANGED <<currentState, stalledPipe, helpers, resetVars>>

NextState(left, status) ==
    \/ currentState = "CommandSent" /\ CommandSent(left, status)
    \/ currentState = "CheckCBWBulkStall" /\ CheckCBWBulkStall(left)
    \/ currentState \in {"ClearCBWBulkStall", "none"} /\ ClearCBWBulkStall(left)
    \/ currentState = "BulkIOComplete" /\ BulkIOComplete(left, status)
    \/ /\ currentState \in {"CheckBulkStall", "CheckBulkStallPostCSW"}
       /\ CheckBulkStall(left)
    \/ /\ currentState \in {"ClearBulkStall", "ClearBulkStallPostCSW"}
       /\ ClearBulkStall(left)
    \/ currentState = "StatusReceived" /\ StatusReceived(left, status)
    \/ currentState = "StatusReceived2ndTime"
       /\ StatusReceived2ndTime(left, status)
    \/ currentState = "ResetCompleted" /\ ResetCompleted(left, status)
    \/ currentState = "ClearBulkInCompleted" /\ ClearBulkInCompleted(left)
    \/ currentState = "ClearBulkOutCompleted" /\ ClearBulkOutCompleted(left)

DoubleCallback == request = NoTask \/ ~inUse

(* The controller completes the oldest transfer of a pipe.                   *)
ExecuteCommandCompletion(p, status) ==
    /\ pending[p] # <<>>
    /\ UNCHANGED <<deviceVars, threadVars>>
    /\ LET left == [pending EXCEPT ![p] = Tail(@)] IN
       \/ /\ DoubleCallback
          /\ pending' = left
          /\ UNCHANGED <<taskVars, currentState, stalledPipe, helpers, resetVars>>
       \/ /\ ~DoubleCallback
          /\ ~interface \/ terminating
          /\ Fails(left)
          /\ UNCHANGED <<currentState, stalledPipe>>
       \/ /\ ~DoubleCallback
          /\ interface /\ ~terminating
          /\ status = "gone"
          /\ DeviceReset(left)
          /\ UNCHANGED stalledPipe
       \/ /\ ~DoubleCallback
          /\ interface /\ ~terminating
          /\ status # "gone"
          /\ NextState(left, status)

(* An abort of a pipe completes what the pipe has, before it returns.        *)
Abort(p) == ExecuteCommandCompletion(p, "gone")

-----------------------------------------------------------------------------
(* SendSCSICommand, in the client's thread.  A task that is not accepted is  *)
(* tried again by the SCSI layer.                                            *)

Spent == Cardinality({t \in Tasks : sender[t] # "idle"}) + resumes

At(t, from, to) == sender[t] = from /\ sender' = [sender EXCEPT ![t] = to]

AcceptSCSITask(t) ==
    /\ Spent < Events
    /\ ~inUse
    /\ At(t, "idle", "accepted")
    /\ inUse' = TRUE
    /\ UNCHANGED <<request, currentState, stalledPipe, resetCount, attached,
                   terminating, deferred, completed, deviceVars, pending,
                   resetVars, helpers, waiter, termination, resumes>>

(* The test of isInactive, and the request block of the new command.         *)
BuildRequest(t) ==
    /\ IF inactive
       THEN At(t, "accepted", "failed") /\ UNCHANGED <<request, currentState>>
       ELSE At(t, "accepted", "built") /\ request' = t /\ currentState' = "none"
    /\ UNCHANGED <<inUse, stalledPipe, resetCount, attached, terminating,
                   deferred, completed, deviceVars, pending, resetVars, helpers,
                   waiter, termination, resumes>>

(* Bug: a stall is reported as an error although the recovery has begun.     *)
SendCBWTwice(t) ==
    /\ \/ /\ At(t, "built", "done")
          /\ Post(pending, "out", t, "CommandSent")
          /\ currentState' = "CommandSent"
       \/ /\ At(t, "built", "failed")
          /\ Post(pending, "control", t, "CheckCBWBulkStall")
          /\ currentState' = "CheckCBWBulkStall"
    /\ UNCHANGED <<taskVars, stalledPipe, deviceVars, resetVars, helpers, waiter,
                   termination, resumes>>

(* The write is accepted, or fails, or finds a stalled pipe, whose state is  *)
(* then asked for over the control pipe.                                     *)
BulkOnlySendCBWPacket(t) ==
    /\ \/ /\ At(t, "built", "done")
          /\ Post(pending, "out", t, "CommandSent")
          /\ currentState' = "CommandSent"
       \/ /\ At(t, "built", "failed")
          /\ currentState' \in {"CommandSent", "CheckCBWBulkStall"}
          /\ UNCHANGED pending
       \/ /\ At(t, "built", "done")
          /\ ~terminating
          /\ Post(pending, "control", t, "CheckCBWBulkStall")
          /\ currentState' = "CheckCBWBulkStall"
    /\ UNCHANGED <<taskVars, stalledPipe, deviceVars, resetVars, helpers, waiter,
                   termination, resumes>>

(* Bug: a termination is not told of a command that could not be sent.       *)
GatedCompleteForgets(t) ==
    /\ At(t, "failed", "done")
    /\ inUse' = FALSE
    /\ resetCount' = 0
    /\ CommandCompleted(t)
    /\ UNCHANGED <<request, currentState, stalledPipe, attached, terminating,
                   deferred, deviceVars, pending, resetVars, helpers, waiter,
                   termination, resumes>>

GatedCompleteSCSICommand(t) ==
    /\ At(t, "failed", "done")
    /\ inUse' = FALSE
    /\ resetCount' = 0
    /\ CommandCompleted(t)
    /\ CheckDeferredTermination
    /\ UNCHANGED <<request, currentState, stalledPipe, attached, terminating,
                   deviceVars, pending, resetVars, helpers, waiter, termination,
                   resumes>>

-----------------------------------------------------------------------------
(* ClearPipeStall, the thread that clears a stalled pipe and then sends the  *)
(* request whose completion carries the command on.                          *)

HelperFrame == UNCHANGED <<taskVars, currentState, stalledPipe, deviceVars,
                           resetInProgress, blockOnReset, resetters, threadVars>>

ClearStart ==
    /\ helpers["start"] > 0
    /\ IF terminating
       THEN helpers' = Ends(helpers, "start") /\ Loses
       ELSE /\ helpers' = Moves(helpers, "start",
                    IF stalledPipe = "in" THEN "clearIn" ELSE "clearOut")
            /\ UNCHANGED lost
    /\ UNCHANGED pending
    /\ HelperFrame

ClearPipe(pc, p) ==
    /\ helpers[pc] > 0
    /\ \/ Abort(p)
       \/ /\ pending[p] = <<>>
          /\ helpers' = Moves(helpers, pc, "request")
          /\ UNCHANGED <<pending, lost>>
          /\ HelperFrame
       \/ /\ helpers' = Ends(helpers, pc)
          /\ Loses
          /\ UNCHANGED pending
          /\ HelperFrame

ClearRequest ==
    /\ helpers["request"] > 0
    /\ helpers' = Ends(helpers, "request")
    /\ \/ /\ interface
          /\ Post(pending, "control", request, currentState)
          /\ UNCHANGED lost
       \/ Loses /\ UNCHANGED pending
    /\ HelperFrame

ClearPipeStall ==
    ClearStart \/ ClearPipe("clearIn", "in") \/ ClearPipe("clearOut", "out")
    \/ ClearRequest

-----------------------------------------------------------------------------
(* sResetDevice, on a thread of its own.                                     *)

ResetterFrame == UNCHANGED <<currentState, stalledPipe, interface, helpers, sender,
                             lost, resumes>>

ResetCheck ==
    /\ resetters["check"] > 0
    /\ \E to \in IF terminating \/ inactive \/ ~interface
                 THEN {"detach"} ELSE {"reset", "detach"} :
           resetters' = Moves(resetters, "check", to)
    /\ ResetterFrame
    /\ UNCHANGED <<taskVars, inactive, resettingDevice, resetInProgress,
                   blockOnReset, pending, waiter, termination>>

(* ResetDevice of the IOUSBDevice refuses a second reset while one is under  *)
(* way.  It aborts the control pipe before the port is reset.                *)
ResetDevice ==
    /\ resetters["reset"] > 0
    /\ IF inactive \/ resettingDevice
       THEN /\ resetters' = Moves(resetters, "reset", "detach")
            /\ UNCHANGED resettingDevice
       ELSE /\ resetters' = Moves(resetters, "reset", "resetting")
            /\ resettingDevice' = TRUE
    /\ ResetterFrame
    /\ UNCHANGED <<taskVars, inactive, resetInProgress, blockOnReset, pending,
                   waiter, termination>>

ResetPort ==
    /\ resetters["resetting"] > 0
    /\ \/ Abort("control")
       \/ /\ pending["control"] = <<>>
          /\ \E to \in {"toggleIn", "detach"} :
                 resetters' = Moves(resetters, "resetting", to)
          /\ resettingDevice' = FALSE
          /\ ResetterFrame
          /\ UNCHANGED <<taskVars, inactive, resetInProgress, blockOnReset,
                         pending, waiter, termination>>

(* The host's data toggles are reset, and the device is given time.          *)
ResetToggle(pc, p, to) ==
    /\ resetters[pc] > 0
    /\ \/ Abort(p)
       \/ /\ pending[p] = <<>>
          /\ resetters' = Moves(resetters, pc, to)
          /\ ResetterFrame
          /\ UNCHANGED <<taskVars, inactive, resettingDevice, resetInProgress,
                         blockOnReset, pending, waiter, termination>>

ResetFailed ==
    /\ resetters["detach"] > 0
    /\ resetters' = Moves(resetters, "detach", "abort")
    /\ attached' = FALSE
    /\ ResetterFrame
    /\ UNCHANGED <<inUse, request, resetCount, terminating, deferred, completed,
                   inactive, resettingDevice, resetInProgress, blockOnReset,
                   pending, waiter, termination>>

(* Bug: the command that was under way is not given back after the reset.    *)
ResetAbortForgets ==
    /\ resetters["abort"] > 0
    /\ resetters' = Moves(resetters, "abort", "finish")
    /\ ResetterFrame
    /\ UNCHANGED <<taskVars, inactive, resettingDevice, resetInProgress,
                   blockOnReset, pending, waiter, termination>>

ResetAbort ==
    /\ resetters["abort"] > 0
    /\ resetters' = Moves(resetters, "abort", "finish")
    /\ AbortCurrentSCSITask(pending)
    /\ ResetterFrame
    /\ UNCHANGED <<inactive, resettingDevice, resetInProgress, blockOnReset,
                   waiter, termination>>

(* commandWakeup reaches a thread that already sleeps, and no other.         *)
ResetFinish ==
    /\ resetters["finish"] > 0
    /\ resetters' = Ends(resetters, "finish")
    /\ resetInProgress' = FALSE
    /\ waiter' = IF ~blockOnReset /\ waiter = "asleep" THEN "test" ELSE waiter
    /\ inactive' = (inactive \/ ~attached)
    /\ termination' = IF ~attached /\ termination = "none" THEN "terminate"
                                                           ELSE termination
    /\ ResetterFrame
    /\ UNCHANGED <<taskVars, resettingDevice, blockOnReset, pending>>

sResetDevice ==
    \/ ResetCheck \/ ResetDevice \/ ResetPort
    \/ ResetToggle("toggleIn", "in", "toggleOut")
    \/ ResetToggle("toggleOut", "out", "abort")
    \/ ResetFailed \/ ResetAbort \/ ResetFinish

-----------------------------------------------------------------------------
(* A resume of the port makes another thread reset the device and wait.      *)

PortHasBeenResumed ==
    /\ resumes < Resumes /\ Spent < Events
    /\ waiter = "idle"
    /\ resumes' = resumes + 1
    /\ ResetDeviceNow(pending, TRUE)
    /\ waiter' = IF resetters' # resetters THEN "test" ELSE "idle"
    /\ UNCHANGED <<currentState, stalledPipe, deviceVars, helpers, sender,
                   termination>>

(* GatedWaitForReset: the test, and the sleep until a wakeup.                *)
GatedWaitForReset ==
    /\ \/ waiter = "test" /\ waiter' = IF resetInProgress THEN "sleep" ELSE "idle"
       \/ waiter = "sleep" /\ waiter' = "asleep"
    /\ UNCHANGED <<taskVars, currentState, stalledPipe, deviceVars, pending, helpers,
                   resetVars, sender, termination, resumes>>

-----------------------------------------------------------------------------
(* The termination: by the hub, when the device is gone, or by the driver.   *)

TerminationFrame == UNCHANGED <<inUse, request, currentState, stalledPipe,
    resetCount, attached, completed, resettingDevice, pending, helpers, resetVars,
    sender, waiter, resumes>>

Terminate ==
    /\ termination = "none"
    /\ termination' = "terminate"
    /\ inactive' = TRUE
    /\ TerminationFrame
    /\ UNCHANGED <<terminating, deferred, interface>>

WillTerminate ==
    /\ termination = "terminate"
    /\ termination' = "willTerminate"
    /\ terminating' = TRUE
    /\ TerminationFrame
    /\ UNCHANGED <<deferred, inactive, interface>>

(* Bug: the interface is closed whether or not a command is outstanding.     *)
DidTerminateAtOnce ==
    /\ termination = "willTerminate"
    /\ \/ Abort("in") \/ Abort("out")
       \/ /\ pending["in"] = <<>> /\ pending["out"] = <<>>
          /\ termination' = "closed"
          /\ interface' = FALSE
          /\ TerminationFrame
          /\ UNCHANGED <<terminating, deferred, inactive>>

DidTerminate ==
    /\ termination = "willTerminate"
    /\ \/ Abort("in") \/ Abort("out")
       \/ /\ pending["in"] = <<>> /\ pending["out"] = <<>>
          /\ deferred' = inUse
          /\ termination' = IF inUse THEN "sleeping" ELSE "closed"
          /\ interface' = inUse
          /\ TerminationFrame
          /\ UNCHANGED <<terminating, inactive>>

CloseProvider ==
    /\ termination = "sleeping" /\ ~deferred
    /\ termination' = "closed"
    /\ interface' = FALSE
    /\ TerminationFrame
    /\ UNCHANGED <<terminating, deferred, inactive>>

-----------------------------------------------------------------------------
SendSCSICommand(t) ==
    AcceptSCSITask(t) \/ BuildRequest(t) \/ BulkOnlySendCBWPacket(t)
    \/ GatedCompleteSCSICommand(t)

Completion(p) == \E status \in Statuses : ExecuteCommandCompletion(p, status)

Next ==
    \/ \E t \in Tasks : SendSCSICommand(t)
    \/ \E p \in Pipes : Completion(p)
    \/ ClearPipeStall
    \/ sResetDevice
    \/ PortHasBeenResumed
    \/ GatedWaitForReset
    \/ Terminate \/ WillTerminate \/ DidTerminate \/ CloseProvider

(* Every thread runs on, and every transfer comes back: the controller gives *)
(* it a time-out.  Nothing makes a device go away or a port resume.          *)
Fairness ==
    /\ \A t \in Tasks :
           WF_vars(BuildRequest(t) \/ BulkOnlySendCBWPacket(t)
                   \/ GatedCompleteSCSICommand(t))
    /\ \A p \in Pipes : WF_vars(Completion(p))
    /\ WF_vars(ClearPipeStall)
    /\ WF_vars(sResetDevice)
    /\ WF_vars(GatedWaitForReset)
    /\ WF_vars(WillTerminate) /\ WF_vars(DidTerminate) /\ WF_vars(CloseProvider)

Spec == Init /\ [][Next]_vars /\ Fairness

-----------------------------------------------------------------------------
(* Who can still carry the command on: its sender, the controller, a helper, *)
(* or a reset thread that has not aborted the task yet.                      *)
Senders      == {t \in Tasks : sender[t] \notin {"idle", "done"}}
InFlight(f)  == Len(f["in"]) + Len(f["out"]) + Len(f["control"])
Helping(f)   == f["start"] + f["clearIn"] + f["clearOut"] + f["request"]
Resetting(f) == f["check"] + f["reset"] + f["resetting"] + f["toggleIn"]
                + f["toggleOut"] + f["detach"] + f["abort"]

Agents == Cardinality(Senders) + InFlight(pending) + Helping(helpers)
          + Resetting(resetters)

(* A command in use has exactly one agent that carries it on, whatever fails *)
(* on the way, and a driver without a command has none: no state forgets to  *)
(* start the next transfer, and none starts two.  The exception is an agent  *)
(* that gave up (ClearPipeStall, a reset thread that could not be started).  *)
(* A resume of the port adds a reset that no command asked for.              *)
OneInCharge ==
    resumes = 0 =>
        IF inUse THEN Agents = (IF request \in lost THEN 0 ELSE 1)
                 ELSE Agents = 0

(* A completion is for the task in the request block and for the state that  *)
(* the block is in: the completion of one step is never taken for another's. *)
InStep ==
    resumes = 0 =>
        \A p \in Pipes : \A i \in DOMAIN pending[p] :
            pending[p][i] = [task |-> request, state |-> currentState]

(* A task is given back to the SCSI layer at most once, by whichever of the  *)
(* completion, the sender, the abort and the reset is the one to end it.     *)
CompletedOnce == resumes = 0 => \A t \in Tasks : completed[t] <= 1

(* A termination waits only while there is a command whose end wakes it.     *)
WaitIsForATask == deferred => inUse

(* When the interface is closed no transfer is outstanding, no command is    *)
(* about to be sent and no thread is left that uses the interface's pipes.   *)
ClosedIsQuiet ==
    resumes = 0 /\ ~interface =>
        /\ \A t \in Tasks : sender[t] # "built"
        /\ pending = [p \in Pipes |-> <<>>]
        /\ Helping(helpers) = 0
        /\ Resetting(resetters) = 0

(* Every task that was accepted is given back, through every recovery,       *)
(* unless the thread that carried it gave up.                                *)
EveryTaskEnds ==
    \A t \in Tasks :
        sender[t] = "accepted" ~> completed[t] > 0 \/ t \in lost

(* A termination comes to its end, unless a thread gave up with a command.   *)
TerminationEnds ==
    termination = "terminate" ~> termination = "closed" \/ lost # {}

(* "If we have a SCSI task outstanding, we will block here until it          *)
(* completes", says didTerminate: it does complete.  It does not when the    *)
(* thread in ClearPipeStall finds fTerminating set and exits.                *)
NeverStuck == termination = "sleeping" ~> termination = "closed"
=============================================================================
