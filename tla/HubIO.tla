------------------------------- MODULE HubIO -------------------------------
(* How AppleUSBHub counts the work that is under way (_outstandingIO), and   *)
(* what the last one out does: it starts the next read of the interrupt      *)
(* pipe, or closes a terminated hub.  Every thread ends in                   *)
(* DecrementOutstandingIO, whose count is changed in the command gate and    *)
(* whose decisions are taken outside of it.                                  *)
(*                                                                           *)
(* Left out: the recovery of a dead hub and of a halted pipe, the hub's own  *)
(* status change, EnsureUsability and the thread that looks for active ports *)
(* (the power may change at any time instead), the states below low power,   *)
(* and the expiry of the 30 s waits.                                         *)

EXTENDS Naturals, Sequences, FiniteSets, Functions

CONSTANTS
    Ports,      \* a port, and its status change thread
    Inits,      \* the PortInit threads of the ports
    Callers,    \* threads in DoPortAction
    Limit,      \* bound: how often each kind of event happens
    Total       \* bound: how many events happen

Events == {"report",    \* a read ends with a status change
           "error",     \* a read ends with an error
           "fault",     \* the controller refuses a read
           "action",    \* a driver asks for a port action
           "power",     \* the power is taken away for a while
           "end"}       \* the hub is terminated

Threads == {"loop", "work", "power", "end"} \cup Ports \cup Inits \cup Callers

ASSUME LimitAssumption == Limit \in [Events -> Nat] /\ Total \in Nat
ASSUME ThreadsAssumption ==
    /\ IsFiniteSet(Ports) /\ IsFiniteSet(Inits) /\ IsFiniteSet(Callers)
    /\ Ports \cap Inits = {} /\ Ports \cap Callers = {} /\ Inits \cap Callers = {}
    /\ {"loop", "work", "power", "end"} \cap (Ports \cup Inits \cup Callers) = {}

VARIABLES
    outstandingIO,          \* _outstandingIO
    needInterruptRead,      \* _needInterruptRead
    interruptReadPending,   \* _interruptReadPending
    reads,                  \* reads the controller has
    aborting,               \* Abort was called and has not returned
    abortExpected,          \* _abortExpected
    myPowerState,           \* _myPowerState, "on" or "low"
    changingTo,             \* _powerStateChangingTo
    ports,                  \* _ports is not NULL
    inactive,               \* isInactive()
    needToClose,            \* _needToClose
    doPortActionLock,       \* _doPortActionLock
    closes,                 \* calls of _device->close
    initActive,             \* _initThreadActive of each port
    calls,                  \* thread calls that are entered and do not run yet
    pc, stack, count,       \* where each thread is, where it returns to, and
                            \* what its last decrement returned
    todo,                   \* ports the worker has still to look at
    spent,                  \* events so far
    disturbed, late         \* history: see Listening and ClosedInTheEnd

readVars  == <<needInterruptRead, interruptReadPending, reads, aborting,
               abortExpected>>
powerVars == <<myPowerState, changingTo>>
endVars   == <<ports, inactive, needToClose, closes, late>>
vars == <<outstandingIO, readVars, powerVars, endVars, doPortActionLock,
          initActive, calls, pc, stack, count, todo, spent, disturbed>>

Pcs == {"idle", "queued", "run", "decrement", "tail", "close", "clearNeed",
        "rearm", "armed", "claim", "read", "lost", "start", "master", "each",
        "wait", "locked", "unlock", "quiesce", "set", "did", "done", "abort",
        "test", "closeNow", "note", "gone"}

TypeOK ==
    /\ outstandingIO \in Nat /\ reads \in Nat /\ closes \in Nat
    /\ {needInterruptRead, interruptReadPending, aborting, abortExpected,
        ports, inactive, needToClose, doPortActionLock, disturbed, late}
            \subseteq BOOLEAN
    /\ myPowerState \in {"low", "on"}
    /\ changingTo \in {"stable", "low", "on"}
    /\ initActive \in [Inits -> BOOLEAN]
    /\ calls \subseteq Ports \cup {"work"}
    /\ pc \in [Threads -> Pcs]
    /\ stack \in [Threads -> Seq(Pcs)]
    /\ count \in [Threads -> Nat]
    /\ todo \subseteq Ports
    /\ spent \in [Events -> Nat]

Init ==
    /\ outstandingIO = Cardinality(Inits)
    /\ needInterruptRead = TRUE /\ interruptReadPending = FALSE
    /\ reads = 0 /\ aborting = FALSE /\ abortExpected = FALSE
    /\ myPowerState = "on" /\ changingTo = "stable"
    /\ ports = TRUE /\ inactive = FALSE /\ needToClose = FALSE /\ closes = 0
    /\ doPortActionLock = FALSE
    /\ initActive = [i \in Inits |-> FALSE]
    /\ calls = {}
    /\ pc = [t \in Threads |-> IF t \in Inits THEN "queued" ELSE "idle"]
    /\ stack = [t \in Threads |-> <<>>]
    /\ count = [t \in Threads |-> 0]
    /\ todo = {}
    /\ spent = [e \in Events |-> 0]
    /\ disturbed = FALSE /\ late = FALSE

Spend(e) == /\ spent[e] < Limit[e] /\ FoldFunction(+, 0, spent) < Total
            /\ spent' = [spent EXCEPT ![e] = @ + 1]

At(t, l) == pc[t] = l
Jump(t, l) == pc' = [pc EXCEPT ![t] = l] /\ UNCHANGED stack
Go(t, l)   == Jump(t, l) /\ UNCHANGED count

(* Calls of DecrementOutstandingIO, one after the other, and then on at l.   *)
Decrements(t, n, l) ==
    /\ pc' = [pc EXCEPT ![t] = "decrement"]
    /\ stack' = [stack EXCEPT ![t] =
                    [i \in 1..n - 1 |-> "decrement"] \o <<l>> \o @]
    /\ UNCHANGED count

Pop(t) == /\ pc' = [pc EXCEPT ![t] = Head(stack[t])]
          /\ stack' = [stack EXCEPT ![t] = Tail(@)]
Return(t) == Pop(t) /\ UNCHANGED count

(* The completion of a read runs in the gate from its first to its last step.*)
Gate(t) == t = "loop" \/ pc["loop"] = "idle"

IncrementOutstandingIO(t) == /\ Gate(t)
                             /\ outstandingIO' = outstandingIO + 1

(* Abort, which returns when the reads have been completed.                  *)
Abort   == aborting' = (reads > 0)
Aborted == ~aborting

-----------------------------------------------------------------------------
(* DecrementOutstandingIO and RearmInterruptRead.                            *)

DecrementOutstandingIO(t) ==
    /\ At(t, "decrement") /\ Gate(t)
    /\ outstandingIO' = outstandingIO - 1
    /\ count' = [count EXCEPT ![t] = outstandingIO - 1]
    /\ pc' = [pc EXCEPT ![t] = "tail"]
    /\ UNCHANGED <<readVars, powerVars, endVars, doPortActionLock, initActive,
                   calls, stack, todo, spent, disturbed>>

PortInitActive == ports /\ \E i \in Inits : initActive[i]

MayClose(t) == needToClose /\ count[t] = 0 /\ ~doPortActionLock
                           /\ myPowerState = "on"

(* The work is done, all but a read that is pending.                         *)
AllDone(t) == \/ count[t] = 0
              \/ count[t] = 1 /\ interruptReadPending

MayRearm(t) == /\ myPowerState = "on" /\ needInterruptRead
               /\ PortInitActive \/ (~needToClose /\ AllDone(t) /\ ~inactive)

LastOneOut(t) ==
    /\ At(t, "tail")
    /\ \/ ~PortInitActive /\ MayClose(t) /\ Jump(t, "close")
       \/ MayRearm(t) /\ Jump(t, "clearNeed")
       \/ (PortInitActive \/ ~MayClose(t)) /\ ~MayRearm(t) /\ Pop(t)
    /\ count' = [count EXCEPT ![t] = 0]
    /\ UNCHANGED <<outstandingIO, readVars, powerVars, endVars, doPortActionLock,
                   initActive, calls, todo, spent, disturbed>>

(* StopPorts and _device->close.                                             *)
CloseDevice ==
    /\ needInterruptRead' = FALSE
    /\ abortExpected' = TRUE
    /\ Abort
    /\ ports' = FALSE
    /\ closes' = closes + 1

CloseHub(t) ==
    /\ At(t, "close")
    /\ needToClose' = FALSE
    /\ CloseDevice
    /\ Return(t)
    /\ UNCHANGED <<outstandingIO, interruptReadPending, reads, powerVars, inactive,
                   late, doPortActionLock, initActive, calls, todo, spent,
                   disturbed>>

ClearNeed(t) ==
    /\ At(t, "clearNeed")
    /\ needInterruptRead' = FALSE
    /\ Go(t, "rearm")
    /\ UNCHANGED <<outstandingIO, interruptReadPending, reads, aborting,
                   abortExpected, powerVars, endVars, doPortActionLock, initActive,
                   calls, todo, spent, disturbed>>

(* The compare-and-swap of the pending flag.                                 *)
RearmInterruptRead(t) ==
    /\ At(t, "rearm")
    /\ interruptReadPending' = TRUE
    /\ Go(t, IF interruptReadPending THEN "lost" ELSE "armed")
    /\ UNCHANGED <<outstandingIO, needInterruptRead, reads, aborting,
                   abortExpected, powerVars, endVars, doPortActionLock, initActive,
                   calls, todo, spent, disturbed>>

(* Err is set: the flag is cleared, be it this thread's or another one's.    *)
RearmFailed(t) ==
    /\ At(t, "lost")
    /\ interruptReadPending' = FALSE
    /\ Return(t)
    /\ UNCHANGED <<outstandingIO, needInterruptRead, reads, aborting,
                   abortExpected, powerVars, endVars, doPortActionLock, initActive,
                   calls, todo, spent, disturbed>>

(* "Only read if we are in ON state": else the flag stays set without a read.*)
CheckPower(t) ==
    /\ At(t, "armed")
    /\ IF myPowerState = "on"
       THEN Go(t, "claim") /\ UNCHANGED <<needInterruptRead, disturbed>>
       ELSE /\ needInterruptRead' = TRUE
            /\ disturbed' = TRUE
            /\ Return(t)
    /\ UNCHANGED <<outstandingIO, interruptReadPending, reads, aborting,
                   abortExpected, powerVars, endVars, doPortActionLock, initActive,
                   calls, todo, spent>>

ClaimRead(t) ==
    /\ At(t, "claim")
    /\ IncrementOutstandingIO(t)
    /\ Go(t, IF inactive \/ ~ports THEN "decrement" ELSE "read")
    /\ UNCHANGED <<readVars, powerVars, endVars, doPortActionLock, initActive,
                   calls, todo, spent, disturbed>>

(* _interruptPipe->Read.                                                     *)
StartRead(t) ==
    /\ At(t, "read") /\ Gate(t)
    /\ \/ /\ reads' = reads + 1
          /\ Return(t) /\ UNCHANGED <<spent, disturbed>>
       \/ /\ Spend("fault")
          /\ Decrements(t, 1, "lost")
          /\ disturbed' = TRUE /\ UNCHANGED reads
    /\ UNCHANGED <<outstandingIO, needInterruptRead, interruptReadPending,
                   aborting, abortExpected, powerVars, endVars, doPortActionLock,
                   initActive, calls, todo>>

Leaving(t) ==
    \/ DecrementOutstandingIO(t) \/ LastOneOut(t) \/ CloseHub(t) \/ ClearNeed(t)
    \/ RearmInterruptRead(t) \/ RearmFailed(t) \/ CheckPower(t) \/ ClaimRead(t)
    \/ StartRead(t)

-----------------------------------------------------------------------------
(* InterruptReadHandler, on the workloop.                                    *)

(* The operators whose comment begins with "Bug" are no part of the model:   *)
(* each is the one that follows it with a plausible mistake.                 *)

(* Bug: the claim of a worker that waits already is not given back.         *)
HandleReportLeaks ==
    /\ calls' = calls \cup {"work"}
    /\ outstandingIO' = outstandingIO + (IF ports THEN 1 ELSE 0)
    /\ Decrements("loop", 1, "idle")

(* The worker gets a claim and is called, unless it waits to run already:    *)
(* then the claim is given back.                                             *)
HandleReport ==
    \/ /\ ports /\ "work" \notin calls
       /\ calls' = calls \cup {"work"}
       /\ outstandingIO' = outstandingIO + 1
       /\ Decrements("loop", 1, "idle")
    \/ /\ ports /\ "work" \in calls
       /\ outstandingIO' = outstandingIO + 1
       /\ Decrements("loop", 2, "idle") /\ UNCHANGED calls
    \/ /\ ~ports
       /\ Decrements("loop", 1, "idle") /\ UNCHANGED <<calls, outstandingIO>>

InterruptReadHandler ==
    /\ At("loop", "idle") /\ reads > 0
    /\ reads' = reads - 1
    /\ interruptReadPending' = FALSE
    /\ \/ /\ aborting
          /\ aborting' = (reads' > 0)
          /\ needInterruptRead' = (needInterruptRead \/ ~(inactive \/ abortExpected))
          /\ Decrements("loop", 1, "idle")
          /\ UNCHANGED <<spent, calls, outstandingIO>>
       \/ /\ ~aborting /\ Spend("report")
          /\ HandleReport
          /\ UNCHANGED <<needInterruptRead, aborting>>
       \/ /\ ~aborting
          /\ IF inactive THEN UNCHANGED spent ELSE Spend("error")
          /\ needInterruptRead' = (needInterruptRead \/ ~inactive)
          /\ Decrements("loop", 1, "idle")
          /\ UNCHANGED <<calls, outstandingIO, aborting>>
    /\ UNCHANGED <<abortExpected, powerVars, endVars, doPortActionLock, initActive,
                   todo, disturbed>>

-----------------------------------------------------------------------------
(* The worker, the threads of the ports and those in DoPortAction.           *)

unchangedByWork == <<interruptReadPending, reads, aborting, abortExpected,
                     powerVars, endVars, spent, disturbed>>

(* A thread call runs when the last one has ended.                           *)
Called(t) ==
    /\ t \in calls /\ At(t, "idle")
    /\ calls' = calls \ {t}
    /\ Go(t, IF t = "work" THEN "start" ELSE "run")
    /\ UNCHANGED <<outstandingIO, needInterruptRead, doPortActionLock, initActive,
                   todo, unchangedByWork>>

(* ProcessStatusChanged: one claim for the loop over the ports, and one for  *)
(* each port that has a change.                                              *)
ProcessStatusChanged ==
    /\ At("work", "start")
    /\ IF inactive \/ ~ports
       THEN Decrements("work", 1, "idle") /\ UNCHANGED <<needInterruptRead, todo>>
       ELSE /\ needInterruptRead' = TRUE
            /\ todo' \in SUBSET Ports
            /\ Go("work", "master")
    /\ UNCHANGED <<outstandingIO, doPortActionLock, initActive, calls,
                   unchangedByWork>>

MasterClaim ==
    /\ At("work", "master")
    /\ IncrementOutstandingIO("work")
    /\ Go("work", "each")
    /\ UNCHANGED <<needInterruptRead, doPortActionLock, initActive, calls, todo,
                   unchangedByWork>>

StatusChanged(p) ==
    /\ At("work", "each") /\ p \in todo
    /\ todo' = todo \ {p}
    /\ IF ports THEN /\ IncrementOutstandingIO("work")
                     /\ calls' = calls \cup {p}
                     /\ IF p \in calls THEN Decrements("work", 1, "each")
                                       ELSE UNCHANGED <<pc, stack, count>>
       ELSE UNCHANGED <<outstandingIO, calls, pc, stack, count>>
    /\ UNCHANGED <<needInterruptRead, doPortActionLock, initActive,
                   unchangedByWork>>

PortsDone ==
    /\ At("work", "each") /\ todo = {}
    /\ Decrements("work", 2, "idle")
    /\ UNCHANGED <<outstandingIO, needInterruptRead, doPortActionLock, initActive,
                   calls, todo, unchangedByWork>>

(* PortStatusChangedHandlerEntry.                                            *)
PortDone(p) ==
    /\ At(p, "run")
    /\ Decrements(p, 1, "idle")
    /\ UNCHANGED <<outstandingIO, needInterruptRead, doPortActionLock, initActive,
                   calls, todo, unchangedByWork>>

PortInit(i) ==
    /\ \/ At(i, "queued") /\ Go(i, "run")
       \/ At(i, "run") /\ Decrements(i, 1, "gone")
    /\ initActive' = [initActive EXCEPT ![i] = At(i, "queued")]
    /\ UNCHANGED <<outstandingIO, needInterruptRead, doPortActionLock, calls, todo,
                   unchangedByWork>>

(* DoPortAction, which claims before it gives its lock up "to cause a check".*)
DoPortAction(c) ==
    /\ At(c, "idle") /\ Spend("action")
    /\ ~inactive /\ ports /\ myPowerState = "on"
    /\ Go(c, "wait")
    /\ UNCHANGED <<outstandingIO, readVars, powerVars, endVars, doPortActionLock,
                   initActive, calls, todo, disturbed>>

PortAction(c) ==
    /\ \/ /\ At(c, "wait") /\ ~doPortActionLock /\ Gate(c)
          /\ doPortActionLock' = TRUE
          /\ Go(c, "locked") /\ UNCHANGED outstandingIO
       \/ /\ At(c, "locked") /\ IncrementOutstandingIO(c)
          /\ Go(c, "unlock") /\ UNCHANGED doPortActionLock
       \/ /\ At(c, "unlock") /\ Gate(c)
          /\ doPortActionLock' = FALSE
          /\ Decrements(c, 1, "idle") /\ UNCHANGED outstandingIO
    /\ UNCHANGED <<needInterruptRead, initActive, calls, todo, unchangedByWork>>

-----------------------------------------------------------------------------
(* A power change, as IOKit drives it.                                       *)

unchangedByPower == <<interruptReadPending, reads, ports, inactive, needToClose,
                      late, doPortActionLock, initActive, calls, todo, disturbed>>

PowerStateWillChangeTo(s) ==
    /\ At("power", "idle") /\ s # myPowerState /\ ports
    /\ IF s = "on" THEN UNCHANGED spent ELSE Spend("power")
    /\ changingTo' = s
    /\ IF s = "low"
       THEN abortExpected' = TRUE /\ needInterruptRead' = FALSE /\ Abort
       ELSE UNCHANGED <<abortExpected, needInterruptRead, aborting>>
    /\ Go("power", "quiesce")
    /\ UNCHANGED <<outstandingIO, myPowerState, closes, unchangedByPower>>

(* It waits while a thread of a port is marked as active, which it no longer *)
(* is when it gives up its claim.                                            *)
PortsQuiet == ~PortInitActive /\ ~(ports /\ \E p \in Ports : At(p, "run"))

Quiesced ==
    /\ At("power", "quiesce")
    /\ changingTo = "low" => Aborted /\ At("loop", "idle") /\ PortsQuiet
    /\ IncrementOutstandingIO("power")
    /\ Go("power", "set")
    /\ UNCHANGED <<needInterruptRead, aborting, abortExpected, powerVars, closes,
                   spent, unchangedByPower>>

(* Bug: nobody asks for a read when the power is back.                       *)
SetPowerStateForgets ==
    /\ At("power", "set")
    /\ Go("power", "did")
    /\ UNCHANGED <<outstandingIO, needInterruptRead, abortExpected, aborting,
                   powerVars, closes, spent, unchangedByPower>>

(* HubPowerChange, unless the hub is inactive.                               *)
SetPowerState ==
    /\ At("power", "set")
    /\ IF inactive THEN UNCHANGED <<needInterruptRead, abortExpected>>
       ELSE /\ needInterruptRead' = (changingTo = "on")
            /\ abortExpected' = (abortExpected /\ changingTo # "on")
    /\ Go("power", "did")
    /\ UNCHANGED <<outstandingIO, aborting, powerVars, closes, spent,
                   unchangedByPower>>

PowerStateDidChangeTo ==
    /\ At("power", "did")
    /\ myPowerState' = changingTo
    /\ Decrements("power", 1, "done")
    /\ UNCHANGED <<outstandingIO, needInterruptRead, aborting, abortExpected,
                   changingTo, closes, spent, unchangedByPower>>

(* Bug: nobody looks at _needToClose when the power change is done.          *)
NoRecheck == Go("power", "idle") /\ UNCHANGED outstandingIO

(* Bug: a claim is given back that was not taken.                            *)
RecheckUnclaimed ==
    /\ IF inactive /\ needToClose THEN Decrements("power", 1, "idle")
                                  ELSE Go("power", "idle")
    /\ UNCHANGED outstandingIO

(* A second chance to close for a hub that was terminated meanwhile.         *)
Recheck ==
    IF inactive /\ needToClose
    THEN outstandingIO' = outstandingIO + 1 /\ Decrements("power", 1, "idle")
    ELSE Go("power", "idle") /\ UNCHANGED outstandingIO

(* The hub that went inactive may not be told of the new state: then the     *)
(* claim of the power change is still out (_outstandingIOFromPowerChange).   *)
PowerChangeDone ==
    /\ changingTo' = "stable"
    /\ \/ At("power", "done") /\ Gate("power")
          /\ Recheck /\ UNCHANGED myPowerState
       \/ At("power", "did") /\ inactive
          /\ myPowerState' = changingTo
          /\ Decrements("power", 1, "idle") /\ UNCHANGED outstandingIO
    /\ UNCHANGED <<needInterruptRead, aborting, abortExpected, closes, spent,
                   unchangedByPower>>

PowerChange == \/ \E s \in {"low", "on"} : PowerStateWillChangeTo(s)
               \/ Quiesced \/ SetPowerState \/ PowerStateDidChangeTo
               \/ PowerChangeDone

-----------------------------------------------------------------------------
(* The termination of the hub.                                               *)

unchangedByEnd == <<outstandingIO, interruptReadPending, reads, powerVars,
                    doPortActionLock, initActive, calls, todo, disturbed>>

Terminate ==
    /\ At("end", "idle") /\ Spend("end")
    /\ inactive' = TRUE
    /\ Go("end", "abort")
    /\ UNCHANGED <<needInterruptRead, aborting, abortExpected, ports, needToClose,
                   closes, late, unchangedByEnd>>

WillTerminate ==
    /\ At("end", "abort")
    /\ Abort
    /\ Go("end", "test")
    /\ UNCHANGED <<needInterruptRead, abortExpected, ports, inactive, needToClose,
                   closes, late, spent, unchangedByEnd>>

Closable == outstandingIO = 0 /\ changingTo = "stable" /\ ~doPortActionLock

(* It looks at the claims outside of the gate, and notes that somebody else  *)
(* has to close: too late when the last claim is gone by now.                *)
DidTerminate ==
    /\ \/ /\ At("end", "test") /\ Aborted
          /\ Go("end", IF Closable THEN "closeNow" ELSE "note")
          /\ UNCHANGED <<needToClose, late, needInterruptRead, abortExpected,
                         aborting, ports, closes>>
       \/ /\ At("end", "note")
          /\ needToClose' = TRUE
          /\ late' = Closable
          /\ Go("end", "gone")
          /\ UNCHANGED <<needInterruptRead, abortExpected, aborting, ports, closes>>
       \/ /\ At("end", "closeNow")
          /\ CloseDevice
          /\ Go("end", "gone") /\ UNCHANGED <<needToClose, late>>
    /\ UNCHANGED <<inactive, spent, unchangedByEnd>>

-----------------------------------------------------------------------------
Next ==
    \/ \E t \in Threads : Leaving(t) \/ Called(t)
    \/ InterruptReadHandler
    \/ ProcessStatusChanged \/ MasterClaim \/ PortsDone
    \/ \E p \in Ports : StatusChanged(p) \/ PortDone(p)
    \/ \E i \in Inits : PortInit(i)
    \/ \E c \in Callers : DoPortAction(c) \/ PortAction(c)
    \/ PowerChange
    \/ Terminate \/ WillTerminate \/ DidTerminate

Spec == Init /\ [][Next]_vars
-----------------------------------------------------------------------------
(* Nobody is on the way.                                                     *)
Quiet == calls = {} /\ \A t \in Threads : pc[t] \in {"idle", "gone"}

(* Every claim is given back: when nothing is under way, what is counted in  *)
(* _outstandingIO are the reads that the controller has.  A claim that leaks *)
(* keeps the hub from ever being closed, one too few closes it under a       *)
(* thread that still works.                                                  *)
Balanced == Quiet => outstandingIO = reads

(* A hub that is on and still there listens: when nothing is under way, a    *)
(* read waits for the next status change.  A refused read and a read that    *)
(* finds the power gone (history variable disturbed) are left to the         *)
(* recovery, which is not part of the module.                                *)
Listening == Quiet /\ ~inactive /\ myPowerState = "on" /\ ~disturbed => reads > 0

(* A terminated hub is closed in the end, by didTerminate or by the last one *)
(* out, as long as the last one did not leave between the look of            *)
(* didTerminate and its note (history variable late).                        *)
ClosedInTheEnd == Quiet /\ inactive /\ myPowerState = "on" /\ reads = 0 /\ ~late
                    => closes > 0

(* The device is closed once: _needToClose is cleared "so that we don't do   *)
(* this twice".                                                              *)
ClosedOnce == closes <= 1
=============================================================================
