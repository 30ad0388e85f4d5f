---------------------------- MODULE DevZeroLock ----------------------------
(* The device zero lock of IOUSBController: a flag that is only read and     *)
(* written inside the controller's command gate, on which callers sleep with *)
(* commandSleep and from which one of them is woken with commandWakeup.  The *)
(* operators are the gated steps; DevZeroUsers and HubPort use them.         *)

EXTENDS Naturals, FiniteSets

CONSTANTS
    Threads,        \* the kernel threads that call into the controller
    MaxExpired      \* bound: how many commandSleep calls end without a wakeup

ASSUME ThreadsAssumption == IsFiniteSet(Threads)
ASSUME MaxExpiredAssumption == MaxExpired \in Nat

VARIABLES
    devZeroLock,    \* _devZeroLock
    endpointZero,   \* an endpoint for address 0 is open in the controller
    caller,         \* where each thread is in ProtectedDevZeroLock
    expired         \* sleeps that ended by deadline, interruption or restart

lockVars == <<devZeroLock, endpointZero, caller, expired>>

LockTypeOK ==
    /\ devZeroLock \in BOOLEAN
    /\ endpointZero \in BOOLEAN
    /\ caller \in [Threads -> {"out", "in", "asleep"}]
    /\ expired \in 0..MaxExpired

LockInit ==
    /\ devZeroLock = FALSE
    /\ endpointZero = FALSE
    /\ caller = [t \in Threads |-> "out"]
    /\ expired = 0

Sleepers == {t \in Threads : caller[t] = "asleep"}
Runners  == {t \in Threads : caller[t] = "in"}

(* The thread asks for the lock: runAction(ProtectedDevZeroLock, true).      *)
EnterGate(t) ==
    /\ caller[t] = "out"
    /\ caller' = [caller EXCEPT ![t] = "in"]
    /\ UNCHANGED <<devZeroLock, endpointZero, expired>>

(* The operators whose comment begins with "Bug" are no part of the model:   *)
(* each is the one that follows it with a plausible mistake.                 *)

(* Bug: the flag is set without another look after a wakeup.                 *)
TakeLockBlind(t) ==
    /\ caller[t] = "in"
    /\ devZeroLock' = TRUE
    /\ caller' = [caller EXCEPT ![t] = "out"]
    /\ UNCHANGED <<endpointZero, expired>>

(* It finds the flag clear, now or after a wakeup, and sets it.              *)
TakeLock(t) ==
    /\ caller[t] = "in"
    /\ ~devZeroLock
    /\ devZeroLock' = TRUE
    /\ caller' = [caller EXCEPT ![t] = "out"]
    /\ UNCHANGED <<endpointZero, expired>>

(* Bug: it sleeps before it looks at the flag.                               *)
SleepFirst(t) ==
    /\ caller[t] = "in"
    /\ caller' = [caller EXCEPT ![t] = "asleep"]
    /\ UNCHANGED <<devZeroLock, endpointZero, expired>>

(* It finds the flag set and gives the gate up in commandSleep.              *)
SleepInGate(t) ==
    /\ caller[t] = "in"
    /\ devZeroLock
    /\ caller' = [caller EXCEPT ![t] = "asleep"]
    /\ UNCHANGED <<devZeroLock, endpointZero, expired>>

(* commandSleep returns without a wakeup (the 30 second deadline, an abort). *)
(* A clear flag is taken all the same; a set one is left as it is and        *)
(* kIOReturnNotPermitted is returned, which AcquireDeviceZero drops: its own *)
(* err stays 0, so the caller goes on as if it had the lock.                 *)
SleepExpires(t) ==
    /\ caller[t] = "asleep"
    /\ expired < MaxExpired
    /\ expired' = expired + 1
    /\ devZeroLock' = TRUE
    /\ caller' = [caller EXCEPT ![t] = "out"]
    /\ UNCHANGED endpointZero

(* Bug: nobody is woken.                                                     *)
WakeNobody == UNCHANGED caller

(* commandWakeup(&_devZeroLock, true): one sleeper, if there is one, runs.   *)
WakeOne ==
    \/ /\ Sleepers = {}
       /\ UNCHANGED caller
    \/ \E s \in Sleepers : caller' = [caller EXCEPT ![s] = "in"]

(* runAction(ProtectedDevZeroLock, false): the flag is cleared whoever set   *)
(* it.                                                                       *)
ClearLock ==
    /\ devZeroLock' = FALSE
    /\ WakeOne

(* ReleaseDeviceZero: DoDeleteEP for address 0, then the flag.               *)
ReleaseLock ==
    /\ endpointZero' = FALSE
    /\ ClearLock
    /\ UNCHANGED expired

(* The second half of WaitForReleaseDeviceZero, which leaves the endpoint.   *)
PassLock ==
    /\ ClearLock
    /\ UNCHANGED <<endpointZero, expired>>

(* ConfigureDeviceZero: OpenPipe for endpoint 0 of address 0.                *)
OpenPipeZero ==
    /\ endpointZero' = TRUE
    /\ UNCHANGED <<devZeroLock, caller, expired>>

(* A wakeup is never lost: while the flag is clear and callers sleep, one    *)
(* that is awake is about to take the flag, although a release wakes only    *)
(* one and callers that never slept can overtake it.                         *)
NoLostWakeup == ~devZeroLock /\ Sleepers # {} => Runners # {}
=============================================================================
