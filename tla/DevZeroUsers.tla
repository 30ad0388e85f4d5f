---------------------------- MODULE DevZeroUsers ----------------------------
(* The device zero lock under callers that follow its protocol: every        *)
(* AcquireDeviceZero is followed by one ReleaseDeviceZero of the same        *)
(* thread, WaitForReleaseDeviceZero is used to let an enumeration end, and   *)
(* the controller may be powered down at any time (IOUSBControllerV3).       *)

EXTENDS DevZeroLock

CONSTANT CanPowerDown    \* whether the controller ever leaves its On state

ASSUME CanPowerDownAssumption == CanPowerDown \in BOOLEAN

VARIABLES
    use,        \* what each thread is doing with the lock
    powered     \* CheckPowerModeBeforeGatedCall returns kIOReturnSuccess

vars == <<lockVars, use, powered>>

Uses == {"none", "acquire", "hold", "configured", "wait", "pass"}

UsersTypeOK ==
    /\ LockTypeOK
    /\ use \in [Threads -> Uses]
    /\ powered \in BOOLEAN

Init ==
    /\ LockInit
    /\ use = [t \in Threads |-> "none"]
    /\ powered = TRUE

(* Those that were told that they have the lock and have not given it back.  *)
Holders == {t \in Threads : use[t] \in {"hold", "configured", "pass"}}

(* IOUSBControllerV3::AcquireDeviceZero: refused when the controller is not  *)
(* On (the call returns an error and the caller has nothing).                *)
AcquireDeviceZero(t) ==
    /\ use[t] = "none"
    /\ powered
    /\ EnterGate(t)
    /\ use' = [use EXCEPT ![t] = "acquire"]
    /\ UNCHANGED powered

WaitForReleaseDeviceZero(t) ==
    /\ use[t] = "none"
    /\ EnterGate(t)
    /\ use' = [use EXCEPT ![t] = "wait"]
    /\ UNCHANGED powered

(* The call for the lock returns to AcquireDeviceZero or to the first half   *)
(* of WaitForReleaseDeviceZero: both go on alike with and without the lock.  *)
Returned(t) ==
    use' = [use EXCEPT ![t] = IF use[t] = "acquire" THEN "hold" ELSE "pass"]

LockTaken(t)   == TakeLock(t) /\ Returned(t) /\ UNCHANGED powered

(* Bug: a busy lock is an error, and nobody looks at the error.              *)
BusyGivesUp(t) ==
    /\ caller[t] = "in"
    /\ devZeroLock
    /\ caller' = [caller EXCEPT ![t] = "out"]
    /\ Returned(t)
    /\ UNCHANGED <<devZeroLock, endpointZero, expired, powered>>

LockBusy(t)    == SleepInGate(t) /\ UNCHANGED <<use, powered>>
LockExpired(t) == SleepExpires(t) /\ Returned(t) /\ UNCHANGED powered

ConfigureDeviceZero(t) ==
    /\ use[t] = "hold"
    /\ OpenPipeZero
    /\ use' = [use EXCEPT ![t] = "configured"]
    /\ UNCHANGED powered

ReleaseDeviceZero(t) ==
    /\ use[t] \in {"hold", "configured"}
    /\ powered
    /\ ReleaseLock
    /\ use' = [use EXCEPT ![t] = "none"]
    /\ UNCHANGED powered

(* IOUSBControllerV3::ReleaseDeviceZero returns early when the controller is *)
(* not On.  It has no result: the caller forgets a lock that stays set.      *)
ReleaseRefused(t) ==
    /\ use[t] \in {"hold", "configured"}
    /\ ~powered
    /\ use' = [use EXCEPT ![t] = "none"]
    /\ UNCHANGED <<lockVars, powered>>

PassDeviceZero(t) ==
    /\ use[t] = "pass"
    /\ PassLock
    /\ use' = [use EXCEPT ![t] = "none"]
    /\ UNCHANGED powered

PowerChange ==
    /\ CanPowerDown
    /\ powered' = ~powered
    /\ UNCHANGED <<lockVars, use>>

Step(t) ==
    \/ AcquireDeviceZero(t) \/ WaitForReleaseDeviceZero(t)
    \/ LockTaken(t) \/ LockBusy(t) \/ LockExpired(t)
    \/ ConfigureDeviceZero(t)
    \/ ReleaseDeviceZero(t) \/ ReleaseRefused(t) \/ PassDeviceZero(t)

Next == PowerChange \/ \E t \in Threads : Step(t)

Spec == Init /\ [][Next]_vars

(* A thread inside the gate runs on, and an enumeration that holds the lock  *)
(* ends; nothing makes a thread ask for the lock or a sleep expire.          *)
Fairness ==
    \A t \in Threads : /\ WF_vars(LockTaken(t) \/ LockBusy(t))
                       /\ WF_vars(ReleaseDeviceZero(t) \/ ReleaseRefused(t))
                       /\ WF_vars(PassDeviceZero(t))

FairSpec == Spec /\ Fairness
-----------------------------------------------------------------------------
(* Each sleep that ends without a wakeup lets at most one more caller past   *)
(* the lock, for ever, and nothing else does: not an overtaken wakeup, not a *)
(* refused release, not the unconditional clear of a caller that never had   *)
(* the flag (IOUSBController.cpp:2141-2158).                                 *)
HoldersBounded ==
    Cardinality(Holders) <= expired + (IF devZeroLock THEN 1 ELSE 0)

(* With no such sleep the lock does what its header comment says.            *)
Exclusive == \A t, u \in Holders : t = u

(* Nobody deletes the endpoint for address zero under the thread that opened *)
(* it and is still enumerating (DoDeleteEP in ReleaseDeviceZero).            *)
PipeZeroStaysOpen == \A t \in Threads : use[t] = "configured" => endpointZero

(* A clear flag does not stay clear while callers wait for it: the one       *)
(* wakeup of a release reaches somebody who takes it.                        *)
LockHandedOver == (~devZeroLock /\ Sleepers # {}) ~> devZeroLock

(* The lock implements what its header comment promises.                     *)
Promise == INSTANCE DeviceZero WITH Users <- Threads, atZero <- Holders
PromiseKept == Promise!Spec
=============================================================================
