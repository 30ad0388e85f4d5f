------------------------ MODULE DevZeroUsers_proofs ------------------------
(* Proofs about DevZeroUsers, for any finite set of threads, any number of   *)
(* expired sleeps and any behaviour of the controller's power.               *)

EXTENDS DevZeroUsers, FiniteSetTheorems, TLAPS

(* A thread is inside ProtectedDevZeroLock exactly while it asks.            *)
Links == \A t \in Threads : caller[t] # "out" <=> use[t] \in {"acquire", "wait"}

Budget == expired + (IF devZeroLock THEN 1 ELSE 0)

IInv == UsersTypeOK /\ Links /\ HoldersBounded /\ NoLostWakeup

-----------------------------------------------------------------------------
(* Counting the holders.                                                     *)

(* The threads are finitely many, so the holders can be counted.             *)
LEMMA HoldersFinite ==
    /\ IsFiniteSet(Holders)
    /\ Cardinality(Holders) \in Nat
<1>1. Holders \subseteq Threads
  BY DEF Holders
<1>2. IsFiniteSet(Holders)
  BY <1>1, ThreadsAssumption, FS_Subset
<1> QED
  BY <1>2, FS_CardinalityType

(* The same of the holders after a step.                                     *)
LEMMA HoldersFiniteNext ==
    /\ IsFiniteSet(Holders')
    /\ Cardinality(Holders') \in Nat
<1>1. Holders' \subseteq Threads
  BY DEF Holders
<1>2. IsFiniteSet(Holders')
  BY <1>1, ThreadsAssumption, FS_Subset
<1> QED
  BY <1>2, FS_CardinalityType

(* A call that returns adds one holder.                                      *)
LEMMA ReturnAddsOne ==
  ASSUME UsersTypeOK, NEW t \in Threads, use[t] \in {"acquire", "wait"},
         Returned(t)
  PROVE  /\ Holders' = Holders \cup {t}
         /\ Cardinality(Holders') = Cardinality(Holders) + 1
<1>1. Holders' = Holders \cup {t}
  BY DEF Holders, Returned, UsersTypeOK, Uses
<1>2. t \notin Holders
  BY DEF Holders
<1> QED
  BY <1>1, <1>2, HoldersFinite, FS_AddElement

(* A caller that is done takes one holder away.                              *)
LEMMA DoneRemovesOne ==
  ASSUME UsersTypeOK, NEW t \in Holders, use' = [use EXCEPT ![t] = "none"]
  PROVE  /\ Holders' = Holders \ {t}
         /\ Cardinality(Holders') = Cardinality(Holders) - 1
<1>1. t \in Threads
  BY DEF Holders
<1>2. Holders' = Holders \ {t}
  BY <1>1 DEF Holders, UsersTypeOK, Uses
<1> QED
  BY <1>2, HoldersFinite, FS_RemoveElement

(* Every other step leaves the holders as they are.                          *)
LEMMA OthersKeepHolders ==
  ASSUME UsersTypeOK, NEW t \in Threads,
         \/ AcquireDeviceZero(t)
         \/ WaitForReleaseDeviceZero(t)
         \/ LockBusy(t)
         \/ ConfigureDeviceZero(t)
  PROVE  Holders' = Holders
BY DEF Holders, UsersTypeOK, Uses, AcquireDeviceZero, WaitForReleaseDeviceZero,
       LockBusy, ConfigureDeviceZero

-----------------------------------------------------------------------------
(* The invariant holds before any thread has asked for the lock.             *)
LEMMA InitIInv == Init => IInv
<1> SUFFICES ASSUME Init PROVE IInv
  OBVIOUS
<1>1. UsersTypeOK
  <2>1. expired \in 0..MaxExpired
    BY MaxExpiredAssumption DEF Init, LockInit
  <2>2. devZeroLock \in BOOLEAN /\ endpointZero \in BOOLEAN /\ powered \in BOOLEAN
    BY DEF Init, LockInit
  <2>3. /\ caller \in [Threads -> {"out", "in", "asleep"}]
        /\ use \in [Threads -> Uses]
    BY DEF Init, LockInit, Uses
  <2> QED
    BY <2>1, <2>2, <2>3 DEF UsersTypeOK, LockTypeOK
<1>2. Links
  BY DEF Init, LockInit, Links
<1>3. HoldersBounded
  <2>1. Holders = {}
    BY DEF Init, Holders
  <2> QED
    BY <2>1, FS_EmptySet DEF Init, LockInit, HoldersBounded
<1>4. NoLostWakeup
  BY DEF Init, LockInit, NoLostWakeup, Sleepers
<1> QED
  BY <1>1, <1>2, <1>3, <1>4 DEF IInv

(* Type correctness is kept by every step.                                   *)
LEMMA TypeStep ==
  ASSUME UsersTypeOK, [Next]_vars
  PROVE  UsersTypeOK'
<1> USE MaxExpiredAssumption DEF UsersTypeOK, LockTypeOK, Uses
<1>1. CASE PowerChange
  BY <1>1 DEF PowerChange, lockVars
<1>2. ASSUME NEW t \in Threads, Step(t)
      PROVE  UsersTypeOK'
  <2>1. CASE AcquireDeviceZero(t)
    BY <2>1 DEF AcquireDeviceZero, EnterGate
  <2>2. CASE WaitForReleaseDeviceZero(t)
    BY <2>2 DEF WaitForReleaseDeviceZero, EnterGate
  <2>3. CASE LockTaken(t)
    BY <2>3 DEF LockTaken, TakeLock, Returned
  <2>4. CASE LockBusy(t)
    BY <2>4 DEF LockBusy, SleepInGate
  <2>5. CASE LockExpired(t)
    BY <2>5 DEF LockExpired, SleepExpires, Returned
  <2>6. CASE ConfigureDeviceZero(t)
    BY <2>6 DEF ConfigureDeviceZero, OpenPipeZero
  <2>7. CASE ReleaseDeviceZero(t)
    BY <2>7 DEF ReleaseDeviceZero, ReleaseLock, ClearLock, WakeOne, Sleepers
  <2>8. CASE ReleaseRefused(t)
    BY <2>8 DEF ReleaseRefused, lockVars
  <2>9. CASE PassDeviceZero(t)
    BY <2>9 DEF PassDeviceZero, PassLock, ClearLock, WakeOne, Sleepers
  <2> QED
    BY <1>2, <2>1, <2>2, <2>3, <2>4, <2>5, <2>6, <2>7, <2>8, <2>9 DEF Step
<1>3. CASE UNCHANGED vars
  BY <1>3 DEF vars, lockVars
<1> QED
  BY <1>1, <1>2, <1>3 DEF Next

(* So is the link between the two views of a thread.                         *)
LEMMA LinksStep ==
  ASSUME UsersTypeOK, Links, [Next]_vars
  PROVE  Links'
<1> USE DEF UsersTypeOK, LockTypeOK, Uses, Links
<1>1. CASE PowerChange
  BY <1>1 DEF PowerChange, lockVars
<1>2. ASSUME NEW t \in Threads, Step(t)
      PROVE  Links'
  <2>1. CASE AcquireDeviceZero(t)
    BY <2>1 DEF AcquireDeviceZero, EnterGate
  <2>2. CASE WaitForReleaseDeviceZero(t)
    BY <2>2 DEF WaitForReleaseDeviceZero, EnterGate
  <2>3. CASE LockTaken(t)
    BY <2>3 DEF LockTaken, TakeLock, Returned
  <2>4. CASE LockBusy(t)
    BY <2>4 DEF LockBusy, SleepInGate
  <2>5. CASE LockExpired(t)
    BY <2>5 DEF LockExpired, SleepExpires, Returned
  <2>6. CASE ConfigureDeviceZero(t)
    BY <2>6 DEF ConfigureDeviceZero, OpenPipeZero
  <2>7. CASE ReleaseDeviceZero(t)
    BY <2>7 DEF ReleaseDeviceZero, ReleaseLock, ClearLock, WakeOne, Sleepers
  <2>8. CASE ReleaseRefused(t)
    BY <2>8 DEF ReleaseRefused, lockVars
  <2>9. CASE PassDeviceZero(t)
    BY <2>9 DEF PassDeviceZero, PassLock, ClearLock, WakeOne, Sleepers
  <2> QED
    BY <1>2, <2>1, <2>2, <2>3, <2>4, <2>5, <2>6, <2>7, <2>8, <2>9 DEF Step
<1>3. CASE UNCHANGED vars
  BY <1>3 DEF vars, lockVars
<1> QED
  BY <1>1, <1>2, <1>3 DEF Next

(* The bound: a taken lock pays for its holder with the flag, an expired     *)
(* sleep with the counter; a release gives back no more than it had.         *)
LEMMA BoundStep ==
  ASSUME UsersTypeOK, Links, HoldersBounded, [Next]_vars
  PROVE  HoldersBounded'
<1> USE HoldersFinite, HoldersFiniteNext DEF HoldersBounded
<1>0. expired \in Nat /\ devZeroLock \in BOOLEAN
  BY MaxExpiredAssumption DEF UsersTypeOK, LockTypeOK
<1>1. CASE PowerChange
  BY <1>1 DEF PowerChange, lockVars, Holders
<1>2. ASSUME NEW t \in Threads, Step(t)
      PROVE  HoldersBounded'
  <2>1. CASE AcquireDeviceZero(t)
    BY <2>1, OthersKeepHolders DEF AcquireDeviceZero, EnterGate
  <2>2. CASE WaitForReleaseDeviceZero(t)
    BY <2>2, OthersKeepHolders DEF WaitForReleaseDeviceZero, EnterGate
  <2>3. CASE LockTaken(t)
    <3>1. use[t] \in {"acquire", "wait"}
      BY <2>3 DEF LockTaken, TakeLock, Links
    <3>2. Cardinality(Holders') = Cardinality(Holders) + 1
      BY <2>3, <3>1, ReturnAddsOne DEF LockTaken
    <3>3. ~devZeroLock /\ devZeroLock' /\ expired' = expired
      BY <2>3 DEF LockTaken, TakeLock
    <3> QED
      BY <1>0, <3>2, <3>3
  <2>4. CASE LockBusy(t)
    BY <2>4, OthersKeepHolders DEF LockBusy, SleepInGate
  <2>5. CASE LockExpired(t)
    <3>1. use[t] \in {"acquire", "wait"}
      BY <2>5 DEF LockExpired, SleepExpires, Links
    <3>2. Cardinality(Holders') = Cardinality(Holders) + 1
      BY <2>5, <3>1, ReturnAddsOne DEF LockExpired
    <3>3. devZeroLock' /\ expired' = expired + 1
      BY <2>5 DEF LockExpired, SleepExpires
    <3> QED
      BY <1>0, <3>2, <3>3
  <2>6. CASE ConfigureDeviceZero(t)
    BY <2>6, OthersKeepHolders DEF ConfigureDeviceZero, OpenPipeZero
  <2>7. CASE ReleaseDeviceZero(t)
    <3>1. t \in Holders
      BY <2>7 DEF ReleaseDeviceZero, Holders
    <3>2. Cardinality(Holders') = Cardinality(Holders) - 1
      BY <2>7, <3>1, DoneRemovesOne DEF ReleaseDeviceZero
    <3>3. ~devZeroLock' /\ expired' = expired
      BY <2>7 DEF ReleaseDeviceZero, ReleaseLock, ClearLock
    <3> QED
      BY <1>0, <3>2, <3>3
  <2>8. CASE ReleaseRefused(t)
    <3>1. t \in Holders
      BY <2>8 DEF ReleaseRefused, Holders
    <3>2. Cardinality(Holders') = Cardinality(Holders) - 1
      BY <2>8, <3>1, DoneRemovesOne DEF ReleaseRefused
    <3>3. devZeroLock' = devZeroLock /\ expired' = expired
      BY <2>8 DEF ReleaseRefused, lockVars
    <3> QED
      BY <1>0, <3>2, <3>3
  <2>9. CASE PassDeviceZero(t)
    <3>1. t \in Holders
      BY <2>9 DEF PassDeviceZero, Holders
    <3>2. Cardinality(Holders') = Cardinality(Holders) - 1
      BY <2>9, <3>1, DoneRemovesOne DEF PassDeviceZero
    <3>3. ~devZeroLock' /\ expired' = expired
      BY <2>9 DEF PassDeviceZero, PassLock, ClearLock
    <3> QED
      BY <1>0, <3>2, <3>3
  <2> QED
    BY <1>2, <2>1, <2>2, <2>3, <2>4, <2>5, <2>6, <2>7, <2>8, <2>9 DEF Step
<1>3. CASE UNCHANGED vars
  BY <1>3 DEF vars, lockVars, Holders
<1> QED
  BY <1>1, <1>2, <1>3 DEF Next

(* A wakeup is not lost: only a release clears the flag, and it leaves one   *)
(* thread awake; an awake thread goes to sleep only while the flag is set.   *)
LEMMA WakeupStep ==
  ASSUME UsersTypeOK, NoLostWakeup, [Next]_vars
  PROVE  NoLostWakeup'
<1> USE DEF UsersTypeOK, LockTypeOK, NoLostWakeup, Sleepers, Runners
<1>0. ASSUME ClearLock
      PROVE  NoLostWakeup'
  BY <1>0 DEF ClearLock, WakeOne
<1>1. CASE PowerChange
  BY <1>1 DEF PowerChange, lockVars
<1>2. ASSUME NEW t \in Threads, Step(t)
      PROVE  NoLostWakeup'
  <2>1. CASE AcquireDeviceZero(t)
    BY <2>1 DEF AcquireDeviceZero, EnterGate
  <2>2. CASE WaitForReleaseDeviceZero(t)
    BY <2>2 DEF WaitForReleaseDeviceZero, EnterGate
  <2>3. CASE LockTaken(t)
    BY <2>3 DEF LockTaken, TakeLock
  <2>4. CASE LockBusy(t)
    BY <2>4 DEF LockBusy, SleepInGate
  <2>5. CASE LockExpired(t)
    BY <2>5 DEF LockExpired, SleepExpires
  <2>6. CASE ConfigureDeviceZero(t)
    BY <2>6 DEF ConfigureDeviceZero, OpenPipeZero
  <2>7. CASE ReleaseDeviceZero(t)
    BY <1>0, <2>7 DEF ReleaseDeviceZero, ReleaseLock
  <2>8. CASE ReleaseRefused(t)
    BY <2>8 DEF ReleaseRefused, lockVars
  <2>9. CASE PassDeviceZero(t)
    BY <1>0, <2>9 DEF PassDeviceZero, PassLock
  <2> QED
    BY <1>2, <2>1, <2>2, <2>3, <2>4, <2>5, <2>6, <2>7, <2>8, <2>9 DEF Step
<1>3. CASE UNCHANGED vars
  BY <1>3 DEF vars, lockVars
<1> QED
  BY <1>1, <1>2, <1>3 DEF Next

(* Every step of the lock and of its users keeps it.                         *)
LEMMA NextIInv == IInv /\ [Next]_vars => IInv'
BY TypeStep, LinksStep, BoundStep, WakeupStep DEF IInv

(* Hence it holds in every state of every behaviour.                         *)
LEMMA Invariant == Spec => []IInv
BY InitIInv, NextIInv, PTL DEF Spec

-----------------------------------------------------------------------------
(* The variables of the lock and of its users keep their types.              *)
THEOREM TypeCorrect == Spec => []UsersTypeOK
<1>1. IInv => UsersTypeOK
  BY DEF IInv
<1> QED
  BY <1>1, Invariant, PTL

(* However many threads compete, and whatever the controller's power does,   *)
(* each sleep that ends without a wakeup lets at most one more thread past   *)
(* the device zero lock.                                                     *)
THEOREM HoldersAreBounded == Spec => []HoldersBounded
<1>1. IInv => HoldersBounded
  BY DEF IInv
<1> QED
  BY <1>1, Invariant, PTL

(* The one-thread wakeup of a release is enough: no caller sleeps on a clear *)
(* lock with nobody awake to take it.                                        *)
THEOREM WakeupIsNotLost == Spec => []NoLostWakeup
<1>1. IInv => NoLostWakeup
  BY DEF IInv
<1> QED
  BY <1>1, Invariant, PTL

-----------------------------------------------------------------------------
(* From the bound, when no sleep expires: one holder, none with a clear flag *)
LEMMA BoundExcludes ==
  ASSUME MaxExpired = 0, UsersTypeOK, HoldersBounded
  PROVE  /\ Exclusive
         /\ ~devZeroLock => Holders = {}
<1>1. expired = 0
  BY DEF UsersTypeOK, LockTypeOK
<1>2. devZeroLock \in BOOLEAN
  BY DEF UsersTypeOK, LockTypeOK
<1>3. ~devZeroLock => Holders = {}
  BY <1>1, HoldersFinite, FS_EmptySet DEF HoldersBounded
<1>4. ASSUME NEW t \in Holders, NEW u \in Holders, t # u
      PROVE  FALSE
  <2>1. Cardinality(Holders) <= 1
    BY <1>1, <1>2, HoldersFinite DEF HoldersBounded
  <2>2. /\ IsFiniteSet(Holders \ {t})
        /\ Cardinality(Holders \ {t}) = Cardinality(Holders) - 1
    BY HoldersFinite, FS_RemoveElement
  <2>3. Cardinality(Holders \ {t}) \in Nat
    BY <2>2, FS_CardinalityType
  <2>4. Cardinality(Holders \ {t}) = 0
    BY <2>1, <2>2, <2>3, HoldersFinite
  <2>5. Holders \ {t} = {}
    BY <2>2, <2>4, FS_EmptySet
  <2> QED
    BY <1>4, <2>5
<1> QED
  BY <1>3, <1>4 DEF Exclusive

(* If every commandSleep on the lock ends with a wakeup, no two threads ever *)
(* have device zero at the same time.                                        *)
THEOREM LockIsExclusive == MaxExpired = 0 => (Spec => []Exclusive)
<1> SUFFICES ASSUME MaxExpired = 0 PROVE Spec => []Exclusive
  OBVIOUS
<1>1. IInv => Exclusive
  BY BoundExcludes DEF IInv
<1> QED
  BY <1>1, Invariant, PTL

(* ... and no release deletes the endpoint under the thread that uses it.    *)
THEOREM PipeIsKept == MaxExpired = 0 => (Spec => []PipeZeroStaysOpen)
<1> SUFFICES ASSUME MaxExpired = 0 PROVE Spec => []PipeZeroStaysOpen
  OBVIOUS
<1>1. Init => PipeZeroStaysOpen
  BY DEF Init, PipeZeroStaysOpen
<1>2. IInv /\ PipeZeroStaysOpen /\ [Next]_vars => PipeZeroStaysOpen'
  <2> SUFFICES ASSUME IInv, PipeZeroStaysOpen, [Next]_vars
               PROVE  PipeZeroStaysOpen'
    OBVIOUS
  <2> USE DEF PipeZeroStaysOpen, IInv, UsersTypeOK, LockTypeOK, Uses
  <2>1. CASE PowerChange
    BY <2>1 DEF PowerChange, lockVars
  <2>2. ASSUME NEW t \in Threads, Step(t)
        PROVE  PipeZeroStaysOpen'
    <3>1. CASE AcquireDeviceZero(t)
      BY <3>1 DEF AcquireDeviceZero, EnterGate
    <3>2. CASE WaitForReleaseDeviceZero(t)
      BY <3>2 DEF WaitForReleaseDeviceZero, EnterGate
    <3>3. CASE LockTaken(t)
      BY <3>3 DEF LockTaken, TakeLock, Returned
    <3>4. CASE LockBusy(t)
      BY <3>4 DEF LockBusy, SleepInGate
    <3>5. CASE LockExpired(t)
      BY <3>5 DEF LockExpired, SleepExpires, Returned
    <3>6. CASE ConfigureDeviceZero(t)
      BY <3>6 DEF ConfigureDeviceZero, OpenPipeZero
    <3>7. CASE ReleaseDeviceZero(t)
      <4>1. t \in Holders
        BY <3>7 DEF ReleaseDeviceZero, Holders
      <4>2. \A u \in Threads : use[u] = "configured" => u = t
        BY <4>1, BoundExcludes DEF Exclusive, Holders
      <4> QED
        BY <3>7, <4>2 DEF ReleaseDeviceZero
    <3>8. CASE ReleaseRefused(t)
      BY <3>8 DEF ReleaseRefused, lockVars
    <3>9. CASE PassDeviceZero(t)
      BY <3>9 DEF PassDeviceZero, PassLock
    <3> QED
      BY <2>2, <3>1, <3>2, <3>3, <3>4, <3>5, <3>6, <3>7, <3>8, <3>9 DEF Step
  <2>3. CASE UNCHANGED vars
    BY <2>3 DEF vars, lockVars
  <2> QED
    BY <2>1, <2>2, <2>3 DEF Next
<1> QED
  BY <1>1, <1>2, Invariant, PTL DEF Spec

(* The lock then implements the promise of its header comment: every step    *)
(* is an arrival at an empty address zero, a leave, or neither.              *)
THEOREM LockKeepsPromise == MaxExpired = 0 => (Spec => PromiseKept)
<1> SUFFICES ASSUME MaxExpired = 0 PROVE Spec => PromiseKept
  OBVIOUS
<1>1. Init => Promise!Init
  BY DEF Init, Promise!Init, Holders
<1>2. IInv /\ [Next]_vars => [Promise!Next]_Holders
  <2> SUFFICES ASSUME IInv, [Next]_vars
               PROVE  Promise!Next \/ Holders' = Holders
    OBVIOUS
  <2> USE DEF IInv
  <2>1. CASE PowerChange
    BY <2>1 DEF PowerChange, Holders
  <2>2. ASSUME NEW t \in Threads, Step(t)
        PROVE  Promise!Next \/ Holders' = Holders
    <3>1. CASE \/ AcquireDeviceZero(t) \/ WaitForReleaseDeviceZero(t)
               \/ LockBusy(t) \/ ConfigureDeviceZero(t)
      BY <3>1, OthersKeepHolders
    <3>2. CASE LockTaken(t)
      <4>1. use[t] \in {"acquire", "wait"}
        BY <3>2 DEF LockTaken, TakeLock, Links
      <4>2. Holders' = Holders \cup {t}
        BY <3>2, <4>1, ReturnAddsOne DEF LockTaken
      <4>3. Holders = {}
        BY <3>2, BoundExcludes DEF LockTaken, TakeLock
      <4> QED
        BY <4>2, <4>3 DEF Promise!Next, Promise!Arrive
    <3>3. CASE LockExpired(t)
      BY <3>3 DEF LockExpired, SleepExpires, UsersTypeOK, LockTypeOK
    <3>4. CASE ReleaseDeviceZero(t) \/ ReleaseRefused(t) \/ PassDeviceZero(t)
      <4>1. t \in Holders
        BY <3>4 DEF ReleaseDeviceZero, ReleaseRefused, PassDeviceZero, Holders
      <4>2. Holders' = Holders \ {t}
        BY <3>4, <4>1, DoneRemovesOne
           DEF ReleaseDeviceZero, ReleaseRefused, PassDeviceZero
      <4> QED
        BY <4>1, <4>2, <2>2 DEF Promise!Next, Promise!Leave, Holders
    <3> QED
      BY <2>2, <3>1, <3>2, <3>3, <3>4 DEF Step
  <2>3. CASE UNCHANGED vars
    BY <2>3 DEF vars, Holders
  <2> QED
    BY <2>1, <2>2, <2>3 DEF Next
<1> QED
  BY <1>1, <1>2, Invariant, PTL DEF Spec, PromiseKept, Promise!Spec
=============================================================================
