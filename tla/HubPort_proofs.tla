--------------------------- MODULE HubPort_proofs ---------------------------
(* Types of HubPort, for any set of ports and any bounds: no retry and no    *)
(* debouncing counts beyond what the code allows, whatever goes wrong.       *)

EXTENDS HubPort, TLAPS

(* The handler of connection changes gives up when it has counted too many,  *)
(* and the count is put back before the status change thread ends.           *)
Ending(p) == \/ scPc[p] \in {"failed", "end"}
             \/ scPc[p] \in {"unlock", "clear"} /\ scNext[p] = "end"

Debounced == \A p \in Ports : debounceCount[p] = MaxDebounce + 1 => Ending(p)

Bits == {"connection", "reset"}

(* The types, by the actor that the variables belong to.                     *)
HardwareTypes == /\ link \in [Ports -> Links]
                 /\ chg \in [Ports -> SUBSET Bits]
IncidentTypes == spent \in [Incidents -> Nat]
NoteTypes     == /\ state \in [Ports -> States]
                 /\ devZero \in [Ports -> BOOLEAN]
                 /\ resetVector \in [Ports -> {"default", "add"}]
                 /\ portDevice \in [Ports -> BOOLEAN]
RetryTypes    == /\ attachRetry \in [Ports -> 0..MaxAttach]
                 /\ attachRetryFailed \in [Ports -> BOOLEAN]
                 /\ debounceCount \in [Ports -> 0..MaxDebounce + 1]
                 /\ retryPortStatus \in [Ports -> BOOLEAN]
                 /\ delayOnStatus \in [Ports -> BOOLEAN]
StatusTypes   == portStatus \in [Ports -> [link : Links, chg : SUBSET Bits]]
AdderTypes    == /\ addPc \in [Ports -> AddPcs]
                 /\ addArg \in [Ports -> BOOLEAN]
HandlerTypes  == /\ scCall \in [Ports -> BOOLEAN]
                 /\ scPc \in [Ports -> ScPcs]
                 /\ scNext \in [Ports -> ScPcs]
DogTypes      == /\ timeoutFlag \in [Ports -> BOOLEAN]
                 /\ wdPc \in [Ports -> {"idle", "fire", "release", "clear"}]

Typed == /\ HardwareTypes /\ IncidentTypes /\ NoteTypes /\ RetryTypes
         /\ StatusTypes /\ AdderTypes /\ HandlerTypes /\ DogTypes
         /\ Lock!LockTypeOK

IInv == Typed /\ Debounced

(* These are the types of TypeOK.                                            *)
LEMMA TypedParts == Typed <=> TypeOK
BY DEF Typed, HardwareTypes, IncidentTypes, NoteTypes, RetryTypes, StatusTypes,
       AdderTypes, HandlerTypes, DogTypes, TypeOK, Bits

-----------------------------------------------------------------------------
(* What the steps are made of.                                               *)

(* An incident is counted.                                                   *)
LEMMA SpendKeeps ==
  ASSUME IncidentTypes, NEW i \in Incidents, Spend(i)
  PROVE  IncidentTypes'
<1>1. spent' = [spent EXCEPT ![i] = spent[i] + 1]
  BY DEF Spend
<1>2. spent[i] + 1 \in Nat
  BY DEF IncidentTypes
<1> QED
  BY <1>1, <1>2 DEF IncidentTypes

(* The steps of the device zero lock keep its types.                         *)
LEMMA LockKeeps ==
  ASSUME Lock!LockTypeOK, NEW p \in Ports,
         \/ Lock!EnterGate(p) \/ Lock!TakeLock(p) \/ Lock!SleepExpires(p)
         \/ Lock!SleepInGate(p) \/ Lock!ReleaseLock \/ Lock!OpenPipeZero
         \/ UNCHANGED lockVars
  PROVE  Lock!LockTypeOK'
<1> USE BudgetAssumption DEF Lock!LockTypeOK
<1>1. CASE Lock!EnterGate(p)
  BY <1>1 DEF Lock!EnterGate
<1>2. CASE Lock!TakeLock(p)
  BY <1>2 DEF Lock!TakeLock
<1>3. CASE Lock!SleepExpires(p)
  BY <1>3 DEF Lock!SleepExpires
<1>4. CASE Lock!SleepInGate(p)
  BY <1>4 DEF Lock!SleepInGate
<1>5. CASE Lock!ReleaseLock
  BY <1>5 DEF Lock!ReleaseLock, Lock!ClearLock, Lock!WakeOne, Lock!Sleepers
<1>6. CASE Lock!OpenPipeZero
  BY <1>6 DEF Lock!OpenPipeZero
<1>7. CASE UNCHANGED lockVars
  BY <1>7 DEF lockVars
<1> QED
  BY <1>1, <1>2, <1>3, <1>4, <1>5, <1>6, <1>7

(* One entry of a table is set.                                              *)
LEMMA SetKeeps ==
  ASSUME NEW S, NEW f \in [Ports -> S], NEW p \in Ports, NEW v \in S
  PROVE  /\ Set(f, p, v) \in [Ports -> S]
         /\ Set(f, p, v)[p] = v
         /\ \A q \in Ports \ {p} : Set(f, p, v)[q] = f[q]
BY DEF Set

(* Requests to the hub.                                                      *)
LEMMA HubKeeps ==
  ASSUME HardwareTypes, IncidentTypes, NoteTypes, NEW p \in Ports
  PROVE  /\ Plug(p) \/ Unplug(p) \/ ResetDone(p) \/ DisablePort(p) =>
              HardwareTypes' /\ IncidentTypes'
         /\ PowerCycle(p) \/ PowerOff(p) => HardwareTypes'
         /\ link' = [link EXCEPT ![p] = Disabled(@)]
              \/ link' = [link EXCEPT ![p] = Resetting(@)] =>
              link' \in [Ports -> Links]
<1> USE DEF HardwareTypes, Links, Bits, Set
<1>1. Plug(p) => HardwareTypes' /\ IncidentTypes'
  BY SpendKeeps DEF Plug, Incidents
<1>2. Unplug(p) => HardwareTypes' /\ IncidentTypes'
  BY SpendKeeps DEF Unplug, Incidents
<1>3. ResetDone(p) => HardwareTypes' /\ IncidentTypes'
  BY DEF ResetDone, IncidentTypes
<1>4. ASSUME \/ link' = [link EXCEPT ![p] = Disabled(@)]
             \/ link' = [link EXCEPT ![p] = Resetting(@)]
      PROVE  link' \in [Ports -> Links]
  BY <1>4 DEF Disabled, Resetting
<1>5. ASSUME DisablePort(p)
      PROVE  HardwareTypes' /\ IncidentTypes'
  <2>1. CASE Spend("hub") /\ UNCHANGED hwVars
    BY <2>1, SpendKeeps DEF Incidents, hwVars
  <2>2. CASE link' = [link EXCEPT ![p] = Disabled(@)] /\ UNCHANGED <<chg, spent>>
    BY <1>4, <2>2 DEF IncidentTypes
  <2> QED
    BY <1>5, <2>1, <2>2 DEF DisablePort
<1>6. PowerCycle(p) \/ PowerOff(p) => HardwareTypes'
  BY DEF PowerCycle, PowerOff
<1> QED
  BY <1>1, <1>2, <1>3, <1>4, <1>5, <1>6

(* Forgetting the device.                                                    *)
LEMMA RemovalKeeps ==
  ASSUME NoteTypes, NEW p \in Ports,
         RemoveDevice(p) \/ RemoveIfThere(p) \/ FatalError(p)
           \/ UNCHANGED <<portDevice, resetVector>>
  PROVE  portDevice' \in [Ports -> BOOLEAN] /\ resetVector' \in [Ports -> {"default", "add"}]
BY DEF NoteTypes, RemoveDevice, RemoveIfThere, FatalError, Set

(* Launching the AddDevice thread, at once or after a sleep.                 *)
LEMMA LaunchKeeps ==
  ASSUME AdderTypes, IncidentTypes, NEW p \in Ports, NEW a \in BOOLEAN
  PROVE  /\ LaunchAddDeviceThread(p, a) => AdderTypes'
         /\ Relaunches(p, a) => AdderTypes' /\ IncidentTypes'
<1>1. LaunchAddDeviceThread(p, a) => AdderTypes'
  BY DEF LaunchAddDeviceThread, AdderTypes, AddPcs, Set, addVars
<1>2. Relaunches(p, a) => AdderTypes' /\ IncidentTypes'
  BY <1>1, SpendKeeps DEF Relaunches, Incidents, IncidentTypes
<1> QED
  BY <1>1, <1>2

-----------------------------------------------------------------------------
(* The AddDevice thread.                                                     *)

(* Every step of the AddDevice thread keeps the types of all that it may     *)
(* write.                                                                    *)
LEMMA AddStepKeeps ==
  ASSUME Typed, NEW p \in Ports, AddStep(p)
  PROVE  /\ HardwareTypes' /\ IncidentTypes' /\ NoteTypes' /\ Lock!LockTypeOK'
         /\ addPc' \in [Ports -> AddPcs] /\ timeoutFlag' \in [Ports -> BOOLEAN]
<1>0. /\ HardwareTypes /\ IncidentTypes /\ NoteTypes /\ Lock!LockTypeOK
      /\ addPc \in [Ports -> AddPcs] /\ timeoutFlag \in [Ports -> BOOLEAN]
  BY DEF Typed, AdderTypes, DogTypes
<1>1. ASSUME NEW l \in AddPcs, GoAdd(p, l)
      PROVE  addPc' \in [Ports -> AddPcs]
  BY <1>0, <1>1, SetKeeps DEF GoAdd
<1>2. UNCHANGED hwVars => HardwareTypes'
  BY <1>0 DEF HardwareTypes, hwVars
<1>3. \A i \in Incidents : UNCHANGED spent \/ Spend(i) => IncidentTypes'
  BY <1>0, SpendKeeps DEF IncidentTypes
<1>4. ASSUME UNCHANGED <<state, devZero>>,
             \/ RemoveDevice(p) \/ RemoveIfThere(p)
             \/ UNCHANGED <<portDevice, resetVector>>
      PROVE  NoteTypes'
  BY <1>0, <1>4, RemovalKeeps DEF NoteTypes
<1>5. CASE AddStart(p)
  <2>1. \E l \in AddPcs : GoAdd(p, l)
    BY <1>5 DEF AddStart, AddPcs
  <2>2. UNCHANGED spent \/ Spend("hub")
    BY <1>5 DEF AddStart
  <2>3. UNCHANGED lockVars \/ Lock!EnterGate(p)
    BY <1>5 DEF AddStart
  <2>4. RemoveDevice(p) \/ UNCHANGED <<portDevice, resetVector>>
    BY <1>5 DEF AddStart
  <2>5. UNCHANGED <<hwVars, state, devZero, timeoutFlag>>
    BY <1>5 DEF AddStart
  <2> QED
    BY <1>0, <1>1, <1>2, <1>3, <1>4, <2>1, <2>2, <2>3, <2>4, <2>5, LockKeeps DEF Incidents
<1>6. CASE AddAcquire(p)
  <2>1. (\E l \in AddPcs : GoAdd(p, l)) \/ UNCHANGED addPc
    BY <1>6 DEF AddAcquire, AddPcs
  <2>2. Lock!TakeLock(p) \/ Lock!SleepExpires(p) \/ Lock!SleepInGate(p)
    BY <1>6 DEF AddAcquire
  <2>3. UNCHANGED <<hwVars, spent, state, devZero, timeoutFlag, resetVector, portDevice>>
    BY <1>6 DEF AddAcquire
  <2> QED
    BY <1>0, <1>1, <1>2, <1>3, <1>4, <2>1, <2>2, <2>3, LockKeeps DEF Incidents
<1>7. CASE AddHave(p)
  <2>1. \E l \in AddPcs : GoAdd(p, l)
    BY <1>7 DEF AddHave, AddPcs
  <2>2. UNCHANGED spent \/ Spend("hub")
    BY <1>7 DEF AddHave
  <2>3. /\ devZero' \in [Ports -> BOOLEAN] /\ timeoutFlag' \in [Ports -> BOOLEAN]
        /\ UNCHANGED <<hwVars, lockVars, state, resetVector, portDevice>>
    BY <1>0, <1>7, SetKeeps DEF AddHave, NoteTypes
  <2>4. NoteTypes'
    BY <1>0, <2>3 DEF NoteTypes
  <2> QED
    BY <1>0, <1>1, <1>2, <1>3, <2>1, <2>2, <2>3, <2>4, LockKeeps DEF Incidents
<1>8. CASE AddArm(p)
  <2>1. \E l \in AddPcs : GoAdd(p, l)
    BY <1>8 DEF AddArm, AddPcs
  <2>2. /\ resetVector' \in [Ports -> {"default", "add"}]
        /\ UNCHANGED <<hwVars, spent, lockVars, state, devZero, timeoutFlag, portDevice>>
    BY <1>0, <1>8, SetKeeps DEF AddArm, NoteTypes
  <2>3. NoteTypes'
    BY <1>0, <2>2 DEF NoteTypes
  <2> QED
    BY <1>0, <1>1, <1>2, <1>3, <2>1, <2>2, <2>3, LockKeeps DEF Incidents
<1>9. CASE AddReset(p)
  <2>1. \E l \in AddPcs : GoAdd(p, l)
    BY <1>9 DEF AddReset, AddPcs
  <2>2. /\ UNCHANGED spent \/ Spend("hub")
        /\ RemoveIfThere(p) \/ UNCHANGED <<portDevice, resetVector>>
        /\ UNCHANGED <<lockVars, state, devZero, timeoutFlag>>
    BY <1>9 DEF AddReset
  <2>3. \/ UNCHANGED hwVars
        \/ link' = [link EXCEPT ![p] = Resetting(@)] /\ UNCHANGED chg
    BY <1>9 DEF AddReset
  <2>4. HardwareTypes'
    BY <1>0, <1>2, <2>3, HubKeeps DEF HardwareTypes
  <2> QED
    BY <1>0, <1>1, <1>3, <1>4, <2>1, <2>2, <2>4, LockKeeps DEF Incidents
<1>10. CASE AddPoll(p) \/ AddRelease(p) \/ AddExit(p)
  <2>1. \E l \in AddPcs : GoAdd(p, l)
    BY <1>10 DEF AddPoll, AddRelease, AddExit, AddPcs
  <2>2. UNCHANGED lockVars \/ Lock!ReleaseLock
    BY <1>10 DEF AddPoll, AddRelease, AddExit
  <2>3. /\ UNCHANGED spent \/ Spend("hub")
        /\ UNCHANGED <<hwVars, state, devZero, timeoutFlag, resetVector, portDevice>>
    BY <1>10 DEF AddPoll, AddRelease, AddExit
  <2> QED
    BY <1>0, <1>1, <1>2, <1>3, <1>4, <2>1, <2>2, <2>3, LockKeeps DEF Incidents
<1>11. CASE AddRepoll(p)
  <2>1. \E l \in AddPcs : GoAdd(p, l)
    BY <1>11 DEF AddRepoll, AddPcs
  <2>2. /\ UNCHANGED spent \/ Spend("slow") \/ Spend("hub")
        /\ UNCHANGED link \/ link' = [link EXCEPT ![p] = Resetting(@)]
        /\ UNCHANGED <<chg, lockVars, state, devZero, timeoutFlag, resetVector, portDevice>>
    BY <1>11 DEF AddRepoll
  <2>3. HardwareTypes'
    BY <1>0, <2>2, HubKeeps DEF HardwareTypes
  <2> QED
    BY <1>0, <1>1, <1>3, <1>4, <2>1, <2>2, <2>3, LockKeeps DEF Incidents
<1>12. CASE AddErr(p)
  <2>1. \E l \in AddPcs : GoAdd(p, l)
    BY <1>12 DEF AddErr, AddPcs
  <2>2. /\ UNCHANGED spent \/ Spend("hub")
        /\ UNCHANGED link \/ link' = [link EXCEPT ![p] = Disabled(@)]
        /\ RemoveIfThere(p) \/ UNCHANGED <<portDevice, resetVector>>
        /\ UNCHANGED <<chg, lockVars, state, devZero, timeoutFlag>>
    BY <1>12 DEF AddErr, FatalError
  <2>3. HardwareTypes'
    BY <1>0, <2>2, HubKeeps DEF HardwareTypes
  <2> QED
    BY <1>0, <1>1, <1>3, <1>4, <2>1, <2>2, <2>3, LockKeeps DEF Incidents
<1>13. CASE AddClear(p)
  <2>1. \E l \in AddPcs : GoAdd(p, l)
    BY <1>13 DEF AddClear, AddPcs
  <2>2. /\ devZero' \in [Ports -> BOOLEAN] /\ resetVector' \in [Ports -> {"default", "add"}]
        /\ UNCHANGED <<hwVars, spent, lockVars, state, timeoutFlag, portDevice>>
    BY <1>0, <1>13, SetKeeps DEF AddClear, NoteTypes
  <2>3. NoteTypes'
    BY <1>0, <2>2 DEF NoteTypes
  <2> QED
    BY <1>0, <1>1, <1>2, <1>3, <2>1, <2>2, <2>3, LockKeeps DEF Incidents
<1> QED
  BY <1>5, <1>6, <1>7, <1>8, <1>9, <1>10, <1>11, <1>12, <1>13 DEF AddStep

-----------------------------------------------------------------------------
(* The status change thread.                                                 *)

(* The types that a step of the status change thread can disturb.            *)
StatusStepTypes ==
    /\ HardwareTypes /\ IncidentTypes /\ NoteTypes /\ RetryTypes
    /\ StatusTypes /\ AdderTypes /\ Lock!LockTypeOK
    /\ scPc \in [Ports -> ScPcs] /\ scNext \in [Ports -> ScPcs]

(* Where the thread goes on.                                                 *)
LEMMA GoKeeps ==
  ASSUME StatusStepTypes, NEW p \in Ports, NEW l \in ScPcs, Go(p, l) \/ ReleaseThen(p, l)
  PROVE  scPc' \in [Ports -> ScPcs] /\ scNext' \in [Ports -> ScPcs]
<1>1. "unlock" \in ScPcs
  BY DEF ScPcs
<1>2. scPc \in [Ports -> ScPcs] /\ scNext \in [Ports -> ScPcs]
  BY DEF StatusStepTypes
<1> QED
  BY <1>1, <1>2 DEF Go, ReleaseThen, Set

(* What is left alone keeps its types.                                       *)
LEMMA LeftAlone ==
  ASSUME StatusStepTypes
  PROVE  /\ UNCHANGED hwVars => HardwareTypes'
         /\ (UNCHANGED spent \/ \E i \in Incidents : Spend(i)) => IncidentTypes'
         /\ UNCHANGED <<state, devZero, resetVector, portDevice>> => NoteTypes'
         /\ UNCHANGED <<retryVars, retryPortStatus, delayOnStatus>> => RetryTypes'
         /\ UNCHANGED portStatus => StatusTypes'
         /\ UNCHANGED addVars => AdderTypes'
         /\ UNCHANGED lockVars => Lock!LockTypeOK'
<1>1. UNCHANGED hwVars => HardwareTypes'
  BY DEF StatusStepTypes, HardwareTypes, hwVars
<1>2. UNCHANGED spent \/ (\E i \in Incidents : Spend(i)) => IncidentTypes'
  BY SpendKeeps DEF StatusStepTypes, IncidentTypes
<1>3. UNCHANGED <<state, devZero, resetVector, portDevice>> => NoteTypes'
  BY DEF StatusStepTypes, NoteTypes
<1>4. UNCHANGED <<retryVars, retryPortStatus, delayOnStatus>> => RetryTypes'
  BY DEF StatusStepTypes, RetryTypes, retryVars
<1>5. UNCHANGED portStatus => StatusTypes'
  BY DEF StatusStepTypes, StatusTypes
<1>6. UNCHANGED addVars => AdderTypes'
  BY DEF StatusStepTypes, AdderTypes, addVars
<1>7. UNCHANGED lockVars => Lock!LockTypeOK'
  BY DEF StatusStepTypes, lockVars, Lock!LockTypeOK
<1> QED
  BY <1>1, <1>2, <1>3, <1>4, <1>5, <1>6, <1>7

(* The loop over the changes, and the release of the lock.                   *)
LEMMA LoopKeeps ==
  ASSUME StatusStepTypes, NEW p \in Ports, UNCHANGED delayOnStatus,
         \/ Fetch(p) \/ Fetched(p) \/ Pick(p) \/ Again(p) \/ Failed(p) \/ End(p)
         \/ Unlock(p) \/ Clear(p)
  PROVE  StatusStepTypes'
<1>0. /\ HardwareTypes /\ NoteTypes /\ RetryTypes /\ StatusTypes /\ Lock!LockTypeOK
      /\ scPc \in [Ports -> ScPcs] /\ scNext \in [Ports -> ScPcs]
  BY DEF StatusStepTypes
<1>1. ASSUME NEW bits \in SUBSET Bits, GetPortStatus(p, bits)
      PROVE  StatusTypes'
  <2>1. [link |-> link[p], chg |-> bits] \in [link : Links, chg : SUBSET Bits]
    BY <1>0 DEF HardwareTypes
  <2> QED
    BY <1>0, <1>1, <2>1, SetKeeps DEF StatusTypes, GetPortStatus
<1>2. ASSUME UNCHANGED <<state, devZero>>,
             FatalError(p) \/ UNCHANGED <<portDevice, resetVector>>
      PROVE  NoteTypes'
  BY <1>0, <1>2, RemovalKeeps DEF NoteTypes
<1>3. CASE Fetch(p)
  <2>1. \E l \in ScPcs : Go(p, l)
    BY <1>3 DEF Fetch, ScPcs
  <2>2. chg[p] \in SUBSET Bits
    BY <1>0 DEF HardwareTypes
  <2>3. StatusTypes'
    <3>1. GetPortStatus(p, chg[p]) \/ UNCHANGED portStatus
      BY <1>3 DEF Fetch
    <3> QED
      BY <1>1, <2>2, <3>1, LeftAlone
  <2>4. /\ UNCHANGED <<hwVars, lockVars, state, devZero, retryVars, retryPortStatus,
                       addVars>>
        /\ UNCHANGED spent \/ Spend("hub")
        /\ FatalError(p) \/ UNCHANGED <<portDevice, resetVector>>
    BY <1>3 DEF Fetch
  <2> QED
    BY <1>2, <2>1, <2>3, <2>4, LeftAlone, GoKeeps DEF StatusStepTypes, Incidents
<1>9. CASE Fetched(p)
  <2>1. \E l \in ScPcs : Go(p, l)
    BY <1>9 DEF Fetched, ScPcs
  <2>2. RetryTypes'
    <3>1. retryPortStatus' \in [Ports -> BOOLEAN]
      BY <1>0, <1>9 DEF Fetched, RetryTypes, Set
    <3> QED
      BY <1>0, <1>9, <3>1 DEF Fetched, RetryTypes, retryVars
  <2>3. UNCHANGED <<hwVars, spent, lockVars, state, devZero, resetVector, portDevice,
                    portStatus, addVars>>
    BY <1>9 DEF Fetched
  <2> QED
    BY <2>1, <2>2, <2>3, LeftAlone, GoKeeps DEF StatusStepTypes
<1>4. CASE Pick(p)
  <2>1. \E l \in ScPcs : Go(p, l)
    BY <1>4 DEF Pick, ScPcs, Picked
  <2>2. chg' \in [Ports -> SUBSET Bits]
    <3>1. UNCHANGED chg \/ chg' = [chg EXCEPT ![p] = @ \ {Picked(p)}]
      BY <1>4 DEF Pick
    <3> QED
      BY <1>0, <3>1 DEF HardwareTypes
  <2>3. HardwareTypes'
    BY <1>0, <1>4, <2>2 DEF Pick, HardwareTypes
  <2>4. chg'[p] \in SUBSET Bits
    BY <2>2
  <2>5. StatusTypes'
    <3>1. GetPortStatus(p, chg'[p]) \/ UNCHANGED portStatus
      BY <1>4 DEF Pick
    <3> QED
      BY <1>1, <2>4, <3>1, LeftAlone
  <2>6. /\ UNCHANGED <<lockVars, state, devZero, retryVars, retryPortStatus, addVars>>
        /\ UNCHANGED spent \/ Spend("hub")
        /\ FatalError(p) \/ UNCHANGED <<portDevice, resetVector>>
    BY <1>4 DEF Pick
  <2> QED
    BY <1>2, <2>1, <2>3, <2>5, <2>6, LeftAlone, GoKeeps DEF StatusStepTypes, Incidents
<1>5. CASE Again(p) \/ Failed(p)
  <2>1. \E l \in ScPcs : Go(p, l) \/ ReleaseThen(p, l)
    BY <1>5 DEF Again, Failed, ScPcs
  <2>2. UNCHANGED <<hwVars, spent, lockVars, state, devZero, resetVector, portDevice,
                    retryVars, retryPortStatus, portStatus, addVars>>
    BY <1>5 DEF Again, Failed
  <2> QED
    BY <2>1, <2>2, LeftAlone, GoKeeps DEF StatusStepTypes
<1>6. CASE End(p)
  <2>1. \E l \in ScPcs : Go(p, l)
    BY <1>6 DEF End, ScPcs
  <2>2. [link |-> "empty", chg |-> {}] \in [link : Links, chg : SUBSET Bits]
    BY DEF Links
  <2>3. StatusTypes'
    BY <1>0, <1>6, <2>2, SetKeeps DEF End, StatusTypes
  <2>4. 0 \in 0 .. MaxDebounce + 1
    BY AttachAssumption
  <2>5. debounceCount' \in [Ports -> 0 .. MaxDebounce + 1]
    BY <1>0, <1>6, <2>4, SetKeeps DEF End, RetryTypes
  <2>6. RetryTypes'
    BY <1>0, <1>6, <2>5 DEF End, RetryTypes
  <2>7. UNCHANGED <<hwVars, spent, lockVars, state, devZero, resetVector, portDevice,
                    addVars>>
    BY <1>6 DEF End
  <2> QED
    BY <2>1, <2>3, <2>6, <2>7, LeftAlone, GoKeeps DEF StatusStepTypes
<1>7. CASE Unlock(p)
  <2>1. \E l \in ScPcs : Go(p, l)
    BY <1>7 DEF Unlock, ScPcs
  <2>2. Lock!LockTypeOK'
    BY <1>0, <1>7, LockKeeps DEF Unlock
  <2>3. UNCHANGED <<hwVars, spent, state, devZero, resetVector, portDevice, retryVars,
                    retryPortStatus, portStatus, addVars>>
    BY <1>7 DEF Unlock
  <2> QED
    BY <2>1, <2>2, <2>3, LeftAlone, GoKeeps DEF StatusStepTypes
<1>8. CASE Clear(p)
  <2>1. scPc' \in [Ports -> ScPcs] /\ scNext' \in [Ports -> ScPcs]
    <3>1. scNext[p] \in ScPcs /\ "idle" \in ScPcs
      BY <1>0 DEF ScPcs
    <3> QED
      BY <1>0, <1>8, <3>1, SetKeeps DEF Clear
  <2>2. devZero' \in [Ports -> BOOLEAN]
    BY <1>0, <1>8, SetKeeps DEF Clear, NoteTypes
  <2>3. NoteTypes'
    BY <1>0, <1>8, <2>2 DEF Clear, NoteTypes
  <2>4. UNCHANGED <<hwVars, spent, lockVars, retryVars, retryPortStatus, portStatus,
                    addVars>>
    BY <1>8 DEF Clear
  <2> QED
    BY <2>1, <2>3, <2>4, LeftAlone DEF StatusStepTypes
<1> QED
  BY <1>3, <1>4, <1>5, <1>6, <1>7, <1>8, <1>9

(* Notes that a handler leaves about the port.                               *)
LEMMA NotesKeep ==
  ASSUME NoteTypes, NEW p \in Ports, UNCHANGED devZero,
         UNCHANGED state \/ \E s \in States : state' = Set(state, p, s),
         UNCHANGED resetVector \/ resetVector' = Set(resetVector, p, "default"),
         \/ UNCHANGED portDevice
         \/ portDevice' = Set(portDevice, p, TRUE)
         \/ portDevice' = Set(portDevice, p, FALSE)
  PROVE  NoteTypes'
<1>1. state' \in [Ports -> States]
  BY DEF NoteTypes, Set
<1>2. resetVector' \in [Ports -> {"default", "add"}]
  BY DEF NoteTypes, Set
<1>3. portDevice' \in [Ports -> BOOLEAN]
  BY DEF NoteTypes, Set
<1> QED
  BY <1>1, <1>2, <1>3 DEF NoteTypes

(* A device that a failure removes is forgotten, and the vector with it.     *)
LEMMA RemovalNotes ==
  ASSUME NEW p \in Ports,
         FatalError(p) \/ RemoveIfThere(p) \/ UNCHANGED <<portDevice, resetVector>>
  PROVE  /\ UNCHANGED resetVector \/ resetVector' = Set(resetVector, p, "default")
         /\ UNCHANGED portDevice \/ portDevice' = Set(portDevice, p, FALSE)
BY DEF FatalError, RemoveIfThere, RemoveDevice

(* The counters of attach retries, and the note to look at the status again. *)
LEMMA RetriesKeep ==
  ASSUME RetryTypes, NEW p \in Ports, UNCHANGED <<debounceCount, delayOnStatus>>,
         \/ UNCHANGED attachRetry \/ attachRetry' = Set(attachRetry, p, 0)
         \/ attachRetry[p] # MaxAttach /\ attachRetry' = [attachRetry EXCEPT ![p] = @ + 1],
         \/ UNCHANGED attachRetryFailed
         \/ attachRetryFailed' = Set(attachRetryFailed, p, TRUE)
         \/ attachRetryFailed' = Set(attachRetryFailed, p, FALSE),
         UNCHANGED retryPortStatus \/ retryPortStatus' = Set(retryPortStatus, p, TRUE)
  PROVE  RetryTypes'
<1>1. attachRetry' \in [Ports -> 0 .. MaxAttach]
  <2>1. attachRetry \in [Ports -> 0 .. MaxAttach] /\ 0 \in 0 .. MaxAttach
    BY AttachAssumption DEF RetryTypes
  <2>2. ASSUME attachRetry[p] # MaxAttach
        PROVE  attachRetry[p] + 1 \in 0 .. MaxAttach
    BY <2>1, <2>2, AttachAssumption
  <2> QED
    BY <2>1, <2>2 DEF Set
<1>2. attachRetryFailed' \in [Ports -> BOOLEAN]
  BY DEF RetryTypes, Set
<1>3. retryPortStatus' \in [Ports -> BOOLEAN]
  BY DEF RetryTypes, Set
<1> QED
  BY <1>1, <1>2, <1>3 DEF RetryTypes

(* The handler of the reset that AddDevice asked for.                        *)
LEMMA EnumerationKeeps ==
  ASSUME StatusStepTypes, NEW p \in Ports, UNCHANGED delayOnStatus,
         \/ Reset(p) \/ Configure(p) \/ Describe(p) \/ Address(p)
         \/ EnumerationErr(p)
  PROVE  StatusStepTypes'
<1>0. HardwareTypes /\ IncidentTypes /\ NoteTypes /\ Lock!LockTypeOK
  BY DEF StatusStepTypes
<1>1. CASE Reset(p)
  <2>1. \E l \in ScPcs : Go(p, l)
    BY <1>1 DEF Reset, ScPcs
  <2>2. /\ UNCHANGED state \/ \E s \in States : state' = Set(state, p, s)
        /\ UNCHANGED resetVector \/ resetVector' = Set(resetVector, p, "default")
    BY <1>1 DEF Reset, States
  <2>3. UNCHANGED <<hwVars, spent, lockVars, devZero, portDevice, retryVars,
                    retryPortStatus, portStatus, addVars>>
    BY <1>1 DEF Reset
  <2>4. NoteTypes'
    BY <1>0, <2>2, <2>3, NotesKeep
  <2> QED
    BY <2>1, <2>3, <2>4, LeftAlone, GoKeeps DEF StatusStepTypes
<1>2. CASE Configure(p)
  <2>1. \E l \in ScPcs : Go(p, l)
    BY <1>2 DEF Configure, ScPcs
  <2>2. UNCHANGED state \/ \E s \in States : state' = Set(state, p, s)
    BY <1>2 DEF Configure, States
  <2>3. /\ UNCHANGED <<hwVars, devZero, resetVector, portDevice, retryVars,
                       retryPortStatus, portStatus, addVars>>
        /\ UNCHANGED spent \/ \E i \in Incidents : Spend(i)
        /\ Lock!OpenPipeZero \/ UNCHANGED lockVars
    BY <1>2 DEF Configure, Incidents
  <2>4. NoteTypes'
    BY <1>0, <2>2, <2>3, NotesKeep
  <2>5. Lock!LockTypeOK'
    BY <1>0, <2>3, LockKeeps
  <2> QED
    BY <2>1, <2>3, <2>4, <2>5, LeftAlone, GoKeeps DEF StatusStepTypes
<1>3. CASE Describe(p)
  <2>1. \E l \in ScPcs : Go(p, l)
    BY <1>3 DEF Describe, ScPcs
  <2>2. UNCHANGED state \/ \E s \in States : state' = Set(state, p, s)
    BY <1>3 DEF Describe, States
  <2>3. /\ UNCHANGED <<hwVars, lockVars, devZero, resetVector, portDevice, retryVars,
                       retryPortStatus, portStatus, addVars>>
        /\ UNCHANGED spent \/ \E i \in Incidents : Spend(i)
    BY <1>3 DEF Describe, Incidents
  <2>4. NoteTypes'
    BY <1>0, <2>2, <2>3, NotesKeep
  <2> QED
    BY <2>1, <2>3, <2>4, LeftAlone, GoKeeps DEF StatusStepTypes
<1>4. CASE Address(p)
  <2>1. \E l \in ScPcs : Go(p, l) \/ ReleaseThen(p, l)
    BY <1>4 DEF Address, ScPcs
  <2>2. /\ UNCHANGED <<chg, lockVars, state, devZero, resetVector, retryVars,
                       retryPortStatus, portStatus, addVars>>
        /\ UNCHANGED spent \/ \E i \in Incidents : Spend(i)
        /\ UNCHANGED portDevice \/ portDevice' = Set(portDevice, p, FALSE)
        /\ \/ UNCHANGED link
           \/ link' = [q \in Ports |-> IF q \in AtZero THEN "address" ELSE link[q]]
    BY <1>4 DEF Address, Incidents
  <2>3. link' \in [Ports -> Links]
    BY <1>0, <2>2 DEF HardwareTypes, Links
  <2>4. HardwareTypes'
    BY <1>0, <2>2, <2>3 DEF HardwareTypes
  <2>5. NoteTypes'
    BY <1>0, <2>2, NotesKeep
  <2> QED
    BY <2>1, <2>2, <2>4, <2>5, LeftAlone, GoKeeps DEF StatusStepTypes
<1>5. CASE EnumerationErr(p)
  <2>1. \E l \in ScPcs : Go(p, l) \/ ReleaseThen(p, l)
    BY <1>5 DEF EnumerationErr, ScPcs
  <2>2. /\ UNCHANGED <<chg, lockVars, devZero, retryVars, retryPortStatus,
                       portStatus, addVars>>
        /\ UNCHANGED spent \/ \E i \in Incidents : Spend(i)
        /\ UNCHANGED link \/ link' = [link EXCEPT ![p] = Disabled(@)]
    BY <1>5 DEF EnumerationErr, Incidents
  <2>3. HardwareTypes'
    BY <1>0, <2>2, HubKeeps DEF HardwareTypes
  <2>4. UNCHANGED state \/ \E s \in States : state' = Set(state, p, s)
    BY <1>5 DEF EnumerationErr, States
  <2>5. /\ UNCHANGED resetVector \/ resetVector' = Set(resetVector, p, "default")
        /\ UNCHANGED portDevice \/ portDevice' = Set(portDevice, p, FALSE)
    BY <1>5, RemovalNotes DEF EnumerationErr
  <2>6. NoteTypes'
    BY <1>0, <2>2, <2>4, <2>5, NotesKeep
  <2> QED
    BY <2>1, <2>2, <2>3, <2>6, LeftAlone, GoKeeps DEF StatusStepTypes
<1> QED
  BY <1>1, <1>2, <1>3, <1>4, <1>5

(* The device is made, and the ways to start over.                           *)
LEMMA CreationKeeps ==
  ASSUME StatusStepTypes, NEW p \in Ports, UNCHANGED delayOnStatus,
         \/ Create(p) \/ CreateErr(p) \/ Relaunch(p) \/ ResetErr(p)
         \/ ResetErrEnd(p)
  PROVE  StatusStepTypes'
<1>0. /\ HardwareTypes /\ IncidentTypes /\ NoteTypes /\ RetryTypes /\ AdderTypes
      /\ Lock!LockTypeOK
  BY DEF StatusStepTypes
<1>1. CASE Create(p)
  <2>1. \E l \in ScPcs : Go(p, l)
    BY <1>1 DEF Create, ScPcs
  <2>2. /\ UNCHANGED <<hwVars, lockVars, devZero, debounceCount, portStatus, addVars>>
        /\ UNCHANGED spent \/ \E i \in Incidents : Spend(i)
        /\ \E s \in States : state' = Set(state, p, s)
        /\ resetVector' = Set(resetVector, p, "default")
        /\ UNCHANGED portDevice \/ portDevice' = Set(portDevice, p, TRUE)
        /\ UNCHANGED attachRetry \/ attachRetry' = Set(attachRetry, p, 0)
        /\ \/ UNCHANGED attachRetryFailed
           \/ attachRetryFailed' = Set(attachRetryFailed, p, FALSE)
        /\ \/ UNCHANGED retryPortStatus
           \/ retryPortStatus' = Set(retryPortStatus, p, TRUE)
    BY <1>1 DEF Create, Incidents, States
  <2>3. NoteTypes'
    BY <1>0, <2>2, NotesKeep
  <2>4. RetryTypes'
    BY <1>0, <2>2, RetriesKeep
  <2> QED
    BY <2>1, <2>2, <2>3, <2>4, LeftAlone, GoKeeps DEF StatusStepTypes
<1>2. CASE CreateErr(p)
  <2>1. \E l \in ScPcs : Go(p, l) \/ ReleaseThen(p, l)
    BY <1>2 DEF CreateErr, ScPcs
  <2>2. /\ UNCHANGED <<lockVars, state, devZero, resetVector, portDevice, retryVars,
                       retryPortStatus, portStatus, addVars>>
        /\ DisablePort(p)
    BY <1>2 DEF CreateErr
  <2>3. HardwareTypes' /\ IncidentTypes'
    BY <1>0, <2>2, HubKeeps
  <2> QED
    BY <2>1, <2>2, <2>3, LeftAlone, GoKeeps DEF StatusStepTypes
<1>3. CASE Relaunch(p)
  <2>1. \E l \in ScPcs : Go(p, l)
    BY <1>3 DEF Relaunch, ScPcs
  <2>2. /\ UNCHANGED <<hwVars, lockVars, state, devZero, resetVector, portDevice,
                       retryVars, retryPortStatus, portStatus>>
        /\ Relaunches(p, FALSE)
    BY <1>3 DEF Relaunch
  <2>3. AdderTypes' /\ IncidentTypes'
    BY <1>0, <2>2, LaunchKeeps
  <2> QED
    BY <2>1, <2>2, <2>3, LeftAlone, GoKeeps DEF StatusStepTypes
<1>4. CASE ResetErr(p)
  <2>1. \E l \in ScPcs : Go(p, l) \/ ReleaseThen(p, l)
    BY <1>4 DEF ResetErr, ScPcs
  <2>2. /\ UNCHANGED <<lockVars, state, devZero, resetVector, portDevice, retryVars,
                       retryPortStatus, portStatus, addVars>>
        /\ DisablePort(p) \/ UNCHANGED <<hwVars, spent>>
    BY <1>4 DEF ResetErr
  <2>3. HardwareTypes' /\ IncidentTypes'
    BY <1>0, <2>2, HubKeeps, LeftAlone
  <2> QED
    BY <2>1, <2>2, <2>3, LeftAlone, GoKeeps DEF StatusStepTypes
<1>5. CASE ResetErrEnd(p)
  <2>1. \E l \in ScPcs : Go(p, l)
    BY <1>5 DEF ResetErrEnd, ScPcs
  <2>2. /\ UNCHANGED <<hwVars, spent, lockVars, state, devZero, portDevice, retryVars,
                       retryPortStatus, portStatus, addVars>>
        /\ resetVector' = Set(resetVector, p, "default")
    BY <1>5 DEF ResetErrEnd
  <2>3. NoteTypes'
    BY <1>0, <2>2, NotesKeep
  <2> QED
    BY <2>1, <2>2, <2>3, LeftAlone, GoKeeps DEF StatusStepTypes
<1> QED
  BY <1>1, <1>2, <1>3, <1>4, <1>5

(* A device that is given up, or tried again.                                *)
LEMMA DetachKeeps ==
  ASSUME StatusStepTypes, NEW p \in Ports, UNCHANGED delayOnStatus,
         Detach(p) \/ Detach2(p)
  PROVE  StatusStepTypes'
<1>0. /\ HardwareTypes /\ IncidentTypes /\ NoteTypes /\ RetryTypes /\ AdderTypes
      /\ Lock!LockTypeOK
  BY DEF StatusStepTypes
<1>1. CASE Detach(p)
  <2>1. \E l \in ScPcs : Go(p, l)
    BY <1>1 DEF Detach, ScPcs
  <2>2. /\ UNCHANGED <<lockVars, devZero, debounceCount, retryPortStatus, portStatus,
                       addVars>>
        /\ UNCHANGED spent \/ \E i \in Incidents : Spend(i)
        /\ PowerCycle(p) \/ PowerOff(p) \/ UNCHANGED hwVars
    BY <1>1 DEF Detach, Incidents
  <2>3. UNCHANGED state \/ \E s \in States : state' = Set(state, p, s)
    BY <1>1 DEF Detach, States
  <2>4. FatalError(p) \/ UNCHANGED <<portDevice, resetVector>>
    BY <1>1 DEF Detach
  <2>5. /\ UNCHANGED resetVector \/ resetVector' = Set(resetVector, p, "default")
        /\ UNCHANGED portDevice \/ portDevice' = Set(portDevice, p, FALSE)
    BY <2>4, RemovalNotes
  <2>6. /\ \/ UNCHANGED attachRetry
           \/ attachRetry[p] # MaxAttach /\ attachRetry' = [attachRetry EXCEPT ![p] = @ + 1]
        /\ \/ UNCHANGED attachRetryFailed
           \/ attachRetryFailed' = Set(attachRetryFailed, p, TRUE)
    BY <1>1 DEF Detach
  <2>7. NoteTypes'
    BY <1>0, <2>2, <2>3, <2>5, NotesKeep
  <2>8. RetryTypes'
    BY <1>0, <2>2, <2>6, RetriesKeep
  <2>9. HardwareTypes'
    BY <1>0, <2>2, HubKeeps, LeftAlone
  <2> QED
    BY <2>1, <2>2, <2>7, <2>8, <2>9, LeftAlone, GoKeeps DEF StatusStepTypes
<1>2. CASE Detach2(p)
  <2>1. \E l \in ScPcs : Go(p, l)
    BY <1>2 DEF Detach2, ScPcs
  <2>2. /\ UNCHANGED <<lockVars, state, devZero, retryVars, portStatus>>
        /\ \/ UNCHANGED hwVars
           \/ /\ link' = [link EXCEPT ![p] = Disabled(@)]
              /\ chg' = [chg EXCEPT ![p] = @ \ {"connection"}]
        /\ \/ UNCHANGED addVars \/ Relaunches(p, TRUE) \/ LaunchAddDeviceThread(p, TRUE)
        /\ UNCHANGED spent \/ (\E i \in Incidents : Spend(i)) \/ Relaunches(p, TRUE)
        /\ UNCHANGED retryPortStatus \/ retryPortStatus' = Set(retryPortStatus, p, TRUE)
    BY <1>2 DEF Detach2, Incidents
  <2>3. /\ UNCHANGED resetVector \/ resetVector' = Set(resetVector, p, "default")
        /\ UNCHANGED portDevice \/ portDevice' = Set(portDevice, p, FALSE)
    BY <1>2, RemovalNotes DEF Detach2
  <2>4. chg' \in [Ports -> SUBSET Bits]
    BY <1>0, <2>2 DEF HardwareTypes, hwVars
  <2>5. link' \in [Ports -> Links]
    BY <1>0, <2>2, HubKeeps DEF HardwareTypes, hwVars
  <2>6. HardwareTypes'
    BY <2>4, <2>5 DEF HardwareTypes
  <2>7. NoteTypes'
    BY <1>0, <2>2, <2>3, NotesKeep
  <2>8. RetryTypes'
    BY <1>0, <2>2, RetriesKeep DEF retryVars
  <2>9. AdderTypes' /\ IncidentTypes'
    BY <1>0, <2>2, LaunchKeeps, LeftAlone
  <2> QED
    BY <2>1, <2>2, <2>6, <2>7, <2>8, <2>9, LeftAlone, GoKeeps DEF StatusStepTypes
<1> QED
  BY <1>1, <1>2

(* The handler of a connection change.                                       *)
LEMMA ConnectionKeeps ==
  ASSUME StatusStepTypes, Debounced, NEW p \in Ports, UNCHANGED delayOnStatus,
         Connection(p) \/ Remove(p) \/ Recheck(p)
  PROVE  StatusStepTypes'
<1>0. /\ HardwareTypes /\ IncidentTypes /\ NoteTypes /\ RetryTypes /\ AdderTypes
      /\ Lock!LockTypeOK
  BY DEF StatusStepTypes
<1>1. CASE Connection(p)
  <2>1. \E l \in ScPcs : Go(p, l) \/ ReleaseThen(p, l)
    BY <1>1 DEF Connection, ScPcs
  <2>2. /\ UNCHANGED <<hwVars, spent, lockVars, state, devZero, resetVector, portDevice,
                       debounceCount, retryPortStatus, portStatus, addVars>>
        /\ UNCHANGED attachRetry \/ attachRetry' = Set(attachRetry, p, 0)
        /\ \/ UNCHANGED attachRetryFailed
           \/ attachRetryFailed' = Set(attachRetryFailed, p, FALSE)
    BY <1>1 DEF Connection
  <2>3. RetryTypes'
    BY <1>0, <2>2, RetriesKeep
  <2> QED
    BY <2>1, <2>2, <2>3, LeftAlone, GoKeeps DEF StatusStepTypes
<1>2. CASE Remove(p)
  <2>1. \E l \in ScPcs : Go(p, l)
    BY <1>2 DEF Remove, ScPcs
  <2>2. /\ UNCHANGED <<hwVars, spent, lockVars, state, devZero, retryVars,
                       retryPortStatus, portStatus, addVars>>
        /\ RemoveIfThere(p)
    BY <1>2 DEF Remove
  <2>3. NoteTypes'
    BY <1>0, <2>2, NotesKeep, RemovalNotes
  <2> QED
    BY <2>1, <2>2, <2>3, LeftAlone, GoKeeps DEF StatusStepTypes
<1>3. CASE Recheck(p)
  <2>1. \E l \in ScPcs : Go(p, l)
    BY <1>3 DEF Recheck, ScPcs
  <2>2. /\ UNCHANGED <<hwVars, lockVars, devZero, attachRetry, attachRetryFailed,
                       portStatus>>
        /\ FatalError(p) \/ UNCHANGED <<portDevice, resetVector>>
        /\ UNCHANGED spent \/ (\E i \in Incidents : Spend(i)) \/ Relaunches(p, FALSE)
        /\ UNCHANGED addVars \/ Relaunches(p, FALSE)
        /\ UNCHANGED retryPortStatus \/ retryPortStatus' = Set(retryPortStatus, p, TRUE)
        /\ \/ UNCHANGED debounceCount
           \/ debounceCount' = [debounceCount EXCEPT ![p] = @ + 1]
    BY <1>3 DEF Recheck, Incidents
  <2>3. UNCHANGED state \/ \E s \in States : state' = Set(state, p, s)
    BY <1>3 DEF Recheck, States
  <2>4. NoteTypes'
    BY <1>0, <2>2, <2>3, NotesKeep, RemovalNotes
  <2>5. debounceCount \in [Ports -> 0 .. MaxDebounce + 1]
    BY <1>0 DEF RetryTypes
  <2>6. debounceCount[p] # MaxDebounce + 1
    BY <1>3 DEF Debounced, Ending, Recheck, At
  <2>7. debounceCount[p] + 1 \in 0 .. MaxDebounce + 1
    BY <2>5, <2>6, AttachAssumption
  <2>8. debounceCount' \in [Ports -> 0 .. MaxDebounce + 1]
    BY <2>2, <2>5, <2>7
  <2>9. retryPortStatus' \in [Ports -> BOOLEAN]
    BY <1>0, <2>2 DEF RetryTypes, Set
  <2>10. RetryTypes'
    BY <1>0, <2>2, <2>8, <2>9 DEF RetryTypes
  <2>11. AdderTypes' /\ IncidentTypes'
    BY <1>0, <2>2, LaunchKeeps, LeftAlone
  <2> QED
    BY <2>1, <2>2, <2>4, <2>10, <2>11, LeftAlone, GoKeeps DEF StatusStepTypes
<1> QED
  BY <1>1, <1>2, <1>3

-----------------------------------------------------------------------------
(* The actors, one by one.                                                   *)

(* The types of what the hub's hardware changes, and its interrupt read.     *)
LEMMA OthersKeep ==
  ASSUME Typed, NEW p \in Ports,
         Hardware(p) \/ ProcessStatusChanged \/ StatusCall(p)
  PROVE  Typed'
<1>0. StatusStepTypes /\ HandlerTypes /\ DogTypes
  BY DEF Typed, StatusStepTypes, HandlerTypes
<1> USE DEF StatusStepTypes
<1>1. CASE Hardware(p)
  <2>1. HardwareTypes' /\ IncidentTypes'
    BY <1>0, <1>1, HubKeeps DEF Hardware
  <2>2. UNCHANGED <<lockVars, state, devZero, resetVector, portDevice, retryVars,
                    retryPortStatus, delayOnStatus, portStatus, addVars>>
    BY <1>1 DEF Hardware
  <2>3. HandlerTypes' /\ DogTypes'
    BY <1>0, <1>1 DEF Hardware, HandlerTypes, DogTypes, wdVars
  <2> QED
    BY <1>0, <2>1, <2>2, <2>3, LeftAlone DEF Typed
<1>2. CASE ProcessStatusChanged
  <2>1. /\ UNCHANGED <<hwVars, lockVars, state, devZero, resetVector, portDevice,
                       retryVars, retryPortStatus, delayOnStatus, portStatus, addVars>>
        /\ UNCHANGED spent \/ \E i \in Incidents : Spend(i)
    BY <1>2 DEF ProcessStatusChanged, Incidents
  <2>2. scCall' \in [Ports -> BOOLEAN]
    <3>1. scCall' = [q \in Ports |-> scCall[q] \/ chg[q] # {}]
      BY <1>2 DEF ProcessStatusChanged
    <3>2. \A q \in Ports : (scCall[q] \/ chg[q] # {}) \in BOOLEAN
      OBVIOUS
    <3> QED
      BY <3>1, <3>2
  <2>3. HandlerTypes' /\ DogTypes'
    BY <1>0, <1>2, <2>2 DEF ProcessStatusChanged, HandlerTypes, DogTypes, wdVars
  <2> QED
    BY <1>0, <2>1, <2>3, LeftAlone DEF Typed
<1>3. CASE StatusCall(p)
  <2>1. UNCHANGED <<hwVars, spent, lockVars, state, devZero, resetVector, portDevice,
                    debounceCount, attachRetry, attachRetryFailed, delayOnStatus,
                    portStatus, addVars, scNext, wdVars>>
    BY <1>3 DEF StatusCall, retryVars
  <2>2. UNCHANGED retryPortStatus \/ retryPortStatus' = Set(retryPortStatus, p, TRUE)
    BY <1>3 DEF StatusCall
  <2>3. scCall' \in [Ports -> BOOLEAN]
    BY <1>0, <1>3 DEF StatusCall, HandlerTypes, Set
  <2>4. scPc' \in [Ports -> ScPcs]
    BY <1>0, <1>3 DEF StatusCall, HandlerTypes, Set, ScPcs
  <2>5. HandlerTypes' /\ DogTypes'
    BY <1>0, <2>1, <2>3, <2>4 DEF HandlerTypes, DogTypes, wdVars
  <2>6. RetryTypes'
    BY <1>0, <2>1, <2>2, RetriesKeep
  <2> QED
    BY <1>0, <2>1, <2>5, <2>6, LeftAlone DEF Typed
<1> QED
  BY <1>1, <1>2, <1>3

(* The AddDevice thread.                                                     *)
LEMMA AdderKeeps ==
  ASSUME Typed, NEW p \in Ports, AddDevice(p)
  PROVE  Typed'
<1>1. AddStep(p)
  BY DEF AddDevice
<1>2. /\ HardwareTypes' /\ IncidentTypes' /\ NoteTypes' /\ Lock!LockTypeOK'
      /\ addPc' \in [Ports -> AddPcs] /\ timeoutFlag' \in [Ports -> BOOLEAN]
  BY <1>1, AddStepKeeps
<1>3. UNCHANGED <<retryVars, retryPortStatus, portStatus, scCall, scPc, scNext, wdPc>>
  BY DEF AddDevice
<1>4. addArg' \in [Ports -> BOOLEAN]
  <2>1. UNCHANGED addArg \/ addArg' = Set(addArg, p, FALSE)
    BY DEF AddDevice
  <2> QED
    BY <2>1 DEF Typed, AdderTypes, Set
<1>5. delayOnStatus' \in [Ports -> BOOLEAN]
  <2>1. UNCHANGED delayOnStatus \/ delayOnStatus' = Set(delayOnStatus, p, TRUE)
    BY DEF AddDevice
  <2> QED
    BY <2>1 DEF Typed, RetryTypes, Set
<1>6. AdderTypes' /\ RetryTypes'
  BY <1>2, <1>3, <1>4, <1>5 DEF Typed, AdderTypes, RetryTypes, retryVars
<1>7. StatusTypes' /\ HandlerTypes' /\ DogTypes'
  BY <1>2, <1>3 DEF Typed, StatusTypes, HandlerTypes, DogTypes
<1> QED
  BY <1>2, <1>6, <1>7 DEF Typed

(* The status change thread.                                                 *)
LEMMA HandlerKeeps ==
  ASSUME Typed, Debounced, NEW p \in Ports, PortStatusChangedHandler(p)
  PROVE  Typed'
<1>0. StatusStepTypes /\ HandlerTypes /\ DogTypes
  BY DEF Typed, StatusStepTypes, HandlerTypes
<1>1. UNCHANGED <<scCall, wdVars>>
  BY DEF PortStatusChangedHandler
<1>2. StatusStepTypes'
  <2>1. CASE StatusStep(p) /\ UNCHANGED delayOnStatus
    BY <1>0, <2>1, LoopKeeps, EnumerationKeeps, CreationKeeps, DetachKeeps,
       ConnectionKeeps DEF StatusStep
  <2>2. CASE StartOrDelay(p)
    <3>1. \E l \in ScPcs : Go(p, l)
      BY <2>2 DEF StartOrDelay, Start, Delay, ScPcs
    <3>2. /\ UNCHANGED <<hwVars, lockVars, state, devZero, resetVector, portDevice,
                         retryVars, retryPortStatus, portStatus, addVars>>
          /\ UNCHANGED spent \/ \E i \in Incidents : Spend(i)
          /\ UNCHANGED delayOnStatus \/ delayOnStatus' = Set(delayOnStatus, p, FALSE)
      BY <2>2 DEF StartOrDelay, Start, Delay, Incidents
    <3>3. delayOnStatus' \in [Ports -> BOOLEAN]
      BY <1>0, <3>2 DEF StatusStepTypes, RetryTypes, Set
    <3>4. RetryTypes'
      BY <1>0, <3>2, <3>3 DEF StatusStepTypes, RetryTypes, retryVars
    <3> QED
      BY <1>0, <3>1, <3>2, <3>4, LeftAlone, GoKeeps DEF StatusStepTypes
  <2> QED
    BY <2>1, <2>2 DEF PortStatusChangedHandler
<1>3. HandlerTypes' /\ DogTypes'
  BY <1>0, <1>1, <1>2 DEF StatusStepTypes, HandlerTypes, DogTypes, wdVars
<1> QED
  BY <1>2, <1>3 DEF Typed, StatusStepTypes

(* The watchdog.                                                             *)
LEMMA DogKeeps ==
  ASSUME Typed, NEW p \in Ports, Watchdog(p)
  PROVE  Typed'
<1>0. StatusStepTypes /\ HandlerTypes /\ DogTypes
  BY DEF Typed, StatusStepTypes, HandlerTypes
<1>1. UNCHANGED wdUnchanged \/ UNCHANGED <<resetVector, portDevice, retryVars,
        retryPortStatus, delayOnStatus, portStatus, addVars, scCall, scPc, scNext>>
  BY DEF Watchdog, WatchdogNotes, WatchdogFires, ResetPortZero, ReleaseDevZeroLock,
         ClearDevZero, wdUnchanged
<1>2. UNCHANGED <<resetVector, portDevice, retryVars, retryPortStatus, delayOnStatus,
                  portStatus, addVars, scCall, scPc, scNext>>
  BY <1>1 DEF wdUnchanged
<1>3. RetryTypes' /\ StatusTypes' /\ AdderTypes' /\ HandlerTypes'
  BY <1>0, <1>2, LeftAlone DEF HandlerTypes
<1>4. DogTypes'
  <2>1. \/ UNCHANGED timeoutFlag \/ timeoutFlag' = Set(timeoutFlag, p, TRUE)
        \/ timeoutFlag' = Set(timeoutFlag, p, FALSE)
    BY DEF Watchdog, WatchdogNotes, WatchdogFires, ResetPortZero, ReleaseDevZeroLock,
           ClearDevZero
  <2>2. timeoutFlag' \in [Ports -> BOOLEAN]
    BY <1>0, <2>1 DEF DogTypes, Set
  <2>3. \/ UNCHANGED wdPc
        \/ \E l \in {"idle", "fire", "release", "clear"} : wdPc' = Set(wdPc, p, l)
    BY DEF Watchdog, WatchdogNotes, WatchdogFires, ResetPortZero, ReleaseDevZeroLock,
           ClearDevZero
  <2>4. wdPc' \in [Ports -> {"idle", "fire", "release", "clear"}]
    BY <1>0, <2>3 DEF DogTypes, Set
  <2> QED
    BY <2>2, <2>4 DEF DogTypes
<1>5. NoteTypes'
  <2>1. UNCHANGED state \/ state' = Set(state, p, "normal")
    BY DEF Watchdog, WatchdogNotes, WatchdogFires, ResetPortZero, ReleaseDevZeroLock,
           ClearDevZero
  <2>2. UNCHANGED devZero \/ devZero' = Set(devZero, p, FALSE)
    BY DEF Watchdog, WatchdogNotes, WatchdogFires, ResetPortZero, ReleaseDevZeroLock,
           ClearDevZero
  <2>3. state' \in [Ports -> States] /\ devZero' \in [Ports -> BOOLEAN]
    BY <1>0, <2>1, <2>2 DEF StatusStepTypes, NoteTypes, Set, States
  <2> QED
    BY <1>0, <1>2, <2>3 DEF StatusStepTypes, NoteTypes
<1>6. HardwareTypes' /\ IncidentTypes'
  <2>1. \/ DisablePort(p)
        \/ UNCHANGED hwVars /\ (UNCHANGED spent \/ \E i \in Incidents : Spend(i))
    BY DEF Watchdog, WatchdogNotes, WatchdogFires, ResetPortZero, ReleaseDevZeroLock,
           ClearDevZero, wdUnchanged, hwVars, Incidents
  <2> QED
    BY <1>0, <2>1, HubKeeps, LeftAlone DEF StatusStepTypes
<1>7. Lock!LockTypeOK'
  <2>1. UNCHANGED lockVars \/ Lock!ReleaseLock
    BY DEF Watchdog, WatchdogNotes, WatchdogFires, ResetPortZero, ReleaseDevZeroLock,
           ClearDevZero
  <2> QED
    BY <1>0, <2>1, LockKeeps DEF StatusStepTypes
<1> QED
  BY <1>3, <1>4, <1>5, <1>6, <1>7 DEF Typed

-----------------------------------------------------------------------------
(* The count of connection changes is put back whatever way the thread ends. *)

(* Away from the end the count has room, and a step that leaves it alone     *)
(* keeps it.                                                                 *)
LEMMA CountLeftAlone ==
  ASSUME Typed, Debounced, NEW p \in Ports, NEW l \in ScPcs,
         Go(p, l) \/ ReleaseThen(p, l),
         UNCHANGED debounceCount, ~Ending(p)
  PROVE  Debounced'
<1>1. /\ scPc \in [Ports -> ScPcs] /\ scNext \in [Ports -> ScPcs]
      /\ debounceCount[p] # MaxDebounce + 1
  BY DEF Typed, HandlerTypes, Debounced
<1>2. ASSUME NEW q \in Ports, q # p
      PROVE  scPc'[q] = scPc[q] /\ scNext'[q] = scNext[q]
  BY <1>1, <1>2 DEF Go, ReleaseThen, Set
<1> QED
  BY <1>1, <1>2 DEF Debounced, Ending

(* The status change thread passes the debounce limit only on its way out.   *)
LEMMA DebouncedKept ==
  ASSUME Typed, Debounced, NEW p \in Ports, PortStatusChangedHandler(p)
  PROVE  Debounced'
<1>0. /\ scPc \in [Ports -> ScPcs] /\ scNext \in [Ports -> ScPcs]
      /\ debounceCount \in [Ports -> 0 .. MaxDebounce + 1]
  BY DEF Typed, HandlerTypes, RetryTypes
<1> USE DEF At
<1>1. CASE StartOrDelay(p)
  <2>1. \E l \in ScPcs : Go(p, l)
    BY <1>1 DEF StartOrDelay, Start, Delay, ScPcs
  <2>2. UNCHANGED debounceCount /\ ~Ending(p)
    BY <1>1 DEF StartOrDelay, Start, Delay, retryVars, Ending
  <2> QED
    BY <2>1, <2>2, CountLeftAlone
<1>2. CASE Fetch(p) \/ Fetched(p) \/ Pick(p) \/ Again(p)
  <2>1. \E l \in ScPcs : Go(p, l)
    BY <1>2 DEF Fetch, Fetched, Pick, Picked, Again, ScPcs
  <2>2. UNCHANGED debounceCount /\ ~Ending(p)
    BY <1>2 DEF Fetch, Fetched, Pick, Again, retryVars, Ending
  <2> QED
    BY <2>1, <2>2, CountLeftAlone
<1>3. CASE Reset(p) \/ Configure(p) \/ Describe(p) \/ Address(p) \/ EnumerationErr(p)
  <2>1. \E l \in ScPcs : Go(p, l) \/ ReleaseThen(p, l)
    BY <1>3 DEF Reset, Configure, Describe, Address, EnumerationErr, ScPcs
  <2>2. UNCHANGED debounceCount /\ ~Ending(p)
    BY <1>3 DEF Reset, Configure, Describe, Address, EnumerationErr, retryVars, Ending
  <2> QED
    BY <2>1, <2>2, CountLeftAlone
<1>4. CASE Create(p) \/ CreateErr(p) \/ Relaunch(p) \/ ResetErr(p) \/ ResetErrEnd(p)
  <2>1. \E l \in ScPcs : Go(p, l) \/ ReleaseThen(p, l)
    BY <1>4 DEF Create, CreateErr, Relaunch, ResetErr, ResetErrEnd, ScPcs
  <2>2. UNCHANGED debounceCount /\ ~Ending(p)
    BY <1>4 DEF Create, CreateErr, Relaunch, ResetErr, ResetErrEnd, retryVars, Ending
  <2> QED
    BY <2>1, <2>2, CountLeftAlone
<1>5. CASE Detach(p) \/ Detach2(p) \/ Connection(p) \/ Remove(p)
  <2>1. \E l \in ScPcs : Go(p, l) \/ ReleaseThen(p, l)
    BY <1>5 DEF Detach, Detach2, Connection, Remove, ScPcs
  <2>2. UNCHANGED debounceCount /\ ~Ending(p)
    BY <1>5 DEF Detach, Detach2, Connection, Remove, retryVars, Ending
  <2> QED
    BY <2>1, <2>2, CountLeftAlone
<1>6. CASE Recheck(p)
  <2>1. scPc[p] = "recheck"
    BY <1>6 DEF Recheck
  <2>2. debounceCount[p] # MaxDebounce + 1 /\ ~Ending(p)
    BY <2>1 DEF Debounced, Ending
  <2>3. CASE UNCHANGED debounceCount
    <3>1. \E l \in ScPcs : Go(p, l)
      BY <1>6 DEF Recheck, ScPcs
    <3> QED
      BY <2>2, <2>3, <3>1, CountLeftAlone
  <2>4. CASE /\ debounceCount' = [debounceCount EXCEPT ![p] = @ + 1]
             /\ IF debounceCount[p] < MaxDebounce THEN Go(p, "again") ELSE Go(p, "failed")
    <3>1. ASSUME NEW q \in Ports, q # p
          PROVE  /\ scPc'[q] = scPc[q] /\ scNext'[q] = scNext[q]
                 /\ debounceCount'[q] = debounceCount[q]
      BY <1>0, <2>4, <3>1 DEF Go, Set
    <3>2. ASSUME debounceCount'[p] = MaxDebounce + 1
          PROVE  Ending(p)'
      <4>1. debounceCount'[p] = debounceCount[p] + 1
        BY <1>0, <2>4
      <4>2. ~(debounceCount[p] < MaxDebounce)
        BY <1>0, <3>2, <4>1, AttachAssumption
      <4>3. Go(p, "failed")
        BY <2>4, <4>2
      <4>4. scPc'[p] = "failed"
        BY <1>0, <4>3 DEF Go, Set
      <4> QED
        BY <4>4 DEF Ending
    <3> QED
      BY <3>1, <3>2 DEF Debounced, Ending
  <2> QED
    BY <1>6, <2>3, <2>4 DEF Recheck
<1>7. CASE Failed(p) \/ Unlock(p) \/ Clear(p)
  <2>1. ASSUME NEW q \in Ports, q # p
        PROVE  scPc'[q] = scPc[q] /\ scNext'[q] = scNext[q]
    BY <1>0, <1>7, <2>1 DEF Failed, Unlock, Clear, Go, ReleaseThen, Set
  <2>2. UNCHANGED debounceCount
    BY <1>7 DEF Failed, Unlock, Clear, retryVars
  <2>3. Ending(p) => Ending(p)'
    BY <1>0, <1>7 DEF Failed, Unlock, Clear, Go, ReleaseThen, Set, Ending
  <2> QED
    BY <2>1, <2>2, <2>3 DEF Debounced, Ending
<1>8. CASE End(p)
  <2>1. ASSUME NEW q \in Ports, q # p
        PROVE  /\ scPc'[q] = scPc[q] /\ scNext'[q] = scNext[q]
               /\ debounceCount'[q] = debounceCount[q]
    BY <1>0, <1>8, <2>1 DEF End, Go, Set
  <2>2. debounceCount'[p] = 0
    BY <1>0, <1>8 DEF End, Set
  <2>3. debounceCount'[p] # MaxDebounce + 1
    BY <2>2, AttachAssumption
  <2> QED
    BY <2>1, <2>3 DEF Debounced, Ending
<1> QED
  BY <1>1, <1>2, <1>3, <1>4, <1>5, <1>6, <1>7, <1>8
     DEF PortStatusChangedHandler, StatusStep

(* Every step keeps the types and the count.                                 *)
LEMMA NextKeeps ==
  ASSUME IInv, Next
  PROVE  IInv'
<1>0. Typed /\ Debounced
  BY DEF IInv
<1>1. CASE ProcessStatusChanged
  <2>1. UNCHANGED <<scPc, scNext, debounceCount>>
    BY <1>1 DEF ProcessStatusChanged, retryVars
  <2>2. Debounced'
    BY <1>0, <2>1 DEF Debounced, Ending
  <2>3. CASE Ports = {}
    BY <1>1, <2>3 DEF ProcessStatusChanged
  <2>4. ASSUME NEW p \in Ports
        PROVE  Typed'
    BY <1>0, <1>1, OthersKeep
  <2> QED
    BY <2>2, <2>3, <2>4 DEF IInv
<1>2. ASSUME NEW p \in Ports, Hardware(p) \/ AddDevice(p) \/ Watchdog(p)
      PROVE  IInv'
  <2>1. UNCHANGED debounceCount /\ UNCHANGED scPc /\ UNCHANGED scNext
    BY <1>2 DEF Hardware, AddDevice, Watchdog, WatchdogNotes, WatchdogFires,
       ResetPortZero, ReleaseDevZeroLock, ClearDevZero, wdUnchanged, retryVars
  <2>2. Debounced'
    BY <1>0, <2>1 DEF Debounced, Ending
  <2> QED
    BY <1>0, <1>2, <2>2, OthersKeep, AdderKeeps, DogKeeps DEF IInv
<1>3. ASSUME NEW p \in Ports, StatusCall(p)
      PROVE  IInv'
  <2>1. /\ UNCHANGED <<scNext, debounceCount>>
        /\ UNCHANGED scPc \/ (scPc[p] = "idle" /\ scPc' = Set(scPc, p, "start"))
    BY <1>3 DEF StatusCall, retryVars
  <2>2. scPc \in [Ports -> ScPcs]
    BY <1>0 DEF Typed, HandlerTypes
  <2>3. Debounced'
    BY <1>0, <2>1, <2>2 DEF Debounced, Ending, Set
  <2> QED
    BY <1>0, <1>3, <2>3, OthersKeep DEF IInv
<1>4. ASSUME NEW p \in Ports, PortStatusChangedHandler(p)
      PROVE  IInv'
  BY <1>0, <1>4, DebouncedKept, HandlerKeeps DEF IInv
<1> QED
  BY <1>1, <1>2, <1>3, <1>4 DEF Next, Step

(* The types hold at the start.                                              *)
LEMMA InitKeeps ==
  ASSUME Init
  PROVE  IInv
<1> USE DEF All
<1>1. HardwareTypes /\ StatusTypes
  BY DEF Init, HardwareTypes, StatusTypes, Links
<1>2. IncidentTypes
  BY DEF Init, IncidentTypes
<1>3. NoteTypes /\ AdderTypes /\ HandlerTypes /\ DogTypes
  BY DEF Init, NoteTypes, AdderTypes, HandlerTypes, DogTypes, States, AddPcs, ScPcs
<1>4. 0 \in 0 .. MaxAttach /\ 0 \in 0 .. MaxDebounce + 1 /\ 0 # MaxDebounce + 1
  BY AttachAssumption
<1>5. RetryTypes
  BY <1>4 DEF Init, RetryTypes
<1>6. Lock!LockTypeOK
  <2>1. 0 \in 0 .. MaxExpired
    BY BudgetAssumption
  <2> QED
    BY <2>1 DEF Init, Lock!LockInit, Lock!LockTypeOK
<1>7. Debounced
  BY <1>4 DEF Init, Debounced
<1> QED
  BY <1>1, <1>2, <1>3, <1>5, <1>6, <1>7 DEF IInv, Typed

(* Nothing changes in a stuttering step.                                     *)
LEMMA StutterKeeps ==
  ASSUME IInv, UNCHANGED vars
  PROVE  IInv'
<1>1. StatusStepTypes /\ HandlerTypes /\ DogTypes /\ Debounced
  BY DEF IInv, Typed, StatusStepTypes, HandlerTypes
<1>2. /\ UNCHANGED <<hwVars, spent, lockVars, state, devZero, resetVector, portDevice,
                     retryVars, retryPortStatus, delayOnStatus, portStatus, addVars>>
      /\ UNCHANGED <<scCall, scPc, scNext>> /\ UNCHANGED wdVars
  BY DEF vars
<1>3. HandlerTypes' /\ DogTypes' /\ Debounced'
  BY <1>1, <1>2 DEF HandlerTypes, DogTypes, Debounced, Ending, wdVars, retryVars
<1> QED
  BY <1>1, <1>2, <1>3, LeftAlone DEF IInv, Typed

(* The counters of retries and of connection changes stay in the range the   *)
(* code gives them, and every note has its type, however many ports the hub  *)
(* has and whatever goes wrong.                                              *)
THEOREM TypeCorrect == Spec => []TypeOK
<1>1. Init => IInv
  BY InitKeeps
<1>2. IInv /\ [Next]_vars => IInv'
  BY NextKeeps, StutterKeeps
<1>3. IInv => TypeOK
  BY TypedParts DEF IInv
<1> QED
  BY <1>1, <1>2, <1>3, PTL DEF Spec

=============================================================================
