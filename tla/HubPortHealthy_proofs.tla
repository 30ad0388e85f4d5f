---------------------- MODULE HubPortHealthy_proofs ----------------------
(* What the three threads of a port promise each other on a hub that works:  *)
(* for any number of ports, of devices that come, and of requests to a       *)
(* device or for the pipe to address zero that fail, at most one device is   *)
(* at address zero, _devZero covers it, and _devZero agrees with the lock.   *)

EXTENDS HubPort_proofs, FiniteSetTheorems

(* Nobody is unplugged, no request to the hub fails, no thread is slow and   *)
(* no sleep on the lock ends by its deadline.  PortHubFault and PortTrouble  *)
(* show what the promises are worth without this.                            *)
Healthy == /\ \A b \in Budgets : \A i \in {"unplug", "hub", "slow", "tier"} : b[i] = 0
           /\ MaxExpired = 0

-----------------------------------------------------------------------------
(* Where a port is between a device that is plugged in and one that has an   *)
(* address.  Each phase says what the hardware, the AddDevice thread and the *)
(* status change thread may be doing at the same time.                       *)

(* The AddDevice thread has nothing more to do than to look and leave.       *)
AddOver(p) == addPc[p] \in {"idle", "exit", "poll", "repoll", "lastpoll"}

(* The status change thread is in none of its handlers.                      *)
Rests == {"idle", "start", "delay", "fetch", "fetched", "pick", "again", "end"}
Resting(p) == scPc[p] \in Rests

(* It has not read the change that is pending, or is about to handle it.     *)
Unhandled(p) == /\ Resting(p)
                /\ \/ portStatus[p].chg = {}
                   \/ /\ scPc[p] \in {"fetched", "pick"}
                      /\ portStatus[p].chg = chg[p]

NoChange(p) == chg[p] = {} /\ portStatus[p].chg = {}

Empty(p) == /\ link[p] = "empty" /\ ~devZero[p] /\ chg[p] = {}
            /\ addPc[p] = "idle" /\ Unhandled(p)

(* A device is there and its connection change waits for the thread.         *)
Reported(p) == /\ link[p] = "connected" /\ ~devZero[p] /\ chg[p] = {"connection"}
               /\ AddOver(p)
               /\ Unhandled(p) \/ (scPc[p] = "failed" /\ portStatus[p].chg = {})

(* The thread handles the change, or starts over after a failure.            *)
Deciding(p) ==
    /\ link[p] = "connected" /\ ~devZero[p] /\ NoChange(p) /\ AddOver(p)
    /\ Resting(p) \/ scPc[p] \in {"connection", "remove", "recheck", "relaunch",
                                  "detach", "detach2", "failed"}

(* The AddDevice thread gets the lock,                                       *)
Adding(p) == /\ link[p] = "connected" /\ ~devZero[p] /\ NoChange(p)
             /\ addPc[p] \in {"start", "acquire", "have"} /\ Resting(p)

(* notes that it has it and gets ready,                                      *)
Arming(p) == /\ link[p] = "connected" /\ devZero[p] /\ NoChange(p)
             /\ addPc[p] \in {"arm", "reset"} /\ Resting(p)
             /\ addPc[p] = "reset" => resetVector[p] = "add"

(* and has the port reset.                                                   *)
BeingReset(p) == /\ link[p] = "resetting" /\ devZero[p] /\ NoChange(p)
                 /\ addPc[p] \in {"idle", "exit", "poll"} /\ Resting(p)
                 /\ resetVector[p] = "add"

(* The reset is done, and its change waits for the thread,                   *)
Zeroed(p) == /\ link[p] = "zero" /\ devZero[p] /\ chg[p] = {"reset"}
             /\ addPc[p] \in {"idle", "exit", "poll"} /\ Unhandled(p)
             /\ resetVector[p] = "add"

(* which asks the device what it is and gives it an address,                 *)
Enumerating(p) ==
    /\ link[p] = "zero" /\ devZero[p] /\ NoChange(p) /\ AddOver(p)
    /\ scPc[p] \in {"reset", "configure", "configureErr", "describe", "describeErr",
                    "address", "addressErr"}
    /\ scPc[p] = "reset" => portStatus[p].link = "zero" /\ resetVector[p] = "add"

(* gives the lock back, with or without a device that has an address,        *)
Leaving(p) ==
    /\ devZero[p] /\ NoChange(p) /\ AddOver(p) /\ scPc[p] \in {"unlock", "clear"}
    /\ \/ link[p] = "address" /\ scNext[p] = "create"
       \/ link[p] = "connected" /\ scNext[p] \in {"detach", "again"}

(* and makes the device.                                                     *)
HasAddress(p) == /\ link[p] = "address" /\ ~devZero[p] /\ NoChange(p) /\ AddOver(p)
                 /\ Resting(p) \/ scPc[p] \in {"create", "createErr"}

Phase(p) == \/ Empty(p) \/ Reported(p) \/ Deciding(p) \/ Adding(p) \/ Arming(p)
            \/ BeingReset(p) \/ Zeroed(p) \/ Enumerating(p) \/ Leaving(p)
            \/ HasAddress(p)

(* The device is made when it has its address and nothing else goes on.      *)
Made(p) == portDevice[p] => link[p] = "address" /\ Resting(p)

(* A thread of the port has the lock.                                        *)
Holder(p) == addPc[p] = "have" \/ (devZero[p] /\ scPc[p] # "clear")

(* One port has it, and then it is taken.                                    *)
OneHolder == /\ \A p \in Ports : Holder(p) => devZeroLock
             /\ devZeroLock => \E p \in Ports : Holder(p)
             /\ \A p, q \in Ports : Holder(p) /\ Holder(q) => p = q

HealthyInv == /\ \A p \in Ports : Phase(p) /\ Made(p) /\ wdPc[p] = "idle"
              /\ OneHolder

-----------------------------------------------------------------------------
(* What the hypothesis rules out.                                            *)

(* On a hub that works nobody is unplugged, slow or refused.                 *)
LEMMA NoTrouble ==
  ASSUME Healthy, Typed
  PROVE  /\ ~Spend("unplug") /\ ~Spend("hub") /\ ~Spend("slow") /\ ~Spend("tier")
         /\ \A p \in Ports : ~Lock!SleepExpires(p)
<1>1. ASSUME NEW i \in {"unplug", "hub", "slow", "tier"}, Spend(i)
      PROVE  FALSE
  <2>1. i \in Incidents /\ spent \in [Incidents -> Nat]
    BY DEF Typed, IncidentTypes, Incidents
  <2>2. PICK b \in Budgets : \A j \in Incidents : spent'[j] <= b[j]
    BY <1>1 DEF Spend
  <2>3. b[i] = 0
    BY <2>2 DEF Healthy
  <2>4. spent'[i] <= 0
    BY <2>1, <2>2, <2>3
  <2>5. spent'[i] = spent[i] + 1
    BY <1>1, <2>1 DEF Spend
  <2>6. spent[i] \in Nat
    BY <2>1
  <2> QED
    BY <2>4, <2>5, <2>6
<1>2. ASSUME NEW p \in Ports, Lock!SleepExpires(p)
      PROVE  FALSE
  <2>1. expired < MaxExpired /\ MaxExpired = 0
    BY <1>2 DEF Lock!SleepExpires, Healthy
  <2>2. expired \in 0 .. MaxExpired
    BY DEF Typed, Lock!LockTypeOK
  <2> QED
    BY <2>1, <2>2
<1> QED
  BY <1>1, <1>2

(* The state of one port, and a step that is a step of port p alone.         *)
Local(p) == <<link[p], chg[p], devZero[p], addPc[p], scPc[p], scNext[p],
              portStatus[p], resetVector[p], portDevice[p], wdPc[p]>>

Apart(p) == \A q \in Ports \ {p} : UNCHANGED Local(q)

(* What such a step does to the lock.                                        *)
LockStep(p) == \/ UNCHANGED devZeroLock /\ (Holder(p)' <=> Holder(p))
               \/ ~devZeroLock /\ devZeroLock' /\ Holder(p)'
               \/ Holder(p) /\ ~devZeroLock' /\ ~Holder(p)'

PortFine(p) == Phase(p) /\ Made(p) /\ wdPc[p] = "idle"

(* A phase of a port depends on its own state only.                          *)
LEMMA LocalIsEnough ==
  ASSUME NEW q \in Ports, UNCHANGED Local(q)
  PROVE  (PortFine(q)' <=> PortFine(q)) /\ (Holder(q)' <=> Holder(q))
<1>1. /\ UNCHANGED <<link[q], chg[q], devZero[q], addPc[q], scPc[q]>>
      /\ UNCHANGED <<scNext[q], portStatus[q], resetVector[q], portDevice[q], wdPc[q]>>
  BY DEF Local
<1> QED
  BY <1>1 DEF PortFine, Phase, Made, Holder, Empty, Reported, Deciding, Adding, Arming,
     BeingReset, Zeroed, Enumerating, Leaving, HasAddress, AddOver, Resting, Unhandled,
     NoChange

(* A step that leaves its own port fine keeps the invariant.                 *)
LEMMA ApartKeeps ==
  ASSUME HealthyInv, NEW p \in Ports, Apart(p), PortFine(p)', LockStep(p)
  PROVE  HealthyInv'
<1>1. ASSUME NEW q \in Ports, q # p
      PROVE  (PortFine(q)' <=> PortFine(q)) /\ (Holder(q)' <=> Holder(q))
  BY <1>1, LocalIsEnough DEF Apart
<1>2. \A q \in Ports : PortFine(q)'
  BY <1>1 DEF HealthyInv, PortFine
<1>3. OneHolder
  BY DEF HealthyInv
<1>4. OneHolder'
  <2>1. CASE UNCHANGED devZeroLock /\ (Holder(p)' <=> Holder(p))
    BY <1>1, <1>3, <2>1 DEF OneHolder
  <2>2. CASE ~devZeroLock /\ devZeroLock' /\ Holder(p)'
    BY <1>1, <1>3, <2>2 DEF OneHolder
  <2>3. CASE Holder(p) /\ ~devZeroLock' /\ ~Holder(p)'
    BY <1>1, <1>3, <2>3 DEF OneHolder
  <2> QED
    BY <2>1, <2>2, <2>3 DEF LockStep
<1> QED
  BY <1>2, <1>4 DEF HealthyInv, PortFine

(* The tables of the state, one per variable that a phase looks at.          *)
LEMMA Tables ==
  ASSUME Typed
  PROVE  /\ link \in [Ports -> Links] /\ chg \in [Ports -> SUBSET Bits]
         /\ devZero \in [Ports -> BOOLEAN] /\ addPc \in [Ports -> AddPcs]
         /\ scPc \in [Ports -> ScPcs] /\ scNext \in [Ports -> ScPcs]
         /\ portStatus \in [Ports -> [link : Links, chg : SUBSET Bits]]
         /\ resetVector \in [Ports -> {"default", "add"}]
         /\ portDevice \in [Ports -> BOOLEAN]
         /\ wdPc \in [Ports -> {"idle", "fire", "release", "clear"}]
BY DEF Typed, HardwareTypes, NoteTypes, StatusTypes, AdderTypes, HandlerTypes, DogTypes

(* What the invariant says of one port.                                      *)
LEMMA OnePort ==
  ASSUME HealthyInv, NEW p \in Ports
  PROVE  PortFine(p) /\ OneHolder
BY DEF HealthyInv, PortFine

-----------------------------------------------------------------------------
(* The AddDevice thread.                                                     *)

(* A step of the thread moves the thread, and nothing of another port.       *)
LEMMA AddApart ==
  ASSUME Typed, NEW p \in Ports, NEW l \in AddPcs, GoAdd(p, l),
         UNCHANGED <<chg, scPc, scNext, portStatus, wdPc>>,
         UNCHANGED link \/ link' = [link EXCEPT ![p] = Resetting(@)],
         \/ UNCHANGED devZero \/ devZero' = Set(devZero, p, TRUE)
         \/ devZero' = Set(devZero, p, FALSE),
         \/ UNCHANGED resetVector \/ resetVector' = Set(resetVector, p, "default")
         \/ resetVector' = Set(resetVector, p, "add"),
         UNCHANGED portDevice \/ portDevice' = Set(portDevice, p, FALSE)
  PROVE  Apart(p) /\ addPc'[p] = l
<1>1. addPc'[p] = l /\ \A q \in Ports \ {p} : addPc'[q] = addPc[q]
  BY Tables DEF GoAdd, Set
<1>2. \A q \in Ports \ {p} : link'[q] = link[q]
  BY Tables
<1>3. \A q \in Ports \ {p} : devZero'[q] = devZero[q]
  BY Tables DEF Set
<1>4. \A q \in Ports \ {p} : resetVector'[q] = resetVector[q]
  BY Tables DEF Set
<1>5. \A q \in Ports \ {p} : portDevice'[q] = portDevice[q]
  BY Tables DEF Set
<1> QED
  BY <1>1, <1>2, <1>3, <1>4, <1>5 DEF Apart, Local

(* A step of the AddDevice thread keeps the phases of all ports: it acquires *)
(* for its own port, and only a port without a device at address 0 does.     *)
LEMMA AdderHealthy ==
  ASSUME Healthy, Typed, HealthyInv, NEW p \in Ports, AddDevice(p)
  PROVE  HealthyInv'
<1>0. /\ UNCHANGED <<portStatus, scPc, scNext, wdPc>>
      /\ AddStep(p)
  BY DEF AddDevice
<1>1. PortFine(p) /\ OneHolder
  BY OnePort
<1> DEFINE Goal == Apart(p) /\ PortFine(p)' /\ LockStep(p)
<1>2. SUFFICES Goal
  BY ApartKeeps
<1> USE DEF AddPcs
<1>3. CASE AddStart(p)
  <2>1. Adding(p) /\ addPc[p] = "start" /\ link[p] = "connected" /\ ~devZero[p]
    BY <1>1, <1>3 DEF AddStart, PortFine, Phase, Empty, Reported, Deciding, Adding,
       Arming, BeingReset, Zeroed, Enumerating, Leaving, HasAddress, AddOver
  <2>2. /\ GoAdd(p, "acquire") /\ Lock!EnterGate(p)
        /\ UNCHANGED <<hwVars, devZero>>
        /\ RemoveDevice(p) \/ UNCHANGED <<portDevice, resetVector>>
    BY <1>3, <2>1, NoTrouble DEF AddStart
  <2>3. /\ UNCHANGED <<link, chg, devZero, devZeroLock>>
        /\ UNCHANGED resetVector \/ resetVector' = Set(resetVector, p, "default")
        /\ UNCHANGED portDevice \/ portDevice' = Set(portDevice, p, FALSE)
    BY <2>2 DEF hwVars, Lock!EnterGate, RemoveDevice
  <2>4. Apart(p) /\ addPc'[p] = "acquire"
    BY <1>0, <2>2, <2>3, AddApart
  <2>5. portDevice'[p] => portDevice[p]
    BY <2>3, Tables DEF Set
  <2>6. PortFine(p)'
    BY <1>0, <1>1, <2>1, <2>3, <2>4, <2>5
       DEF PortFine, Phase, Adding, Made, NoChange, Resting
  <2>7. LockStep(p)
    BY <1>0, <2>1, <2>3, <2>4 DEF LockStep, Holder
  <2> QED
    BY <2>4, <2>6, <2>7
<1>4. CASE AddAcquire(p)
  <2>1. Adding(p) /\ addPc[p] = "acquire" /\ ~devZero[p]
    BY <1>1, <1>4 DEF AddAcquire, PortFine, Phase, Empty, Reported, Deciding, Adding,
       Arming, BeingReset, Zeroed, Enumerating, Leaving, HasAddress, AddOver
  <2>2. UNCHANGED <<link, chg, devZero, resetVector, portDevice>>
    BY <1>4 DEF AddAcquire, hwVars
  <2>3. CASE Lock!TakeLock(p) /\ GoAdd(p, "have")
    <3>1. Apart(p) /\ addPc'[p] = "have"
      BY <1>0, <2>2, <2>3, AddApart
    <3>2. PortFine(p)'
      BY <1>0, <1>1, <2>1, <2>2, <3>1 DEF PortFine, Phase, Adding, Made, NoChange, Resting
    <3>3. LockStep(p)
      BY <2>3, <3>1 DEF LockStep, Holder, Lock!TakeLock
    <3> QED
      BY <3>1, <3>2, <3>3
  <2>4. CASE Lock!SleepInGate(p) /\ UNCHANGED addPc
    <3>1. Apart(p)
      BY <1>0, <2>2, <2>4 DEF Apart, Local
    <3>2. PortFine(p)'
      BY <1>0, <1>1, <2>1, <2>2, <2>4 DEF PortFine, Phase, Adding, Made, NoChange, Resting
    <3>3. LockStep(p)
      BY <1>0, <2>2, <2>4 DEF LockStep, Holder, Lock!SleepInGate
    <3> QED
      BY <3>1, <3>2, <3>3
  <2> QED
    BY <1>4, <2>3, <2>4, NoTrouble DEF AddAcquire
<1>5. CASE AddHave(p)
  <2>1. Adding(p) /\ addPc[p] = "have" /\ link[p] = "connected"
    BY <1>1, <1>5 DEF AddHave, PortFine, Phase, Empty, Reported, Deciding, Adding,
       Arming, BeingReset, Zeroed, Enumerating, Leaving, HasAddress, AddOver
  <2>2. /\ GoAdd(p, "arm") /\ devZero' = Set(devZero, p, TRUE)
        /\ UNCHANGED <<link, chg, devZeroLock, resetVector, portDevice>>
    BY <1>5, <2>1, NoTrouble DEF AddHave, hwVars, lockVars
  <2>3. Apart(p) /\ addPc'[p] = "arm"
    BY <1>0, <2>2, AddApart
  <2>4. devZero'[p] = TRUE
    BY <2>2, Tables DEF Set
  <2>5. PortFine(p)'
    BY <1>0, <1>1, <2>1, <2>2, <2>3, <2>4
       DEF PortFine, Phase, Adding, Arming, Made, NoChange, Resting
  <2>6. LockStep(p)
    BY <1>0, <2>1, <2>2, <2>3, <2>4 DEF LockStep, Holder, Adding, Resting, Rests
  <2> QED
    BY <2>3, <2>5, <2>6
<1>6. CASE AddArm(p)
  <2>1. Arming(p) /\ addPc[p] = "arm"
    BY <1>1, <1>6 DEF AddArm, PortFine, Phase, Empty, Reported, Deciding, Adding,
       Arming, BeingReset, Zeroed, Enumerating, Leaving, HasAddress, AddOver
  <2>2. /\ GoAdd(p, "reset") /\ resetVector' = Set(resetVector, p, "add")
        /\ UNCHANGED <<link, chg, devZeroLock, devZero, portDevice>>
    BY <1>6 DEF AddArm, hwVars, lockVars
  <2>3. Apart(p) /\ addPc'[p] = "reset"
    BY <1>0, <2>2, AddApart
  <2>4. resetVector'[p] = "add"
    BY <2>2, Tables DEF Set
  <2>5. PortFine(p)'
    BY <1>0, <1>1, <2>1, <2>2, <2>3, <2>4
       DEF PortFine, Phase, Arming, Made, NoChange, Resting
  <2>6. LockStep(p)
    BY <1>0, <2>1, <2>2, <2>3 DEF LockStep, Holder
  <2> QED
    BY <2>3, <2>5, <2>6
<1>7. CASE AddReset(p)
  <2>1. Arming(p) /\ addPc[p] = "reset" /\ link[p] = "connected"
    BY <1>1, <1>7 DEF AddReset, PortFine, Phase, Empty, Reported, Deciding, Adding,
       Arming, BeingReset, Zeroed, Enumerating, Leaving, HasAddress, AddOver
  <2>2. /\ GoAdd(p, "poll") /\ link' = [link EXCEPT ![p] = Resetting(@)]
        /\ UNCHANGED <<chg, devZeroLock, devZero, portDevice, resetVector>>
    BY <1>7, NoTrouble DEF AddReset, lockVars
  <2>3. Apart(p) /\ addPc'[p] = "poll"
    BY <1>0, <2>2, AddApart
  <2>4. link'[p] = "resetting"
    BY <2>1, <2>2, Tables DEF Resetting
  <2>5. PortFine(p)'
    BY <1>0, <1>1, <2>1, <2>2, <2>3, <2>4
       DEF PortFine, Phase, Arming, BeingReset, Made, NoChange, Resting
  <2>6. LockStep(p)
    BY <1>0, <2>1, <2>2, <2>3 DEF LockStep, Holder
  <2> QED
    BY <2>3, <2>5, <2>6
<1>8. CASE AddPoll(p) \/ AddRepoll(p) \/ AddExit(p)
  <2>1. /\ AddOver(p) /\ addPc[p] # "idle" /\ addPc[p] # "have"
        /\ ~Empty(p) /\ ~Adding(p) /\ ~Arming(p) /\ link[p] # "empty"
    BY <1>1, <1>8 DEF AddPoll, AddRepoll, AddExit, PortFine, Phase, Empty, Reported,
       Deciding, Adding, Arming, BeingReset, Zeroed, Enumerating, Leaving, HasAddress,
       AddOver
  <2>2. \E l \in {"idle", "exit", "repoll"} : GoAdd(p, l) /\ (ResetActive(p) => l # "repoll")
    <3>1. CASE AddPoll(p)
      BY <2>1, <3>1, NoTrouble DEF AddPoll
    <3>2. CASE AddExit(p)
      BY <3>2 DEF AddExit
    <3>3. CASE AddRepoll(p)
      <4>1. /\ link[p] # "resetting" /\ link[p] # "empty" /\ "reset" \notin chg[p]
            /\ devZero[p] => ~StatusQuiet(p)
        BY <1>1, <2>1, <3>3 DEF AddRepoll, PortFine, Phase, Reported, Deciding, BeingReset,
           Zeroed, Enumerating, Leaving, HasAddress, AddOver, NoChange, StatusQuiet,
           StatusIdle
      <4> QED
        BY <3>3, <4>1, NoTrouble DEF AddRepoll
    <3> QED
      BY <1>8, <3>1, <3>2, <3>3
  <2>3. PICK l \in {"idle", "exit", "repoll"} :
             GoAdd(p, l) /\ (ResetActive(p) => l # "repoll")
    BY <2>2
  <2>4. UNCHANGED <<link, chg, devZero, devZeroLock, resetVector, portDevice>>
    <3>1. CASE AddPoll(p) \/ AddExit(p)
      BY <3>1 DEF AddPoll, AddExit, hwVars, lockVars
    <3>2. CASE AddRepoll(p)
      <4>1. devZero[p] => ~StatusQuiet(p)
        BY <1>1, <2>1, <3>2 DEF AddRepoll, PortFine, Phase, Reported, Deciding, BeingReset,
           Zeroed, Enumerating, Leaving, HasAddress, AddOver, NoChange, StatusQuiet,
           StatusIdle
      <4> QED
        BY <2>1, <3>2, <4>1, NoTrouble DEF AddRepoll, lockVars
    <3> QED
      BY <1>8, <3>1, <3>2
  <2>5. Apart(p) /\ addPc'[p] = l
    <3>1. l \in AddPcs
      OBVIOUS
    <3> QED
      BY <1>0, <2>3, <2>4, <3>1, AddApart
  <2>6. PortFine(p)'
    <3>1. link[p] = "resetting" \/ "reset" \in chg[p] => l # "repoll"
      BY <2>3 DEF ResetActive
    <3> QED
      BY <1>0, <1>1, <2>1, <2>4, <2>5, <3>1 DEF PortFine, Phase, Reported, Deciding,
         BeingReset, Zeroed, Enumerating, Leaving, HasAddress, AddOver, NoChange, Made,
         Resting, Unhandled
  <2>7. LockStep(p)
    BY <1>0, <2>1, <2>4, <2>5 DEF LockStep, Holder
  <2> QED
    BY <2>5, <2>6, <2>7
<1>9. CASE AddErr(p) \/ AddRelease(p) \/ AddClear(p)
  BY <1>1, <1>9 DEF AddErr, AddRelease, AddClear, PortFine, Phase, Empty, Reported,
     Deciding, Adding, Arming, BeingReset, Zeroed, Enumerating, Leaving, HasAddress,
     AddOver
<1> QED
  BY <1>0, <1>3, <1>4, <1>5, <1>6, <1>7, <1>8, <1>9 DEF AddStep

-----------------------------------------------------------------------------
(* The hardware, the interrupt read and the watchdog.                        *)

(* A step of the hardware keeps the phases: a device arrives at an empty     *)
(* port, or a port that is being reset reports that it is done.              *)
LEMMA HardwareHealthy ==
  ASSUME Healthy, Typed, HealthyInv, NEW p \in Ports, Hardware(p)
  PROVE  HealthyInv'
<1>0. UNCHANGED <<devZeroLock, devZero, addPc, scPc, scNext, portStatus, resetVector,
                  portDevice, wdPc>>
  BY DEF Hardware, lockVars, addVars, wdVars
<1>1. PortFine(p)
  BY OnePort
<1>2. Apart(p)
  <2>1. \A q \in Ports \ {p} : link'[q] = link[q] /\ chg'[q] = chg[q]
    BY NoTrouble, Tables DEF Hardware, Plug, Unplug, ResetDone, Set
  <2> QED
    BY <1>0, <2>1 DEF Apart, Local
<1>3. LockStep(p)
  BY <1>0 DEF LockStep, Holder
<1>4. PortFine(p)'
  <2>1. CASE Plug(p)
    <3>1. Empty(p)
      BY <1>1, <2>1 DEF Plug, PortFine, Phase, Empty, Reported, Deciding, Adding,
         Arming, BeingReset, Zeroed, Enumerating, Leaving, HasAddress
    <3>2. link'[p] = "connected" /\ chg'[p] = {"connection"}
      BY <2>1, <3>1, Tables DEF Plug, Set, Empty
    <3>3. Reported(p)'
      BY <1>0, <3>1, <3>2 DEF Empty, Reported, AddOver, Unhandled, Resting
    <3>4. Made(p)'
      BY <1>0, <1>1, <3>1 DEF PortFine, Made, Empty
    <3> QED
      BY <1>0, <1>1, <3>3, <3>4 DEF PortFine, Phase
  <2>2. CASE ResetDone(p)
    <3>1. BeingReset(p)
      BY <1>1, <2>2 DEF ResetDone, PortFine, Phase, Empty, Reported, Deciding, Adding,
         Arming, BeingReset, Zeroed, Enumerating, Leaving, HasAddress
    <3>2. link'[p] = "zero" /\ chg'[p] = {"reset"}
      BY <2>2, <3>1, Tables DEF ResetDone, Set, BeingReset, NoChange
    <3>3. Zeroed(p)'
      BY <1>0, <3>1, <3>2 DEF BeingReset, Zeroed, NoChange, Unhandled, Resting
    <3>4. Made(p)'
      BY <1>0, <1>1, <3>1 DEF PortFine, Made, BeingReset
    <3> QED
      BY <1>0, <1>1, <3>3, <3>4 DEF PortFine, Phase
  <2> QED
    BY <2>1, <2>2, NoTrouble DEF Hardware, Unplug
<1> QED
  BY <1>2, <1>3, <1>4, ApartKeeps

(* The state that the invariant is about.                                    *)
LEMMA Untouched ==
  ASSUME HealthyInv,
         UNCHANGED <<link, chg, devZero, addPc, scPc, scNext, portStatus>>,
         UNCHANGED <<resetVector, portDevice, wdPc, devZeroLock>>
  PROVE  HealthyInv'
<1>1. ASSUME NEW q \in Ports
      PROVE  (PortFine(q)' <=> PortFine(q)) /\ (Holder(q)' <=> Holder(q))
  BY LocalIsEnough DEF Local
<1> QED
  BY <1>1 DEF HealthyInv, PortFine, OneHolder

(* Reading the hub's status change and calling the ports' threads keeps the  *)
(* phases.                                                                   *)
LEMMA ReadHealthy ==
  ASSUME Typed, HealthyInv, NEW p \in Ports, ProcessStatusChanged \/ StatusCall(p)
  PROVE  HealthyInv'
<1>1. CASE ProcessStatusChanged
  BY <1>1, Untouched DEF ProcessStatusChanged, hwVars, lockVars, addVars, wdVars
<1>2. CASE StatusCall(p)
  <2>1. UNCHANGED <<link, chg, devZero, addPc, scNext, portStatus, resetVector,
                    portDevice, wdPc, devZeroLock>>
    BY <1>2 DEF StatusCall, hwVars, lockVars, addVars, wdVars
  <2>2. CASE UNCHANGED scPc
    BY <2>1, <2>2, Untouched
  <2>3. CASE scPc[p] = "idle" /\ scPc' = Set(scPc, p, "start")
    <3>1. scPc'[p] = "start" /\ \A q \in Ports \ {p} : scPc'[q] = scPc[q]
      BY <2>3, Tables DEF Set
    <3>2. Apart(p)
      BY <2>1, <3>1 DEF Apart, Local
    <3>3. PortFine(p)'
      BY <2>1, <2>3, <3>1, OnePort DEF PortFine, Phase, Empty, Reported, Deciding, Adding,
         Arming, BeingReset, Zeroed, Enumerating, Leaving, HasAddress, AddOver, NoChange,
         Made, Resting, Unhandled, Rests
    <3>4. LockStep(p)
      BY <2>1, <2>3, <3>1 DEF LockStep, Holder
    <3> QED
      BY <3>2, <3>3, <3>4, ApartKeeps
  <2> QED
    BY <1>2, <2>2, <2>3 DEF StatusCall
<1> QED
  BY <1>1, <1>2

(* The watchdog notes a lock, and never gets to fire: the port that has it   *)
(* always has something to do.                                               *)
LEMMA DogHealthy ==
  ASSUME Healthy, Typed, HealthyInv, NEW p \in Ports, Watchdog(p)
  PROVE  HealthyInv'
<1>1. PortFine(p)
  BY OnePort
<1>2. devZero[p] => ~Quiet(p)
  BY <1>1 DEF PortFine, Phase, Empty, Reported, Deciding, Adding, Arming, BeingReset,
     Zeroed, Enumerating, Leaving, HasAddress, Quiet, StatusQuiet, StatusIdle
<1>3. WatchdogNotes(p)
  BY <1>1, <1>2, NoTrouble DEF Watchdog, WatchdogFires, ResetPortZero, ReleaseDevZeroLock,
     ClearDevZero, PortFine
<1> QED
  BY <1>3, Untouched DEF WatchdogNotes, wdUnchanged, lockVars, addVars

-----------------------------------------------------------------------------
(* The status change thread.                                                 *)

(* Where the thread goes.                                                    *)
LEMMA GoMoves ==
  ASSUME Typed, NEW p \in Ports, NEW l \in ScPcs
  PROVE  /\ Go(p, l) => scPc'[p] = l /\ scNext'[p] = scNext[p]
         /\ ReleaseThen(p, l) => scPc'[p] = "unlock" /\ scNext'[p] = l
         /\ Go(p, l) \/ ReleaseThen(p, l) =>
              \A q \in Ports \ {p} : scPc'[q] = scPc[q] /\ scNext'[q] = scNext[q]
BY Tables DEF Go, ReleaseThen, Set

(* A step of the thread that leaves the hardware and the status it read      *)
(* alone is a step of port p alone.                                          *)
LEMMA StatusApart ==
  ASSUME Typed, NEW p \in Ports, NEW l \in ScPcs, Go(p, l) \/ ReleaseThen(p, l),
         UNCHANGED <<devZero, wdPc>>,
         UNCHANGED link \/ link' = [link EXCEPT ![p] = Disabled(@)]
           \/ link' = [link EXCEPT ![p] = IF @ = "empty" THEN @ ELSE "connected"],
         UNCHANGED chg \/ \E s \in SUBSET Bits : chg' = [chg EXCEPT ![p] = s],
         UNCHANGED addPc \/ addPc' = Set(addPc, p, "start"),
         UNCHANGED portStatus
           \/ \E s \in [link : Links, chg : SUBSET Bits] : portStatus' = Set(portStatus, p, s),
         UNCHANGED resetVector \/ resetVector' = Set(resetVector, p, "default"),
         \/ UNCHANGED portDevice \/ portDevice' = Set(portDevice, p, FALSE)
         \/ portDevice' = Set(portDevice, p, TRUE)
  PROVE  Apart(p)
<1>1. \A q \in Ports \ {p} : scPc'[q] = scPc[q] /\ scNext'[q] = scNext[q]
  BY GoMoves
<1>2. \A q \in Ports \ {p} : link'[q] = link[q]
  BY Tables
<1>3. \A q \in Ports \ {p} : chg'[q] = chg[q]
  BY Tables
<1>4. \A q \in Ports \ {p} : addPc'[q] = addPc[q]
  BY Tables DEF Set
<1>5. \A q \in Ports \ {p} : portStatus'[q] = portStatus[q]
  BY Tables DEF Set
<1>6. \A q \in Ports \ {p} : resetVector'[q] = resetVector[q]
  BY Tables DEF Set
<1>7. \A q \in Ports \ {p} : portDevice'[q] = portDevice[q]
  BY Tables DEF Set
<1> QED
  BY <1>1, <1>2, <1>3, <1>4, <1>5, <1>6, <1>7 DEF Apart, Local

(* The thread moves between the places where it is in none of its handlers.  *)
LEMMA RestingMove ==
  ASSUME Typed, HealthyInv, NEW p \in Ports, NEW l \in Rests,
         Resting(p), Go(p, l),
         UNCHANGED <<link, chg, devZero, addPc, resetVector, portDevice, wdPc>>,
         UNCHANGED devZeroLock,
         \/ /\ UNCHANGED portStatus
            /\ \/ l \in {"fetched", "pick"}
               \/ scPc[p] \in {"fetched", "pick"} => portStatus[p].chg = {}
         \/ portStatus' = Set(portStatus, p, [link |-> "empty", chg |-> {}])
         \/ /\ l \in {"fetched", "pick"}
            /\ portStatus' = Set(portStatus, p, [link |-> link[p], chg |-> chg[p]])
  PROVE  HealthyInv'
<1>1. PortFine(p)
  BY OnePort
<1>2. l \in ScPcs
  BY DEF Rests, ScPcs
<1>3. \/ UNCHANGED portStatus
      \/ \E s \in [link : Links, chg : SUBSET Bits] : portStatus' = Set(portStatus, p, s)
  <2>1. /\ [link |-> "empty", chg |-> {}] \in [link : Links, chg : SUBSET Bits]
        /\ [link |-> link[p], chg |-> chg[p]] \in [link : Links, chg : SUBSET Bits]
    BY Tables DEF Links
  <2> QED
    BY <2>1
<1>4. Apart(p)
  BY <1>2, <1>3, StatusApart
<1>5. scPc'[p] = l /\ l # "clear" /\ l \in Rests /\ scPc[p] # "clear"
  BY <1>2, GoMoves DEF Rests, Resting
<1>6. \/ /\ portStatus'[p].chg = portStatus[p].chg
         /\ \/ l \in {"fetched", "pick"}
            \/ scPc[p] \in {"fetched", "pick"} => portStatus[p].chg = {}
      \/ portStatus'[p].chg = {}
      \/ l \in {"fetched", "pick"} /\ portStatus'[p].chg = chg[p]
  BY Tables DEF Set
<1>7. LockStep(p)
  BY <1>5 DEF LockStep, Holder
<1>8. PortFine(p)'
  <2>1. Resting(p)'
    BY <1>5 DEF Resting
  <2>2. Unhandled(p) => Unhandled(p)'
    BY <1>5, <1>6, <2>1 DEF Unhandled
  <2>3. NoChange(p) => NoChange(p)'
    BY <1>6 DEF NoChange
  <2>4. ~Enumerating(p) /\ ~Leaving(p)
    BY DEF Enumerating, Leaving, Resting, Rests
  <2>5. Phase(p)'
    BY <1>1, <2>1, <2>2, <2>3, <2>4 DEF PortFine, Phase, Empty, Reported, Deciding,
       Adding, Arming, BeingReset, Zeroed, HasAddress, AddOver, Resting, Rests
  <2>6. Made(p)' /\ wdPc'[p] = "idle"
    BY <1>1, <2>1 DEF PortFine, Made
  <2> QED
    BY <2>5, <2>6 DEF PortFine
<1> QED
  BY <1>4, <1>7, <1>8, ApartKeeps

(* The loop over the changes.                                                *)
LEMMA LoopHealthy ==
  ASSUME Healthy, Typed, HealthyInv, NEW p \in Ports, UNCHANGED wdPc,
         StartOrDelay(p) \/ Fetch(p) \/ Fetched(p) \/ Again(p) \/ End(p)
  PROVE  HealthyInv'
<1> USE DEF At, Rests, Resting
<1>1. CASE StartOrDelay(p)
  <2>1. \E l \in {"delay", "fetch"} : Go(p, l)
    BY <1>1 DEF StartOrDelay, Start, Delay
  <2>2. /\ UNCHANGED <<link, chg, devZero, addPc, resetVector, portDevice, devZeroLock>>
        /\ UNCHANGED portStatus /\ scPc[p] \in {"start", "delay"}
    BY <1>1 DEF StartOrDelay, Start, Delay, hwVars, lockVars, addVars
  <2> QED
    BY <2>1, <2>2, RestingMove
<1>2. CASE Fetch(p)
  <2>1. Go(p, "fetched") /\ portStatus' = Set(portStatus, p, [link |-> link[p], chg |-> chg[p]])
    BY <1>2, NoTrouble DEF Fetch, GetPortStatus
  <2>2. /\ UNCHANGED <<link, chg, devZero, addPc, resetVector, portDevice, devZeroLock>>
        /\ scPc[p] = "fetch"
    BY <1>2, NoTrouble DEF Fetch, hwVars, lockVars, addVars
  <2> QED
    BY <2>1, <2>2, RestingMove
<1>5. CASE Fetched(p)
  <2>1. Go(p, "pick") /\ UNCHANGED portStatus
    BY <1>5 DEF Fetched
  <2>2. /\ UNCHANGED <<link, chg, devZero, addPc, resetVector, portDevice, devZeroLock>>
        /\ scPc[p] = "fetched"
    BY <1>5 DEF Fetched, hwVars, lockVars, addVars
  <2> QED
    BY <2>1, <2>2, RestingMove
<1>3. CASE Again(p)
  <2>1. \E l \in {"fetch", "pick"} : Go(p, l)
    BY <1>3 DEF Again
  <2>2. /\ UNCHANGED <<link, chg, devZero, addPc, resetVector, portDevice, devZeroLock>>
        /\ UNCHANGED portStatus /\ scPc[p] = "again"
    BY <1>3 DEF Again, hwVars, lockVars, addVars
  <2> QED
    BY <2>1, <2>2, RestingMove
<1>4. CASE End(p)
  <2>1. Go(p, "idle") /\ portStatus' = Set(portStatus, p, [link |-> "empty", chg |-> {}])
    BY <1>4 DEF End
  <2>2. /\ UNCHANGED <<link, chg, devZero, addPc, resetVector, portDevice, devZeroLock>>
        /\ scPc[p] = "end"
    BY <1>4 DEF End, hwVars, lockVars, addVars
  <2> QED
    BY <2>1, <2>2, RestingMove
<1> QED
  BY <1>1, <1>2, <1>3, <1>4, <1>5

(* A change is handed to its handler: a connection before there is anything  *)
(* else, the reset when the device is at address zero.                       *)
LEMMA PickHealthy ==
  ASSUME Healthy, Typed, HealthyInv, NEW p \in Ports, UNCHANGED wdPc, Pick(p)
  PROVE  HealthyInv'
<1>0. /\ UNCHANGED <<link, devZero, addPc, devZeroLock, wdPc>>
      /\ scPc[p] = "pick"
  BY DEF Pick, At, lockVars, addVars
<1>1. PortFine(p)
  BY OnePort
<1>2. CASE portStatus[p].chg = {}
  <2>1. Go(p, "end") /\ UNCHANGED <<chg, portStatus, portDevice, resetVector>>
    BY <1>2 DEF Pick
  <2> QED
    BY <1>0, <1>2, <2>1, RestingMove DEF Rests, Resting
<1>3. CASE portStatus[p].chg # {}
  <2>1. /\ chg' = [chg EXCEPT ![p] = @ \ {Picked(p)}]
        /\ GetPortStatus(p, chg'[p]) /\ Go(p, Picked(p))
        /\ UNCHANGED <<portDevice, resetVector>>
    BY <1>3, NoTrouble DEF Pick
  <2>2. \/ Reported(p) /\ portStatus[p].chg = {"connection"}
        \/ Zeroed(p) /\ portStatus[p].chg = {"reset"}
    BY <1>0, <1>1, <1>3 DEF PortFine, Phase, Empty, Reported, Deciding, Adding, Arming,
       BeingReset, Zeroed, Enumerating, Leaving, HasAddress, NoChange, Unhandled
  <2>3. Picked(p) \in ScPcs
    BY DEF Picked, ScPcs
  <2>4. chg'[p] = {} /\ scPc'[p] = Picked(p)
    <3>1. chg[p] = {Picked(p)}
      BY <1>0, <2>2 DEF Picked, Reported, Zeroed, Unhandled
    <3>2. chg'[p] = chg[p] \ {Picked(p)}
      BY <2>1, Tables
    <3>3. scPc'[p] = Picked(p)
      BY <2>1, <2>3, GoMoves
    <3> QED
      BY <3>1, <3>2, <3>3
  <2>5. [link |-> link[p], chg |-> {}] \in [link : Links, chg : SUBSET Bits]
    BY Tables
  <2>6. portStatus' = Set(portStatus, p, [link |-> link[p], chg |-> {}])
    BY <2>1, <2>4 DEF GetPortStatus
  <2>7. portStatus'[p] = [link |-> link[p], chg |-> {}]
    BY <2>6, Tables DEF Set
  <2>8. Apart(p)
    <3>1. \E s \in SUBSET Bits : chg' = [chg EXCEPT ![p] = s]
      BY <2>1, Tables
    <3>2. \E s \in [link : Links, chg : SUBSET Bits] : portStatus' = Set(portStatus, p, s)
      BY <2>5, <2>6
    <3> QED
      BY <1>0, <2>1, <2>3, <3>1, <3>2, StatusApart
  <2>9. PortFine(p)'
    <3>1. CASE Reported(p) /\ portStatus[p].chg = {"connection"}
      <4>1. scPc'[p] = "connection"
        BY <2>4, <3>1 DEF Picked
      <4>2. Deciding(p)'
        BY <1>0, <2>4, <2>7, <3>1, <4>1 DEF Reported, Deciding, NoChange, AddOver
      <4>3. ~portDevice[p]
        BY <1>1, <3>1 DEF PortFine, Made, Reported
      <4> QED
        BY <1>0, <1>1, <2>1, <4>2, <4>3 DEF PortFine, Phase, Made
    <3>2. CASE Zeroed(p) /\ portStatus[p].chg = {"reset"}
      <4>1. scPc'[p] = "reset"
        BY <2>4, <3>2 DEF Picked
      <4>2. Enumerating(p)'
        BY <1>0, <2>1, <2>4, <2>7, <3>2, <4>1 DEF Zeroed, Enumerating, NoChange, AddOver
      <4>3. ~portDevice[p]
        BY <1>1, <3>2 DEF PortFine, Made, Zeroed
      <4> QED
        BY <1>0, <1>1, <2>1, <4>2, <4>3 DEF PortFine, Phase, Made
    <3> QED
      BY <2>2, <3>1, <3>2
  <2>10. LockStep(p)
    <3>1. scPc'[p] # "clear"
      BY <2>4 DEF Picked
    <3> QED
      BY <1>0, <3>1 DEF LockStep, Holder
  <2> QED
    BY <2>8, <2>9, <2>10, ApartKeeps
<1> QED
  BY <1>2, <1>3

(* What the place of the thread says of the port.                            *)
LEMMA PhaseAt ==
  ASSUME HealthyInv, NEW p \in Ports
  PROVE  /\ scPc[p] \in {"connection", "remove", "recheck", "relaunch", "detach",
                         "detach2"} => Deciding(p)
         /\ scPc[p] = "failed" => Deciding(p) \/ Reported(p)
         /\ scPc[p] \in {"reset", "configure", "configureErr", "describe", "describeErr",
                         "address", "addressErr"} => Enumerating(p)
         /\ scPc[p] \in {"unlock", "clear"} => Leaving(p)
         /\ scPc[p] \in {"create", "createErr"} => HasAddress(p)
         /\ scPc[p] \notin {"resetErr", "resetErrEnd"}
         /\ scPc[p] \notin Rests => ~portDevice[p]
<1>1. PortFine(p)
  BY OnePort
<1> QED
  BY <1>1 DEF PortFine, Phase, Empty, Reported, Deciding, Adding, Arming, BeingReset,
     Zeroed, Enumerating, Leaving, HasAddress, Unhandled, Made, Resting, Rests

(* A step of a handler that leaves the lock alone keeps the invariant when   *)
(* it leads its port to a phase.                                             *)
LEMMA HandlerStep ==
  ASSUME Typed, HealthyInv, NEW p \in Ports, NEW l \in ScPcs, Go(p, l) \/ ReleaseThen(p, l),
         UNCHANGED <<devZeroLock, devZero, wdPc>>,
         UNCHANGED link \/ link' = [link EXCEPT ![p] = Disabled(@)]
           \/ link' = [link EXCEPT ![p] = IF @ = "empty" THEN @ ELSE "connected"],
         UNCHANGED chg \/ \E s \in SUBSET Bits : chg' = [chg EXCEPT ![p] = s],
         UNCHANGED addPc \/ addPc' = Set(addPc, p, "start"),
         UNCHANGED portStatus,
         UNCHANGED resetVector \/ resetVector' = Set(resetVector, p, "default"),
         \/ UNCHANGED portDevice \/ portDevice' = Set(portDevice, p, FALSE)
         \/ portDevice' = Set(portDevice, p, TRUE),
         scPc[p] # "clear", l # "clear", addPc[p] # "have", Phase(p)', Made(p)'
  PROVE  HealthyInv'
<1>1. Apart(p)
  BY StatusApart
<1>2. wdPc'[p] = "idle"
  BY OnePort DEF PortFine
<1>3. scPc'[p] # "clear"
  BY GoMoves
<1>4. addPc'[p] # "have"
  BY Tables DEF Set
<1>5. LockStep(p)
  BY <1>3, <1>4 DEF LockStep, Holder
<1> QED
  BY <1>1, <1>2, <1>5, ApartKeeps DEF PortFine

(* The lock is given back, and then _devZero.                                *)
LEMMA ReleaseHealthy ==
  ASSUME Healthy, Typed, HealthyInv, NEW p \in Ports, UNCHANGED wdPc,
         Failed(p) \/ Unlock(p) \/ Clear(p)
  PROVE  HealthyInv'
<1> USE DEF At
<1>1. PortFine(p) /\ OneHolder
  BY OnePort
<1>2. CASE Failed(p)
  <2>1. (Deciding(p) \/ Reported(p)) /\ scPc[p] = "failed" /\ ~portDevice[p]
    BY <1>2, PhaseAt DEF Failed, Rests
  <2>2. ~devZero[p] /\ addPc[p] # "have"
    BY <2>1 DEF Deciding, Reported, AddOver
  <2>3. /\ Go(p, "end") /\ "end" \in ScPcs
        /\ UNCHANGED <<link, chg, devZeroLock, devZero, addPc, portStatus, resetVector,
                       portDevice>>
    BY <1>2, <2>2 DEF Failed, ScPcs, hwVars, lockVars, addVars
  <2>4. scPc'[p] = "end"
    BY <2>3, GoMoves
  <2>5. Phase(p)'
    BY <2>1, <2>3, <2>4 DEF Phase, Deciding, Reported, AddOver, NoChange, Unhandled, Resting,
       Rests
  <2>6. Made(p)'
    BY <2>1, <2>3 DEF Made
  <2> QED
    BY <2>1, <2>2, <2>3, <2>5, <2>6, HandlerStep
<1>3. CASE Unlock(p)
  <2>1. Leaving(p) /\ scPc[p] = "unlock" /\ ~portDevice[p]
    BY <1>3, PhaseAt DEF Unlock, Rests
  <2>2. /\ Go(p, "clear") /\ "clear" \in ScPcs /\ ~devZeroLock'
        /\ UNCHANGED <<link, chg, devZero, addPc, portStatus, resetVector, portDevice>>
    BY <1>3 DEF Unlock, ScPcs, hwVars, addVars, Lock!ReleaseLock, Lock!ClearLock
  <2>3. scPc'[p] = "clear" /\ scNext'[p] = scNext[p]
    BY <2>2, GoMoves
  <2>4. Apart(p)
    BY <2>2, StatusApart
  <2>5. PortFine(p)'
    BY <1>1, <2>1, <2>2, <2>3 DEF PortFine, Phase, Leaving, AddOver, NoChange, Made
  <2>6. LockStep(p)
    BY <2>1, <2>2, <2>3 DEF LockStep, Holder, Leaving, AddOver
  <2> QED
    BY <2>4, <2>5, <2>6, ApartKeeps
<1>4. CASE Clear(p)
  <2>1. Leaving(p) /\ scPc[p] = "clear" /\ ~portDevice[p]
    BY <1>4, PhaseAt DEF Clear, Rests
  <2>2. /\ UNCHANGED <<link, chg, devZeroLock, addPc, portStatus, resetVector, portDevice>>
        /\ devZero' = Set(devZero, p, FALSE) /\ scPc' = Set(scPc, p, scNext[p])
        /\ scNext' = Set(scNext, p, "idle")
    BY <1>4 DEF Clear, hwVars, lockVars, addVars
  <2>3. /\ ~devZero'[p] /\ scPc'[p] = scNext[p]
        /\ \A q \in Ports \ {p} : /\ devZero'[q] = devZero[q] /\ scPc'[q] = scPc[q]
                                 /\ scNext'[q] = scNext[q]
    BY <2>2, Tables DEF Set
  <2>4. Apart(p)
    BY <2>2, <2>3 DEF Apart, Local
  <2>5. PortFine(p)'
    BY <1>1, <2>1, <2>2, <2>3 DEF PortFine, Phase, Leaving, Deciding, HasAddress, AddOver,
       NoChange, Made, Resting, Rests
  <2>6. LockStep(p)
    BY <2>1, <2>2, <2>3 DEF LockStep, Holder, Leaving, AddOver
  <2> QED
    BY <2>4, <2>5, <2>6, ApartKeeps
<1> QED
  BY <1>2, <1>3, <1>4

(* The handler of the reset.                                                 *)
LEMMA EnumerationHealthy ==
  ASSUME Healthy, Typed, HealthyInv, NEW p \in Ports, UNCHANGED wdPc,
         Reset(p) \/ Configure(p) \/ Describe(p)
  PROVE  HealthyInv'
<1> USE DEF At
<1>1. Enumerating(p) /\ ~portDevice[p]
  BY PhaseAt DEF Reset, Configure, Describe, Rests
<1>2. addPc[p] # "have" /\ scPc[p] # "clear"
  BY <1>1 DEF Enumerating, AddOver
<1>3. UNCHANGED <<link, chg, devZeroLock, devZero, addPc, portStatus, portDevice>>
  BY DEF Reset, Configure, Describe, hwVars, lockVars, addVars, Lock!OpenPipeZero
<1>4. /\ UNCHANGED resetVector
      /\ \E l \in {"configure", "configureErr", "describe", "describeErr", "address"} :
            Go(p, l)
  BY <1>1 DEF Reset, Configure, Describe, Enumerating, NoChange
<1>5. PICK l \in {"configure", "configureErr", "describe", "describeErr", "address"} :
         Go(p, l)
  BY <1>4
<1>6. l \in ScPcs /\ l # "clear"
  BY DEF ScPcs
<1>7. scPc'[p] = l
  BY <1>5, <1>6, GoMoves
<1>8. Phase(p)'
  BY <1>1, <1>3, <1>4, <1>7 DEF Phase, Enumerating, NoChange, AddOver
<1>9. Made(p)'
  BY <1>1, <1>3 DEF Made
<1> QED
  BY <1>2, <1>3, <1>4, <1>5, <1>6, <1>8, <1>9, HandlerStep

(* A port whose device is at address zero has the lock, so it is the only    *)
(* one there.                                                                *)
LEMMA AloneAtZero ==
  ASSUME HealthyInv, NEW p \in Ports, NEW q \in Ports,
         link[p] = "zero", link[q] = "zero"
  PROVE  p = q
<1>1. ASSUME NEW r \in Ports, link[r] = "zero"
      PROVE  Holder(r)
  BY <1>1, OnePort DEF PortFine, Phase, Empty, Reported, Deciding, Adding, Arming,
     BeingReset, Zeroed, Enumerating, Leaving, HasAddress, Unhandled, Resting, Rests, Holder
<1> QED
  BY <1>1 DEF HealthyInv, OneHolder

(* The device gets its address, or the port is disabled; the lock goes back. *)
LEMMA AddressHealthy ==
  ASSUME Healthy, Typed, HealthyInv, NEW p \in Ports, UNCHANGED wdPc,
         Address(p) \/ EnumerationErr(p)
  PROVE  HealthyInv'
<1> USE DEF At
<1>1. Enumerating(p) /\ ~portDevice[p]
  BY PhaseAt DEF Address, EnumerationErr, Rests
<1>2. addPc[p] # "have" /\ scPc[p] # "clear" /\ link[p] = "zero"
  BY <1>1 DEF Enumerating, AddOver
<1>3. UNCHANGED <<chg, devZeroLock, devZero, addPc, portStatus>>
  BY DEF Address, EnumerationErr, lockVars, addVars
<1>4. CASE Go(p, "addressErr") /\ UNCHANGED <<link, portDevice, resetVector>>
  <2>1. UNCHANGED <<link, portDevice, resetVector>>
    BY <1>4
  <2>2. "addressErr" \in ScPcs
    BY DEF ScPcs
  <2>3. scPc'[p] = "addressErr"
    BY <1>4, <2>2, GoMoves
  <2>4. Phase(p)'
    BY <1>1, <1>3, <2>1, <2>3 DEF Phase, Enumerating, NoChange, AddOver
  <2>5. Made(p)'
    BY <1>1, <2>1 DEF Made
  <2> QED
    BY <1>2, <1>3, <1>4, <2>1, <2>2, <2>4, <2>5, HandlerStep
<1>5. CASE /\ ReleaseThen(p, "create")
           /\ link' = [q \in Ports |-> IF q \in AtZero THEN "address" ELSE link[q]]
           /\ UNCHANGED <<portDevice, resetVector>>
  <2>1. link'[p] = "address" /\ \A q \in Ports \ {p} : link'[q] = link[q]
    BY <1>2, <1>5, AloneAtZero DEF AtZero
  <2>2. "create" \in ScPcs
    BY DEF ScPcs
  <2>3. /\ scPc'[p] = "unlock" /\ scNext'[p] = "create"
        /\ \A q \in Ports \ {p} : scPc'[q] = scPc[q] /\ scNext'[q] = scNext[q]
    BY <1>5, <2>2, GoMoves
  <2>4. Apart(p)
    BY <1>3, <1>5, <2>1, <2>3 DEF Apart, Local
  <2>5. Phase(p)'
    BY <1>1, <1>3, <2>1, <2>3 DEF Phase, Enumerating, Leaving, NoChange, AddOver
  <2>6. PortFine(p)'
    BY <1>1, <1>5, <2>5, OnePort DEF PortFine, Made
  <2>7. LockStep(p)
    BY <1>2, <1>3, <2>3 DEF LockStep, Holder
  <2> QED
    BY <2>4, <2>6, <2>7, ApartKeeps
<1>6. CASE EnumerationErr(p)
  <2>1. /\ link' = [link EXCEPT ![p] = Disabled(@)] /\ UNCHANGED resetVector
        /\ UNCHANGED portDevice \/ portDevice' = Set(portDevice, p, FALSE)
        /\ \E l \in {"again", "detach"} : ReleaseThen(p, l)
    BY <1>6, NoTrouble DEF EnumerationErr
  <2>2. PICK l \in {"again", "detach"} : ReleaseThen(p, l)
    BY <2>1
  <2>3. l \in ScPcs /\ l # "clear"
    BY DEF ScPcs
  <2>4. scPc'[p] = "unlock" /\ scNext'[p] = l
    BY <2>2, <2>3, GoMoves
  <2>5. link'[p] = "connected"
    BY <1>2, <2>1, Tables DEF Disabled
  <2>6. Phase(p)'
    BY <1>1, <1>3, <2>4, <2>5 DEF Phase, Enumerating, Leaving, NoChange, AddOver
  <2>7. ~portDevice'[p]
    BY <1>1, <2>1, Tables DEF Set
  <2>8. Made(p)'
    BY <2>7 DEF Made
  <2> QED
    BY <1>2, <1>3, <2>1, <2>2, <2>3, <2>6, <2>8, HandlerStep
<1>7. ASSUME Address(p)
      PROVE  \/ Go(p, "addressErr") /\ UNCHANGED <<link, portDevice, resetVector>>
             \/ /\ ReleaseThen(p, "create")
                /\ link' = [q \in Ports |-> IF q \in AtZero THEN "address" ELSE link[q]]
                /\ UNCHANGED <<portDevice, resetVector>>
  BY <1>7, NoTrouble DEF Address
<1> QED
  BY <1>4, <1>5, <1>6, <1>7

(* The device is made, or the port is disabled and the thread starts over.   *)
LEMMA CreationHealthy ==
  ASSUME Healthy, Typed, HealthyInv, NEW p \in Ports, UNCHANGED wdPc,
         Create(p) \/ CreateErr(p)
  PROVE  HealthyInv'
<1> USE DEF At
<1>1. HasAddress(p) /\ ~portDevice[p]
  BY PhaseAt DEF Create, CreateErr, Rests
<1>2. addPc[p] # "have" /\ scPc[p] # "clear" /\ link[p] = "address" /\ ~devZero[p]
  BY <1>1 DEF HasAddress, AddOver, Resting, Rests, Create, CreateErr
<1>3. UNCHANGED <<chg, devZeroLock, devZero, addPc, portStatus>>
  BY NoTrouble DEF Create, CreateErr, DisablePort, hwVars, lockVars, addVars
<1>4. CASE Create(p)
  <2>1. /\ UNCHANGED link /\ resetVector' = Set(resetVector, p, "default")
        /\ \/ Go(p, "again") /\ portDevice' = Set(portDevice, p, TRUE)
           \/ Go(p, "createErr") /\ UNCHANGED portDevice
    BY <1>4 DEF Create, hwVars
  <2>2. "again" \in ScPcs /\ "createErr" \in ScPcs
    BY DEF ScPcs
  <2>3. CASE Go(p, "again") /\ portDevice' = Set(portDevice, p, TRUE)
    <3>1. scPc'[p] = "again"
      BY <2>2, <2>3, GoMoves
    <3>2. Phase(p)' /\ Made(p)'
      BY <1>1, <1>3, <2>1, <3>1 DEF Phase, HasAddress, NoChange, AddOver, Resting, Rests, Made
    <3> QED
      BY <1>2, <1>3, <2>1, <2>2, <2>3, <3>2, HandlerStep
  <2>4. CASE Go(p, "createErr") /\ UNCHANGED portDevice
    <3>1. scPc'[p] = "createErr"
      BY <2>2, <2>4, GoMoves
    <3>2. Phase(p)' /\ Made(p)'
      BY <1>1, <1>3, <2>1, <2>4, <3>1 DEF Phase, HasAddress, NoChange, AddOver, Made
    <3> QED
      BY <1>2, <1>3, <2>1, <2>2, <2>4, <3>2, HandlerStep
  <2> QED
    BY <2>1, <2>3, <2>4
<1>5. CASE CreateErr(p)
  <2>1. /\ link' = [link EXCEPT ![p] = Disabled(@)] /\ Go(p, "relaunch")
        /\ UNCHANGED <<portDevice, resetVector>> /\ "relaunch" \in ScPcs
    BY <1>2, <1>5, NoTrouble DEF CreateErr, DisablePort, ScPcs
  <2>2. scPc'[p] = "relaunch" /\ link'[p] = "connected"
    BY <1>2, <2>1, GoMoves, Tables DEF Disabled
  <2>3. Phase(p)' /\ Made(p)'
    BY <1>1, <1>3, <2>1, <2>2 DEF Phase, HasAddress, Deciding, NoChange, AddOver, Made
  <2> QED
    BY <1>2, <1>3, <2>1, <2>3, HandlerStep
<1> QED
  BY <1>4, <1>5

(* The AddDevice thread is launched: the last one is gone.                   *)
LEMMA LaunchHealthy ==
  ASSUME Healthy, Typed, NEW p \in Ports, Deciding(p), NEW a \in BOOLEAN, Relaunches(p, a)
  PROVE  addPc' = Set(addPc, p, "start") /\ addPc'[p] = "start"
<1>1. addPc[p] = "idle"
  <2>1. ~PollOver(p)
    BY NoTrouble DEF Relaunches
  <2> QED
    BY <2>1 DEF PollOver, Deciding, AddOver
<1>2. addPc' = Set(addPc, p, "start")
  BY <1>1 DEF Relaunches, LaunchAddDeviceThread
<1> QED
  BY <1>2, Tables DEF Set

(* The handler of a connection change, and the retries.                      *)
LEMMA DecisionHealthy ==
  ASSUME Healthy, Typed, HealthyInv, NEW p \in Ports, UNCHANGED wdPc,
         \/ Connection(p) \/ Remove(p) \/ Recheck(p) \/ Relaunch(p) \/ Detach(p)
         \/ Detach2(p)
  PROVE  HealthyInv'
<1> USE DEF At
<1>1. Deciding(p) /\ ~portDevice[p]
  BY PhaseAt DEF Connection, Remove, Recheck, Relaunch, Detach, Detach2, Rests
<1>2. /\ addPc[p] # "have" /\ scPc[p] # "clear" /\ link[p] = "connected" /\ ~devZero[p]
      /\ chg[p] = {} /\ portStatus[p].chg = {}
  BY <1>1 DEF Deciding, AddOver, Resting, Rests, NoChange
<1>3. UNCHANGED <<devZeroLock, devZero, portStatus>>
  BY DEF Connection, Remove, Recheck, Relaunch, Detach, Detach2, lockVars
<1>4. \A q \in {"remove", "recheck", "again", "failed", "detach2"} : q \in ScPcs /\ q # "clear"
  BY DEF ScPcs
<1>5. UNCHANGED portDevice /\ (UNCHANGED resetVector \/ resetVector' = Set(resetVector, p, "default"))
  BY <1>1, NoTrouble DEF Connection, Remove, Recheck, Relaunch, Detach, Detach2,
     RemoveIfThere
<1>6. Made(p)'
  BY <1>1, <1>5 DEF Made
<1>7. CASE Connection(p) \/ Remove(p) \/ (Recheck(p) /\ UNCHANGED addPc)
  <2>1. UNCHANGED <<link, chg, addPc>>
    BY <1>7 DEF Connection, Remove, Recheck, hwVars, addVars
  <2>2. \E l \in {"remove", "recheck", "again", "failed"} : Go(p, l)
    BY <1>2, <1>7 DEF Connection, Remove, Recheck
  <2>3. PICK l \in {"remove", "recheck", "again", "failed"} : Go(p, l)
    BY <2>2
  <2>4. scPc'[p] = l
    BY <1>4, <2>3, GoMoves
  <2>5. Phase(p)'
    BY <1>1, <1>3, <2>1, <2>4 DEF Phase, Deciding, AddOver, NoChange, Resting, Rests
  <2> QED
    BY <1>2, <1>3, <1>4, <1>5, <1>6, <2>1, <2>3, <2>5, HandlerStep
<1>8. CASE Recheck(p) \/ Relaunch(p) \/ Detach2(p)
  <2>1. CASE Recheck(p) /\ UNCHANGED addPc
    BY <1>7, <2>1
  <2>2. CASE Go(p, "again") /\ \E a \in BOOLEAN : Relaunches(p, a)
    <3>1. addPc' = Set(addPc, p, "start") /\ addPc'[p] = "start"
      BY <1>1, <2>2, LaunchHealthy
    <3>2. /\ UNCHANGED link \/ link' = [link EXCEPT ![p] = Disabled(@)]
          /\ UNCHANGED chg \/ chg' = [chg EXCEPT ![p] = @ \ {"connection"}]
      BY <1>8, NoTrouble DEF Recheck, Relaunch, Detach2, hwVars
    <3>3. link'[p] = "connected" /\ chg'[p] = {}
      BY <1>2, <3>2, Tables DEF Disabled
    <3>4. UNCHANGED chg \/ \E s \in SUBSET Bits : chg' = [chg EXCEPT ![p] = s]
      BY <3>2, Tables
    <3>5. scPc'[p] = "again"
      BY <1>4, <2>2, GoMoves
    <3>6. Phase(p)'
      BY <1>2, <1>3, <3>1, <3>3, <3>5 DEF Phase, Adding, NoChange, Resting, Rests
    <3> QED
      BY <1>2, <1>3, <1>4, <1>5, <1>6, <2>2, <3>1, <3>2, <3>4, <3>6, HandlerStep
  <2> QED
    BY <1>2, <1>8, <2>1, <2>2, NoTrouble DEF Recheck, Relaunch, Detach2, addVars
<1>9. CASE Detach(p)
  <2>1. /\ UNCHANGED addPc
        /\ \/ UNCHANGED hwVars /\ \E l \in {"failed", "detach2"} : Go(p, l)
           \/ PowerCycle(p) /\ Go(p, "failed")
    BY <1>2, <1>9, NoTrouble DEF Detach, addVars
  <2>2. CASE UNCHANGED hwVars /\ \E l \in {"failed", "detach2"} : Go(p, l)
    <3>1. PICK l \in {"failed", "detach2"} : Go(p, l)
      BY <2>2
    <3>2. scPc'[p] = l /\ UNCHANGED <<link, chg>>
      BY <1>4, <2>2, <3>1, GoMoves DEF hwVars
    <3>3. Phase(p)'
      BY <1>1, <1>3, <2>1, <3>2 DEF Phase, Deciding, AddOver, NoChange
    <3> QED
      BY <1>2, <1>3, <1>4, <1>5, <1>6, <2>1, <3>1, <3>2, <3>3, HandlerStep
  <2>3. CASE PowerCycle(p) /\ Go(p, "failed")
    <3>1. /\ link' = [link EXCEPT ![p] = IF @ = "empty" THEN @ ELSE "connected"]
          /\ chg' = [chg EXCEPT ![p] = {"connection"}]
      BY <1>2, <2>3 DEF PowerCycle, Set
    <3>2. link'[p] = "connected" /\ chg'[p] = {"connection"}
      BY <1>2, <3>1, Tables
    <3>3. scPc'[p] = "failed"
      BY <1>4, <2>3, GoMoves
    <3>4. Phase(p)'
      BY <1>1, <1>2, <1>3, <2>1, <3>2, <3>3 DEF Phase, Deciding, Reported, AddOver
    <3>5. {"connection"} \in SUBSET Bits
      BY DEF Bits
    <3> QED
      BY <1>2, <1>3, <1>4, <1>5, <1>6, <2>1, <2>3, <3>1, <3>4, <3>5, HandlerStep
  <2> QED
    BY <2>1, <2>2, <2>3
<1> QED
  BY <1>7, <1>8, <1>9

-----------------------------------------------------------------------------
(* Nobody has begun.                                                         *)
LEMMA InitHealthy ==
  ASSUME Init
  PROVE  HealthyInv
<1>1. ASSUME NEW p \in Ports
      PROVE  PortFine(p) /\ ~Holder(p)
  BY <1>1 DEF Init, All, PortFine, Phase, Empty, Unhandled, Resting, Rests, Made, Holder
<1>2. ~devZeroLock
  BY DEF Init, Lock!LockInit
<1> QED
  BY <1>1, <1>2 DEF HealthyInv, PortFine, OneHolder

(* Every step keeps the phases of the ports, and the lock with one of them.  *)
LEMMA NextHealthy ==
  ASSUME Healthy, Typed, HealthyInv, Next
  PROVE  HealthyInv'
<1>1. CASE ProcessStatusChanged
  BY <1>1, Untouched DEF ProcessStatusChanged, hwVars, lockVars, addVars, wdVars
<1>2. ASSUME NEW p \in Ports, PortStatusChangedHandler(p)
      PROVE  HealthyInv'
  <2>1. UNCHANGED wdPc
    BY <1>2 DEF PortStatusChangedHandler, wdVars
  <2>2. CASE StartOrDelay(p)
    BY <2>1, <2>2, LoopHealthy
  <2>3. CASE StatusStep(p)
    <3>1. ~ResetErr(p) /\ ~ResetErrEnd(p)
      BY PhaseAt DEF ResetErr, ResetErrEnd, At
    <3> QED
      BY <2>1, <2>3, <3>1, LoopHealthy, PickHealthy, ReleaseHealthy, EnumerationHealthy,
         AddressHealthy, CreationHealthy, DecisionHealthy DEF StatusStep
  <2> QED
    BY <1>2, <2>2, <2>3 DEF PortStatusChangedHandler
<1>3. ASSUME NEW p \in Ports, Hardware(p) \/ AddDevice(p) \/ StatusCall(p) \/ Watchdog(p)
      PROVE  HealthyInv'
  BY <1>3, HardwareHealthy, AdderHealthy, ReadHealthy, DogHealthy
<1> QED
  BY <1>1, <1>2, <1>3 DEF Next, Step

(* What the phases promise.                                                  *)
LEMMA Promises ==
  ASSUME HealthyInv
  PROVE  OneAtZero /\ ZeroIsCovered /\ LockAgrees /\ DeviceKept
<1>1. OneAtZero
  <2>1. CASE AtZero = {}
    BY <2>1, FS_EmptySet DEF OneAtZero
  <2>2. CASE AtZero # {}
    <3>1. PICK p \in Ports : link[p] = "zero"
      BY <2>2 DEF AtZero
    <3>2. AtZero = {p}
      BY <3>1, AloneAtZero DEF AtZero
    <3>3. Cardinality(AtZero) = 1
      BY <3>2, FS_Singleton
    <3> QED
      BY <3>3 DEF OneAtZero
  <2> QED
    BY <2>1, <2>2
<1>2. ZeroIsCovered
  BY OnePort DEF ZeroIsCovered, PortFine, Phase, Empty, Reported, Deciding, Adding, Arming,
     BeingReset, Zeroed, Enumerating, Leaving, HasAddress
<1>3. LockAgrees
  BY DEF HealthyInv, OneHolder, LockAgrees, Holder, Clearing
<1>4. DeviceKept
  BY OnePort DEF DeviceKept, PortFine, Made
<1> QED
  BY <1>1, <1>2, <1>3, <1>4

(* The invariant holds in every behaviour of a hub that works.               *)
LEMMA InvariantHolds ==
  ASSUME Healthy
  PROVE  Spec => [](IInv /\ HealthyInv)
<1>1. Init => IInv /\ HealthyInv
  BY InitKeeps, InitHealthy
<1>2. IInv /\ HealthyInv /\ [Next]_vars => (IInv /\ HealthyInv)'
  <2>1. ASSUME IInv, HealthyInv, Next
        PROVE  IInv' /\ HealthyInv'
    BY <2>1, NextKeeps, NextHealthy DEF IInv
  <2>2. ASSUME IInv, HealthyInv, UNCHANGED vars
        PROVE  IInv' /\ HealthyInv'
    BY <2>2, StutterKeeps, Untouched DEF vars, hwVars, lockVars, addVars, wdVars
  <2> QED
    BY <2>1, <2>2
<1> QED
  BY <1>1, <1>2, PTL DEF Spec

(* At most one device is at address zero, behind all the ports of the hub.   *)
THEOREM AloneAtAddressZero ==
  ASSUME Healthy
  PROVE  Spec => []OneAtZero
BY InvariantHolds, Promises, PTL

(* A port is reset, and has a device at address zero, only while its         *)
(* _devZero is set.                                                          *)
THEOREM ResetIsCovered ==
  ASSUME Healthy
  PROVE  Spec => []ZeroIsCovered
BY InvariantHolds, Promises, PTL

(* _devZero, which three threads of a port write, agrees with the lock of    *)
(* the controller.                                                           *)
THEOREM FlagAgrees ==
  ASSUME Healthy
  PROVE  Spec => []LockAgrees
BY InvariantHolds, Promises, PTL

(* No retry, watchdog or late thread resets or disables the port of a device *)
(* that has been enumerated.                                                 *)
THEOREM DeviceStays ==
  ASSUME Healthy
  PROVE  Spec => []DeviceKept
BY InvariantHolds, Promises, PTL

-----------------------------------------------------------------------------
(* The promise of the device zero lock, kept by the hardware: the ports with *)
(* a device at address zero are what DeviceZero calls atZero.                *)

Promise == INSTANCE DeviceZero WITH Users <- Ports, atZero <- AtZero

(* A step changes the link of one port: the device that gets its address was *)
(* the only one at address zero.                                             *)
LEMMA OneLinkMoves ==
  ASSUME Healthy, Typed, HealthyInv, Next
  PROVE  UNCHANGED link \/ \E p \in Ports : \A q \in Ports \ {p} : link'[q] = link[q]
<1>1. CASE ProcessStatusChanged
  BY <1>1 DEF ProcessStatusChanged, hwVars
<1>2. ASSUME NEW p \in Ports, Hardware(p)
      PROVE  \A q \in Ports \ {p} : link'[q] = link[q]
  BY <1>2, NoTrouble, Tables DEF Hardware, Plug, ResetDone, Unplug, Set
<1>3. ASSUME NEW p \in Ports, AddDevice(p)
      PROVE  \A q \in Ports \ {p} : link'[q] = link[q]
  BY <1>3, Tables DEF AddDevice, AddStep, AddStart, AddAcquire, AddHave, AddArm, AddReset,
     AddPoll, AddRepoll, AddErr, AddRelease, AddClear, AddExit, hwVars
<1>4. ASSUME NEW p \in Ports, StatusCall(p) \/ Watchdog(p)
      PROVE  \A q \in Ports \ {p} : link'[q] = link[q]
  BY <1>4, Tables DEF StatusCall, Watchdog, WatchdogNotes, WatchdogFires, ResetPortZero,
     ReleaseDevZeroLock, ClearDevZero, DisablePort, hwVars
<1>5. ASSUME NEW p \in Ports, PortStatusChangedHandler(p)
      PROVE  \A q \in Ports \ {p} : link'[q] = link[q]
  <2>1. CASE Address(p)
    <3>1. link[p] = "zero"
      BY <2>1, PhaseAt DEF Address, At, Enumerating
    <3>2. \A q \in Ports \ {p} : link[q] # "zero"
      BY <3>1, AloneAtZero
    <3> QED
      BY <2>1, <3>2 DEF Address, AtZero
  <2>2. CASE \/ StartOrDelay(p) \/ Fetch(p) \/ Fetched(p) \/ Pick(p) \/ Again(p)
             \/ Failed(p) \/ End(p) \/ Unlock(p) \/ Clear(p) \/ Reset(p) \/ Configure(p) \/ Describe(p)
             \/ Create(p) \/ Relaunch(p) \/ ResetErrEnd(p) \/ Connection(p) \/ Remove(p)
             \/ Recheck(p)
    BY <2>2 DEF StartOrDelay, Fetch, Fetched, Pick, Again, Failed, End, Unlock, Clear, Reset,
       Configure, Describe, Create, Relaunch, ResetErrEnd, Connection, Remove, Recheck, hwVars
  <2>3. CASE EnumerationErr(p) \/ CreateErr(p) \/ ResetErr(p) \/ Detach2(p)
    BY <2>3, Tables DEF EnumerationErr, CreateErr, ResetErr, Detach2, DisablePort, hwVars
  <2>4. CASE Detach(p)
    BY <2>4, Tables DEF Detach, PowerCycle, PowerOff, Set, hwVars
  <2> QED
    BY <1>5, <2>1, <2>2, <2>3, <2>4 DEF PortStatusChangedHandler, StatusStep
<1> QED
  BY <1>1, <1>2, <1>3, <1>4, <1>5 DEF Next, Step

(* The ports of a hub that works implement what the lock promises: a device  *)
(* comes to address zero when nobody is there, and leaves it, although the   *)
(* lock, _devZero and the ports are changed by threads that share no lock of *)
(* their own.                                                                *)
THEOREM HubKeepsPromise ==
  ASSUME Healthy
  PROVE  Spec => Promise!Spec
<1>1. Init => Promise!Init
  BY DEF Init, All, AtZero, Promise!Init
<1>2. ASSUME IInv, HealthyInv, HealthyInv', [Next]_vars
      PROVE  [Promise!Next]_AtZero
  <2>1. CASE UNCHANGED link
    BY <2>1 DEF AtZero
  <2>2. ASSUME NEW p \in Ports, \A q \in Ports \ {p} : link'[q] = link[q]
        PROVE  [Promise!Next]_AtZero
    <3>1. ASSUME NEW q \in Ports, q # p
          PROVE  q \in AtZero' <=> q \in AtZero
      BY <2>2, <3>1 DEF AtZero
    <3>2. CASE p \in AtZero /\ p \notin AtZero'
      <4>1. AtZero' = AtZero \ {p}
        BY <3>1, <3>2 DEF AtZero
      <4> QED
        BY <3>2, <4>1 DEF Promise!Next, Promise!Leave
    <3>3. CASE p \notin AtZero /\ p \in AtZero'
      <4>1. \A q \in AtZero : q \in AtZero' /\ q # p
        BY <3>1, <3>3 DEF AtZero
      <4>2. link'[p] = "zero" /\ \A q \in AtZero' : q \in Ports /\ link'[q] = "zero"
        BY <3>3 DEF AtZero
      <4>3. \A q \in Ports : link'[q] = "zero" => q = p
        <5>1. ASSUME NEW r \in Ports, link'[r] = "zero"
              PROVE  Holder(r)'
          BY <1>2, <5>1 DEF HealthyInv, Phase, Empty, Reported, Deciding, Adding, Arming,
             BeingReset, Zeroed, Enumerating, Leaving, HasAddress, Unhandled, Resting,
             Rests, Holder
        <5> QED
          BY <1>2, <4>2, <5>1 DEF HealthyInv, OneHolder
      <4>4. AtZero = {}
        BY <4>1, <4>2, <4>3
      <4>5. AtZero' = {p}
        BY <3>3, <4>2, <4>3
      <4> QED
        BY <4>4, <4>5 DEF Promise!Next, Promise!Arrive
    <3>4. CASE p \in AtZero <=> p \in AtZero'
      <4>1. AtZero' = AtZero
        BY <3>1, <3>4 DEF AtZero
      <4> QED
        BY <4>1
    <3> QED
      BY <3>2, <3>3, <3>4
  <2>3. UNCHANGED link \/ \E p \in Ports : \A q \in Ports \ {p} : link'[q] = link[q]
    <3>1. CASE Next
      BY <1>2, <3>1, OneLinkMoves DEF IInv
    <3>2. CASE UNCHANGED vars
      BY <3>2 DEF vars, hwVars
    <3> QED
      BY <1>2, <3>1, <3>2
  <2> QED
    BY <2>1, <2>2, <2>3
<1>3. Spec => [](IInv /\ HealthyInv)
  BY InvariantHolds
<1> QED
  BY <1>1, <1>2, <1>3, PTL DEF Spec, Promise!Spec

=============================================================================
