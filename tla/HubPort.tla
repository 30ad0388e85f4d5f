------------------------------ MODULE HubPort ------------------------------
(* How AppleUSBHubPort enumerates a device on each port of a USB 2 hub: the  *)
(* AddDevice thread takes the controller's device zero lock and resets the   *)
(* port, the status change thread finds the reset done, talks to the device  *)
(* at address 0, gives it an address and releases the lock, and the hub's    *)
(* watchdog releases a lock that seems stuck.  The three work on the same    *)
(* _devZero flag of the port without a lock of their own; only the steps in  *)
(* DevZeroLock are gated.  The thread of port p in the gate is named p.      *)

EXTENDS Naturals, FiniteSets

CONSTANTS
    Ports,
    MaxAttach,      \* attach retries before the port gives up (9 in the code)
    PowerCycleEvery,\* every so many retries the port is power cycled (4)
    MaxDebounce,    \* connection changes in one run of the handler (5)
    MaxExpired,     \* bound: sleeps on the lock that end without a wakeup
    Budgets         \* bound: the incidents of a behaviour stay within one of
                    \* these, each of which says how many of a kind

Incidents == {"plug",    \* a device is connected
              "unplug",  \* a device is disconnected
              "device",  \* a request to the device at address 0 fails
              "pipe",    \* the controller has no endpoint for address 0
              "hub",     \* a request to the hub fails
              "slow",    \* AddDevice or the watchdog runs out of patience
              "tier",    \* the device is a hub behind five hubs
              "early"}   \* a status change is reported while one is handled

ASSUME PortsAssumption == IsFiniteSet(Ports)
ASSUME AttachAssumption == /\ MaxAttach \in Nat /\ MaxDebounce \in Nat
                           /\ PowerCycleEvery \in Nat \ {0}
ASSUME BudgetAssumption == Budgets \subseteq [Incidents -> Nat] /\ MaxExpired \in Nat

VARIABLES
    link,           \* the port in the hub's hardware, and the device on it
    chg,            \* the change bits of the port
    spent,          \* incidents so far
    devZeroLock, endpointZero, caller, expired,     \* see DevZeroLock
    state,          \* _state
    devZero,        \* _devZero
    resetVector,    \* the handler in _changeHandler for kHubPortBeingReset
    portDevice,     \* _portDevice is not NULL
    attachRetry, attachRetryFailed, debounceCount,
    retryPortStatus,
    delayOnStatus,  \* _delayOnStatusChange
    portStatus,     \* _portStatus, as last read
    addPc, addArg,  \* the AddDevice thread and its issueRemoveDevice; it is
                    \* idle when _addDeviceThreadActive is false
    scCall,         \* the status change thread call is pending
    scPc, scNext,   \* the status change thread; where it goes after a release
    timeoutFlag,    \* the hub's _timeoutFlag with the time stamp of this lock
    wdPc            \* the thread of ResetPortZero

lockVars  == <<devZeroLock, endpointZero, caller, expired>>
hwVars    == <<link, chg>>
retryVars == <<attachRetry, attachRetryFailed, debounceCount>>
addVars   == <<addPc, addArg>>
wdVars    == <<timeoutFlag, wdPc>>
vars == <<hwVars, spent, lockVars, state, devZero, resetVector, portDevice,
          retryVars, retryPortStatus, delayOnStatus, portStatus,
          addVars, scCall, scPc, scNext, wdVars>>

Lock == INSTANCE DevZeroLock WITH Threads <- Ports

Links  == {"empty", "connected", "resetting", "zero", "address"}
States == {"normal", "deviceZero", "dead", "setAddress", "setAddressFailed"}
AddPcs == {"idle", "start", "acquire", "have", "arm", "reset", "poll",
           "repoll", "lastpoll", "err", "release", "clear", "exit"}
ScPcs  == {"idle", "start", "delay", "fetch", "fetched", "pick", "reset",
           "configure", "configureErr", "describe", "describeErr",
           "address", "addressErr", "create", "createErr", "relaunch",
           "resetErr", "resetErrEnd", "detach", "detach2", "connection",
           "remove", "recheck", "again", "failed", "end", "unlock", "clear"}

TypeOK ==
    /\ link \in [Ports -> Links]
    /\ chg \in [Ports -> SUBSET {"connection", "reset"}]
    /\ spent \in [Incidents -> Nat]
    /\ Lock!LockTypeOK
    /\ state \in [Ports -> States]
    /\ devZero \in [Ports -> BOOLEAN]
    /\ resetVector \in [Ports -> {"default", "add"}]
    /\ portDevice \in [Ports -> BOOLEAN]
    /\ attachRetry \in [Ports -> 0..MaxAttach]
    /\ attachRetryFailed \in [Ports -> BOOLEAN]
    /\ debounceCount \in [Ports -> 0..MaxDebounce + 1]
    /\ retryPortStatus \in [Ports -> BOOLEAN]
    /\ delayOnStatus \in [Ports -> BOOLEAN]
    /\ portStatus \in [Ports -> [link : Links,
                                 chg : SUBSET {"connection", "reset"}]]
    /\ addPc \in [Ports -> AddPcs]
    /\ addArg \in [Ports -> BOOLEAN]
    /\ scCall \in [Ports -> BOOLEAN]
    /\ scPc \in [Ports -> ScPcs]
    /\ scNext \in [Ports -> ScPcs]
    /\ timeoutFlag \in [Ports -> BOOLEAN]
    /\ wdPc \in [Ports -> {"idle", "fire", "release", "clear"}]

All(v) == [p \in Ports |-> v]

Init ==
    /\ link = All("empty") /\ chg = All({})
    /\ spent = [i \in Incidents |-> 0]
    /\ Lock!LockInit
    /\ state = All("normal") /\ devZero = All(FALSE)
    /\ resetVector = All("default") /\ portDevice = All(FALSE)
    /\ attachRetry = All(0) /\ attachRetryFailed = All(FALSE)
    /\ debounceCount = All(0)
    /\ retryPortStatus = All(FALSE) /\ delayOnStatus = All(FALSE)
    /\ portStatus = All([link |-> "empty", chg |-> {}])
    /\ addPc = All("idle") /\ addArg = All(FALSE)
    /\ scCall = All(FALSE) /\ scPc = All("idle") /\ scNext = All("idle")
    /\ timeoutFlag = All(FALSE) /\ wdPc = All("idle")

(* An incident happens.                                                      *)
Spend(i) == /\ spent' = [spent EXCEPT ![i] = @ + 1]
            /\ \E b \in Budgets : \A j \in Incidents : spent'[j] <= b[j]

Set(f, p, v) == [f EXCEPT ![p] = v]

-----------------------------------------------------------------------------
(* The hub's hardware and the requests to it.                                *)

AtZero == {p \in Ports : link[p] = "zero"}

(* The operators whose comment begins with "Bug" are no part of the model:   *)
(* each is the one that follows it with a plausible mistake.                 *)

(* Bug: ClearPortFeature disables nothing.                                   *)
StillEnabled(l) == l

(* A hub that is told to disable a port ends a reset of it as well.          *)
Disabled(l)  == IF l = "empty" THEN "empty" ELSE "connected"
Resetting(l) == IF l = "empty" THEN "empty" ELSE "resetting"

(* ClearPortFeature(kUSBHubPortEnableFeature): works, or fails and is noted. *)
DisablePort(p) ==
    \/ link' = [link EXCEPT ![p] = Disabled(@)] /\ UNCHANGED <<chg, spent>>
    \/ Spend("hub") /\ UNCHANGED hwVars

Plug(p) ==
    /\ link[p] = "empty"
    /\ Spend("plug")
    /\ link' = Set(link, p, "connected")
    /\ chg' = [chg EXCEPT ![p] = @ \cup {"connection"}]

Unplug(p) ==
    /\ link[p] # "empty"
    /\ Spend("unplug")
    /\ link' = Set(link, p, "empty")
    /\ chg' = [chg EXCEPT ![p] = @ \cup {"connection"}]

ResetDone(p) ==
    /\ link[p] = "resetting"
    /\ link' = Set(link, p, "zero")
    /\ chg' = [chg EXCEPT ![p] = @ \cup {"reset"}]
    /\ UNCHANGED spent

(* SetPortPower off and on: a device that is there is a new connection.      *)
PowerCycle(p) ==
    /\ link' = [link EXCEPT ![p] = IF @ = "empty" THEN @ ELSE "connected"]
    /\ chg' = Set(chg, p, IF link[p] = "empty" THEN {} ELSE {"connection"})

(* The power is off and the request to put it on again fails: no device is   *)
(* seen any more.                                                            *)
PowerOff(p) == link' = Set(link, p, "empty") /\ chg' = Set(chg, p, {})

Hardware(p) ==
    /\ Plug(p) \/ Unplug(p) \/ ResetDone(p)
    /\ UNCHANGED <<lockVars, state, devZero, resetVector, portDevice, retryVars,
                   retryPortStatus, delayOnStatus, portStatus, addVars, scCall,
                   scPc, scNext, wdVars>>

-----------------------------------------------------------------------------
(* The AddDevice thread.                                                     *)

(* LaunchAddDeviceThread: a launch while the thread is active does nothing,  *)
(* and says kIOReturnSuccess.                                                *)
LaunchAddDeviceThread(p, issueRemoveDevice) ==
    IF addPc[p] # "idle"
    THEN UNCHANGED addVars
    ELSE /\ addPc' = Set(addPc, p, "start")
         /\ addArg' = Set(addArg, p, issueRemoveDevice)

(* Bug: only the vectors are put back.                                       *)
RemoveDeviceKeeps(p) ==
    /\ resetVector' = Set(resetVector, p, "default")
    /\ UNCHANGED portDevice

(* RemoveDevice forgets the device and puts the default vectors back.        *)
RemoveDevice(p) ==
    /\ portDevice' = Set(portDevice, p, FALSE)
    /\ resetVector' = Set(resetVector, p, "default")

(* The reset is seen to be active, or already dealt with.                    *)
ResetActive(p) ==
    link[p] = "resetting" \/ "reset" \in chg[p] \/ state[p] = "setAddress"

(* The AddDevice thread, which polls each 10 milliseconds, has seen enough.  *)
PollOver(p) == \/ addPc[p] \in {"poll", "exit"}
               \/ /\ addPc[p] \in {"repoll", "lastpoll"}
                  /\ ~devZero[p] \/ ResetActive(p) \/ link[p] = "empty"

(* The status change thread sleeps 10 to 300 milliseconds before it launches *)
(* the thread (1862, 2120, 2173, 2997, 3019, 3764).  One that has only to    *)
(* leave is gone by then, unless it is slow.                                 *)
Relaunches(p, issueRemoveDevice) ==
    /\ LaunchAddDeviceThread(p, issueRemoveDevice)
    /\ IF PollOver(p) THEN Spend("slow") ELSE UNCHANGED spent

RemoveIfThere(p) == IF portDevice[p] THEN RemoveDevice(p)
                                     ELSE UNCHANGED <<portDevice, resetVector>>

(* FatalError notes that a request to the hub failed and removes the device. *)
FatalError(p) == RemoveIfThere(p)

GoAdd(p, pc) == addPc' = Set(addPc, p, pc)

(* Bug: _devZero is set and nobody asks the controller for the lock.         *)
AddStartUnlocked(p) ==
    /\ addPc[p] = "start"
    /\ IF link[p] = "empty" THEN GoAdd(p, "exit") ELSE GoAdd(p, "arm")
    /\ devZero' = Set(devZero, p, link[p] # "empty")
    /\ UNCHANGED <<hwVars, spent, lockVars, state, timeoutFlag, portDevice, resetVector>>

(* AddDevice looks at the port and asks for the lock if it has not got it.    *)
AddStart(p) ==
    /\ addPc[p] = "start"
    /\ IF addArg[p] THEN RemoveDevice(p) ELSE UNCHANGED <<portDevice, resetVector>>
    /\ \/ link[p] = "empty" /\ GoAdd(p, "exit") /\ UNCHANGED <<lockVars, spent>>
       \/ Spend("hub") /\ GoAdd(p, "exit") /\ UNCHANGED lockVars
       \/ /\ link[p] # "empty" /\ ~devZero[p]
          /\ Lock!EnterGate(p)
          /\ GoAdd(p, "acquire") /\ UNCHANGED spent
       \/ /\ link[p] # "empty" /\ devZero[p]
          /\ GoAdd(p, "arm") /\ UNCHANGED <<lockVars, spent>>
    /\ UNCHANGED <<hwVars, state, devZero, timeoutFlag>>

AddAcquire(p) ==
    /\ addPc[p] = "acquire"
    /\ \/ Lock!TakeLock(p) /\ GoAdd(p, "have")
       \/ Lock!SleepExpires(p) /\ GoAdd(p, "have")
       \/ Lock!SleepInGate(p) /\ UNCHANGED addPc
    /\ UNCHANGED <<hwVars, spent, state, devZero, timeoutFlag, resetVector,
                   portDevice>>

(* _devZero = AcquireDeviceZero(): the flag is set some time after the lock, *)
(* and a new _devZeroCounter makes the watchdog start over.                  *)
AddHave(p) ==
    /\ addPc[p] = "have"
    /\ devZero' = Set(devZero, p, TRUE)
    /\ timeoutFlag' = Set(timeoutFlag, p, FALSE)
    /\ \/ link[p] = "empty" /\ GoAdd(p, "err") /\ UNCHANGED spent
       \/ link[p] # "empty" /\ GoAdd(p, "arm") /\ UNCHANGED spent
       \/ Spend("hub") /\ GoAdd(p, "err")
    /\ UNCHANGED <<hwVars, lockVars, state, resetVector, portDevice>>

(* Bug: the reset is asked for with the default vector still there.          *)
AddArmForgets(p) ==
    /\ addPc[p] = "arm"
    /\ GoAdd(p, "reset")
    /\ UNCHANGED <<hwVars, spent, lockVars, state, devZero, timeoutFlag,
                   resetVector, portDevice>>

(* The vector that will find the device at address zero, before the reset.   *)
AddArm(p) ==
    /\ addPc[p] = "arm"
    /\ resetVector' = Set(resetVector, p, "add")
    /\ GoAdd(p, "reset")
    /\ UNCHANGED <<hwVars, spent, lockVars, state, devZero, timeoutFlag,
                   portDevice>>

AddReset(p) ==
    /\ addPc[p] = "reset"
    /\ \/ /\ link' = [link EXCEPT ![p] = Resetting(@)]
          /\ GoAdd(p, "poll")
          /\ UNCHANGED <<chg, spent, portDevice, resetVector>>
       \/ /\ Spend("hub")
          /\ RemoveIfThere(p)
          /\ GoAdd(p, "err")
          /\ UNCHANGED hwVars
    /\ UNCHANGED <<lockVars, state, devZero, timeoutFlag>>

(* The first look, one millisecond after the reset was asked for.            *)
AddPoll(p) ==
    /\ addPc[p] = "poll"
    /\ \/ link[p] = "empty" /\ GoAdd(p, "err") /\ UNCHANGED spent
       \/ link[p] # "empty" /\ ResetActive(p) /\ GoAdd(p, "exit") /\ UNCHANGED spent
       \/ link[p] # "empty" /\ ~ResetActive(p) /\ GoAdd(p, "repoll") /\ UNCHANGED spent
       \/ Spend("hub") /\ GoAdd(p, "err")
    /\ UNCHANGED <<hwVars, lockVars, state, devZero, timeoutFlag, resetVector,
                   portDevice>>

(* Every 10 milliseconds: a lost _devZero counts as a reset that was dealt   *)
(* with.  After half a second the reset is asked for again, and the fifth    *)
(* time (here the second) nobody waits for that one: it is an error, as is a *)
(* request that fails.  Half a second is enough for a status change thread   *)
(* that has something to do, unless it is slow.                              *)
StatusIdle(p)  == ~scCall[p] /\ scPc[p] = "idle"
StatusQuiet(p) == StatusIdle(p) /\ chg[p] = {} /\ link[p] # "resetting"

(* Bug: the loop looks neither at _devZero nor at the port again.            *)
AddRepollBlind(p) ==
    /\ addPc[p] \in {"repoll", "lastpoll"}
    /\ IF ResetActive(p) THEN GoAdd(p, "exit") /\ UNCHANGED link
       ELSE GoAdd(p, "lastpoll") /\ link' = [link EXCEPT ![p] = Resetting(@)]
    /\ UNCHANGED <<chg, spent, lockVars, state, devZero, timeoutFlag, resetVector,
                   portDevice>>

AddRepoll(p) ==
    /\ addPc[p] \in {"repoll", "lastpoll"}
    /\ \/ /\ ~devZero[p] \/ ResetActive(p)
          /\ GoAdd(p, "exit") /\ UNCHANGED <<link, spent>>
       \/ /\ devZero[p] /\ ~ResetActive(p) /\ link[p] = "empty"
          /\ GoAdd(p, "err") /\ UNCHANGED <<link, spent>>
       \/ /\ devZero[p] /\ ~ResetActive(p) /\ link[p] # "empty"
          /\ IF StatusQuiet(p) THEN UNCHANGED spent ELSE Spend("slow")
          /\ link' = [link EXCEPT ![p] = Resetting(@)]
          /\ GoAdd(p, IF addPc[p] = "repoll" THEN "lastpoll" ELSE "err")
       \/ Spend("hub") /\ GoAdd(p, "err") /\ UNCHANGED link
    /\ UNCHANGED <<chg, lockVars, state, devZero, timeoutFlag, resetVector,
                   portDevice>>

(* if (err && _devZero): disable the port, release, clear the flag.          *)
AddErr(p) ==
    /\ addPc[p] = "err"
    /\ \/ /\ ~devZero[p]
          /\ GoAdd(p, "exit") /\ UNCHANGED <<link, spent, portDevice, resetVector>>
       \/ /\ devZero[p]
          /\ link' = [link EXCEPT ![p] = Disabled(@)]
          /\ GoAdd(p, "release") /\ UNCHANGED <<spent, portDevice, resetVector>>
       \/ /\ devZero[p] /\ Spend("hub") /\ FatalError(p)
          /\ GoAdd(p, "release") /\ UNCHANGED link
    /\ UNCHANGED <<chg, lockVars, state, devZero, timeoutFlag>>

AddRelease(p) ==
    /\ addPc[p] = "release"
    /\ Lock!ReleaseLock
    /\ GoAdd(p, "clear")
    /\ UNCHANGED <<hwVars, spent, state, devZero, timeoutFlag, resetVector,
                   portDevice>>

AddClear(p) ==
    /\ addPc[p] = "clear"
    /\ devZero' = Set(devZero, p, FALSE)
    /\ resetVector' = Set(resetVector, p, "default")
    /\ GoAdd(p, "exit")
    /\ UNCHANGED <<hwVars, spent, lockVars, state, timeoutFlag, portDevice>>

(* AddDeviceEntry after AddDevice.                                           *)
AddExit(p) ==
    /\ addPc[p] = "exit"
    /\ GoAdd(p, "idle")
    /\ UNCHANGED <<hwVars, spent, lockVars, state, devZero, timeoutFlag,
                   resetVector, portDevice>>

AddStep(p) ==
    \/ AddStart(p) \/ AddAcquire(p) \/ AddHave(p) \/ AddArm(p) \/ AddReset(p)
    \/ AddPoll(p) \/ AddRepoll(p) \/ AddErr(p) \/ AddRelease(p) \/ AddClear(p)
    \/ AddExit(p)

AddDevice(p) ==
    /\ AddStep(p)
    /\ delayOnStatus' = IF addPc[p] = "arm" THEN Set(delayOnStatus, p, TRUE)
                                            ELSE delayOnStatus
    /\ addArg' = IF addPc'[p] = "idle" THEN Set(addArg, p, FALSE) ELSE addArg
    /\ UNCHANGED <<retryVars, retryPortStatus, portStatus, scCall, scPc, scNext,
                   wdPc>>

-----------------------------------------------------------------------------
(* The hub's interrupt read and the status change thread.                    *)

(* ProcessStatusChanged: every port with a change gets its thread call.  The *)
(* read is armed again when the threads of the last report are done, and     *)
(* sometimes earlier (a port is still in PortInit).  A call that is pending  *)
(* already is not entered twice.                                             *)
ProcessStatusChanged ==
    /\ \E p \in Ports : chg[p] # {} /\ ~scCall[p]
    /\ \/ (\A p \in Ports : StatusIdle(p)) /\ UNCHANGED spent
       \/ (\E p \in Ports : ~StatusIdle(p)) /\ Spend("early")
    /\ scCall' = [p \in Ports |-> scCall[p] \/ chg[p] # {}]
    /\ UNCHANGED <<hwVars, lockVars, state, devZero, resetVector, portDevice,
                   retryVars, retryPortStatus, delayOnStatus, portStatus,
                   addVars, scPc, scNext, wdVars>>

(* The call runs: it finds _runLock taken and leaves a note, or it starts.   *)
StatusCall(p) ==
    /\ scCall[p]
    /\ scCall' = Set(scCall, p, FALSE)
    /\ IF scPc[p] # "idle"
       THEN retryPortStatus' = Set(retryPortStatus, p, TRUE) /\ UNCHANGED scPc
       ELSE scPc' = Set(scPc, p, "start") /\ UNCHANGED retryPortStatus
    /\ UNCHANGED <<hwVars, spent, lockVars, state, devZero, resetVector,
                   portDevice, retryVars, delayOnStatus, portStatus, addVars,
                   scNext, wdVars>>

At(p, pc) == scPc[p] = pc
Go(p, pc) == scPc' = Set(scPc, p, pc) /\ UNCHANGED scNext

(* ReleaseDeviceZero, then _devZero = false, then on at pc.                  *)
ReleaseThen(p, pc) == /\ scPc' = Set(scPc, p, "unlock")
                      /\ scNext' = Set(scNext, p, pc)

(* A reset takes less than the 100 milliseconds of _delayOnStatusChange,     *)
(* unless the AddDevice thread is slow to ask for it or the hub to do it.    *)
Start(p) ==
    /\ At(p, "start")
    /\ Go(p, IF delayOnStatus[p] THEN "delay" ELSE "fetch")
    /\ UNCHANGED <<spent, delayOnStatus>>

Delay(p) ==
    /\ At(p, "delay")
    /\ IF addPc[p] = "reset" \/ link[p] = "resetting" THEN Spend("slow")
                                                     ELSE UNCHANGED spent
    /\ delayOnStatus' = Set(delayOnStatus, p, FALSE)
    /\ Go(p, "fetch")

StartOrDelay(p) ==
    /\ Start(p) \/ Delay(p)
    /\ UNCHANGED <<hwVars, lockVars, state, devZero, resetVector, portDevice,
                   retryVars, retryPortStatus, portStatus, addVars>>

GetPortStatus(p, bits) ==
    portStatus' = Set(portStatus, p, [link |-> link[p], chg |-> bits])

Fetch(p) ==
    /\ At(p, "fetch")
    /\ \/ /\ GetPortStatus(p, chg[p])
          /\ Go(p, "fetched") /\ UNCHANGED <<spent, portDevice, resetVector>>
       \/ /\ Spend("hub") /\ FatalError(p)
          /\ Go(p, "failed") /\ UNCHANGED portStatus
    /\ UNCHANGED <<hwVars, lockVars, state, devZero, retryVars, retryPortStatus,
                   addVars>>

(* A note that somebody left since the status was read is lost.              *)
Fetched(p) ==
    /\ At(p, "fetched")
    /\ retryPortStatus' = Set(retryPortStatus, p, FALSE)
    /\ Go(p, "pick")
    /\ UNCHANGED <<hwVars, spent, lockVars, state, devZero, resetVector,
                   portDevice, retryVars, portStatus, addVars>>

(* Bug: the change that is cleared is not the one that was reported.         *)
PickedWrong(p) == "connection"

Picked(p) == IF "reset" \in portStatus[p].chg THEN "reset" ELSE "connection"

(* The reset comes before the connection in the table of handlers; the one   *)
(* that is picked is cleared in the hub and the status is read again.        *)
Pick(p) ==
    /\ At(p, "pick")
    /\ \/ /\ portStatus[p].chg = {}
          /\ Go(p, "end")
          /\ UNCHANGED <<chg, portStatus, spent, portDevice, resetVector>>
       \/ /\ portStatus[p].chg # {}
          /\ chg' = [chg EXCEPT ![p] = @ \ {Picked(p)}]
          /\ GetPortStatus(p, chg'[p])
          /\ Go(p, Picked(p)) /\ UNCHANGED <<spent, portDevice, resetVector>>
       \/ /\ portStatus[p].chg # {} /\ Spend("hub") /\ FatalError(p)
          /\ chg' \in {chg, [chg EXCEPT ![p] = @ \ {Picked(p)}]}
          /\ Go(p, "failed") /\ UNCHANGED portStatus
    /\ UNCHANGED <<link, lockVars, state, devZero, retryVars, retryPortStatus,
                   addVars>>

(* A handler returned kIOReturnSuccess: the status it was called with is     *)
(* used again unless somebody set _retryPortStatus.                          *)
Again(p) ==
    /\ At(p, "again")
    /\ Go(p, IF retryPortStatus[p] THEN "fetch" ELSE "pick")
    /\ UNCHANGED <<hwVars, spent, lockVars, state, devZero, resetVector,
                   portDevice, retryVars, retryPortStatus, portStatus, addVars>>

(* An error ends the run; a lock that is still held is released, and the     *)
(* port is left as it is.                                                    *)
Failed(p) ==
    /\ At(p, "failed")
    /\ IF devZero[p] THEN ReleaseThen(p, "end") ELSE Go(p, "end")
    /\ UNCHANGED <<hwVars, spent, lockVars, state, devZero, resetVector,
                   portDevice, retryVars, retryPortStatus, portStatus, addVars>>

(* _portStatus is read again before it is used, so it is forgotten here.     *)
End(p) ==
    /\ At(p, "end")
    /\ debounceCount' = Set(debounceCount, p, 0)
    /\ portStatus' = Set(portStatus, p, [link |-> "empty", chg |-> {}])
    /\ Go(p, "idle")
    /\ UNCHANGED <<hwVars, spent, lockVars, state, devZero, resetVector,
                   portDevice, attachRetry, attachRetryFailed, retryPortStatus,
                   addVars>>

Unlock(p) ==
    /\ At(p, "unlock")
    /\ Lock!ReleaseLock
    /\ Go(p, "clear")
    /\ UNCHANGED <<hwVars, spent, state, devZero, resetVector, portDevice,
                   retryVars, retryPortStatus, portStatus, addVars>>

(* Bug: _devZero stays set after the release.                                *)
ClearForgets(p) ==
    /\ At(p, "clear")
    /\ scPc' = Set(scPc, p, scNext[p]) /\ scNext' = Set(scNext, p, "idle")
    /\ UNCHANGED <<hwVars, spent, lockVars, state, devZero, resetVector,
                   portDevice, retryVars, retryPortStatus, portStatus, addVars>>

Clear(p) ==
    /\ At(p, "clear")
    /\ devZero' = Set(devZero, p, FALSE)
    /\ scPc' = Set(scPc, p, scNext[p]) /\ scNext' = Set(scNext, p, "idle")
    /\ UNCHANGED <<hwVars, spent, lockVars, state, resetVector, portDevice,
                   retryVars, retryPortStatus, portStatus, addVars>>

(* The handler for kHubPortBeingReset: DefaultResetChangeHandler does        *)
(* nothing, AddDeviceResetChangeHandler enumerates.  A port in state dead    *)
(* skips the questions to the device.                                        *)
Reset(p) ==
    /\ At(p, "reset")
    /\ \/ /\ resetVector[p] = "default"
          /\ Go(p, "again") /\ UNCHANGED <<state, resetVector>>
       \/ /\ resetVector[p] = "add" /\ state[p] = "dead"
          /\ state' = Set(state, p, "setAddress")
          /\ Go(p, "address") /\ UNCHANGED resetVector
       \/ /\ resetVector[p] = "add" /\ state[p] # "dead"
          /\ \/ /\ portStatus[p].link = "empty" \/ "connection" \in portStatus[p].chg
                /\ state' = Set(state, p, "dead")
                /\ Go(p, "resetErr") /\ UNCHANGED resetVector
             \/ /\ portStatus[p].link = "resetting"
                /\ "connection" \notin portStatus[p].chg
                /\ resetVector' = Set(resetVector, p, "default")
                /\ Go(p, "again") /\ UNCHANGED state
             \/ /\ portStatus[p].link \notin {"empty", "resetting"}
                /\ "connection" \notin portStatus[p].chg
                /\ Go(p, "configure") /\ UNCHANGED <<state, resetVector>>
    /\ UNCHANGED <<hwVars, spent, lockVars, devZero, portDevice, retryVars,
                   retryPortStatus, portStatus, addVars>>

(* DoConfigureDeviceZero.                                                    *)
Configure(p) ==
    /\ At(p, "configure")
    /\ \/ Lock!OpenPipeZero /\ Go(p, "describe") /\ UNCHANGED <<state, spent>>
       \/ /\ Spend("pipe")
          /\ state' = Set(state, p, "dead")
          /\ Go(p, "configureErr") /\ UNCHANGED lockVars
    /\ UNCHANGED <<hwVars, devZero, resetVector, portDevice, retryVars,
                   retryPortStatus, portStatus, addVars>>

(* A request to address 0 is answered by whatever device is there.           *)
Answered == endpointZero /\ AtZero # {}

(* GetDevZeroDescriptorWithRetries.                                          *)
Describe(p) ==
    /\ At(p, "describe")
    /\ \/ /\ Answered
          /\ state' = Set(state, p, "setAddress")
          /\ Go(p, "address") /\ UNCHANGED spent
       \/ /\ IF Answered THEN Spend("device") ELSE UNCHANGED spent
          /\ state' = Set(state, p, "dead")
          /\ Go(p, "describeErr")
    /\ UNCHANGED <<hwVars, lockVars, devZero, resetVector, portDevice, retryVars,
                   retryPortStatus, portStatus, addVars>>

(* MakeDevice or MakeHubDevice: a new address, SetDeviceZeroAddress, then    *)
(* the lock is released and the state is normal.                             *)
Address(p) ==
    /\ At(p, "address")
    /\ \/ /\ Answered
          /\ link' = [q \in Ports |-> IF q \in AtZero THEN "address" ELSE link[q]]
          /\ ReleaseThen(p, "create") /\ UNCHANGED <<spent, portDevice>>
       \/ /\ IF Answered THEN Spend("device") ELSE UNCHANGED spent
          /\ Go(p, "addressErr") /\ UNCHANGED <<link, portDevice>>
       \/ /\ Answered /\ Spend("tier")
          /\ portDevice' = Set(portDevice, p, FALSE)
          /\ ReleaseThen(p, "resetErr") /\ UNCHANGED link
    /\ UNCHANGED <<chg, lockVars, state, devZero, resetVector, retryVars,
                   retryPortStatus, portStatus, addVars>>

(* The three failures disable the port and release.  The first one and a     *)
(* failing ClearPortFeature forget _portDevice and return its err, the other *)
(* two go on to DetachDevice.                                                *)
EnumerationErr(p) ==
    /\ scPc[p] \in {"configureErr", "describeErr", "addressErr"}
    /\ \/ /\ link' = [link EXCEPT ![p] = Disabled(@)]
          /\ IF At(p, "configureErr")
             THEN /\ portDevice' = Set(portDevice, p, FALSE)
                  /\ ReleaseThen(p, "again") /\ UNCHANGED state
             ELSE /\ state' = Set(state, p, "setAddressFailed")
                  /\ ReleaseThen(p, "detach") /\ UNCHANGED portDevice
          /\ UNCHANGED <<spent, resetVector>>
       \/ /\ Spend("hub") /\ FatalError(p)
          /\ state' = IF At(p, "addressErr") THEN Set(state, p, "setAddressFailed")
                                            ELSE state
          /\ ReleaseThen(p, "failed") /\ UNCHANGED link
    /\ UNCHANGED <<chg, lockVars, devZero, retryVars, retryPortStatus, portStatus,
                   addVars>>

(* DoCreateDevice.                                                           *)
Create(p) ==
    /\ At(p, "create")
    /\ state' = Set(state, p, "normal")
    /\ resetVector' = Set(resetVector, p, "default")
    /\ \/ /\ portDevice' = Set(portDevice, p, TRUE)
          /\ attachRetry' = Set(attachRetry, p, 0)
          /\ attachRetryFailed' = Set(attachRetryFailed, p, FALSE)
          /\ Go(p, "again") /\ UNCHANGED <<spent, retryPortStatus>>
       \/ /\ Spend("device")
          /\ retryPortStatus' = Set(retryPortStatus, p, TRUE)
          /\ Go(p, "createErr")
          /\ UNCHANGED <<portDevice, attachRetry, attachRetryFailed>>
    /\ UNCHANGED <<hwVars, lockVars, devZero, debounceCount, portStatus, addVars>>

(* The device is gone before it was made: disable, release a lock that is    *)
(* held again, and start over.                                               *)
CreateErr(p) ==
    /\ At(p, "createErr")
    /\ DisablePort(p)
    /\ IF devZero[p] THEN ReleaseThen(p, "relaunch") ELSE Go(p, "relaunch")
    /\ UNCHANGED <<lockVars, state, devZero, resetVector, portDevice, retryVars,
                   retryPortStatus, portStatus, addVars>>

Relaunch(p) ==
    /\ At(p, "relaunch")
    /\ Relaunches(p, FALSE)
    /\ Go(p, "again")
    /\ UNCHANGED <<hwVars, lockVars, state, devZero, resetVector,
                   portDevice, retryVars, retryPortStatus, portStatus>>

(* The end of the handler after an error.                                    *)
ResetErr(p) ==
    /\ At(p, "resetErr")
    /\ \/ /\ ~devZero[p]
          /\ Go(p, "resetErrEnd") /\ UNCHANGED <<hwVars, spent>>
       \/ /\ devZero[p]
          /\ DisablePort(p)
          /\ ReleaseThen(p, "resetErrEnd")
    /\ UNCHANGED <<lockVars, state, devZero, resetVector, portDevice, retryVars,
                   retryPortStatus, portStatus, addVars>>

ResetErrEnd(p) ==
    /\ At(p, "resetErrEnd")
    /\ resetVector' = Set(resetVector, p, "default")
    /\ Go(p, "failed")
    /\ UNCHANGED <<hwVars, spent, lockVars, state, devZero, portDevice, retryVars,
                   retryPortStatus, portStatus, addVars>>

(* Bug: the retries are counted and nobody looks at the number.              *)
DetachRetries(p) ==
    /\ At(p, "detach")
    /\ attachRetry' = [attachRetry EXCEPT ![p] = @ + 1]
    /\ Go(p, IF link[p] = "empty" THEN "failed" ELSE "detach2")
    /\ UNCHANGED <<hwVars, spent, lockVars, state, devZero, resetVector, portDevice,
                   attachRetryFailed, debounceCount, retryPortStatus, portStatus,
                   addVars>>

(* DetachDevice: give up after MaxAttach retries, power cycle the port every *)
(* PowerCycleEvery retries, else disable it and start over.                  *)
Detach(p) ==
    /\ At(p, "detach")
    /\ \/ /\ attachRetryFailed[p] \/ attachRetry[p] = MaxAttach
          /\ attachRetryFailed' = Set(attachRetryFailed, p, TRUE)
          /\ state' = Set(state, p, "dead")
          /\ Go(p, "failed")
          /\ UNCHANGED <<hwVars, spent, attachRetry, portDevice, resetVector>>
       \/ /\ ~attachRetryFailed[p] /\ attachRetry[p] # MaxAttach
          /\ attachRetry' = [attachRetry EXCEPT ![p] = @ + 1]
          /\ UNCHANGED attachRetryFailed
          /\ \/ /\ attachRetry'[p] % PowerCycleEvery = 0
                /\ PowerCycle(p)
                /\ state' = Set(state, p, "dead")
                /\ Go(p, "failed") /\ UNCHANGED <<spent, portDevice, resetVector>>
             \/ /\ attachRetry'[p] % PowerCycleEvery # 0 /\ link[p] = "empty"
                /\ state' = Set(state, p, "dead")
                /\ Go(p, "failed")
                /\ UNCHANGED <<hwVars, spent, portDevice, resetVector>>
             \/ /\ attachRetry'[p] % PowerCycleEvery # 0 /\ link[p] # "empty"
                /\ Go(p, "detach2")
                /\ UNCHANGED <<hwVars, spent, state, portDevice, resetVector>>
             \/ /\ Spend("hub") /\ FatalError(p)
                /\ \/ UNCHANGED hwVars
                   \/ attachRetry'[p] % PowerCycleEvery = 0 /\ PowerOff(p)
                /\ Go(p, "failed") /\ UNCHANGED state
    /\ UNCHANGED <<lockVars, devZero, debounceCount, retryPortStatus, portStatus,
                   addVars>>

(* A device that is gone after the 300 milliseconds gets no retry.  Nobody   *)
(* looks at the results of the requests that disable the port and clear its  *)
(* connection change.                                                        *)
Detach2(p) ==
    /\ At(p, "detach2")
    /\ \/ /\ link[p] = "empty"
          /\ Go(p, "again")
          /\ UNCHANGED <<hwVars, spent, portDevice, resetVector, retryPortStatus,
                         addVars>>
       \/ /\ link[p] # "empty"
          /\ \/ /\ link' = [link EXCEPT ![p] = Disabled(@)]
                /\ chg' = [chg EXCEPT ![p] = @ \ {"connection"}]
                /\ Relaunches(p, TRUE)
             \/ /\ Spend("hub") /\ UNCHANGED hwVars
                /\ LaunchAddDeviceThread(p, TRUE)
          /\ retryPortStatus' = Set(retryPortStatus, p, TRUE)
          /\ resetVector' = Set(resetVector, p, "default")
          /\ Go(p, "again") /\ UNCHANGED portDevice
       \/ /\ Spend("hub") /\ FatalError(p)
          /\ Go(p, "failed") /\ UNCHANGED <<hwVars, retryPortStatus, addVars>>
    /\ UNCHANGED <<lockVars, state, devZero, retryVars, portStatus>>

(* DefaultConnectionChangeHandler.  It releases a lock that is held without  *)
(* a word to the hub, forgets the device, and looks at the port again.       *)
Connection(p) ==
    /\ At(p, "connection")
    /\ IF portStatus[p].link = "empty"
       THEN /\ attachRetry' = Set(attachRetry, p, 0)
            /\ attachRetryFailed' = Set(attachRetryFailed, p, FALSE)
       ELSE UNCHANGED <<attachRetry, attachRetryFailed>>
    /\ IF devZero[p] THEN ReleaseThen(p, "remove") ELSE Go(p, "remove")
    /\ UNCHANGED <<hwVars, spent, lockVars, state, devZero, resetVector,
                   portDevice, debounceCount, retryPortStatus, portStatus, addVars>>

Remove(p) ==
    /\ At(p, "remove")
    /\ RemoveIfThere(p)
    /\ Go(p, "recheck")
    /\ UNCHANGED <<hwVars, spent, lockVars, state, devZero, retryVars,
                   retryPortStatus, portStatus, addVars>>

Recheck(p) ==
    /\ At(p, "recheck")
    /\ \/ /\ Spend("hub") /\ FatalError(p)
          /\ retryPortStatus' = Set(retryPortStatus, p, TRUE)
          /\ Go(p, "failed") /\ UNCHANGED <<state, debounceCount, addVars>>
       \/ /\ "connection" \in chg[p]
          /\ debounceCount' = [debounceCount EXCEPT ![p] = @ + 1]
          /\ IF debounceCount[p] < MaxDebounce
             THEN /\ retryPortStatus' = Set(retryPortStatus, p, TRUE)
                  /\ Go(p, "again")
             ELSE Go(p, "failed") /\ UNCHANGED retryPortStatus
          /\ UNCHANGED <<spent, state, portDevice, resetVector, addVars>>
       \/ /\ "connection" \notin chg[p] /\ link[p] = "empty"
          /\ Go(p, "again")
          /\ UNCHANGED <<spent, state, portDevice, resetVector, debounceCount,
                         retryPortStatus, addVars>>
       \/ /\ "connection" \notin chg[p] /\ link[p] # "empty"
          /\ state' = Set(state, p, "deviceZero")
          /\ Relaunches(p, FALSE)
          /\ Go(p, "again")
          /\ UNCHANGED <<portDevice, resetVector, debounceCount, retryPortStatus>>
    /\ UNCHANGED <<hwVars, lockVars, devZero, attachRetry, attachRetryFailed,
                   portStatus>>

StatusStep(p) ==
    \/ Fetch(p) \/ Fetched(p) \/ Pick(p) \/ Again(p) \/ Failed(p) \/ End(p)
    \/ Unlock(p) \/ Clear(p)
    \/ Reset(p) \/ Configure(p) \/ Describe(p) \/ Address(p) \/ EnumerationErr(p)
    \/ Create(p) \/ CreateErr(p) \/ Relaunch(p) \/ ResetErr(p) \/ ResetErrEnd(p)
    \/ Detach(p) \/ Detach2(p) \/ Connection(p) \/ Remove(p) \/ Recheck(p)

PortStatusChangedHandler(p) ==
    /\ StartOrDelay(p) \/ (StatusStep(p) /\ UNCHANGED delayOnStatus)
    /\ UNCHANGED <<scCall, wdVars>>

-----------------------------------------------------------------------------
(* The hub's watchdog.  It looks at every port each 30 seconds.              *)

wdUnchanged == <<chg, resetVector, portDevice, retryVars, retryPortStatus,
                 delayOnStatus, portStatus, addVars, scCall, scPc, scNext>>

(* TimeoutOccurred: a lock seen for the first time is noted; one that was    *)
(* there 30 seconds ago makes ResetPortZero run.  Threads of the port that   *)
(* are not done by then are slow.                                            *)
WatchdogNotes(p) ==
    /\ devZero[p] /\ ~timeoutFlag[p]
    /\ timeoutFlag' = Set(timeoutFlag, p, TRUE)
    /\ UNCHANGED <<link, spent, lockVars, state, devZero, wdPc, wdUnchanged>>

Quiet(p) == addPc[p] = "idle" /\ StatusQuiet(p)

WatchdogFires(p) ==
    /\ devZero[p] /\ timeoutFlag[p] /\ wdPc[p] = "idle"
    /\ IF Quiet(p) THEN UNCHANGED spent ELSE Spend("slow")
    /\ wdPc' = Set(wdPc, p, "fire")
    /\ UNCHANGED <<link, lockVars, state, devZero, timeoutFlag, wdUnchanged>>

(* ResetPortZero and the first half of ReleaseDevZeroLock.                   *)
ResetPortZero(p) ==
    /\ wdPc[p] = "fire"
    /\ \/ /\ ~devZero[p] \/ ~timeoutFlag[p]
          /\ wdPc' = Set(wdPc, p, "idle")
          /\ UNCHANGED <<hwVars, spent, state, timeoutFlag>>
       \/ /\ devZero[p] /\ timeoutFlag[p]
          /\ timeoutFlag' = Set(timeoutFlag, p, FALSE)
          /\ DisablePort(p)
          /\ state' = Set(state, p, "normal")
          /\ wdPc' = Set(wdPc, p, "release")
    /\ UNCHANGED <<lockVars, devZero, wdUnchanged>>

(* Bug: _devZero is cleared and the controller keeps the lock.               *)
ReleaseForgets(p) ==
    /\ wdPc[p] = "release"
    /\ wdPc' = Set(wdPc, p, "clear")
    /\ UNCHANGED <<link, spent, lockVars, state, devZero, timeoutFlag, wdUnchanged>>

ReleaseDevZeroLock(p) ==
    /\ wdPc[p] = "release"
    /\ Lock!ReleaseLock
    /\ wdPc' = Set(wdPc, p, "clear")
    /\ UNCHANGED <<link, spent, state, devZero, timeoutFlag, wdUnchanged>>

ClearDevZero(p) ==
    /\ wdPc[p] = "clear"
    /\ devZero' = Set(devZero, p, FALSE)
    /\ wdPc' = Set(wdPc, p, "idle")
    /\ UNCHANGED <<link, spent, lockVars, state, timeoutFlag, wdUnchanged>>

Watchdog(p) == \/ WatchdogNotes(p) \/ WatchdogFires(p) \/ ResetPortZero(p)
               \/ ReleaseDevZeroLock(p) \/ ClearDevZero(p)

-----------------------------------------------------------------------------
Step(p) == \/ Hardware(p) \/ AddDevice(p) \/ StatusCall(p)
           \/ PortStatusChangedHandler(p) \/ Watchdog(p)

Next == ProcessStatusChanged \/ \E p \in Ports : Step(p)

Spec == Init /\ [][Next]_vars

(* A reset ends and is reported, a thread that can run does, and the         *)
(* watchdog keeps ticking.  Nobody has to plug in a device or to fail.       *)
Fairness ==
    /\ WF_vars(ProcessStatusChanged)
    /\ \A p \in Ports : /\ WF_vars(Hardware(p) /\ ResetDone(p))
                       /\ WF_vars(AddDevice(p))
                       /\ WF_vars(StatusCall(p))
                       /\ WF_vars(PortStatusChangedHandler(p))
                       /\ WF_vars(Watchdog(p))

FairSpec == Spec /\ Fairness
-----------------------------------------------------------------------------
(* "Get the device zero lock - call this before resetting a device, to       *)
(* ensure there's only one device with address 0" (IOUSBController.h:858).   *)
OneAtZero == Cardinality(AtZero) <= 1

(* A port is reset, and has a device at address zero, only while its         *)
(* _devZero is set: every path that gives the lock back has disabled the     *)
(* port or given the device an address before.                               *)
ZeroIsCovered ==
    \A p \in Ports : link[p] \in {"resetting", "zero"} => devZero[p]

Clearing(p) == addPc[p] = "clear" \/ scPc[p] = "clear" \/ wdPc[p] = "clear"

(* _devZero and the controller's lock agree although three threads write     *)
(* them without a lock: a port that says it has the lock has it, and the     *)
(* lock is never taken with no port left that will release it.               *)
LockAgrees ==
    /\ \A p \in Ports : devZero[p] /\ ~Clearing(p) => devZeroLock
    /\ devZeroLock => \E p \in Ports : devZero[p] \/ addPc[p] = "have"

(* No retry, watchdog or late thread resets or disables the port of a device *)
(* that has been enumerated (AddDevice looks at _devZero again for this,     *)
(* AppleUSBHubPort.cpp:836).                                                 *)
DeviceKept == \A p \in Ports : portDevice[p] => link[p] = "address"

(* A device that is plugged in is enumerated in the end, or the port says it *)
(* gives up.                                                                 *)
Settled(p) == link[p] = "empty" \/ portDevice[p] \/ attachRetryFailed[p]

Enumerated == \A p \in Ports : (link[p] # "empty") ~> Settled(p)

(* So it is when only the device fails, through attach retries and a power   *)
(* cycle, and changes are reported while one is handled: no retry is lost    *)
(* between the threads.  After an unplugging, a slow thread or a failing     *)
(* request to the hub one may be: see the README.                            *)
OnlyTheDevice == \A i \in Incidents \ {"plug", "device", "early"} : spent[i] = 0

Retried == \A p \in Ports : (link[p] # "empty" /\ OnlyTheDevice) ~>
                            (Settled(p) \/ ~OnlyTheDevice)

(* The status change thread ends: the handlers, which set _retryPortStatus   *)
(* and go round again, do not keep it busy for ever.                         *)
StatusEnds == \A p \in Ports : (scPc[p] # "idle") ~> (scPc[p] = "idle")

(* A device that was unplugged is forgotten, also when a request to the hub  *)
(* fails on the way or the change comes in the middle of an enumeration.     *)
Forgotten == \A p \in Ports : (link[p] = "empty" /\ portDevice[p]) ~>
                              (link[p] # "empty" \/ ~portDevice[p])

(* The device zero lock does not stay taken whatever goes wrong: the         *)
(* watchdog finds "a possible stuck dev zero lock" (AppleUSBHub.h:101).      *)
(* After an unplugging it may: see the README.                               *)
LockFreed == (devZeroLock /\ spent["unplug"] = 0) ~>
             (~devZeroLock \/ spent["unplug"] > 0)
=============================================================================
