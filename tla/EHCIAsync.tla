----------------------------- MODULE EHCIAsync -----------------------------
(***************************************************************************)
(* The asynchronous list of AppleUSBEHCI and the control and bulk requests *)
(* of IOUSBController on it.  A queue head is an endpoint; it is on the    *)
(* list the controller walks, on the list of idle ones that were trimmed,  *)
(* or on the list of disabled ones.  A transfer is the descriptors up to   *)
(* and with the one that has callbackOnTD; the code moves them together.   *)
(*                                                                         *)
(* Every UIM call holds the command gate from its start to its end, the    *)
(* sleeps for the doorbell included (IOSleep keeps the gate).  What makes  *)
(* it hard are the completions: EHCIUIMDoDoneQueueProcessing runs them     *)
(* from a list of its own, and each may call into the UIM again.  The      *)
(* hardware goes on all the time.                                          *)
(***************************************************************************)
EXTENDS Naturals, FiniteSets, SequencesExt, Lists

CONSTANTS
    Endpoints,      \* control and bulk endpoints
    Order,          \* how they are linked at first
    Addresses,      \* devices
    Address,        \* the device of an endpoint (_functionNumber)
    Control,        \* the endpoints 0
    Requests,       \* commands from the pool, each with one use at a time
    Target,         \* the endpoint of a request
    HasData,        \* control requests with a data stage
    Slots,          \* value at which _nextDoneQueue stops (19 in the code)
    MaxSubmits,     \* requests sent
    MaxEvents       \* other calls, trimmed endpoints and transfers that fail

ASSUME EHCIAssumption ==
    /\ Order \in Seq(Endpoints) /\ ToSet(Order) = Endpoints /\ IsInjective(Order)
    /\ Address \in [Endpoints -> Addresses]
    /\ Target \in [Requests -> Endpoints]
    /\ Control \subseteq Endpoints
    /\ \A r \in HasData : Target[r] \in Control
    /\ Slots \in Nat \ {0} /\ MaxSubmits \in Nat /\ MaxEvents \in Nat
    /\ {"client", "inactive"} \cap Endpoints = {}

VARIABLES
    lists,          \* _AsyncHead, _InactiveAsyncHead and _disabledQHList
    queue,          \* from _qTD to _TailTD: the transfers of an endpoint
    overlay,        \* of a queue head: its status bits, and the transfer of
                    \* its queue CurrqTDPtr points at (0: none of them)
    aborting,       \* _aborting
    schedule,       \* kEHCICMDAsyncEnable
    transactionsOut,\* _controlBulkTransactionsOut
    frames,         \* calls of EHCIUIMDoDoneQueueProcessing, innermost first
    slots,          \* _doneQueueParams that wait for the outermost call
    nextDoneQueue,  \* _nextDoneQueue
    sent, back,     \* the stages of a command that were sent, that are back
    status,         \* the status of the command
    timed,          \* whether the buffer command of a request has time-outs
    open,           \* endpoints that were created (history)
    failed,         \* some stage of the request failed (history)
    cleared,        \* a failure of it was cleared before it was seen (history)
    fifo,           \* requests of an endpoint in the order sent (history)
    relinked,       \* endpoints were enabled, nobody started it (history)
    submits, events \* bounds

gate == <<frames, slots, nextDoneQueue>>
command == <<sent, back, status, timed, failed, cleared, fifo>>
bounds == <<submits, events>>
vars == <<lists, queue, overlay, aborting, schedule, transactionsOut, gate,
          command, open, relinked, bounds>>

Init ==
    /\ lists = [active |-> Order, inactive |-> <<>>, disabled |-> <<>>]
    /\ queue = [e \in Endpoints |-> <<>>]
    /\ overlay = [e \in Endpoints |-> [status |-> "clear", current |-> 0]]
    /\ aborting = [e \in Endpoints |-> FALSE]
    /\ schedule = FALSE /\ transactionsOut = 0
    /\ frames = <<>> /\ slots = <<>> /\ nextDoneQueue = 0
    /\ sent = [r \in Requests |-> {}] /\ back = [r \in Requests |-> {}]
    /\ status = [r \in Requests |-> "success"]
    /\ timed = [r \in Requests |-> TRUE]
    /\ open = Endpoints
    /\ failed = [r \in Requests |-> FALSE]
    /\ cleared = [r \in Requests |-> FALSE]
    /\ fifo = [e \in Endpoints |-> <<>>]
    /\ relinked = FALSE
    /\ submits = 0 /\ events = 0

Event == events < MaxEvents /\ events' = events + 1
Out(r) == sent[r] # back[r]
Halted(e) == overlay[e].status = "halted"

----------------------------------------------------------------------------
(* The lists.                                                              *)

(* A new queue head goes right behind the first.                           *)
linkAsyncEndpoint(l, e) ==
    IF l = <<>> THEN <<e>> ELSE <<Head(l), e>> \o Tail(l)

unlinkAsyncEndpoint(l, e) == Only(l, Endpoints \ {e})

(* Bug: the endpoint stays on the inactive list as well.                   *)
FindStaysInactive(e) ==
    IF Contains(lists.active, e) \/ ~Contains(lists.inactive, e) THEN lists
    ELSE [lists EXCEPT !.active = linkAsyncEndpoint(@, e)]

(* The lists after the look-up: an inactive endpoint that is found becomes *)
(* active.  The list of disabled endpoints is not searched.                *)
FindControlBulkEndpoint(e) ==
    IF Contains(lists.active, e) \/ ~Contains(lists.inactive, e) THEN lists
    ELSE [lists EXCEPT !.active = linkAsyncEndpoint(@, e),
                       !.inactive = unlinkAsyncEndpoint(@, e)]

Found(e) == Contains(FindControlBulkEndpoint(e).active, e)

(* Taking the only endpoint off the list stops the schedule.               *)
Unlinked(l, e) ==
    /\ lists' = [l EXCEPT !.active = unlinkAsyncEndpoint(@, e)]
    /\ schedule' = (schedule /\ Len(l.active) > 1)

(* An endpoint that is not halted is taken off, halted and linked again,   *)
(* and the schedule is started.                                            *)
HaltAsyncEndpoint(l, e) ==
    IF Halted(e) THEN lists' = l /\ schedule' = schedule
    ELSE /\ lists' = [l EXCEPT !.active =
                         linkAsyncEndpoint(unlinkAsyncEndpoint(@, e), e)]
         /\ schedule' = TRUE

Watch == relinked' = (relinked /\ ~schedule')

----------------------------------------------------------------------------
(* The done queues.  A call from within a completion leaves its list in a  *)
(* slot for the outermost call, unless all slots are taken: then it runs   *)
(* the completions itself.                                                 *)

Done(ts, s) ==
    [i \in DOMAIN ts |-> [req |-> ts[i].req, status |->
        IF s # "hardware" THEN s
        ELSE IF ts[i].hw = "halted" THEN "stall" ELSE "success"]]

(* Bug: one slot more than there is.                                       *)
DeferredTooLate == nextDoneQueue \in 1 .. Slots

Deferred == nextDoneQueue \in 1 .. Slots - 1

(* Bug: without a slot the list is forgotten.                              *)
DoneQueueForgotten(fs, list, then) ==
    \/ /\ list = <<>> \/ nextDoneQueue >= Slots
       /\ frames' = fs
       /\ UNCHANGED <<slots, nextDoneQueue>>
    \/ /\ list # <<>> /\ Deferred
       /\ frames' = fs
       /\ slots' = Append(slots, list)
       /\ nextDoneQueue' = nextDoneQueue + 1
    \/ /\ list # <<>> /\ nextDoneQueue = 0
       /\ frames' = <<[list |-> list, calling |-> FALSE, then |-> then]>> \o fs
       /\ slots' = slots
       /\ nextDoneQueue' = 1

EHCIUIMDoDoneQueueProcessing(fs, list, then) ==
    \/ /\ list = <<>>
       /\ frames' = fs
       /\ UNCHANGED <<slots, nextDoneQueue>>
    \/ /\ list # <<>> /\ Deferred
       /\ frames' = fs
       /\ slots' = Append(slots, list)
       /\ nextDoneQueue' = nextDoneQueue + 1
    \/ /\ list # <<>> /\ ~Deferred
       /\ frames' = <<[list |-> list, calling |-> FALSE, then |-> then]>> \o fs
       /\ slots' = slots
       /\ nextDoneQueue' = IF nextDoneQueue = 0 THEN 1 ELSE nextDoneQueue

(* The Halted bit of the first transfer is cleared: it did not fail.       *)
Unhalted(ts) ==
    [i \in DOMAIN ts |->
        IF i = 1 /\ ts[i].hw = "halted" THEN [ts[i] EXCEPT !.hw = "done"] ELSE ts[i]]

(* The overlay of endpoint e without the first n transfers of its queue.   *)
Shifted(e, n) ==
    [overlay[e] EXCEPT !.current = IF @ > n THEN @ - n ELSE 0]

(* The first n transfers of an endpoint are taken off its queue, and its   *)
(* status bits are cleared; their completions follow.  NextqTDPtr points   *)
(* at what is now the first transfer, and one that is not active keeps the *)
(* hardware from those behind it: the status is stale.                     *)
returnTransactions(e, n, error, fs, then) ==
    LET rest == SubSeq(queue[e], n + 1, Len(queue[e])) IN
    /\ queue' = [queue EXCEPT ![e] = Unhalted(rest)]
    /\ overlay' = [overlay EXCEPT ![e] = [Shifted(e, n) EXCEPT !.status =
           IF rest # <<>> /\ rest[1].hw # "active" THEN "stale" ELSE "clear"]]
    /\ EHCIUIMDoDoneQueueProcessing(fs, Done(SubSeq(queue[e], 1, n), error), then)

(* UIMAbortEndpoint and UIMClearEndpointStall.  _aborting is set until the *)
(* call returns, which is at once if the completions are deferred.         *)
HandleEndpointAbort(e, fs) ==
    LET l == FindControlBulkEndpoint(e) IN
    \/ /\ ~Found(e) \/ aborting[e]
       /\ lists' = l
       /\ frames' = fs
       /\ UNCHANGED <<queue, overlay, aborting, schedule, slots, nextDoneQueue>>
    \/ /\ Found(e) /\ ~aborting[e]
       /\ HaltAsyncEndpoint(l, e)
       /\ returnTransactions(e, Len(queue[e]), "returned", fs, e)
       /\ aborting' = [aborting EXCEPT ![e] = queue[e] # <<>> /\ ~Deferred]

----------------------------------------------------------------------------
(* Completions.                                                            *)

First == frames[1].list[1]

(* The stages come back in the order they were sent.                       *)
NextBack(r) ==
    LET todo == sent[r] \ back[r] IN
    IF "setup" \in todo THEN {"setup"}
    ELSE IF "data" \in todo THEN {"data"} ELSE todo

Hard(s) == s = "stall"

Softened(s) == IF s = "returned" THEN "aborted" ELSE s

(* Bug: the status of the command is that of its last stage.               *)
LastStatusWins(r, s, fs) ==
    /\ back' = [back EXCEPT ![r] = @ \cup NextBack(r)]
    /\ status' = [status EXCEPT ![r] = Softened(s)]
    /\ IF Hard(s) THEN HandleEndpointAbort(Target[r], fs)
       ELSE /\ frames' = fs
            /\ UNCHANGED <<lists, queue, overlay, aborting, schedule, slots,
                           nextDoneQueue>>

(* An error of the device is the status of the command and clears the      *)
(* stall, which returns the stages that are left.                          *)
ControlPacketHandler(r, s, fs) ==
    /\ back' = [back EXCEPT ![r] = @ \cup NextBack(r)]
    /\ status' = [status EXCEPT ![r] =
           IF Hard(s) THEN s
           ELSE IF s # "success" /\ @ = "success" THEN Softened(s)
           ELSE @]
    /\ IF Hard(s) THEN HandleEndpointAbort(Target[r], fs)
       ELSE /\ frames' = fs
            /\ UNCHANGED <<lists, queue, overlay, aborting, schedule, slots,
                           nextDoneQueue>>

BulkPacketHandler(r, s, fs) ==
    /\ back' = [back EXCEPT ![r] = sent[r]]
    /\ status' = [status EXCEPT ![r] = Softened(s)]
    /\ frames' = fs
    /\ UNCHANGED <<lists, queue, overlay, aborting, schedule, slots, nextDoneQueue>>

(* Complete: the handler of the controller and, with the last stage, the   *)
(* client's, which may call in until it returns.                           *)
Complete ==
    /\ frames # <<>> /\ frames[1].list # <<>> /\ ~frames[1].calling
    /\ LET r == First.req  s == First.status
           fs == [frames EXCEPT ![1].calling = TRUE] IN
       /\ IF Target[r] \in Control THEN ControlPacketHandler(r, s, fs)
          ELSE BulkPacketHandler(r, s, fs)
       /\ failed' = [failed EXCEPT ![r] = @ \/ s # "success"]
       /\ fifo' = [fifo EXCEPT ![Target[r]] =
                      IF back'[r] = sent[r] THEN Remove(@, r) ELSE @]
    /\ Watch
    /\ UNCHANGED <<transactionsOut, sent, timed, cleared, open, bounds>>

Pool(r) ==
    /\ sent' = [sent EXCEPT ![r] = {}] /\ back' = [back EXCEPT ![r] = {}]
    /\ status' = [status EXCEPT ![r] = "success"]
    /\ timed' = [timed EXCEPT ![r] = TRUE]
    /\ failed' = [failed EXCEPT ![r] = FALSE]
    /\ cleared' = [cleared EXCEPT ![r] = FALSE]

(* The transfer is counted down after its completion; the schedule stops   *)
(* with the last one.  A command whose request has ended is in the pool.   *)
Completed ==
    /\ frames # <<>> /\ frames[1].calling
    /\ frames' = [frames EXCEPT ![1].list = Tail(@), ![1].calling = FALSE]
    /\ transactionsOut' = IF transactionsOut = 0 THEN 0 ELSE transactionsOut - 1
    /\ schedule' = (schedule /\ transactionsOut # 1)
    /\ IF Out(First.req) THEN UNCHANGED <<sent, back, status, timed, failed, cleared>>
       ELSE Pool(First.req)
    /\ Watch
    /\ UNCHANGED <<lists, queue, overlay, aborting, slots, nextDoneQueue, fifo,
                   open, bounds>>

NextDoneQueue ==
    /\ Len(frames) = 1 /\ frames[1].list = <<>> /\ slots # <<>>
    /\ frames' = [frames EXCEPT ![1].list = Head(slots)]
    /\ slots' = Tail(slots)
    /\ UNCHANGED <<lists, queue, overlay, aborting, schedule, transactionsOut,
                   nextDoneQueue, command, open, relinked, bounds>>

Unfinished(e) == {i \in DOMAIN queue[e] : queue[e][i].hw = "active"}

(* The transfers at the head of a queue that the hardware is done with.    *)
Finished(e) ==
    IF Unfinished(e) = {} THEN queue[e]
    ELSE SubSeq(queue[e], 1, (CHOOSE i \in Unfinished(e) :
                                 \A j \in Unfinished(e) : i <= j) - 1)

(* An abort that ran its completions itself is over with the last of them. *)
Return ==
    /\ frames # <<>> /\ frames[1].list = <<>>
    /\ Len(frames) = 1 => slots = <<>>
    /\ frames' = Tail(frames)
    /\ nextDoneQueue' = IF Len(frames) = 1 THEN 0 ELSE nextDoneQueue
    /\ aborting' = [e \in Endpoints |-> aborting[e] /\ frames[1].then # e]
    /\ UNCHANGED <<lists, queue, overlay, schedule, transactionsOut, slots, command,
                   open, relinked, bounds>>

----------------------------------------------------------------------------
(* Calls of clients: from their own threads when the gate is free, or from *)
(* the completion of a request of theirs.                                  *)

Gate == frames = <<>>

MayCall == ~Gate => frames[1].calling /\ ~Out(First.req)

Stages(r) ==
    IF Target[r] \notin Control THEN <<"bulk">>
    ELSE IF r \in HasData THEN <<"setup", "data", "status">>
    ELSE <<"setup", "status">>

(* Bug: a request is counted once, whatever its stages.                    *)
CountRequests(r) ==
    /\ queue' = [queue EXCEPT ![Target[r]] = @ \o
           [i \in DOMAIN Stages(r) |->
               [req |-> r, stage |-> Stages(r)[i], hw |-> "active"]]]
    /\ transactionsOut' = transactionsOut + 1

(* Bug: the descriptors are linked at _qTD and not at _TailTD.             *)
AllocateAtHead(r) ==
    /\ queue' = [queue EXCEPT ![Target[r]] =
           [i \in DOMAIN Stages(r) |->
               [req |-> r, stage |-> Stages(r)[i], hw |-> "active"]] \o @]
    /\ transactionsOut' = transactionsOut + Len(Stages(r))

(* Every stage is a transfer of its own.                                   *)
allocateTDs(r) ==
    /\ queue' = [queue EXCEPT ![Target[r]] = @ \o
           [i \in DOMAIN Stages(r) |->
               [req |-> r, stage |-> Stages(r)[i], hw |-> "active"]]]
    /\ transactionsOut' = transactionsOut + Len(Stages(r))

(* ControlTransaction and UIMCreateBulkTransfer.  A halted bulk endpoint   *)
(* refuses, a halted control endpoint does not.  The buffer command has    *)
(* the time-outs its last user or nobody left there.                       *)
Submit(r) ==
    LET e == Target[r] IN
    /\ MayCall /\ ~Out(r) /\ submits < MaxSubmits
    /\ Found(e)
    /\ Halted(e) => e \in Control
    /\ lists' = FindControlBulkEndpoint(e)
    /\ allocateTDs(r)
    /\ schedule' = TRUE
    /\ sent' = [sent EXCEPT ![r] = ToSet(Stages(r))]
    /\ \E b \in IF r \in HasData THEN BOOLEAN ELSE {TRUE} :
          timed' = [timed EXCEPT ![r] = b]
    /\ back' = [back EXCEPT ![r] = {}]
    /\ status' = [status EXCEPT ![r] = "success"]
    /\ failed' = [failed EXCEPT ![r] = FALSE]
    /\ cleared' = [cleared EXCEPT ![r] = FALSE]
    /\ fifo' = [fifo EXCEPT ![e] = Append(@, r)]
    /\ submits' = submits + 1
    /\ Watch
    /\ UNCHANGED <<overlay, aborting, gate, open, events>>

(* DoAbortEP and DoClearEPStall.                                           *)
AbortPipe(e) ==
    /\ MayCall /\ e \in open /\ Event
    /\ HandleEndpointAbort(e, frames)
    /\ Watch
    /\ UNCHANGED <<transactionsOut, command, open, submits>>

(* DoDeleteEP.  The transfers are returned from the queue head that is no  *)
(* longer linked.                                                          *)
UIMDeleteEndpoint(e) ==
    /\ MayCall /\ e \in open /\ Found(e) /\ Event
    /\ Unlinked(FindControlBulkEndpoint(e), e)
    /\ returnTransactions(e, Len(queue[e]), "returned", frames, "client")
    /\ aborting' = [aborting EXCEPT ![e] = FALSE]
    /\ open' = open \ {e}
    /\ Watch
    /\ UNCHANGED <<transactionsOut, command, submits>>

(* DoCreateEP: an empty queue head is linked.                              *)
AddEmptyCBEndPoint(e) ==
    /\ MayCall /\ e \notin open /\ Event
    /\ lists' = [lists EXCEPT !.active = linkAsyncEndpoint(@, e)]
    /\ open' = open \cup {e}
    /\ UNCHANGED <<queue, overlay, aborting, schedule, transactionsOut, gate,
                   command, relinked, submits>>

----------------------------------------------------------------------------
(* A hub suspends and resumes a port.                                      *)

Of(a, e) == Address[e] = a
Kept(l, a) == Only(l, {e \in Endpoints : ~Of(a, e)})
Taken(l, a) == Only(l, {e \in Endpoints : Of(a, e)})

(* The walk over the inactive list starts with the place where the walk    *)
(* over the active list ended (pPrevQH): with an active endpoint left, it  *)
(* ends after a first inactive one that is disabled.                       *)
DisabledInactive(l, a) ==
    IF l.inactive # <<>> /\ Of(a, Head(l.inactive)) /\ Kept(l.active, a) # <<>>
    THEN <<Head(l.inactive)>> ELSE Taken(l.inactive, a)

DisableAddressEndpoints(a) ==
    LET idle == DisabledInactive(lists, a)
        busy == Taken(lists.active, a) IN
    /\ Gate /\ Event
    /\ lists' = [active |-> Kept(lists.active, a),
                 inactive |-> Only(lists.inactive, Endpoints \ ToSet(idle)),
                 disabled |-> Reverse(busy \o idle) \o lists.disabled]
    /\ schedule' = (schedule /\ lists'.active # <<>>)
    /\ Watch
    /\ UNCHANGED <<queue, overlay, aborting, transactionsOut, gate, command, open,
                   submits>>

(* The endpoints of new are linked one after the other.                    *)
LinkedInTurn(l, new) ==
    IF l = <<>> THEN <<Head(new)>> \o Reverse(Tail(new))
    ELSE <<Head(l)>> \o Reverse(new) \o Tail(l)

(* Nobody starts the schedule here.                                        *)
EnableAddressEndpoints(a) ==
    /\ Gate
    /\ Taken(lists.disabled, a) # <<>>
    /\ lists' = [lists EXCEPT
           !.active = LinkedInTurn(@, Taken(lists.disabled, a)),
           !.disabled = Kept(@, a)]
    /\ relinked' = ~schedule
    /\ UNCHANGED <<queue, overlay, aborting, schedule, transactionsOut, gate,
                   command, open, bounds>>

----------------------------------------------------------------------------
(* The work loop: interrupts and the one second timer.                     *)

(* The transfers of list l that are finished.  The active list is looked   *)
(* at before the inactive one, with the completions between: visits of     *)
(* their own.                                                              *)
scavengeAnEndpointQueue(l) ==
    /\ Gate
    /\ \E i \in DOMAIN l : Finished(l[i]) # <<>>
    /\ queue' = [e \in Endpoints |->
           IF Contains(l, e)
           THEN SubSeq(queue[e], Len(Finished(e)) + 1, Len(queue[e]))
           ELSE queue[e]]
    /\ overlay' = [e \in Endpoints |->
           IF Contains(l, e) THEN Shifted(e, Len(Finished(e))) ELSE overlay[e]]
    /\ EHCIUIMDoDoneQueueProcessing(frames, Flat(
           [i \in DOMAIN l |-> Done(Finished(l[i]), "hardware")]), "client")
    /\ UNCHANGED <<lists, aborting, schedule, transactionsOut, command, open,
                   relinked, bounds>>

scavengeCompletedTransactions ==
    \E l \in {lists.active, lists.inactive} : scavengeAnEndpointQueue(l)

(* How many transfers a time-out takes: up to the end of a request.  A     *)
(* buffer command ends it, whether its flags are those of a new command    *)
(* (not a multi-transfer) or of a used one (the final transfer).           *)
ReturnOneTransaction(e) ==
    IF queue[e][1].stage = "setup" THEN 2 ELSE 1

(* The hardware is at the first transfer, or has not got further than to   *)
(* begin or to fail another one: a first one that is done counts as well.  *)
Seen(e) == overlay[e].current = 1 \/ overlay[e].status \in {"active", "halted"}


(* The first transfer has a command with a time-out.                       *)
Expired(e) ==
    /\ queue[e] # <<>> /\ Seen(e)
    /\ queue[e][1].stage = "data" => timed[queue[e][1].req]

(* A visit of CheckEDListForTimeouts, which reads the links afresh after   *)
(* the completions.                                                        *)
TimeOut(e) ==
    LET n == ReturnOneTransaction(e) IN
    /\ Gate
    /\ \/ Contains(lists.active, e) /\ HaltAsyncEndpoint(lists, e)
       \/ Contains(lists.inactive, e) /\ UNCHANGED <<lists, schedule>>
    /\ Expired(e)
    /\ returnTransactions(e, n, "timeout", frames, "client")
    /\ cleared' = [r \in Requests |->
           \/ cleared[r]
           \/ Len(queue[e]) > n /\ queue[e][n + 1].req = r
                                /\ queue[e][n + 1].hw = "halted"]
    /\ Watch
    /\ UNCHANGED <<aborting, transactionsOut, sent, back, status, timed, failed,
                   fifo, open, bounds>>

(* An endpoint that was idle for 750 ms.                                   *)
Trim(e) ==
    /\ Gate /\ Event
    /\ Contains(lists.active, e) /\ queue[e] = <<>>
    /\ Unlinked([lists EXCEPT !.inactive = <<e>> \o @], e)
    /\ Watch
    /\ UNCHANGED <<queue, overlay, aborting, transactionsOut, gate, command, open,
                   submits>>

(* The controller takes up the first transfer that is not finished of an   *)
(* endpoint it walks, and finishes it; it stops at one that fails.         *)
Walked(e) == schedule /\ Contains(lists.active, e) /\ Unfinished(e) # {}

Fetch(e) ==
    /\ Walked(e) /\ overlay[e].status = "clear"
    /\ overlay' = [overlay EXCEPT ![e] =
           [status |-> "active", current |-> Len(Finished(e)) + 1]]
    /\ UNCHANGED <<lists, queue, aborting, schedule, transactionsOut, gate,
                   command, open, relinked, bounds>>

Hardware(e) ==
    /\ Walked(e) /\ overlay[e].status = "active"
    /\ LET i == Len(Finished(e)) + 1 IN
       \/ /\ queue' = [queue EXCEPT ![e][i].hw = "done"]
          /\ overlay' = [overlay EXCEPT ![e].status = "clear"]
          /\ UNCHANGED <<failed, events>>
       \/ /\ Event
          /\ queue' = [queue EXCEPT ![e][i].hw = "halted"]
          /\ overlay' = [overlay EXCEPT ![e].status = "halted"]
          /\ failed' = [failed EXCEPT ![queue[e][i].req] = TRUE]
    /\ UNCHANGED <<lists, aborting, schedule, transactionsOut, gate, sent, back,
                   status, timed, cleared, fifo, open, relinked, submits>>

WorkLoop == Complete \/ Completed \/ NextDoneQueue \/ Return

Next ==
    \/ WorkLoop \/ scavengeCompletedTransactions
    \/ \E r \in Requests : Submit(r)
    \/ \E a \in Addresses : DisableAddressEndpoints(a) \/ EnableAddressEndpoints(a)
    \/ \E e \in Endpoints :
          \/ AbortPipe(e) \/ UIMDeleteEndpoint(e) \/ AddEmptyCBEndPoint(e)
          \/ TimeOut(e) \/ Trim(e) \/ Fetch(e) \/ Hardware(e)

(* The work loop runs its events to their end, finished transfers raise an *)
(* interrupt, the timer comes again, and the controller walks its list.    *)
(* Nothing makes a device answer.                                          *)
Spec == /\ Init /\ [][Next]_vars
        /\ WF_vars(WorkLoop) /\ WF_vars(scavengeCompletedTransactions)
        /\ WF_vars(\E e \in Endpoints : TimeOut(e))
        /\ WF_vars(\E e \in Endpoints : Fetch(e))

----------------------------------------------------------------------------
Overlays ==
    [status : {"clear", "active", "halted", "stale"}, current : Nat]
StageNames == {"setup", "data", "status", "bulk"}

(* Every variable has a value of its kind; no slot is used beyond those    *)
(* there are, and the counter of transfers does not wrap.                  *)
TypeOK ==
    /\ \A l \in {lists.active, lists.inactive, lists.disabled} :
          ToSet(l) \subseteq Endpoints
    /\ overlay \in [Endpoints -> Overlays]
    /\ aborting \in [Endpoints -> BOOLEAN]
    /\ schedule \in BOOLEAN /\ relinked \in BOOLEAN
    /\ sent \in [Requests -> SUBSET StageNames]
    /\ back \in [Requests -> SUBSET StageNames]
    /\ status \in [Requests -> {"success", "stall", "aborted", "timeout"}]
    /\ timed \in [Requests -> BOOLEAN] /\ failed \in [Requests -> BOOLEAN]
    /\ cleared \in [Requests -> BOOLEAN]
    /\ open \subseteq Endpoints
    /\ nextDoneQueue \in 0 .. Slots /\ Len(slots) < Slots
    /\ transactionsOut \in Nat

(* The transfers of the requests in R that are not back: queued, in a done *)
(* queue that is being processed, or in one that waits.                    *)
Amount(l, R) == Total([i \in DOMAIN l |-> IF l[i].req \in R THEN 1 ELSE 0])
Waiting(f) == IF f.calling THEN Tail(f.list) ELSE f.list
Pending(R) ==
    Total([i \in DOMAIN Order |-> Amount(queue[Order[i]], R)])
        + Total([i \in DOMAIN frames |-> Amount(Waiting(frames[i]), R)])
        + Total([i \in DOMAIN slots |-> Amount(slots[i], R)])

(* Every stage of a request is in exactly one place until it is back, so   *)
(* the client is called once, when nothing refers to the command any more. *)
Conserved == \A r \in Requests : Pending({r}) = Cardinality(sent[r] \ back[r])

(* An endpoint that was created is on exactly one list, and on it once.    *)
OneList ==
    LET all == lists.active \o lists.inactive \o lists.disabled
    IN ToSet(all) = open /\ IsInjective(all)

(* A transfer that is not finished is where the hardware finds it: on the  *)
(* active list with the schedule on, unless its endpoint is disabled or    *)
(* was enabled and nobody started the schedule since.                      *)
HardwareReaches ==
    \A e \in Endpoints : Unfinished(e) # {} =>
        \/ Contains(lists.active, e) /\ (schedule \/ relinked)
        \/ Contains(lists.disabled, e)

(* The requests of an endpoint end in the order they were sent, unless the *)
(* completion runs in a nested call for which no slot was left.            *)
InOrder ==
    [][\A r \in Requests :
          Out(r) /\ ~Out(r)' /\ Len(frames) = 1 => r = Head(fifo[Target[r]])]_vars

(* A request that ends successfully had no stage that failed, unless the   *)
(* time-out of the one before it cleared the Halted bit.                   *)
HonestStatus ==
    \A r \in Requests : ~Out(r) /\ status[r] = "success" => ~failed[r] \/ cleared[r]

(* A request ends, unless its endpoint is disabled and stays so, the       *)
(* device never answers in a data stage that has no time-out, or the       *)
(* hardware does not get to its transfer: then no time-out does either.    *)
Untimed(e) ==
    queue[e] # <<>> /\ queue[e][1].stage = "data" /\ ~timed[queue[e][1].req]

Unseen(e) ==
    /\ overlay[e].current # 1
    /\ overlay[e].status = "stale" \/ (relinked /\ overlay[e].status = "clear")

=============================================================================
