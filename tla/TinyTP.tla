------------------------------- MODULE TinyTP -------------------------------
(***************************************************************************)
(* The flow of bytes from one tty to another over IrDA: the transmit ring  *)
(* of the driver, IrComm that cuts it into packets, the credits of TinyTP, *)
(* the peer's receive ring and the credits that go back as it is read.     *)
(*                                                                         *)
(* TinyTP and IrComm run in the gate of the driver's work loop, from an    *)
(* event or a call to its end.  The tty threads call in through the gate   *)
(* but touch the rings and AreTransmitting outside of it.  IrLAP delivers  *)
(* in order and loses nothing until the link goes down.                    *)
(*                                                                         *)
(* TxQueue and RxQueue do not appear: IrComm uses no reassembly, a packet  *)
(* of it fits one segment, Write asks for credit before each packet, and   *)
(* every call ends with CheckTheQueues, which leaves both queues empty.    *)
(***************************************************************************)
EXTENDS Naturals, FiniteSets, SequencesExt, Lists

CONSTANTS
    Ends,           \* the two devices
    Credit,         \* kTinyTPCredit (2 in the code)
    Cap,            \* SendCredit stops at (30 in the code)
    MaxPacket,      \* fMaxPacketSize
    Block,          \* MAX_BLOCK_SIZE
    Loads           \* bounds: what the ttys write, how often the ends connect

ASSUME TinyTPAssumption ==
    /\ IsFiniteSet(Ends) /\ Cardinality(Ends) = 2
    /\ Credit \in 1 .. 127 /\ Cap \in Nat /\ Credit <= Cap
    /\ MaxPacket \in Nat \ {0} /\ Block \in Nat \ {0}
    /\ Loads \subseteq [bytes : [Ends -> Nat], sessions : Nat]

VARIABLES
    ttp,            \* AvailCredit, RemoteCredit and SendCredit of an end
    Connected,      \* the end is connected, in TinyTP, IrComm and IrDAComm
    link,           \* "down", "connecting", "up" or "lost"
    notice,         \* the end has not heard yet that the link is lost
    wire,           \* PDUs on their way to an end
    sizes,          \* gSizeQueue, first element first
    tx, rx,         \* the rings of the driver
    AreTransmitting,
    backEnabling,   \* the work loop holds the gate and has set AreTransmitting
    writer,         \* the thread in SetUpTransmit: where it is, what it holds
    reader,         \* bytes dequeueData removed and has not returned yet
    written,        \* bytes the tty wrote
    load, sessions, \* one of the bounds, and the connections so far
    last,           \* last byte that arrived in this session (history)
    spoiled,        \* the driver dropped or overtook bytes (history)
    leftover,       \* the end connected before all was read (history)
    parked          \* bytes in tx that nobody came for (history)

tty == <<written, reader>>
history == <<last, spoiled, leftover, parked>>
vars == <<ttp, Connected, link, notice, wire, sizes, tx, rx, AreTransmitting,
          backEnabling, writer, tty, load, sessions, history>>

Idle == [pc |-> "idle", room |-> 0, buf |-> <<>>]

Init ==
    /\ ttp = [e \in Ends |-> [avail |-> 0, remote |-> 0, send |-> 0]]
    /\ Connected = [e \in Ends |-> FALSE]
    /\ link = "down" /\ notice = [e \in Ends |-> FALSE]
    /\ wire = [e \in Ends |-> <<>>]
    /\ sizes = [e \in Ends |-> <<>>]
    /\ tx = [e \in Ends |-> <<>>] /\ rx = [e \in Ends |-> <<>>]
    /\ AreTransmitting = [e \in Ends |-> FALSE]
    /\ backEnabling = [e \in Ends |-> FALSE]
    /\ writer = [e \in Ends |-> Idle]
    /\ reader = [e \in Ends |-> 0] /\ written = [e \in Ends |-> 0]
    /\ load \in Loads /\ sessions = 0
    /\ last = [e \in Ends |-> 0] /\ spoiled = [e \in Ends |-> FALSE]
    /\ leftover = [e \in Ends |-> FALSE] /\ parked = [e \in Ends |-> FALSE]

Peer(e) == CHOOSE p \in Ends : p # e
Lesser(m, n) == IF m < n THEN m ELSE n
Data(credit, bytes) == [kind |-> "data", credit |-> credit, bytes |-> bytes]

(* What the peer gets of a PDU that is sent.                               *)
DataPut(e, pdus) ==
    wire' = IF link = "up" THEN [wire EXCEPT ![Peer(e)] = @ \o pdus] ELSE wire

----------------------------------------------------------------------------
(* TinyTP: s is the state of an end, out what it sends.                    *)

State(e) == [avail |-> ttp[e].avail, remote |-> ttp[e].remote,
             send |-> ttp[e].send, out |-> <<>>]
Credits(s) == [avail |-> s.avail, remote |-> s.remote, send |-> s.send]

LowThreshold == 2

(* Bug: the credit the peer has now is not added up.                       *)
DatalessUncounted(s) ==
    [s EXCEPT !.avail = 0, !.out = Append(@, Data(s.avail, <<>>))]

SendDataless(s) ==
    [s EXCEPT !.avail = 0, !.remote = @ + s.avail,
              !.out = Append(@, Data(s.avail, <<>>))]

(* Bug: credit that could ride on data waits for it.                       *)
CreditWaits(s) == IF s.avail > 3 THEN SendDataless(s) ELSE s

(* With nothing to send: credit goes back in a PDU of its own when the     *)
(* peer has little or there is much.                                       *)
CheckTheQueues(s) ==
    IF s.avail > 0 /\ (s.remote <= LowThreshold \/ s.avail > 3)
    THEN SendDataless(s) ELSE s

TTPRxDone(s) == CheckTheQueues([s EXCEPT !.avail = @ + 1])

(* One packet after the other: the first takes along the credit that is    *)
(* available.                                                              *)
DoDataRequest(s, packets) ==
    IF packets = <<>> THEN s
    ELSE [s EXCEPT !.avail = 0, !.remote = @ + s.avail,
                   !.send = @ - Len(packets),
                   !.out = @ \o [i \in DOMAIN packets |->
                       Data(IF i = 1 THEN s.avail ELSE 0, packets[i])]]

(* IrComm.                                                                 *)

Packets(buf) ==
    [i \in 1 .. (Len(buf) + MaxPacket - 1) \div MaxPacket |->
        SubSeq(buf, (i - 1) * MaxPacket + 1, Lesser(i * MaxPacket, Len(buf)))]

(* Bug: the last packet is sent first.                                     *)
WriteBackwards(s, buf) ==
    LET n == Lesser(s.send, Len(Packets(buf)))
    IN DoDataRequest(s, Reverse(SubSeq(Packets(buf), 1, n)))

(* The packets for which there is credit; the caller drops the rest.       *)
Write(s, buf) ==
    LET n == Lesser(s.send, Len(Packets(buf)))
    IN DoDataRequest(s, SubSeq(Packets(buf), 1, n))

(* What the driver is told it may write.  Without a connection that is     *)
(* anything: it will be thrown away.                                       *)
TxBufferAvailable(e, s) ==
    IF Connected[e] THEN Lesser(s.send * MaxPacket, Block) ELSE Block

(* The size of a packet goes to the front of a list with a limit.          *)
AddPacketSize(l, n) == IF Len(l) < Credit + 2 THEN <<n>> \o l ELSE l

(* Bug: a credit for a packet that was read in part.                       *)
ConsumedInPart(l, n) ==
    LET whole == {k \in 0 .. Len(l) : k = 0 \/ Sums(l)[k - 1] < n}
    IN CHOOSE k \in whole : \A j \in whole : j <= k

(* How many packets, from the front of the list, n bytes make up.          *)
Consumed(l, n) ==
    LET whole == {k \in 0 .. Len(l) : Sums(l)[k] <= n}
    IN CHOOSE k \in whole : \A j \in whole : j <= k

(* The list that is left: the next packet has shrunk.                      *)
Shrunk(l, n) ==
    LET k == Consumed(l, n)
    IN IF k < Len(l) THEN <<Sums(l)[k + 1] - n>> \o SubSeq(l, k + 2, Len(l))
       ELSE <<>>

----------------------------------------------------------------------------
(* The tty threads.                                                        *)

(* enqueueData fills the ring and goes into SetUpTransmit.                 *)
Enqueue(e, n) ==
    /\ writer[e].pc = "idle"
    /\ written[e] + n <= load.bytes[e]
    /\ tx' = [tx EXCEPT ![e] = @ \o [i \in 1 .. n |-> written[e] + i]]
    /\ written' = [written EXCEPT ![e] = @ + n]
    /\ writer' = [writer EXCEPT ![e].pc = "start"]
    /\ UNCHANGED <<ttp, Connected, link, notice, wire, sizes, rx,
                   AreTransmitting, backEnabling, reader, load, sessions, history>>

(* It looks, outside of the gate, whether another one transmits, ...       *)
SetUpTransmit(e) ==
    /\ writer[e].pc = "start"
    /\ writer' = [writer EXCEPT ![e] =
           IF AreTransmitting[e] \/ tx[e] = <<>> THEN Idle
           ELSE [@ EXCEPT !.pc = "ask"]]
    /\ parked' = [parked EXCEPT ![e] = AreTransmitting[e] /\ tx[e] # <<>>]
    /\ UNCHANGED <<ttp, Connected, link, notice, wire, sizes, tx, rx,
                   AreTransmitting, backEnabling, tty, load, sessions, last,
                   spoiled, leftover>>

(* ... asks in the gate how much there is room for, ...                    *)
AskForRoom(e) ==
    /\ writer[e].pc = "ask" /\ ~backEnabling[e]
    /\ writer' = [writer EXCEPT ![e] =
           IF TxBufferAvailable(e, State(e)) = 0 THEN Idle
           ELSE [@ EXCEPT !.pc = "room",
                          !.room = TxBufferAvailable(e, State(e))]]
    /\ UNCHANGED <<ttp, Connected, link, notice, wire, sizes, tx, rx,
                   AreTransmitting, backEnabling, tty, load, sessions, history>>

(* ... takes that many bytes, ...                                          *)
RemovefromQueue(e) ==
    /\ writer[e].pc = "room"
    /\ LET n == Lesser(writer[e].room, Len(tx[e])) IN
       /\ writer' = [writer EXCEPT ![e] =
              [pc |-> "taken", room |-> 0, buf |-> SubSeq(tx[e], 1, n)]]
       /\ tx' = [tx EXCEPT ![e] = SubSeq(@, n + 1, Len(@))]
    /\ UNCHANGED <<ttp, Connected, link, notice, wire, sizes, rx,
                   AreTransmitting, backEnabling, tty, load, sessions, history>>

(* ... says that it transmits, ...                                         *)
Transmitting(e) ==
    /\ writer[e].pc = "taken"
    /\ AreTransmitting' = [AreTransmitting EXCEPT ![e] = TRUE]
    /\ writer' = [writer EXCEPT ![e].pc = "busy"]
    /\ UNCHANGED <<ttp, Connected, link, notice, wire, sizes, tx, rx,
                   backEnabling, tty, load, sessions, history>>

(* ... and writes them; what is not written is lost, all of it without a   *)
(* connection.                                                             *)
TtyWrite(e) ==
    /\ writer[e].pc = "busy" /\ ~backEnabling[e]
    /\ IF ~Connected[e] THEN UNCHANGED <<ttp, wire, spoiled>>
       ELSE LET s == Write(State(e), writer[e].buf) IN
            /\ ttp' = [ttp EXCEPT ![e] = Credits(s)]
            /\ DataPut(e, s.out)
            /\ spoiled' = [spoiled EXCEPT ![e] =
                   @ \/ Len(s.out) < Len(Packets(writer[e].buf))]
    /\ writer' = [writer EXCEPT ![e] = [Idle EXCEPT !.pc = "done"]]
    /\ UNCHANGED <<Connected, link, notice, sizes, tx, rx, AreTransmitting,
                   backEnabling, tty, load, sessions, last, leftover, parked>>

Transmitted(e) ==
    /\ writer[e].pc = "done"
    /\ AreTransmitting' = [AreTransmitting EXCEPT ![e] = FALSE]
    /\ writer' = [writer EXCEPT ![e] = Idle]
    /\ UNCHANGED <<ttp, Connected, link, notice, wire, sizes, tx, rx,
                   backEnabling, tty, load, sessions, history>>

(* dequeueData removes bytes, then returns the credit for them.  IrDAComm  *)
(* drops that without a connection.                                        *)
dequeueData(e, n) ==
    /\ reader[e] = 0 /\ n <= Len(rx[e])
    /\ rx' = [rx EXCEPT ![e] = SubSeq(@, n + 1, Len(@))]
    /\ reader' = [reader EXCEPT ![e] = n]
    /\ UNCHANGED <<ttp, Connected, link, notice, wire, sizes, tx,
                   AreTransmitting, backEnabling, writer, written, load, sessions,
                   history>>

(* Each packet that was read brings back its credit.                       *)
PacketsRead(s, n) ==
    LET done[i \in 0 .. n] == IF i = 0 THEN s ELSE TTPRxDone(done[i - 1])
    IN done[n]

ReturnCredit(e) ==
    /\ reader[e] > 0 /\ ~backEnabling[e]
    /\ IF ~Connected[e] THEN UNCHANGED <<ttp, wire, sizes>>
       ELSE LET s == PacketsRead(State(e), Consumed(sizes[e], reader[e])) IN
            /\ ttp' = [ttp EXCEPT ![e] = Credits(s)]
            /\ DataPut(e, s.out)
            /\ sizes' = [sizes EXCEPT ![e] = Shrunk(@, reader[e])]
    /\ reader' = [reader EXCEPT ![e] = 0]
    /\ UNCHANGED <<Connected, link, notice, tx, rx, AreTransmitting,
                   backEnabling, writer, written, load, sessions, history>>

----------------------------------------------------------------------------
(* Connections.                                                            *)

(* The ends count on the new connection as if their rings were empty.      *)
Opened(e) ==
    /\ Connected' = [Connected EXCEPT ![e] = TRUE]
    /\ leftover' = [leftover EXCEPT ![e] =
           @ \/ rx[e] # <<>> \/ sizes[e] # <<>> \/ reader[e] > 0]
    /\ parked' = [parked EXCEPT ![e] = tx[e] # <<>>]
    /\ last' = [last EXCEPT ![e] = 0]
    /\ spoiled' = spoiled

DoConnectRequest(e) ==
    /\ link = "down" /\ sessions < load.sessions
    /\ link' = "connecting" /\ sessions' = sessions + 1
    /\ ttp' = [ttp EXCEPT ![e] = [avail |-> 0, remote |-> Credit, send |-> 0]]
    /\ wire' = [wire EXCEPT
           ![Peer(e)] = <<[kind |-> "connect", credit |-> Credit]>>]
    /\ UNCHANGED <<Connected, notice, sizes, tx, rx, AreTransmitting, backEnabling,
                   writer, tty, history, load>>

First(e) == Head(wire[e])

(* The listener answers the request and is connected.                      *)
HandleConnectIndication(e) ==
    /\ wire[e] # <<>> /\ First(e).kind = "connect"
    /\ ttp' = [ttp EXCEPT ![e] =
           [avail |-> 0, remote |-> Credit, send |-> First(e).credit]]
    /\ link' = "up"
    /\ wire' = [wire EXCEPT ![e] = Tail(@),
           ![Peer(e)] = Append(@, [kind |-> "accept", credit |-> Credit])]
    /\ Opened(e)
    /\ UNCHANGED <<notice, sizes, tx, rx, AreTransmitting, backEnabling, writer,
                   tty, load, sessions>>

HandleConnectConfirm(e) ==
    /\ wire[e] # <<>> /\ First(e).kind = "accept"
    /\ ttp' = [ttp EXCEPT ![e].send = First(e).credit]
    /\ wire' = [wire EXCEPT ![e] = Tail(@)]
    /\ Opened(e)
    /\ UNCHANGED <<link, notice, sizes, tx, rx, AreTransmitting, backEnabling,
                   writer, tty, load, sessions>>

(* The beam is broken or one end disconnects: nothing arrives any more,    *)
(* and each end hears of it some time.                                     *)
LinkLost ==
    /\ link \in {"connecting", "up"}
    /\ link' = "lost"
    /\ notice' = [e \in Ends |-> TRUE]
    /\ wire' = [e \in Ends |-> <<>>]
    /\ UNCHANGED <<ttp, Connected, sizes, tx, rx, AreTransmitting, backEnabling,
                   writer, tty, load, sessions, history>>

HandleDisconnectIndication(e) ==
    /\ notice[e]
    /\ notice' = [notice EXCEPT ![e] = FALSE]
    /\ Connected' = [Connected EXCEPT ![e] = FALSE]
    /\ link' = IF notice[Peer(e)] THEN link ELSE "down"
    /\ UNCHANGED <<ttp, wire, sizes, tx, rx, AreTransmitting, backEnabling, writer,
                   tty, load, sessions, history>>

----------------------------------------------------------------------------
(* The work loop: a PDU arrives.                                           *)

(* What TTPBackEnable takes from the ring: SetUpTransmit in the gate.      *)
BackEnabled(e, s) ==
    IF AreTransmitting[e] THEN <<>>
    ELSE SubSeq(tx[e], 1, Lesser(TxBufferAvailable(e, s), Len(tx[e])))

(* Bug: a PDU without data is counted as one.                              *)
DatalessCounts(e, pdu) ==
    LET s == [State(e) EXCEPT !.send = Lesser(@ + pdu.credit, Cap)]
        t == IF pdu.credit > 0 THEN Write(s, BackEnabled(e, s)) ELSE s
    IN [t EXCEPT !.remote = @ - 1]

(* The credit counts first, then the client may write, then the data has   *)
(* used one of the credits given away.                                     *)
HandleDataIndication(e, pdu) ==
    LET s == [State(e) EXCEPT !.send = Lesser(@ + pdu.credit, Cap)]
        t == IF pdu.credit > 0 THEN Write(s, BackEnabled(e, s)) ELSE s
    IN [t EXCEPT !.remote = @ - (IF pdu.bytes = <<>> THEN 0 ELSE 1)]

Ring == Credit * MaxPacket

(* AreTransmitting is set while the bytes of the ring are written; what    *)
(* else the loop does to the PDU is in the gate and taken with that.       *)
DataGetComplete(e) ==
    /\ Connected[e] /\ wire[e] # <<>> /\ First(e).kind = "data"
    /\ LET pdu == First(e)
           s == HandleDataIndication(e, pdu)
           t == CheckTheQueues(s)
           taken == IF pdu.credit > 0
                    THEN Len(BackEnabled(e, [State(e) EXCEPT
                             !.send = Lesser(@ + pdu.credit, Cap)]))
                    ELSE 0
       IN
       /\ ttp' = [ttp EXCEPT ![e] = Credits(t)]
       /\ wire' = [wire EXCEPT ![e] = Tail(@), ![Peer(e)] = @ \o t.out]
       /\ tx' = [tx EXCEPT ![e] = SubSeq(@, taken + 1, Len(@))]
       /\ spoiled' = [spoiled EXCEPT ![e] =
              @ \/ (taken > 0 /\ writer[e].pc \in {"taken", "busy"})]
       /\ AreTransmitting' = [AreTransmitting EXCEPT ![e] = @ \/ taken > 0]
       /\ backEnabling' = [backEnabling EXCEPT ![e] = taken > 0]
       /\ parked' = [parked EXCEPT ![e] =
              IF pdu.credit > 0 THEN AreTransmitting[e] /\ tx[e] # <<>> ELSE @]
       /\ IF pdu.bytes = <<>> THEN UNCHANGED <<sizes, rx, last>>
          ELSE LET got == SubSeq(pdu.bytes, 1,
                                 Lesser(Len(pdu.bytes), Ring - Len(rx[e]))) IN
               /\ sizes' = [sizes EXCEPT ![e] = AddPacketSize(@, Len(pdu.bytes))]
               /\ rx' = [rx EXCEPT ![e] = @ \o got]
               /\ last' = [last EXCEPT ![e] = Last(pdu.bytes)]
    /\ UNCHANGED <<Connected, link, notice, writer, tty, load, sessions, leftover>>

BackEnableEnds(e) ==
    /\ backEnabling[e]
    /\ backEnabling' = [backEnabling EXCEPT ![e] = FALSE]
    /\ AreTransmitting' = [AreTransmitting EXCEPT ![e] = FALSE]
    /\ UNCHANGED <<ttp, Connected, link, notice, wire, sizes, tx, rx, writer, tty,
                   load, sessions, history>>

Writer(e) ==
    SetUpTransmit(e) \/ AskForRoom(e) \/ RemovefromQueue(e) \/ Transmitting(e)
        \/ TtyWrite(e) \/ Transmitted(e)

Reader(e) == ReturnCredit(e) \/ \E n \in 1 .. Ring : dequeueData(e, n)

WorkLoop(e) ==
    \/ /\ ~backEnabling[e]
       /\ \/ HandleConnectIndication(e) \/ HandleConnectConfirm(e)
          \/ HandleDisconnectIndication(e) \/ DataGetComplete(e)
    \/ BackEnableEnds(e)

Next ==
    \/ LinkLost
    \/ \E e \in Ends :
          \/ \E n \in 1 .. load.bytes[e] : Enqueue(e, n)
          \/ DoConnectRequest(e) \/ Writer(e) \/ Reader(e) \/ WorkLoop(e)

(* The threads run on, what is sent arrives, and the tty is read.          *)
Spec == /\ Init /\ [][Next]_vars
        /\ \A e \in Ends : WF_vars(Writer(e)) /\ WF_vars(Reader(e))
                           /\ WF_vars(WorkLoop(e))

----------------------------------------------------------------------------
(* Every variable has a value of its kind: no counter of credits goes      *)
(* below zero, the lists and rings keep to their size, and AreTransmitting *)
(* is never left set by nobody.                                            *)
TypeOK ==
    /\ ttp \in [Ends -> [avail : Nat, remote : Nat, send : 0 .. Cap]]
    /\ Connected \in [Ends -> BOOLEAN] /\ AreTransmitting \in [Ends -> BOOLEAN]
    /\ backEnabling \in [Ends -> BOOLEAN]
    /\ link \in {"down", "connecting", "up", "lost"}
    /\ notice \in [Ends -> BOOLEAN]
    /\ \A e \in Ends :
          /\ Len(sizes[e]) <= Credit + 2 /\ Len(rx[e]) <= Ring
          /\ \A i \in DOMAIN sizes[e] : sizes[e][i] \in 1 .. MaxPacket
          /\ writer[e].pc \in {"idle", "start", "ask", "room", "taken", "busy",
                               "done"}
          /\ AreTransmitting[e] =>
                 backEnabling[e] \/ writer[e].pc \in {"busy", "done"}
    /\ leftover \in [Ends -> BOOLEAN] /\ parked \in [Ends -> BOOLEAN]
    /\ spoiled \in [Ends -> BOOLEAN]

(* The credit that PDUs bring, and that which they have used.              *)
Given(w) == Total([i \in DOMAIN w |-> w[i].credit])
Used(w) ==
    Total([i \in DOMAIN w |->
               IF w[i].kind = "data" /\ w[i].bytes # <<>> THEN 1 ELSE 0])

(* What an end believes its peer may send is what the peer has, what is on *)
(* the way to it, and what it has used for packets that are on the way.    *)
CreditConserved ==
    link = "up" /\ (\A e \in Ends : Connected[e]) =>
        \A e \in Ends :
            ttp[e].remote =
                ttp[Peer(e)].send + Given(wire[Peer(e)]) + Used(wire[e])

(* The credit that was given away or may be is room in the receive ring,   *)
(* unless the end connected before its tty had read everything.            *)
CreditIsRoom ==
    \A e \in Ends : Connected[e] /\ ~leftover[e] =>
        Len(rx[e]) + MaxPacket * (ttp[e].avail + ttp[e].remote) <= Ring

(* The tty gets the bytes of a session in the order the peer's tty wrote   *)
(* them and without a gap, unless two threads were in SetUpTransmit and    *)
(* one overtook the other or found no credit left, and under the same      *)
(* condition.                                                              *)
InOrder ==
    [][\A e \in Ends :
          last'[e] \notin {0, last[e]} /\ last[e] # 0 =>
              \/ last'[e] = last[e] + Len(rx'[e]) - Len(rx[e])
              \/ spoiled'[Peer(e)] \/ leftover[e]]_vars

(* The transmit ring of a connected end runs empty again and again, unless *)
(* its bytes were there when the end was connected, or the last credit     *)
(* came or the last bytes were written while another thread had set        *)
(* AreTransmitting, and nothing was written or heard since: then nobody    *)
(* comes for them.                                                         *)
Drains ==
    \A e \in Ends : []<>(tx[e] = <<>> \/ ~Connected[e] \/ parked[e])
=============================================================================
