--------------------------- MODULE TinyTP_proofs ---------------------------
(* That the credits of TinyTP are neither lost nor invented and stand for    *)
(* room in the receive ring, for any credits, packets, rings and loads.      *)

EXTENDS TinyTP, TLAPS, FiniteSetTheorems, SequenceTheorems, Lists_proofs

(* What is on the wire.                                                      *)
Bytes   == {s \in Seq(Nat) : Len(s) <= MaxPacket}
DataPDU == [kind : {"data"}, credit : Nat, bytes : Bytes]
Opening == [kind : {"connect", "accept"}, credit : Nat]
Connect == [kind |-> "connect", credit |-> Credit]
Accept  == [kind |-> "accept", credit |-> Credit]

Counters == [avail : Nat, remote : Nat, send : Nat]
Fresh    == [avail |-> 0, remote |-> Credit, send |-> 0]

Pcs == {"idle", "start", "ask", "room", "taken", "busy", "done"}

CounterTypes == ttp \in [Ends -> Counters]
LinkTypes == /\ link \in {"down", "connecting", "up", "lost"}
             /\ Connected \in [Ends -> BOOLEAN] /\ notice \in [Ends -> BOOLEAN]
WireTypes == wire \in [Ends -> Seq(DataPDU \cup Opening)]
RingTypes == /\ sizes \in [Ends -> Seq(1 .. MaxPacket)]
             /\ rx \in [Ends -> Seq(Nat)]
             /\ reader \in [Ends -> Nat]
WriterTypes == /\ load \in Loads
               /\ tx \in [Ends -> Seq(Nat)] /\ written \in [Ends -> Nat]
               /\ AreTransmitting \in [Ends -> BOOLEAN]
               /\ backEnabling \in [Ends -> BOOLEAN]
               /\ writer \in [Ends -> [pc : Pcs, room : Nat, buf : Seq(Nat)]]
HistoryTypes == /\ leftover \in [Ends -> BOOLEAN] /\ parked \in [Ends -> BOOLEAN]
                /\ spoiled \in [Ends -> BOOLEAN]

Typed == /\ CounterTypes /\ LinkTypes /\ WireTypes /\ RingTypes /\ WriterTypes
         /\ HistoryTypes

(* AreTransmitting is set by a thread that is between the two assignments.   *)
Busy == \A e \in Ends :
    AreTransmitting[e] => backEnabling[e] \/ writer[e].pc \in {"busy", "done"}

(* What the state of the link says of an end, its wire and its counters.     *)
AllData(w, from) == \A i \in from .. Len(w) : w[i] \in DataPDU

Calling(e) == /\ wire[e] = <<>> /\ ttp[e] = Fresh
              /\ wire[Peer(e)] = <<Connect>>

Joined(e) ==
    \/ Connected[e] /\ AllData(wire[e], 1)
    \/ /\ ~Connected[e] /\ Connected[Peer(e)] /\ ttp[e] = Fresh
       /\ wire[e] # <<>> /\ wire[e][1] = Accept /\ AllData(wire[e], 2)

Linked ==
    \A e \in Ends :
       /\ link \in {"down", "lost"} => wire[e] = <<>>
       /\ link \in {"down", "connecting"} => ~Connected[e]
       /\ link # "lost" => ~notice[e]
       /\ link = "lost" => notice[e] \/ (notice[Peer(e)] /\ ~Connected[e])
       /\ link = "connecting" => Calling(e) \/ Calling(Peer(e))
       /\ link = "up" => Joined(e)

(* What an end has to be ready for: credit the peer has or will get, and     *)
(* packets on their way.                                                     *)
Owed(e) == ttp[Peer(e)].send + Given(wire[Peer(e)]) + Used(wire[e])

(* SendCredit never comes to its limit.                                      *)
CapIsEnough == 2 * Credit + 2 <= Cap

Circulation ==
    link = "up" => \A e \in Ends :
        /\ Owed(e) <= ttp[e].remote
        /\ CapIsEnough => Owed(e) = ttp[e].remote

Bounded ==
    \A e \in Ends :
        /\ ttp[e].send <= Cap
        /\ Len(sizes[e]) <= Credit + 2
        /\ Len(sizes[e]) + ttp[e].avail + ttp[e].remote <= 2 * Credit + 2
        /\ Len(rx[e]) <= Ring

(* What is in the ring, with what was just taken from it, is the packets in  *)
(* the list, and a packet that is not there is a credit.                     *)
Room ==
    \A e \in Ends : Connected[e] /\ ~leftover[e] =>
        /\ Total(sizes[e]) = Len(rx[e]) + reader[e]
        /\ Len(sizes[e]) + ttp[e].avail + ttp[e].remote = Credit

IInv == Typed /\ Busy /\ Linked /\ Circulation /\ Bounded /\ Room

-----------------------------------------------------------------------------
(* Arithmetic.                                                               *)

(* What an end gives and takes it expects and does not expect any more.      *)
LEMMA Expected ==
  ASSUME NEW sq \in Nat, NEW gq \in Nat, NEW u \in Nat, NEW uw \in Nat,
         NEW r \in Nat, NEW go \in Nat, NEW tr \in Nat, tr + u = r + go
  PROVE  /\ sq + gq + (u + uw) <= r => sq + (gq + go) + uw <= tr
         /\ sq + gq + (u + uw) = r => sq + (gq + go) + uw = tr
OBVIOUS

(* What an end gets and uses it has and has no more.                         *)
LEMMA Spent ==
  ASSUME NEW se \in Nat, NEW c \in Nat, NEW gw \in Nat, NEW uq \in Nat,
         NEW r \in Nat, NEW uo \in Nat, NEW ts \in Nat, ts + uo <= se + c
  PROVE  /\ se + (c + gw) + uq <= r => ts + gw + (uq + uo) <= r
         /\ ts + uo = se + c /\ se + (c + gw) + uq = r => ts + gw + (uq + uo) = r
OBVIOUS

(* A sum may be taken in any order.                                          *)
LEMMA Associative ==
  ASSUME NEW a \in Nat, NEW b \in Nat, NEW c \in Nat
  PROVE  (a + b) + c = a + (b + c)
OBVIOUS

(* A credit that comes back is a packet that is not in the list any more.    *)
LEMMA Returned ==
  ASSUME NEW l \in Nat, NEW m \in Nat, NEW k \in Nat, NEW a \in Nat, NEW r \in Nat,
         NEW ta \in Nat, NEW tr \in Nat, k <= l, m = l - k, ta + tr = a + r + k
  PROVE  m + ta + tr = l + a + r
OBVIOUS

(* A packet that joins the list is a credit that is used up.                 *)
LEMMA Taken ==
  ASSUME NEW l \in Nat, NEW m \in Nat, NEW a \in Nat, NEW r \in Nat,
         NEW ta \in Nat, NEW tr \in Nat, m <= l + 1, ta + tr + 1 = a + r
  PROVE  m + ta + tr <= l + a + r
OBVIOUS

(* Fewer packets than credits leave room for one.                            *)
LEMMA RoomForOneMore ==
  ASSUME NEW k \in Nat, NEW x \in Nat, k + 1 <= Credit, x = MaxPacket * k
  PROVE  x + MaxPacket <= Ring
<1>1. Credit \in Nat /\ MaxPacket \in Nat /\ Ring = Credit * MaxPacket
  BY TinyTPAssumption DEF Ring
<1>2. x + MaxPacket = (k + 1) * MaxPacket
  BY <1>1
<1>3. (k + 1) * MaxPacket <= Credit * MaxPacket
  BY <1>1
<1> QED
  BY <1>1, <1>2, <1>3

(* Each part of a sum is at most the sum.                                    *)
LEMMA Parts ==
  ASSUME NEW a \in Nat, NEW b \in Nat, NEW c \in Nat, NEW d \in Nat, NEW n \in Nat,
         a + (b + c) + d <= n
  PROVE  a + b <= n
OBVIOUS

(* So is the last of three, and what is left is less.                        *)
LEMMA LastPart ==
  ASSUME NEW a \in Nat, NEW b \in Nat, NEW c \in Nat, NEW n \in Nat, a + b + c <= n
  PROVE  c <= n /\ (1 <= c => a <= n - 1)
OBVIOUS

(* A packet goes where there is room for the longest.                        *)
LEMMA Under ==
  ASSUME NEW y \in Nat, NEW z \in Nat, NEW x \in Nat, NEW n \in Nat,
         NEW p \in Nat, NEW ring \in Nat, y + z <= x, n <= p, x + p <= ring
  PROVE  y + n <= ring
OBVIOUS

(* As many packets as there are credits fill the ring.                       *)
LEMMA RoomForAll ==
  ASSUME NEW y \in Nat, NEW z \in Nat, NEW k \in Nat, NEW s \in Nat, k + s = Credit,
         y + z <= MaxPacket * k
  PROVE  y + MaxPacket * s <= Ring
<1>1. Credit \in Nat /\ MaxPacket \in Nat /\ Ring = Credit * MaxPacket
  BY TinyTPAssumption DEF Ring
<1>2. (k + s) * MaxPacket = MaxPacket * k + MaxPacket * s
  BY <1>1
<1>3. MaxPacket * k \in Nat /\ MaxPacket * s \in Nat
  BY <1>1
<1>4. y <= MaxPacket * k
  BY <1>3
<1> QED
  BY <1>1, <1>2, <1>3, <1>4

-----------------------------------------------------------------------------
(* The two ends.                                                             *)

(* Each end has one peer, and is the peer of it.                             *)
LEMMA Two ==
  ASSUME NEW e \in Ends
  PROVE  /\ Peer(e) \in Ends /\ Peer(e) # e /\ Peer(Peer(e)) = e
         /\ \A p \in Ends : p = e \/ p = Peer(e)
<1>1. IsFiniteSet(Ends \ {e}) /\ Cardinality(Ends \ {e}) = 1
  BY SMTT(30), TinyTPAssumption, FS_RemoveElement
<1>2. PICK p : Ends \ {e} = {p}
  BY <1>1, FS_Singleton
<1>3. p \in Ends /\ p # e /\ \A q \in Ends : q = e \/ q = p
  BY <1>2
<1>4. Peer(e) = p
  BY <1>3 DEF Peer
<1>5. Peer(p) = e
  BY <1>3 DEF Peer
<1> QED
  BY <1>3, <1>4, <1>5

(* Packets hold no more bytes than they can.                                 *)
LEMMA TotalAtMost ==
  ASSUME NEW l \in Seq(1 .. MaxPacket)
  PROVE  Total(l) <= MaxPacket * Len(l)
<1>1. 1 .. MaxPacket \subseteq Nat /\ MaxPacket \in Nat /\ 0 \in Nat
  BY TinyTPAssumption
<1>2. l \in Seq(Nat)
  BY <1>1, SeqMonotonic
<1>3. ASSUME NEW i \in 1 .. Len(l)
      PROVE  0 <= l[i] /\ l[i] <= MaxPacket
  <2>1. l[i] \in 1 .. MaxPacket
    BY ElementOfSeq
  <2> QED
    BY <1>1, <2>1
<1> QED
  BY <1>1, <1>2, <1>3, TotalBounds

-----------------------------------------------------------------------------
(* What PDUs bring and use.                                                  *)

PDU == DataPDU \cup Opening
CreditsOf(w) == [i \in DOMAIN w |-> w[i].credit]
UsesOf(w) == [i \in DOMAIN w |->
                  IF w[i].kind = "data" /\ w[i].bytes # <<>> THEN 1 ELSE 0]

(* They are lists of numbers, as long as the list of PDUs.                   *)
LEMMA ListsOf ==
  ASSUME NEW w \in Seq(PDU)
  PROVE  /\ CreditsOf(w) \in Seq(Nat) /\ Len(CreditsOf(w)) = Len(w)
         /\ UsesOf(w) \in Seq(Nat) /\ Len(UsesOf(w)) = Len(w)
         /\ \A i \in 1 .. Len(w) :
               /\ CreditsOf(w)[i] = w[i].credit
               /\ UsesOf(w)[i] = IF w[i].kind = "data" /\ w[i].bytes # <<>>
                                 THEN 1 ELSE 0
<1>1. Len(w) \in Nat /\ DOMAIN w = 1 .. Len(w) /\ \A i \in 1 .. Len(w) : w[i] \in PDU
  OBVIOUS
<1>2. ASSUME NEW p \in PDU
      PROVE  p.credit \in Nat
  BY DEF PDU, DataPDU, Opening
<1>3. CreditsOf(w) \in [1 .. Len(w) -> Nat]
  BY <1>1, <1>2 DEF CreditsOf
<1>4. UsesOf(w) \in [1 .. Len(w) -> Nat]
  BY <1>1 DEF UsesOf
<1>5. ASSUME NEW f \in [1 .. Len(w) -> Nat]
      PROVE  f \in Seq(Nat) /\ Len(f) = Len(w)
  BY <1>1
<1>6. \A i \in 1 .. Len(w) : CreditsOf(w)[i] = w[i].credit
  BY <1>1 DEF CreditsOf
<1>7. \A i \in 1 .. Len(w) :
         UsesOf(w)[i] = IF w[i].kind = "data" /\ w[i].bytes # <<>> THEN 1 ELSE 0
  BY <1>1 DEF UsesOf
<1> QED
  BY <1>3, <1>4, <1>5, <1>6, <1>7

(* Nothing brings and uses nothing; what is sent counts with the rest.       *)
LEMMA GivenUsed ==
  ASSUME NEW w \in Seq(PDU), NEW v \in Seq(PDU)
  PROVE  /\ Given(w) \in Nat /\ Used(w) \in Nat
         /\ Given(<<>>) = 0 /\ Used(<<>>) = 0
         /\ Given(w \o v) = Given(w) + Given(v)
         /\ Used(w \o v) = Used(w) + Used(v)
<1> DEFINE x == w \o v
<1>0. /\ x \in Seq(PDU) /\ Len(x) = Len(w) + Len(v)
      /\ Len(w) \in Nat /\ Len(v) \in Nat
  OBVIOUS
<1>1. \A i \in 1 .. Len(x) : x[i] = IF i <= Len(w) THEN w[i] ELSE v[i - Len(w)]
  BY <1>0, ConcatProperties
<1> HIDE DEF x
<1>2. ASSUME NEW f \in Seq(Nat), NEW g \in Seq(Nat), NEW h \in Seq(Nat),
             Len(f) = Len(w), Len(g) = Len(v), Len(h) = Len(x),
             \A i \in 1 .. Len(x) : h[i] = IF i <= Len(w) THEN f[i] ELSE g[i - Len(w)]
      PROVE  Total(h) = Total(f) + Total(g)
  <2>1. Len(h) = Len(f) + Len(g)
    BY <1>0, <1>2
  <2>2. \A i \in 1 .. Len(h) :
           (f \o g)[i] = IF i <= Len(f) THEN f[i] ELSE g[i - Len(f)]
    BY <2>1, ConcatProperties
  <2>3. /\ f \o g \in Seq(Nat) /\ Len(f \o g) = Len(h)
        /\ \A i \in 1 .. Len(h) : (f \o g)[i] = h[i]
    BY <1>2, <2>1, <2>2, ConcatProperties
  <2>4. h = f \o g
    BY <2>3, SeqEqual
  <2> QED
    BY <2>4, TotalOfConcat
<1>3. ASSUME NEW i \in 1 .. Len(x)
      PROVE  IF i <= Len(w) THEN i \in 1 .. Len(w) ELSE i - Len(w) \in 1 .. Len(v)
  BY <1>0
<1>4. Total(CreditsOf(x)) = Total(CreditsOf(w)) + Total(CreditsOf(v))
  <2>1. ASSUME NEW i \in 1 .. Len(x)
        PROVE  CreditsOf(x)[i] = IF i <= Len(w) THEN CreditsOf(w)[i] ELSE CreditsOf(v)[i - Len(w)]
    <3>1. CASE i <= Len(w)
      <4>1. x[i] = w[i] /\ i \in 1 .. Len(w)
        BY <3>1, <1>1, <1>3
      <4> QED
        BY <3>1, <4>1, <1>0, ListsOf
    <3>2. CASE ~(i <= Len(w))
      <4>1. x[i] = v[i - Len(w)] /\ i - Len(w) \in 1 .. Len(v)
        BY <3>2, <1>1, <1>3
      <4> QED
        BY <3>2, <4>1, <1>0, ListsOf
    <3> QED
      BY <3>1, <3>2
  <2> QED
    BY <2>1, <1>0, <1>2, ListsOf
<1>5. Total(UsesOf(x)) = Total(UsesOf(w)) + Total(UsesOf(v))
  <2>1. ASSUME NEW i \in 1 .. Len(x)
        PROVE  UsesOf(x)[i] = IF i <= Len(w) THEN UsesOf(w)[i] ELSE UsesOf(v)[i - Len(w)]
    <3>1. CASE i <= Len(w)
      <4>1. x[i] = w[i] /\ i \in 1 .. Len(w)
        BY <3>1, <1>1, <1>3
      <4> QED
        BY <3>1, <4>1, <1>0, ListsOf
    <3>2. CASE ~(i <= Len(w))
      <4>1. x[i] = v[i - Len(w)] /\ i - Len(w) \in 1 .. Len(v)
        BY <3>2, <1>1, <1>3
      <4> QED
        BY <3>2, <4>1, <1>0, ListsOf
    <3> QED
      BY <3>1, <3>2
  <2> QED
    BY <2>1, <1>0, <1>2, ListsOf
<1>6. \A y : Given(y) = Total(CreditsOf(y)) /\ Used(y) = Total(UsesOf(y))
  BY DEF Given, CreditsOf, Used, UsesOf
<1>7. Total(CreditsOf(w)) \in Nat /\ Total(UsesOf(w)) \in Nat
  BY ListsOf, SumsStep
<1>8. CreditsOf(<<>>) = <<>> /\ UsesOf(<<>>) = <<>>
  BY DEF CreditsOf, UsesOf
<1> QED
  BY <1>4, <1>5, <1>6, <1>7, <1>8, TotalOfNone DEF x

(* What one PDU brings and uses.                                             *)
LEMMA GivenUsedByOne ==
  ASSUME NEW p \in PDU
  PROVE  /\ Given(<<p>>) = p.credit
         /\ Used(<<p>>) = IF p.kind = "data" /\ p.bytes # <<>> THEN 1 ELSE 0
<1> DEFINE w == <<p>>
<1>1. w \in Seq(PDU) /\ Len(w) = 1 /\ w[1] = p /\ 1 \in 1 .. 1
  OBVIOUS
<1> HIDE DEF w
<1>2. /\ CreditsOf(w) \in Seq(Nat) /\ Len(CreditsOf(w)) = 1
      /\ CreditsOf(w)[1] = p.credit
      /\ UsesOf(w) \in Seq(Nat) /\ Len(UsesOf(w)) = 1
      /\ UsesOf(w)[1] = IF p.kind = "data" /\ p.bytes # <<>> THEN 1 ELSE 0
  BY <1>1, ListsOf
<1>3. ASSUME NEW f \in Seq(Nat), Len(f) = 1
      PROVE  Total(f) = f[1]
  <2>1. 0 \in 0 .. 1 - 1 /\ 0 + 1 = 1 /\ 1 \in 1 .. 1
    OBVIOUS
  <2>2. f[1] \in Nat
    BY <1>3, <2>1, ElementOfSeq
  <2>3. Sums(f)[0] = 0 /\ Sums(f)[0 + 1] = Sums(f)[0] + f[0 + 1]
    BY <1>3, <2>1, SumsStep
  <2> QED
    BY <1>3, <2>1, <2>3, <2>2 DEF Total
<1>4. Total(CreditsOf(w)) = p.credit
  BY <1>2, <1>3
<1>5. Total(UsesOf(w)) = IF p.kind = "data" /\ p.bytes # <<>> THEN 1 ELSE 0
  BY <1>2, <1>3
<1>6. \A y : Given(y) = Total(CreditsOf(y)) /\ Used(y) = Total(UsesOf(y))
  BY DEF Given, CreditsOf, Used, UsesOf
<1> QED
  BY <1>4, <1>5, <1>6 DEF w

(* What the first PDU brings and uses is gone when it has arrived.           *)
LEMMA GivenUsedByFirst ==
  ASSUME NEW w \in Seq(PDU), w # <<>>
  PROVE  /\ Tail(w) \in Seq(PDU) /\ Head(w) = w[1] /\ Head(w) \in PDU
         /\ Given(w) = Head(w).credit + Given(Tail(w))
         /\ Used(w) = (IF Head(w).kind = "data" /\ Head(w).bytes # <<>> THEN 1 ELSE 0)
                          + Used(Tail(w))
<1>1. /\ Tail(w) \in Seq(PDU) /\ Head(w) = w[1] /\ Head(w) \in PDU
      /\ w = <<Head(w)>> \o Tail(w)
  OBVIOUS
<1>2. <<Head(w)>> \in Seq(PDU)
  BY <1>1
<1>3. /\ Given(<<Head(w)>> \o Tail(w)) = Given(<<Head(w)>>) + Given(Tail(w))
      /\ Used(<<Head(w)>> \o Tail(w)) = Used(<<Head(w)>>) + Used(Tail(w))
  BY <1>1, <1>2, GivenUsed
<1>4. /\ Given(<<Head(w)>>) = Head(w).credit
      /\ Used(<<Head(w)>>) =
            IF Head(w).kind = "data" /\ Head(w).bytes # <<>> THEN 1 ELSE 0
  BY <1>1, GivenUsedByOne
<1>5. Given(w) = Given(<<Head(w)>>) + Given(Tail(w))
  BY <1>1, <1>3
<1>6. Used(w) = Used(<<Head(w)>>) + Used(Tail(w))
  BY <1>1, <1>3
<1> QED
  BY <1>1, <1>4, <1>5, <1>6

-----------------------------------------------------------------------------
(* The steps of TinyTP.                                                      *)

States == [avail : Nat, remote : Nat, send : Nat, out : Seq(DataPDU)]

(* From s to t an end has sent PDUs: what it gave it expects, what it used   *)
(* it has no more.                                                           *)
Sends(s, t) ==
    /\ t \in States
    /\ t.remote + Given(s.out) = s.remote + Given(t.out)
    /\ t.send + Used(t.out) = s.send + Used(s.out)

(* What an end sends are PDUs.                                               *)
LEMMA OutIsPDUs ==
  ASSUME NEW w \in Seq(DataPDU)
  PROVE  w \in Seq(PDU) /\ Given(w) \in Nat /\ Used(w) \in Nat
<1>1. DataPDU \subseteq PDU
  BY DEF PDU
<1>2. w \in Seq(PDU)
  BY <1>1, SeqMonotonic
<1> QED
  BY <1>2, GivenUsed

(* An end that sends, and sends again, has sent.                             *)
LEMMA SendsTwice ==
  ASSUME NEW s \in States, NEW t, NEW u, Sends(s, t), Sends(t, u)
  PROVE  Sends(s, u)
<1>1. t \in States /\ u \in States
  BY DEF Sends
<1>2. /\ s.out \in Seq(DataPDU) /\ t.out \in Seq(DataPDU) /\ u.out \in Seq(DataPDU)
      /\ s.remote \in Nat /\ t.remote \in Nat /\ u.remote \in Nat
      /\ s.send \in Nat /\ t.send \in Nat /\ u.send \in Nat
  BY <1>1 DEF States
<1>3. /\ Given(s.out) \in Nat /\ Given(t.out) \in Nat /\ Given(u.out) \in Nat
      /\ Used(s.out) \in Nat /\ Used(t.out) \in Nat /\ Used(u.out) \in Nat
  BY <1>2, OutIsPDUs
<1>4. /\ t.remote + Given(s.out) = s.remote + Given(t.out)
      /\ t.send + Used(t.out) = s.send + Used(s.out)
      /\ u.remote + Given(t.out) = t.remote + Given(u.out)
      /\ u.send + Used(u.out) = t.send + Used(t.out)
  BY DEF Sends
<1>5. u.remote + Given(s.out) = s.remote + Given(u.out)
  <2>1. \A a, b, c, x, y, z \in Nat :
           b + x = a + y /\ c + y = b + z => c + x = a + z
    OBVIOUS
  <2> DEFINE a == s.remote
             b == t.remote
             c == u.remote
             x == Given(s.out)
             y == Given(t.out)
             z == Given(u.out)
  <2>2. /\ a \in Nat /\ b \in Nat /\ c \in Nat /\ x \in Nat /\ y \in Nat
        /\ z \in Nat /\ b + x = a + y /\ c + y = b + z
    BY <1>2, <1>3, <1>4
  <2> HIDE DEF a, b, c, x, y, z
  <2>3. c + x = a + z
    BY <2>1, <2>2
  <2> QED
    BY <2>3 DEF a, c, x, z
<1>6. u.send + Used(u.out) = s.send + Used(s.out)
  BY <1>2, <1>3, <1>4
<1> QED
  BY <1>1, <1>5, <1>6 DEF Sends

(* An end that does nothing has sent nothing.                                *)
LEMMA SendsNothing ==
  ASSUME NEW s \in States
  PROVE  Sends(s, s)
BY DEF Sends

(* A PDU without data takes all the credit that is available.                *)
LEMMA SendDatalessIs ==
  ASSUME NEW s \in States
  PROVE  /\ Sends(s, SendDataless(s))
         /\ SendDataless(s).avail + SendDataless(s).remote = s.avail + s.remote
<1> DEFINE p == Data(s.avail, <<>>)
           t == SendDataless(s)
<1>1. /\ s.avail \in Nat /\ s.remote \in Nat /\ s.send \in Nat
      /\ s.out \in Seq(DataPDU)
  BY DEF States
<1>2. <<>> \in Bytes
  BY TinyTPAssumption DEF Bytes
<1>3. p \in DataPDU /\ p.credit = s.avail /\ p.bytes = <<>>
  BY <1>1, <1>2 DEF Data, DataPDU
<1>4. p \in PDU
  BY <1>3 DEF PDU
<1>5. /\ t.avail = 0 /\ t.remote = s.remote + s.avail /\ t.send = s.send
      /\ t.out = Append(s.out, p)
  BY DEF SendDataless, States
<1>6. t.out = s.out \o <<p>> /\ t.out \in Seq(DataPDU)
  <2> HIDE DEF p, t
  <2>1. Append(s.out, p) = s.out \o <<p>> /\ Append(s.out, p) \in Seq(DataPDU)
    BY SMTT(30), <1>1, <1>3
  <2> QED
    BY <2>1, <1>5
<1>7. t \in States
  <2>1. Append(s.out, Data(s.avail, <<>>)) \in Seq(DataPDU)
    BY <1>5, <1>6
  <2>2. s.remote + s.avail \in Nat
    BY <1>1
  <2> QED
    BY <2>1, <2>2, <1>1 DEF SendDataless, States
<1>8. Given(<<p>>) = s.avail /\ Used(<<p>>) = 0
  <2> HIDE DEF p
  <2> QED
    BY <1>3, <1>4, GivenUsedByOne
<1>9. Given(t.out) = Given(s.out) + s.avail /\ Used(t.out) = Used(s.out) + 0
  <2>1. s.out \in Seq(PDU) /\ <<p>> \in Seq(PDU)
    BY <1>1, <1>4, OutIsPDUs
  <2> HIDE DEF p, t
  <2> QED
    BY <2>1, <1>6, <1>8, GivenUsed
<1>10. Given(s.out) \in Nat /\ Used(s.out) \in Nat
  BY <1>1, OutIsPDUs
<1> HIDE DEF t, p
<1>11. /\ t.remote + Given(s.out) = s.remote + Given(t.out)
       /\ t.send + Used(t.out) = s.send + Used(s.out)
       /\ t.avail + t.remote = s.avail + s.remote
  BY <1>1, <1>5, <1>9, <1>10
<1> QED
  BY <1>7, <1>11 DEF Sends, t

(* Whether credit goes back or not, none is lost.                            *)
LEMMA CheckTheQueuesIs ==
  ASSUME NEW s \in States
  PROVE  /\ Sends(s, CheckTheQueues(s))
         /\ CheckTheQueues(s).avail + CheckTheQueues(s).remote = s.avail + s.remote
BY SendDatalessIs, SendsNothing DEF CheckTheQueues

(* A packet that was read brings one credit.                                 *)
LEMMA TTPRxDoneIs ==
  ASSUME NEW s \in States
  PROVE  /\ Sends(s, TTPRxDone(s))
         /\ TTPRxDone(s).avail + TTPRxDone(s).remote = s.avail + s.remote + 1
<1> DEFINE t == [s EXCEPT !.avail = @ + 1]
<1>1. /\ t \in States /\ t.avail = s.avail + 1 /\ t.remote = s.remote
      /\ t.send = s.send /\ t.out = s.out /\ s.avail \in Nat /\ s.remote \in Nat
  BY DEF States
<1>2. Sends(s, t)
  BY <1>1 DEF Sends
<1>3. TTPRxDone(s) = CheckTheQueues(t)
  BY DEF TTPRxDone
<1> HIDE DEF t
<1>4. Sends(t, CheckTheQueues(t))
  BY <1>1, CheckTheQueuesIs
<1>5. Sends(s, TTPRxDone(s))
  BY <1>2, <1>3, <1>4, SendsTwice
<1>6. TTPRxDone(s).avail + TTPRxDone(s).remote = t.avail + t.remote
  BY <1>1, <1>3, CheckTheQueuesIs
<1>7. t.avail + t.remote = s.avail + s.remote + 1
  BY <1>1
<1> QED
  BY <1>5, <1>6, <1>7

-----------------------------------------------------------------------------
(* The packets of a write.                                                   *)

(* Bytes are cut into packets that are neither empty nor too long.           *)
LEMMA PacketsAre ==
  ASSUME NEW buf \in Seq(Nat)
  PROVE  /\ Packets(buf) \in Seq(Bytes)
         /\ \A i \in 1 .. Len(Packets(buf)) : Packets(buf)[i] # <<>>
<1> DEFINE L == Len(buf)
           M == MaxPacket
           N == (L + M - 1) \div M
           F(i) == SubSeq(buf, (i - 1) * M + 1, Lesser(i * M, L))
<1>1. L \in Nat /\ M \in Nat \ {0} /\ buf \in [1 .. L -> Nat]
  BY TinyTPAssumption
<1>2. Packets(buf) = [i \in 1 .. N |-> F(i)]
  BY DEF Packets
<1>3. N \in Nat /\ N * M <= L + M - 1
  <2> HIDE DEF L, M
  <2>1. L + M - 1 \in Nat
    BY <1>1
  <2> QED
    BY <1>1, <2>1
<1>4. ASSUME NEW i \in 1 .. N
      PROVE  F(i) \in Bytes /\ F(i) # <<>>
  <2> DEFINE first == (i - 1) * M + 1
             final == Lesser(i * M, L)
  <2> HIDE DEF L, M, N
  <2>1. i \in Nat /\ i >= 1 /\ i <= N
    BY <1>3
  <2>2. (i - 1) * M \in Nat /\ i * M = (i - 1) * M + M
    BY <2>1, <1>1
  <2>3. i * M <= N * M
    BY <2>1, <1>1, <1>3
  <2>4. (i - 1) * M + 1 <= L
    BY <1>1, <1>3, <2>2, <2>3
  <2>5. /\ first \in 1 .. L /\ final \in 1 .. L /\ first <= final
        /\ final - first + 1 <= M
    BY <1>1, <2>2, <2>4 DEF Lesser
  <2> HIDE DEF first, final
  <2>6. \A j \in first .. final : buf[j] \in Nat
    BY <1>1, <2>5
  <2>7. /\ SubSeq(buf, first, final) \in Seq(Nat)
        /\ Len(SubSeq(buf, first, final)) = final - first + 1
    BY <2>5, <2>6, SubSeqProperties
  <2>8. final - first + 1 >= 1
    BY <2>5
  <2>9. SubSeq(buf, first, final) # <<>>
    <3> DEFINE part == SubSeq(buf, first, final)
    <3>1. part \in Seq(Nat) /\ Len(part) = final - first + 1
      BY <2>7
    <3> HIDE DEF part
    <3>2. part # <<>>
      BY <2>8, <3>1
    <3> QED
      BY <3>2 DEF part
  <2> QED
    BY <2>5, <2>7, <2>9 DEF first, final, M, L, Bytes
<1> HIDE DEF F, N
<1>5. Packets(buf) \in [1 .. N -> Bytes] /\ \A i \in 1 .. N : Packets(buf)[i] # <<>>
  BY <1>2, <1>4
<1>6. Packets(buf) \in Seq(Bytes) /\ Len(Packets(buf)) = N
  BY <1>3, <1>5
<1> QED
  BY <1>5, <1>6

(* Packets of data take along the credit that is available and use one       *)
(* credit each.                                                              *)
LEMMA DoDataRequestIs ==
  ASSUME NEW s \in States, NEW packets \in Seq(Bytes), Len(packets) <= s.send,
         \A i \in 1 .. Len(packets) : packets[i] # <<>>
  PROVE  /\ Sends(s, DoDataRequest(s, packets))
         /\ DoDataRequest(s, packets).avail + DoDataRequest(s, packets).remote
                = s.avail + s.remote
<1>1. CASE packets = <<>>
  BY <1>1, SendsNothing DEF DoDataRequest
<1>2. CASE packets # <<>>
  <2> DEFINE n == Len(packets)
             v == [i \in DOMAIN packets |->
                       Data(IF i = 1 THEN s.avail ELSE 0, packets[i])]
             t == DoDataRequest(s, packets)
  <2>1. /\ n \in Nat /\ n >= 1 /\ DOMAIN packets = 1 .. n
        /\ \A i \in 1 .. n : packets[i] \in Bytes
    BY <1>2
  <2>2. /\ s.avail \in Nat /\ s.remote \in Nat /\ s.send \in Nat
        /\ s.out \in Seq(DataPDU)
    BY DEF States
  <2>3. ASSUME NEW i \in 1 .. n
        PROVE  /\ v[i] \in DataPDU /\ v[i].kind = "data" /\ v[i].bytes = packets[i]
               /\ v[i].credit = IF i = 1 THEN s.avail ELSE 0
    BY <2>1, <2>2 DEF Data, DataPDU
  <2>4. v \in Seq(DataPDU) /\ Len(v) = n
    <3>1. DOMAIN v = 1 .. n /\ v \in [1 .. n -> DataPDU]
      BY <2>1, <2>3
    <3> HIDE DEF v, n
    <3> QED
      BY <2>1, <3>1
  <2>5. v \in Seq(PDU) /\ s.out \in Seq(PDU)
    BY <2>2, <2>4, OutIsPDUs
  <2>6. /\ t.avail = 0 /\ t.remote = s.remote + s.avail /\ t.send = s.send - n
        /\ t.out = s.out \o v
    BY <1>2 DEF DoDataRequest, States
  <2>7. t \in States
    <3>1. s.out \o v \in Seq(DataPDU)
      <4> HIDE DEF v
      <4> QED
        BY <2>2, <2>4
    <3>2. s.remote + s.avail \in Nat /\ s.send - n \in Nat
      BY <2>1, <2>2
    <3>3. t = [s EXCEPT !.avail = 0, !.remote = s.remote + s.avail,
                        !.send = s.send - n, !.out = s.out \o v]
      BY <1>2 DEF DoDataRequest
    <3> HIDE DEF t, v, n
    <3> QED
      BY <2>2, <3>1, <3>2, <3>3 DEF States
  <2> HIDE DEF t
  <2>8. Given(v) = s.avail
    <3> DEFINE c == CreditsOf(v)
    <3>1. /\ c \in Seq(Nat) /\ Len(c) = n
          /\ \A i \in 1 .. n : c[i] = IF i = 1 THEN s.avail ELSE 0
      <4> HIDE DEF v
      <4> QED
        BY <2>3, <2>4, <2>5, ListsOf
    <3> HIDE DEF c, v, n
    <3>2. c # <<>> /\ c[1] = s.avail
      BY <2>1, <3>1
    <3>3. /\ Tail(c) \in Seq(Nat) /\ Len(Tail(c)) = n - 1
          /\ \A i \in 1 .. Len(Tail(c)) : Tail(c)[i] = c[i + 1]
      BY <3>1, <3>2, HeadTailProperties
    <3>4. ASSUME NEW i \in 1 .. Len(Tail(c))
          PROVE  0 <= Tail(c)[i] /\ Tail(c)[i] <= 0
      <4>1. i + 1 \in 1 .. n /\ i + 1 # 1
        BY <2>1, <3>3
      <4> QED
        BY <4>1, <3>1, <3>3
    <3>5. Total(Tail(c)) <= 0 * Len(Tail(c)) /\ Total(Tail(c)) \in Nat
      BY <3>3, <3>4, TotalBounds, SumsStep
    <3>6. Total(Tail(c)) = 0
      BY <2>1, <3>3, <3>5
    <3>7. Total(c) = s.avail
      BY <2>2, <3>1, <3>2, <3>6, TotalOfTail
    <3> QED
      BY <3>7 DEF c, Given, CreditsOf
  <2>9. Used(v) = n
    <3> DEFINE u == UsesOf(v)
    <3>1. \A i \in 1 .. n : v[i].kind = "data" /\ v[i].bytes # <<>>
      BY ZenonT(30), <2>3
    <3> HIDE DEF v, n
    <3>2. u \in Seq(Nat) /\ Len(u) = n /\ \A i \in 1 .. n : u[i] = 1
      BY <3>1, <2>4, <2>5, ListsOf
    <3> HIDE DEF u
    <3>3. \A i \in 1 .. Len(u) : 1 <= u[i] /\ u[i] <= 1
      BY <3>2
    <3>4. 1 * Len(u) <= Total(u) /\ Total(u) <= 1 * Len(u) /\ Total(u) \in Nat
      BY <3>2, <3>3, TotalBounds, SumsStep
    <3>5. Total(u) = n
      BY <2>1, <3>2, <3>4
    <3> QED
      BY <3>5 DEF u, Used, UsesOf
  <2>10. /\ Given(t.out) = Given(s.out) + s.avail /\ Used(t.out) = Used(s.out) + n
         /\ Given(s.out) \in Nat /\ Used(s.out) \in Nat
    <3> HIDE DEF v, n
    <3> QED
      BY <2>5, <2>6, <2>8, <2>9, GivenUsed
  <2> HIDE DEF v, n
  <2>11. /\ t.remote + Given(s.out) = s.remote + Given(t.out)
         /\ t.avail + t.remote = s.avail + s.remote
    BY <2>2, <2>6, <2>10
  <2>12. t.send + Used(t.out) = s.send + Used(s.out)
    <3>1. \A a, b, c \in Nat : (a - b) + (c + b) = a + c
      OBVIOUS
    <3> QED
      BY <3>1, <2>1, <2>2, <2>6, <2>10
  <2> QED
    BY <2>7, <2>11, <2>12 DEF t, Sends
<1> QED
  BY <1>1, <1>2

(* So does a write, whatever part of it finds credit.                        *)
LEMMA WriteIs ==
  ASSUME NEW s \in States, NEW buf \in Seq(Nat)
  PROVE  /\ Sends(s, Write(s, buf))
         /\ Write(s, buf).avail + Write(s, buf).remote = s.avail + s.remote
<1> DEFINE n == Lesser(s.send, Len(Packets(buf)))
           part == SubSeq(Packets(buf), 1, n)
<1>1. s.send \in Nat /\ Len(Packets(buf)) \in Nat
  BY PacketsAre DEF States
<1>2. n \in 0 .. Len(Packets(buf)) /\ n <= s.send
  BY <1>1 DEF Lesser
<1>3. \A i \in 1 .. n : Packets(buf)[i] \in Bytes /\ Packets(buf)[i] # <<>>
  <2> HIDE DEF n
  <2> QED
    BY <1>1, <1>2, PacketsAre
<1>4. /\ part \in Seq(Bytes) /\ Len(part) = n
      /\ \A i \in 1 .. n : part[i] = Packets(buf)[i]
  <2> HIDE DEF n
  <2>1. 1 \in Int /\ n \in Int /\ \A i \in 1 .. n : Packets(buf)[i] \in Bytes
    BY <1>2, <1>3
  <2>2. n - 1 + 1 = n /\ (IF 1 <= n THEN n - 1 + 1 ELSE 0) = n
        /\ \A i \in 1 .. n : 1 + i - 1 = i
    BY <1>2
  <2> QED
    BY <2>1, <2>2, SubSeqProperties
<1>5. Write(s, buf) = DoDataRequest(s, part)
  BY DEF Write
<1> HIDE DEF n, part
<1> QED
  BY <1>2, <1>3, <1>4, <1>5, DoDataRequestIs

-----------------------------------------------------------------------------
(* Packets that are read, and the list of their sizes.                       *)

(* Packets that were read bring a credit each.                               *)
LEMMA PacketsReadIs ==
  ASSUME NEW s \in States, NEW n \in Nat
  PROVE  /\ Sends(s, PacketsRead(s, n))
         /\ PacketsRead(s, n).avail + PacketsRead(s, n).remote
                = s.avail + s.remote + n
<1> DEFINE Solves(f, m) ==
       f = [i \in 0 .. m |-> IF i = 0 THEN s ELSE TTPRxDone(f[i - 1])]
<1>1. \E f : Solves(f, n)
  <2> DEFINE T == {m \in 0 .. n : \E f : Solves(f, m)}
  <2>1. 0 \in T
    <3> DEFINE f == [i \in 0 .. 0 |-> s]
    <3>1. Solves(f, 0)
      OBVIOUS
    <3> HIDE DEF f
    <3>2. \E g : Solves(g, 0)
      BY <3>1
    <3> QED
      BY <3>2
  <2>2. ASSUME NEW m \in 0 .. n - 1, m \in T
        PROVE  m + 1 \in T
    <3>1. PICK f : Solves(f, m)
      BY <2>2
    <3> DEFINE g == [i \in 0 .. m + 1 |-> IF i = m + 1 THEN TTPRxDone(f[m]) ELSE f[i]]
    <3>2. ASSUME NEW i \in 0 .. m + 1
          PROVE  g[i] = IF i = 0 THEN s ELSE TTPRxDone(g[i - 1])
      <4>1. CASE i = m + 1
        BY <4>1
      <4>2. CASE i # m + 1
        <5>1. i \in 0 .. m /\ g[i] = f[i]
          BY <4>2
        <5>2. f[i] = IF i = 0 THEN s ELSE TTPRxDone(f[i - 1])
          BY <3>1, <5>1
        <5>3. i # 0 => g[i - 1] = f[i - 1]
          BY <5>1
        <5> QED
          BY <5>1, <5>2, <5>3
      <4> QED
        BY <4>1, <4>2
    <3>3. Solves(g, m + 1)
      BY <3>2
    <3>4. m + 1 \in 0 .. n
      OBVIOUS
    <3> HIDE DEF g
    <3> QED
      BY <3>3, <3>4
  <2> HIDE DEF T
  <2>3. \A m \in 0 .. n : m \in T
    BY <2>1, <2>2, Induction
  <2>4. n \in T
    BY <2>3
  <2> QED
    BY <2>4 DEF T
<1> DEFINE done == CHOOSE f : Solves(f, n)
<1>2. Solves(done, n)
  BY <1>1
<1>3. PacketsRead(s, n) = done[n]
  BY DEF PacketsRead
<1> HIDE DEF done
<1> DEFINE T == {k \in 0 .. n : /\ Sends(s, done[k])
                                /\ done[k].avail + done[k].remote
                                       = s.avail + s.remote + k}
<1>4. 0 \in T
  <2>1. done[0] = s
    BY <1>2
  <2>2. s.avail \in Nat /\ s.remote \in Nat
    BY DEF States
  <2> QED
    BY <2>1, <2>2, SendsNothing
<1>5. ASSUME NEW k \in 0 .. n - 1, k \in T
      PROVE  k + 1 \in T
  <2>1. done[k + 1] = TTPRxDone(done[k])
    <3>1. k + 1 \in 0 .. n /\ k + 1 # 0 /\ (k + 1) - 1 = k
      OBVIOUS
    <3> QED
      BY <1>2, <3>1
  <2>2. /\ Sends(s, done[k]) /\ done[k] \in States
        /\ done[k].avail + done[k].remote = s.avail + s.remote + k
    BY <1>5 DEF Sends
  <2>3. /\ Sends(done[k], done[k + 1])
        /\ done[k + 1].avail + done[k + 1].remote = done[k].avail + done[k].remote + 1
    BY <2>1, <2>2, TTPRxDoneIs
  <2>4. Sends(s, done[k + 1])
    BY <2>2, <2>3, SendsTwice
  <2>5. s.avail \in Nat /\ s.remote \in Nat
    BY DEF States
  <2>6. done[k + 1].avail + done[k + 1].remote = s.avail + s.remote + (k + 1)
    BY <2>2, <2>3, <2>5
  <2> QED
    BY <2>4, <2>6
<1> HIDE DEF T
<1>6. \A k \in 0 .. n : k \in T
  BY <1>4, <1>5, Induction
<1>7. n \in T
  BY <1>6
<1> QED
  BY <1>3, <1>7 DEF T

(* The packets that are consumed are as many as the bytes make up.           *)
LEMMA ConsumedIs ==
  ASSUME NEW l \in Seq(1 .. MaxPacket), NEW n \in Nat
  PROVE  /\ l \in Seq(Nat) /\ Consumed(l, n) \in 0 .. Len(l)
         /\ Sums(l)[Consumed(l, n)] <= n
         /\ Consumed(l, n) < Len(l) => n < Sums(l)[Consumed(l, n) + 1]
<1> DEFINE whole == {k \in 0 .. Len(l) : Sums(l)[k] <= n}
<1>1. l \in Seq(Nat)
  <2>1. 1 .. MaxPacket \subseteq Nat
    OBVIOUS
  <2> QED
    BY <2>1, SeqMonotonic
<1>2. Len(l) \in Nat /\ Sums(l)[0] = 0 /\ \A k \in 0 .. Len(l) : Sums(l)[k] \in Nat
  BY <1>1, SumsStep
<1>3. whole \in SUBSET (0 .. Len(l)) /\ 0 \in whole
  BY <1>2
<1>4. Consumed(l, n) = CHOOSE k \in whole : \A j \in whole : j <= k
  BY DEF Consumed
<1> HIDE DEF whole
<1>5. \E k \in whole : \A j \in whole : j <= k
  BY <1>2, <1>3, Largest
<1>6. Consumed(l, n) \in whole /\ \A j \in whole : j <= Consumed(l, n)
  BY <1>4, <1>5
<1>7. ASSUME Consumed(l, n) < Len(l)
      PROVE  n < Sums(l)[Consumed(l, n) + 1]
  <2>1. Consumed(l, n) \in 0 .. Len(l)
    BY <1>3, <1>6
  <2>2. Consumed(l, n) + 1 \in 0 .. Len(l) /\ ~(Consumed(l, n) + 1 <= Consumed(l, n))
    BY <1>2, <1>7, <2>1
  <2>3. Consumed(l, n) + 1 \notin whole
    BY <1>6, <2>2
  <2>4. ~(Sums(l)[Consumed(l, n) + 1] <= n)
    BY <2>2, <2>3 DEF whole
  <2>5. Sums(l)[Consumed(l, n) + 1] \in Nat
    BY <1>2, <2>2
  <2> QED
    BY <2>4, <2>5
<1>8. Consumed(l, n) \in 0 .. Len(l) /\ Sums(l)[Consumed(l, n)] <= n
  BY <1>6 DEF whole
<1> QED
  BY <1>1, <1>7, <1>8

(* What is left in the list is what has not been read.                       *)
LEMMA ShrunkIs ==
  ASSUME NEW l \in Seq(1 .. MaxPacket), NEW n \in Nat
  PROVE  /\ Shrunk(l, n) \in Seq(1 .. MaxPacket)
         /\ Len(Shrunk(l, n)) = Len(l) - Consumed(l, n)
         /\ n <= Total(l) => Total(Shrunk(l, n)) = Total(l) - n
<1> DEFINE k == Consumed(l, n)
           L == Len(l)
<1>1. /\ l \in Seq(Nat) /\ k \in 0 .. L /\ L \in Nat
      /\ Sums(l)[k] <= n
      /\ k < L => n < Sums(l)[k + 1]
  BY ConsumedIs
<1>2. CASE k = L
  <2>1. Shrunk(l, n) = <<>>
    BY <1>1, <1>2 DEF Shrunk
  <2>2. Total(l) <= n /\ Total(l) \in Nat
    <3>1. Total(l) = Sums(l)[k]
      BY <1>2 DEF Total
    <3> QED
      BY <1>1, <3>1, SumsStep
  <2>3. n <= Total(l) => 0 = Total(l) - n
    BY <2>2
  <2>4. <<>> \in Seq(1 .. MaxPacket) /\ Len(<<>>) = L - k
    BY <1>1, <1>2
  <2> QED
    BY <2>1, <2>3, <2>4, TotalOfNone
<1>3. CASE k # L
  <2> DEFINE x == Sums(l)[k + 1] - n
             r == SubSeq(l, k + 2, L)
  <2>1. k \in 0 .. L - 1 /\ k < L /\ k + 1 \in 0 .. L /\ k + 1 \in 1 .. L
    BY <1>1, <1>3
  <2>2. Shrunk(l, n) = <<x>> \o r
    BY <2>1 DEF Shrunk
  <2>3. /\ Sums(l)[k + 1] = Sums(l)[k] + l[k + 1]
        /\ Sums(l)[k] \in Nat /\ Sums(l)[k + 1] \in Nat
    BY <1>1, <2>1, SumsStep
  <2>4. l[k + 1] \in 1 .. MaxPacket
    BY <2>1, ElementOfSeq
  <2>5. x \in 1 .. MaxPacket
    <3>1. \A a, b, c \in Nat :
             b \in 1 .. MaxPacket /\ a <= c /\ c < a + b => (a + b) - c \in 1 .. MaxPacket
      BY TinyTPAssumption
    <3>2. l[k + 1] \in Nat
      BY <2>4
    <3> QED
      BY <3>1, <3>2, <1>1, <2>1, <2>3, <2>4
  <2>6. /\ r \in Seq(1 .. MaxPacket) /\ Len(r) = L - (k + 1)
        /\ \A i \in 1 .. L - (k + 1) : r[i] = l[(k + 1) + i]
    <3> HIDE DEF k, L
    <3>1. \A i \in k + 2 .. L : i \in 1 .. Len(l)
      BY <1>1 DEF L
    <3>2. k + 2 \in Int /\ L \in Int /\ \A i \in k + 2 .. L : l[i] \in 1 .. MaxPacket
      <4>1. ASSUME NEW i \in k + 2 .. L
            PROVE  l[i] \in 1 .. MaxPacket
        <5>1. i \in 1 .. Len(l)
          BY <3>1
        <5> QED
          BY <5>1, ElementOfSeq
      <4>2. k + 2 \in Int /\ L \in Int
        BY <1>1
      <4> QED
        BY <4>1, <4>2
    <3>3. /\ (IF k + 2 <= L THEN L - (k + 2) + 1 ELSE 0) = L - (k + 1)
          /\ L - (k + 2) + 1 = L - (k + 1)
          /\ \A i \in Int : (k + 2) + i - 1 = (k + 1) + i
      BY <1>1, <2>1
    <3>4. /\ r \in Seq(1 .. MaxPacket)
          /\ Len(r) = IF k + 2 <= L THEN L - (k + 2) + 1 ELSE 0
          /\ \A i \in 1 .. L - (k + 2) + 1 : r[i] = l[(k + 2) + i - 1]
      BY <3>2, SubSeqProperties
    <3>5. ASSUME NEW i \in 1 .. L - (k + 1)
          PROVE  r[i] = l[(k + 1) + i]
      <4>1. i \in 1 .. L - (k + 2) + 1 /\ (k + 2) + i - 1 = (k + 1) + i
        BY <1>1, <3>3
      <4> QED
        BY <3>4, <4>1
    <3> QED
      BY <3>3, <3>4, <3>5
  <2> HIDE DEF k, L, x, r
  <2>7. r \in Seq(Nat) /\ x \in Nat /\ Total(r) \in Nat
    <3>1. 1 .. MaxPacket \subseteq Nat
      OBVIOUS
    <3>2. r \in Seq(Nat)
      BY <2>6, <3>1, SeqMonotonic
    <3> QED
      BY <2>5, <3>1, <3>2, SumsStep
  <2>8. Total(l) = Sums(l)[k + 1] + Total(r)
    <3>1. /\ k + 1 \in Nat /\ L - (k + 1) \in Nat /\ (k + 1) + (L - (k + 1)) <= Len(l)
          /\ L - (k + 1) <= Len(r) /\ (k + 1) + (L - (k + 1)) = L
      BY <1>1, <2>1, <2>6 DEF L
    <3>2. \A i \in 0 .. L - (k + 1) :
             Sums(l)[(k + 1) + i] = Sums(l)[k + 1] + Sums(r)[i]
      BY ZenonT(30), <1>1, <2>6, <2>7, <3>1, SumsOfAPiece
    <3>3. L - (k + 1) \in 0 .. L - (k + 1)
      BY <3>1
    <3>4. Sums(l)[L] = Sums(l)[k + 1] + Sums(r)[Len(r)]
      BY <2>6, <3>1, <3>2, <3>3
    <3> QED
      BY <3>4 DEF Total, L
  <2>9. <<x>> \in Seq(1 .. MaxPacket) /\ <<x>> \in Seq(Nat) /\ Len(<<x>>) = 1
    BY <2>5, <2>7
  <2>10. /\ <<x>> \o r \in Seq(1 .. MaxPacket)
         /\ Len(<<x>> \o r) = 1 + Len(r)
    BY <2>6, <2>9, ConcatProperties
  <2>11. Total(<<x>> \o r) = x + Total(r)
    BY <2>7, <2>9, TotalOfConcat, TotalOfOne
  <2>12. 1 + Len(r) = L - k
    BY <1>1, <2>1, <2>6
  <2>13. x + Total(r) = Total(l) - n
    <3>1. \A a, b, c \in Nat : (a - c) + b = (a + b) - c
      OBVIOUS
    <3> QED
      BY <3>1, <2>3, <2>7, <2>8 DEF x
  <2> QED
    BY <2>2, <2>10, <2>11, <2>12, <2>13 DEF k, L
<1> QED
  BY <1>2, <1>3

-----------------------------------------------------------------------------
(* An end that takes a PDU, or none, and sends some.                         *)

(* What is sent is data, behind the data that is on its way.                 *)
LEMMA DataBehindData ==
  ASSUME NEW w \in Seq(PDU), NEW v \in Seq(DataPDU), NEW k \in 1 .. 2,
         AllData(w, k), k = 2 => w # <<>>
  PROVE  /\ w \o v \in Seq(PDU) /\ AllData(w \o v, k)
         /\ w # <<>> => w \o v # <<>> /\ (w \o v)[1] = w[1]
<1>1. v \in Seq(PDU) /\ Len(w) \in Nat /\ Len(v) \in Nat /\ (w # <<>> => Len(w) >= 1)
  BY OutIsPDUs
<1>2. /\ w \o v \in Seq(PDU) /\ Len(w \o v) = Len(w) + Len(v)
      /\ \A i \in 1 .. Len(w) + Len(v) :
            (w \o v)[i] = IF i <= Len(w) THEN w[i] ELSE v[i - Len(w)]
  BY <1>1, ConcatProperties
<1>3. ASSUME NEW i \in k .. Len(w \o v)
      PROVE  (w \o v)[i] \in DataPDU
  <2>1. i \in 1 .. Len(w) + Len(v)
    BY <1>1, <1>2
  <2>2. CASE i <= Len(w)
    <3>1. i \in k .. Len(w)
      BY <2>2, <1>1
    <3> QED
      BY <2>1, <2>2, <3>1, <1>2 DEF AllData
  <2>3. CASE ~(i <= Len(w))
    <3>1. i - Len(w) \in 1 .. Len(v)
      BY <2>1, <2>3, <1>1
    <3>2. v[i - Len(w)] \in DataPDU
      BY <3>1, ElementOfSeq
    <3> QED
      BY <2>1, <2>3, <3>2, <1>2
  <2> QED
    BY <2>2, <2>3
<1>4. ASSUME w # <<>>
      PROVE  w \o v # <<>> /\ (w \o v)[1] = w[1]
  <2>1. 1 \in 1 .. Len(w) + Len(v) /\ 1 <= Len(w) /\ Len(w \o v) >= 1
    BY <1>1, <1>2, <1>4
  <2>2. (w \o v)[1] = w[1]
    BY <2>1, <1>2
  <2>3. w \o v # <<>>
    <3> DEFINE x == w \o v
    <3>1. x \in Seq(PDU) /\ Len(x) >= 1
      BY <1>2, <2>1
    <3> HIDE DEF x
    <3>2. x # <<>>
      BY <3>1
    <3> QED
      BY <3>2 DEF x
  <2> QED
    BY <2>2, <2>3
<1> QED
  BY <1>2, <1>3, <1>4 DEF AllData

(* What is behind data is data.                                              *)
LEMMA TailIsData ==
  ASSUME NEW w \in Seq(PDU), w # <<>>, NEW k \in 1 .. 2, AllData(w, k)
  PROVE  Tail(w) \in Seq(PDU) /\ AllData(Tail(w), 1)
<1>1. /\ Tail(w) \in Seq(PDU) /\ Len(Tail(w)) = Len(w) - 1 /\ Len(w) \in Nat
      /\ \A i \in 1 .. Len(Tail(w)) : Tail(w)[i] = w[i + 1]
  BY HeadTailProperties, LenProperties
<1>2. ASSUME NEW i \in 1 .. Len(Tail(w))
      PROVE  Tail(w)[i] \in DataPDU
  <2>1. i + 1 \in k .. Len(w)
    BY <1>1
  <2> QED
    BY <1>1, <2>1 DEF AllData
<1> QED
  BY <1>1, <1>2 DEF AllData

(* The state of an end.                                                      *)
LEMMA StateIs ==
  ASSUME CounterTypes, NEW e \in Ends
  PROVE  /\ State(e) \in States /\ Given(State(e).out) = 0 /\ Used(State(e).out) = 0
         /\ State(e).avail = ttp[e].avail /\ State(e).remote = ttp[e].remote
         /\ State(e).send = ttp[e].send /\ State(e).out = <<>>
         /\ ttp[e].avail \in Nat /\ ttp[e].remote \in Nat /\ ttp[e].send \in Nat
<1>1. ttp[e].avail \in Nat /\ ttp[e].remote \in Nat /\ ttp[e].send \in Nat
  BY DEF CounterTypes, Counters
<1>2. <<>> \in Seq(DataPDU)
  OBVIOUS
<1>3. Given(<<>>) = 0 /\ Used(<<>>) = 0
  <2>1. <<>> \in Seq(PDU)
    OBVIOUS
  <2> QED
    BY <2>1, GivenUsed
<1> QED
  BY <1>1, <1>2, <1>3 DEF State, States

(* An end with the counters of t; w is left of what was on its way to it.    *)
Exchanged(e, w, t) ==
    /\ ttp' = [ttp EXCEPT ![e] = Credits(t)]
    /\ wire' = [p \in Ends |-> IF link # "up" THEN wire[p]
                               ELSE IF p = e THEN w ELSE wire[p] \o t.out]
    /\ UNCHANGED <<link, Connected, notice>>

(* The link keeps its shape: what a connected end sends is data.             *)
LEMMA ExchangeIsLinked ==
  ASSUME Typed, Linked, NEW e \in Ends, Connected[e], NEW w \in Seq(PDU),
         NEW t \in States, AllData(wire[e], 1) => AllData(w, 1),
         Exchanged(e, w, t)
  PROVE  CounterTypes' /\ LinkTypes' /\ WireTypes' /\ Linked'
<1> DEFINE q == Peer(e)
<1>1. q \in Ends /\ q # e /\ Peer(q) = e /\ \A p \in Ends : p = e \/ p = q
  BY Two
<1> HIDE DEF q
<1>2. /\ ttp \in [Ends -> Counters] /\ wire \in [Ends -> Seq(PDU)]
      /\ LinkTypes
  BY DEF Typed, CounterTypes, WireTypes, PDU
<1>3. Credits(t) \in Counters /\ t.out \in Seq(DataPDU)
  BY DEF Credits, Counters, States
<1>4. ttp'[q] = ttp[q] /\ CounterTypes'
  BY <1>1, <1>2, <1>3 DEF Exchanged, CounterTypes
<1>5. LinkTypes'
  BY <1>2 DEF Exchanged, LinkTypes
<1>6. link \in {"up", "lost"}
  BY <1>2 DEF Linked, LinkTypes
<1>7. CASE link = "up"
  <2>1. wire'[e] = w /\ wire'[q] = wire[q] \o t.out
    BY <1>1, <1>7 DEF Exchanged
  <2>2. wire'[q] \in Seq(PDU)
    <3>1. t.out \in Seq(PDU)
      BY <1>3, OutIsPDUs
    <3> QED
      BY <1>1, <1>2, <2>1, <3>1, ConcatProperties
  <2>3. WireTypes'
    <3>1. wire' = [p \in Ends |-> IF p = e THEN w ELSE wire[p] \o t.out]
      BY <1>7 DEF Exchanged
    <3>2. \A p \in Ends : wire'[p] \in Seq(PDU)
      BY <1>1, <2>1, <2>2
    <3> QED
      BY <3>1, <3>2 DEF WireTypes, PDU
  <2>4. Joined(e)'
    <3>1. AllData(wire[e], 1)
      BY <1>7 DEF Linked, Joined
    <3> QED
      BY <2>1, <3>1 DEF Joined, Exchanged
  <2>5. Joined(q)'
    <3>1. CASE Connected[q] /\ AllData(wire[q], 1)
      <4>1. AllData(wire[q] \o t.out, 1)
        BY <1>1, <1>2, <1>3, <3>1, DataBehindData
      <4> QED
        BY <2>1, <3>1, <4>1 DEF Joined, Exchanged
    <3>2. CASE /\ ~Connected[q] /\ ttp[q] = Fresh
               /\ wire[q] # <<>> /\ wire[q][1] = Accept /\ AllData(wire[q], 2)
      <4>1. /\ AllData(wire[q] \o t.out, 2) /\ wire[q] \o t.out # <<>>
            /\ (wire[q] \o t.out)[1] = Accept
        BY <1>1, <1>2, <1>3, <3>2, DataBehindData
      <4>2. ~Connected'[q] /\ Connected'[Peer(q)] /\ ttp'[q] = Fresh
        BY <1>1, <1>4, <3>2 DEF Exchanged
      <4> QED
        BY <2>1, <4>1, <4>2 DEF Joined, Exchanged
    <3> QED
      BY <1>1, <1>7, <3>1, <3>2 DEF Linked, Joined
  <2>6. link' = "up" /\ notice' = notice
    BY <1>7 DEF Exchanged
  <2>7. \A p \in Ends : ~notice[p]
    BY <1>7 DEF Linked
  <2> QED
    BY <1>1, <1>4, <1>5, <2>3, <2>4, <2>5, <2>6, <2>7 DEF Linked
<1>8. CASE link = "lost"
  <2>1. wire' = wire
    BY <1>2, <1>8 DEF Exchanged
  <2> QED
    BY <1>4, <1>5, <1>8, <2>1 DEF Linked, Exchanged, Typed, WireTypes
<1> QED
  BY <1>6, <1>7, <1>8

(* And no credit is lost: what the PDU brought, c, the end may use, and what *)
(* it had used, u, is not expected any more.                                 *)
LEMMA ExchangeConserves ==
  ASSUME CounterTypes, WireTypes, Circulation, NEW e \in Ends,
         NEW w \in Seq(PDU), NEW t \in States, NEW c \in Nat, NEW u \in Nat,
         Given(wire[e]) = c + Given(w), Used(wire[e]) = u + Used(w),
         t.remote + u = ttp[e].remote + Given(t.out),
         t.send + Used(t.out) <= ttp[e].send + c,
         link = "up" /\ CapIsEnough => t.send + Used(t.out) = ttp[e].send + c,
         Exchanged(e, w, t)
  PROVE  Circulation'
<1> DEFINE q == Peer(e)
<1>1. q \in Ends /\ q # e /\ Peer(q) = e /\ \A p \in Ends : p = e \/ p = q
  BY Two
<1> SUFFICES ASSUME link = "up"
             PROVE  \A p \in Ends : /\ Owed(p)' <= ttp'[p].remote
                                    /\ CapIsEnough => Owed(p)' = ttp'[p].remote
  BY DEF Circulation, CapIsEnough, Exchanged
<1> HIDE DEF q
<1>2. /\ ttp \in [Ends -> Counters] /\ wire[e] \in Seq(PDU) /\ wire[q] \in Seq(PDU)
      /\ t.out \in Seq(PDU)
  <2>1. t.out \in Seq(DataPDU)
    BY DEF States
  <2> QED
    BY <2>1, <1>1, OutIsPDUs DEF CounterTypes, WireTypes, PDU
<1>3. /\ wire'[e] = w /\ wire'[q] = wire[q] \o t.out
      /\ ttp'[q] = ttp[q] /\ ttp'[e].send = t.send /\ ttp'[e].remote = t.remote
  BY <1>1, <1>2 DEF Exchanged, Credits
<1>4. /\ Given(wire'[q]) = Given(wire[q]) + Given(t.out)
      /\ Used(wire'[q]) = Used(wire[q]) + Used(t.out)
  <2>1. /\ Given(wire[q] \o t.out) = Given(wire[q]) + Given(t.out)
        /\ Used(wire[q] \o t.out) = Used(wire[q]) + Used(t.out)
    BY <1>2, GivenUsed
  <2> QED
    BY <1>3, <2>1
<1>5. /\ Given(wire[q]) \in Nat /\ Used(wire[q]) \in Nat
      /\ Given(w) \in Nat /\ Used(w) \in Nat
      /\ Given(t.out) \in Nat /\ Used(t.out) \in Nat
  BY <1>2, GivenUsed
<1>6. /\ t.send \in Nat /\ t.remote \in Nat
      /\ ttp[e].send \in Nat /\ ttp[e].remote \in Nat
      /\ ttp[q].send \in Nat /\ ttp[q].remote \in Nat
  BY <1>1, <1>2 DEF States, Counters
<1>7. /\ Owed(e) = ttp[q].send + Given(wire[q]) + Used(wire[e])
      /\ Owed(q) = ttp[e].send + Given(wire[e]) + Used(wire[q])
      /\ Owed(e)' = ttp[q].send + Given(wire'[q]) + Used(w)
      /\ Owed(q)' = t.send + Given(w) + Used(wire'[q])
  BY <1>1, <1>3 DEF Owed, q
<1>8. /\ Owed(e) <= ttp[e].remote /\ (CapIsEnough => Owed(e) = ttp[e].remote)
      /\ Owed(q) <= ttp[q].remote /\ (CapIsEnough => Owed(q) = ttp[q].remote)
  BY <1>1 DEF Circulation
<1>9. /\ Owed(e)' <= ttp'[e].remote
      /\ CapIsEnough => Owed(e)' = ttp'[e].remote
  <2>1. /\ ttp[q].send + Given(wire[q]) + (u + Used(w)) <= ttp[e].remote =>
               ttp[q].send + (Given(wire[q]) + Given(t.out)) + Used(w) <= t.remote
        /\ ttp[q].send + Given(wire[q]) + (u + Used(w)) = ttp[e].remote =>
               ttp[q].send + (Given(wire[q]) + Given(t.out)) + Used(w) = t.remote
    <3> DEFINE sq == ttp[q].send
               gq == Given(wire[q])
               uw == Used(w)
               x  == ttp[e].remote
               go == Given(t.out)
               tr == t.remote
    <3>1. /\ sq \in Nat /\ gq \in Nat /\ uw \in Nat /\ x \in Nat /\ go \in Nat
          /\ tr \in Nat /\ tr + u = x + go
      BY <1>5, <1>6
    <3> HIDE DEF sq, gq, uw, x, go, tr
    <3>2. /\ sq + gq + (u + uw) <= x => sq + (gq + go) + uw <= tr
          /\ sq + gq + (u + uw) = x => sq + (gq + go) + uw = tr
      BY <3>1, Expected
    <3> QED
      BY <3>2 DEF sq, gq, uw, x, go, tr
  <2> QED
    BY <2>1, <1>3, <1>4, <1>7, <1>8
<1>10. /\ Owed(q)' <= ttp'[q].remote
       /\ CapIsEnough => Owed(q)' = ttp'[q].remote
  <2>1. /\ ttp[e].send + (c + Given(w)) + Used(wire[q]) <= ttp[q].remote =>
               t.send + Given(w) + (Used(wire[q]) + Used(t.out)) <= ttp[q].remote
        /\ /\ t.send + Used(t.out) = ttp[e].send + c
           /\ ttp[e].send + (c + Given(w)) + Used(wire[q]) = ttp[q].remote
           => t.send + Given(w) + (Used(wire[q]) + Used(t.out)) = ttp[q].remote
    <3> DEFINE se == ttp[e].send
               gw == Given(w)
               uq == Used(wire[q])
               x  == ttp[q].remote
               uo == Used(t.out)
               ts == t.send
    <3>1. /\ se \in Nat /\ gw \in Nat /\ uq \in Nat /\ x \in Nat /\ uo \in Nat
          /\ ts \in Nat /\ ts + uo <= se + c
      BY <1>5, <1>6
    <3> HIDE DEF se, gw, uq, x, uo, ts
    <3>2. /\ se + (c + gw) + uq <= x => ts + gw + (uq + uo) <= x
          /\ ts + uo = se + c /\ se + (c + gw) + uq = x => ts + gw + (uq + uo) = x
      BY <3>1, Spent
    <3> QED
      BY <3>2 DEF se, gw, uq, x, uo, ts
  <2> QED
    BY <2>1, <1>3, <1>4, <1>7, <1>8
<1> QED
  BY <1>1, <1>9, <1>10

-----------------------------------------------------------------------------
(* The arrival of data.                                                      *)

(* What the driver hands over in the gate is bytes.                          *)
LEMMA BackEnabledIs ==
  ASSUME Typed, NEW e \in Ends, NEW s \in States
  PROVE  /\ TxBufferAvailable(e, s) \in Nat
         /\ BackEnabled(e, s) \in Seq(Nat)
<1>1. s.send \in Nat /\ tx[e] \in Seq(Nat) /\ Len(tx[e]) \in Nat
  BY DEF States, Typed, WriterTypes
<1>2. TxBufferAvailable(e, s) \in Nat
  <2>1. s.send * MaxPacket \in Nat /\ Block \in Nat
    BY <1>1, TinyTPAssumption
  <2> QED
    BY <2>1 DEF TxBufferAvailable, Lesser
<1> DEFINE n == Lesser(TxBufferAvailable(e, s), Len(tx[e]))
<1>3. n \in 0 .. Len(tx[e])
  BY <1>1, <1>2 DEF Lesser
<1> HIDE DEF n
<1>4. \A i \in 1 .. n : tx[e][i] \in Nat
  BY <1>1, <1>3
<1>5. SubSeq(tx[e], 1, n) \in Seq(Nat)
  BY <1>3, <1>4, SubSeqProperties
<1>6. <<>> \in Seq(Nat)
  OBVIOUS
<1>7. BackEnabled(e, s) = IF AreTransmitting[e] THEN <<>> ELSE SubSeq(tx[e], 1, n)
  BY DEF BackEnabled, n
<1> QED
  BY <1>2, <1>5, <1>6, <1>7

(* The packets that a PDU is, and the end when it has taken it.              *)
Uses(pdu) == IF pdu.bytes = <<>> THEN 0 ELSE 1
Answered(e, pdu) == CheckTheQueues(HandleDataIndication(e, pdu))

(* With the credit of the PDU the client may write; a packet that came was   *)
(* expected.                                                                 *)
LEMMA HandleDataIndicationIs ==
  ASSUME Typed, NEW e \in Ends, NEW pdu \in DataPDU,
         NEW u \in 0 .. 1, u = Uses(pdu), u <= ttp[e].remote,
         NEW t, t = Answered(e, pdu)
  PROVE  /\ t \in States
         /\ t.remote + u = ttp[e].remote + Given(t.out)
         /\ t.send + Used(t.out) = Lesser(ttp[e].send + pdu.credit, Cap)
         /\ t.avail + t.remote + u = ttp[e].avail + ttp[e].remote
<1> DEFINE s == [State(e) EXCEPT !.send = Lesser(@ + pdu.credit, Cap)]
           r == IF pdu.credit > 0 THEN Write(s, BackEnabled(e, s)) ELSE s
           d == [r EXCEPT !.remote = @ - u]
<1>1. /\ State(e) \in States /\ Given(State(e).out) = 0 /\ Used(State(e).out) = 0
      /\ State(e).avail = ttp[e].avail /\ State(e).remote = ttp[e].remote
      /\ State(e).send = ttp[e].send
      /\ ttp[e].avail \in Nat /\ ttp[e].remote \in Nat /\ ttp[e].send \in Nat
  BY StateIs DEF Typed
<1>2. pdu.credit \in Nat
  BY DEF DataPDU
<1>3. Lesser(ttp[e].send + pdu.credit, Cap) \in Nat
  BY <1>1, <1>2, TinyTPAssumption DEF Lesser
<1>4. /\ s \in States /\ s.avail = ttp[e].avail /\ s.remote = ttp[e].remote
      /\ s.send = Lesser(ttp[e].send + pdu.credit, Cap) /\ s.out = State(e).out
  BY <1>1, <1>3 DEF States
<1> HIDE DEF s
<1>5. Sends(s, r) /\ r.avail + r.remote = s.avail + s.remote
  BY <1>4, BackEnabledIs, WriteIs, SendsNothing
<1> HIDE DEF r
<1>6. /\ r \in States /\ r.remote = ttp[e].remote + Given(r.out)
      /\ r.send + Used(r.out) = Lesser(ttp[e].send + pdu.credit, Cap)
      /\ r.avail + r.remote = ttp[e].avail + ttp[e].remote
  <2>1. /\ r \in States
        /\ r.remote + 0 = ttp[e].remote + Given(r.out)
        /\ r.send + Used(r.out) = Lesser(ttp[e].send + pdu.credit, Cap) + 0
        /\ r.avail + r.remote = ttp[e].avail + ttp[e].remote
    BY <1>1, <1>4, <1>5 DEF Sends
  <2>2. r.remote \in Nat /\ r.remote + 0 = r.remote
    BY <2>1 DEF States
  <2>3. \A n \in Nat : n + 0 = n
    OBVIOUS
  <2> QED
    BY <2>1, <2>2, <2>3, <1>3
<1>7. /\ r.out \in Seq(DataPDU) /\ Given(r.out) \in Nat /\ Used(r.out) \in Nat
      /\ r.avail \in Nat /\ r.remote \in Nat /\ r.send \in Nat
  BY <1>6, OutIsPDUs DEF States
<1>8. u \in Nat /\ u <= r.remote
  BY <1>1, <1>6, <1>7
<1>9. /\ d \in States /\ d.remote = r.remote - u /\ d.avail = r.avail
      /\ d.send = r.send /\ d.out = r.out /\ d.remote \in Nat
  <2>1. r.remote - u \in Nat
    BY <1>7, <1>8
  <2> QED
    BY <1>6, <2>1 DEF States
<1>10. HandleDataIndication(e, pdu) = d
  BY DEF HandleDataIndication, Uses, s, r
<1> HIDE DEF d
<1>11. /\ Sends(d, t) /\ t \in States
       /\ t.avail + t.remote = d.avail + d.remote
  BY <1>9, <1>10, CheckTheQueuesIs DEF Sends, Answered
<1>12. /\ t.remote + Given(d.out) = d.remote + Given(t.out)
       /\ t.send + Used(t.out) = d.send + Used(d.out)
  BY <1>11 DEF Sends
<1>13. /\ Given(t.out) \in Nat /\ Used(t.out) \in Nat
       /\ t.remote \in Nat /\ t.send \in Nat /\ t.avail \in Nat
  BY <1>11, OutIsPDUs DEF States
<1>14. t.send + Used(t.out) = Lesser(ttp[e].send + pdu.credit, Cap)
  BY <1>6, <1>9, <1>12
<1>15. /\ t.remote + u = ttp[e].remote + Given(t.out)
       /\ t.avail + t.remote + u = ttp[e].avail + ttp[e].remote
  <2> DEFINE tr == t.remote
             ta == t.avail
             gt == Given(t.out)
             dr == d.remote
             ra == r.avail
             gr == Given(r.out)
             er == ttp[e].remote
             ea == ttp[e].avail
  <2>1. /\ tr \in Nat /\ ta \in Nat /\ gt \in Nat /\ dr \in Nat /\ ra \in Nat
        /\ gr \in Nat /\ er \in Nat /\ ea \in Nat
    BY <1>1, <1>7, <1>9, <1>13
  <2>2. u \in Nat /\ r.remote = dr + u
    BY <1>7, <1>8, <1>9
  <2>3. tr + gr = dr + gt /\ dr + u = er + gr
    BY <1>6, <1>9, <1>12, <2>2
  <2>4. ta + tr = ra + dr /\ ra + (dr + u) = ea + er
    BY <1>6, <1>9, <1>11, <2>2
  <2> HIDE DEF tr, ta, gt, dr, ra, gr, er, ea
  <2>5. tr + u = er + gt
    <3>1. u \in Nat
      BY <2>2
    <3> QED
      BY <2>1, <2>3, <3>1
  <2>6. ta + tr + u = ea + er
    <3>1. ta + tr + u = (ra + dr) + u
      BY <2>4
    <3>2. (ra + dr) + u = ra + (dr + u)
      BY <1>8, <2>1, Associative
    <3> QED
      BY <3>1, <3>2, <2>4
  <2> QED
    BY <2>5, <2>6 DEF tr, ta, gt, er, ea
<1> QED
  BY <1>11, <1>14, <1>15

-----------------------------------------------------------------------------
(* The tty threads.                                                          *)

(* What a step leaves alone stays as it was.                                 *)
LEMMA Kept ==
  ASSUME IInv,
         UNCHANGED <<ttp, Connected, link, notice, wire, sizes, rx, reader, leftover>>
  PROVE  /\ CounterTypes' /\ LinkTypes' /\ WireTypes' /\ RingTypes'
         /\ Linked' /\ Circulation' /\ Bounded' /\ Room'
<1>1. CounterTypes' /\ LinkTypes' /\ WireTypes' /\ RingTypes'
  BY DEF IInv, Typed, CounterTypes, LinkTypes, WireTypes, RingTypes
<1>2. Linked'
  BY DEF IInv, Linked, Calling, Joined
<1>3. Circulation'
  BY DEF IInv, Circulation, Owed, CapIsEnough
<1>4. Bounded'
  BY DEF IInv, Bounded, Ring
<1>5. Room'
  BY DEF IInv, Room
<1> QED
  BY <1>1, <1>2, <1>3, <1>4, <1>5

(* A step that changes the thread and the work loop of one end alone, and    *)
(* leaves AreTransmitting set only when one of them transmits, keeps the     *)
(* threads typed.                                                            *)
LEMMA WriterKept ==
  ASSUME Typed, Busy, NEW e \in Ends,
         NEW W \in [pc : Pcs, room : Nat, buf : Seq(Nat)], NEW b \in BOOLEAN,
         NEW g \in BOOLEAN, b => g \/ W.pc \in {"busy", "done"}, NEW q \in Seq(Nat),
         writer' = [writer EXCEPT ![e] = W], tx' = [tx EXCEPT ![e] = q],
         AreTransmitting' = [AreTransmitting EXCEPT ![e] = b],
         backEnabling' = [backEnabling EXCEPT ![e] = g],
         written' \in [Ends -> Nat], load' = load
  PROVE  WriterTypes' /\ Busy'
<1>1. WriterTypes
  BY DEF Typed
<1>2. WriterTypes'
  <2>1. load' \in Loads
    BY <1>1 DEF WriterTypes
  <2>2. tx' \in [Ends -> Seq(Nat)]
    BY <1>1 DEF WriterTypes
  <2>3. AreTransmitting' \in [Ends -> BOOLEAN] /\ backEnabling' \in [Ends -> BOOLEAN]
    BY <1>1 DEF WriterTypes
  <2>4. writer' \in [Ends -> [pc : Pcs, room : Nat, buf : Seq(Nat)]]
    BY <1>1 DEF WriterTypes
  <2> QED
    BY <2>1, <2>2, <2>3, <2>4 DEF WriterTypes
<1>3. ASSUME NEW p \in Ends
      PROVE  AreTransmitting'[p] =>
                 backEnabling'[p] \/ writer'[p].pc \in {"busy", "done"}
  <2>1. CASE p = e
    <3>1. AreTransmitting'[p] = b /\ writer'[p] = W /\ backEnabling'[p] = g
      BY <2>1, <1>1 DEF WriterTypes
    <3> QED
      BY <3>1
  <2>2. CASE p # e
    <3>1. /\ AreTransmitting'[p] = AreTransmitting[p] /\ writer'[p] = writer[p]
          /\ backEnabling'[p] = backEnabling[p]
      BY <2>2, <1>1 DEF WriterTypes
    <3> QED
      BY <3>1 DEF Busy
  <2> QED
    BY <2>1, <2>2
<1> QED
  BY <1>2, <1>3 DEF Busy

(* The thread of an end, before a step.                                      *)
LEMMA WriterIs ==
  ASSUME Typed, NEW e \in Ends
  PROVE  /\ writer[e] \in [pc : Pcs, room : Nat, buf : Seq(Nat)]
         /\ tx[e] \in Seq(Nat) /\ Len(tx[e]) \in Nat
         /\ AreTransmitting[e] \in BOOLEAN /\ backEnabling[e] \in BOOLEAN
         /\ backEnabling = [backEnabling EXCEPT ![e] = backEnabling[e]]
         /\ tx = [tx EXCEPT ![e] = tx[e]]
         /\ AreTransmitting = [AreTransmitting EXCEPT ![e] = AreTransmitting[e]]
         /\ written \in [Ends -> Nat] /\ written[e] \in Nat
         /\ \A n \in Nat : /\ SubSeq(tx[e], 1, Lesser(n, Len(tx[e]))) \in Seq(Nat)
                           /\ SubSeq(tx[e], n + 1, Len(tx[e])) \in Seq(Nat)
         /\ Idle \in [pc : Pcs, room : Nat, buf : Seq(Nat)]
         /\ Idle.pc = "idle"
<1>1. WriterTypes
  BY DEF Typed
<1>2. /\ writer[e] \in [pc : Pcs, room : Nat, buf : Seq(Nat)]
      /\ tx[e] \in Seq(Nat) /\ AreTransmitting[e] \in BOOLEAN
      /\ backEnabling[e] \in BOOLEAN
      /\ backEnabling = [backEnabling EXCEPT ![e] = backEnabling[e]]
      /\ tx = [tx EXCEPT ![e] = tx[e]]
      /\ AreTransmitting = [AreTransmitting EXCEPT ![e] = AreTransmitting[e]]
      /\ written \in [Ends -> Nat] /\ written[e] \in Nat
  BY <1>1 DEF WriterTypes
<1>3. Len(tx[e]) \in Nat /\ tx[e] \in [1 .. Len(tx[e]) -> Nat]
  BY <1>2, LenProperties
<1>4. ASSUME NEW n \in Nat
      PROVE  /\ SubSeq(tx[e], 1, Lesser(n, Len(tx[e]))) \in Seq(Nat)
             /\ SubSeq(tx[e], n + 1, Len(tx[e])) \in Seq(Nat)
  <2> DEFINE m == Lesser(n, Len(tx[e]))
  <2>1. m \in 0 .. Len(tx[e])
    BY <1>3 DEF Lesser
  <2> HIDE DEF m
  <2>2. \A i \in 1 .. m : tx[e][i] \in Nat
    BY <1>3, <2>1
  <2>3. \A i \in n + 1 .. Len(tx[e]) : tx[e][i] \in Nat
    BY <1>3
  <2>4. SubSeq(tx[e], 1, m) \in Seq(Nat)
    BY <2>1, <2>2, SubSeqProperties
  <2>5. SubSeq(tx[e], n + 1, Len(tx[e])) \in Seq(Nat)
    BY <1>3, <2>3, SubSeqProperties
  <2> QED
    BY <2>4, <2>5 DEF m
<1>5. Idle \in [pc : Pcs, room : Nat, buf : Seq(Nat)] /\ Idle.pc = "idle"
  <2>1. <<>> \in Seq(Nat)
    OBVIOUS
  <2> QED
    BY <2>1 DEF Idle, Pcs
<1> QED
  BY <1>2, <1>3, <1>4, <1>5

(* The tty fills its ring.                                                   *)
LEMMA StepEnqueue ==
  ASSUME IInv, NEW e \in Ends, NEW n \in 1 .. load.bytes[e], Enqueue(e, n)
  PROVE  IInv'
<1> DEFINE W == [writer[e] EXCEPT !.pc = "start"]
           more == [i \in 1 .. n |-> written[e] + i]
<1>0. Typed /\ Busy
  BY DEF IInv
<1>1. n \in Nat
  <2>1. load.bytes[e] \in Nat
    BY <1>0, TinyTPAssumption DEF Typed, WriterTypes
  <2> QED
    BY <2>1
<1>2. W \in [pc : Pcs, room : Nat, buf : Seq(Nat)] /\ W.pc = "start"
  BY <1>0, WriterIs DEF Pcs
<1>3. more \in Seq(Nat)
  <2>1. more \in [1 .. n -> Nat]
    BY <1>0, <1>1, WriterIs
  <2> HIDE DEF more
  <2> QED
    BY <1>1, <2>1
<1>4. tx[e] \o more \in Seq(Nat)
  <2> HIDE DEF more
  <2> QED
    BY <1>0, <1>3, WriterIs, ConcatProperties
<1>5. writer' = [writer EXCEPT ![e] = W] /\ tx' = [tx EXCEPT ![e] = tx[e] \o more]
  BY DEF Enqueue
<1>6. /\ AreTransmitting' = [AreTransmitting EXCEPT ![e] = AreTransmitting[e]]
      /\ backEnabling' = [backEnabling EXCEPT ![e] = backEnabling[e]]
  BY <1>0, WriterIs DEF Enqueue
<1>7. AreTransmitting[e] => backEnabling[e] \/ W.pc \in {"busy", "done"}
  <2>1. writer[e].pc = "idle"
    BY DEF Enqueue
  <2> QED
    BY <1>0, <1>2, <2>1 DEF Busy
<1>8. written' \in [Ends -> Nat] /\ load' = load
  <2>1. written[e] + n \in Nat
    BY <1>0, <1>1, WriterIs
  <2> QED
    BY <1>0, <2>1, WriterIs DEF Enqueue
<1>9. AreTransmitting[e] \in BOOLEAN /\ backEnabling[e] \in BOOLEAN
  BY <1>0, WriterIs
<1> HIDE DEF W, more
<1>10. WriterTypes' /\ Busy'
  BY <1>0, <1>2, <1>4, <1>5, <1>6, <1>7, <1>8, <1>9, WriterKept
<1>11. HistoryTypes'
  BY <1>0 DEF Typed, HistoryTypes, Enqueue, history
<1> QED
  BY <1>10, <1>11, Kept DEF IInv, Typed, Enqueue, history

(* The thread looks whether another one transmits.                           *)
LEMMA StepSetUpTransmit ==
  ASSUME IInv, NEW e \in Ends, SetUpTransmit(e)
  PROVE  IInv'
<1> DEFINE W == IF AreTransmitting[e] \/ tx[e] = <<>> THEN Idle
                ELSE [writer[e] EXCEPT !.pc = "ask"]
<1>0. Typed /\ Busy
  BY DEF IInv
<1>1. W \in [pc : Pcs, room : Nat, buf : Seq(Nat)]
  BY <1>0, WriterIs DEF Pcs
<1>2. writer' = [writer EXCEPT ![e] = W]
  BY DEF SetUpTransmit
<1>3. /\ tx' = [tx EXCEPT ![e] = tx[e]]
      /\ AreTransmitting' = [AreTransmitting EXCEPT ![e] = AreTransmitting[e]]
      /\ backEnabling' = [backEnabling EXCEPT ![e] = backEnabling[e]]
      /\ written' \in [Ends -> Nat] /\ load' = load
  BY <1>0, WriterIs DEF SetUpTransmit, tty
<1> HIDE DEF W
<1>4. AreTransmitting[e] => backEnabling[e] \/ W.pc \in {"busy", "done"}
  <2>1. writer[e].pc = "start"
    BY DEF SetUpTransmit
  <2> QED
    BY <1>0, <2>1 DEF Busy
<1>5. WriterTypes' /\ Busy'
  <2>1. /\ tx[e] \in Seq(Nat) /\ AreTransmitting[e] \in BOOLEAN
        /\ backEnabling[e] \in BOOLEAN
    BY <1>0, WriterIs
  <2> QED
    BY <1>0, <1>1, <1>2, <1>3, <1>4, <2>1, WriterKept
<1>6. HistoryTypes'
  BY <1>0 DEF Typed, HistoryTypes, SetUpTransmit
<1> QED
  BY <1>5, <1>6, Kept DEF IInv, Typed, SetUpTransmit, tty

(* It asks for room.                                                         *)
LEMMA StepAskForRoom ==
  ASSUME IInv, NEW e \in Ends, AskForRoom(e)
  PROVE  IInv'
<1> DEFINE room == TxBufferAvailable(e, State(e))
           W == IF room = 0 THEN Idle
                ELSE [writer[e] EXCEPT !.pc = "room", !.room = room]
<1>0. Typed /\ Busy
  BY DEF IInv
<1>1. State(e) \in States
  BY <1>0, StateIs DEF Typed
<1>2. room \in Nat
  BY <1>0, <1>1, BackEnabledIs
<1> HIDE DEF room
<1>3. W \in [pc : Pcs, room : Nat, buf : Seq(Nat)]
  BY <1>0, <1>2, WriterIs DEF Pcs
<1>4. writer' = [writer EXCEPT ![e] = W]
  BY DEF AskForRoom, room
<1>5. /\ tx' = [tx EXCEPT ![e] = tx[e]]
      /\ AreTransmitting' = [AreTransmitting EXCEPT ![e] = AreTransmitting[e]]
      /\ backEnabling' = [backEnabling EXCEPT ![e] = backEnabling[e]]
      /\ written' \in [Ends -> Nat] /\ load' = load
  BY <1>0, WriterIs DEF AskForRoom, tty
<1> HIDE DEF W
<1>6. AreTransmitting[e] => backEnabling[e] \/ W.pc \in {"busy", "done"}
  <2>1. writer[e].pc = "ask"
    BY DEF AskForRoom
  <2> QED
    BY <1>0, <2>1 DEF Busy
<1>7. WriterTypes' /\ Busy'
  <2>1. /\ tx[e] \in Seq(Nat) /\ AreTransmitting[e] \in BOOLEAN
        /\ backEnabling[e] \in BOOLEAN
    BY <1>0, WriterIs
  <2> QED
    BY <1>0, <1>3, <1>4, <1>5, <1>6, <2>1, WriterKept
<1>8. HistoryTypes'
  BY <1>0 DEF Typed, HistoryTypes, AskForRoom, history
<1> QED
  BY <1>7, <1>8, Kept DEF IInv, Typed, AskForRoom, tty, history

(* It takes bytes.                                                           *)
LEMMA StepRemovefromQueue ==
  ASSUME IInv, NEW e \in Ends, RemovefromQueue(e)
  PROVE  IInv'
<1> DEFINE n == Lesser(writer[e].room, Len(tx[e]))
           W == [pc |-> "taken", room |-> 0, buf |-> SubSeq(tx[e], 1, n)]
           q == SubSeq(tx[e], n + 1, Len(tx[e]))
<1>0. Typed /\ Busy
  BY DEF IInv
<1>1. writer[e].room \in Nat /\ Len(tx[e]) \in Nat
  BY <1>0, WriterIs
<1>2. n \in Nat
  BY <1>1 DEF Lesser
<1>3. SubSeq(tx[e], 1, n) \in Seq(Nat) /\ q \in Seq(Nat)
  <2>1. SubSeq(tx[e], 1, n) \in Seq(Nat)
    BY <1>0, <1>1, WriterIs
  <2> HIDE DEF n
  <2> QED
    BY <1>0, <1>2, <2>1, WriterIs
<1>4. W \in [pc : Pcs, room : Nat, buf : Seq(Nat)] /\ W.pc = "taken"
  BY <1>3 DEF Pcs
<1>5. /\ writer' = [writer EXCEPT ![e] = W] /\ tx' = [tx EXCEPT ![e] = q]
      /\ load' = load
  BY DEF RemovefromQueue
<1>6. /\ AreTransmitting' = [AreTransmitting EXCEPT ![e] = AreTransmitting[e]]
      /\ backEnabling' = [backEnabling EXCEPT ![e] = backEnabling[e]]
      /\ written' \in [Ends -> Nat] /\ AreTransmitting[e] \in BOOLEAN
      /\ backEnabling[e] \in BOOLEAN
  BY <1>0, WriterIs DEF RemovefromQueue, tty
<1> HIDE DEF W, q, n
<1>7. AreTransmitting[e] => backEnabling[e] \/ W.pc \in {"busy", "done"}
  <2>1. writer[e].pc = "room"
    BY DEF RemovefromQueue
  <2> QED
    BY <1>0, <1>4, <2>1 DEF Busy
<1>8. WriterTypes' /\ Busy'
  BY <1>0, <1>3, <1>4, <1>5, <1>6, <1>7, WriterKept
<1>9. HistoryTypes'
  BY <1>0 DEF Typed, HistoryTypes, RemovefromQueue, history
<1> QED
  BY <1>8, <1>9, Kept DEF IInv, Typed, RemovefromQueue, tty, history

(* It says that it transmits, ...                                            *)
LEMMA StepTransmitting ==
  ASSUME IInv, NEW e \in Ends, Transmitting(e)
  PROVE  IInv'
<1> DEFINE W == [writer[e] EXCEPT !.pc = "busy"]
<1>0. Typed /\ Busy
  BY DEF IInv
<1>1. W \in [pc : Pcs, room : Nat, buf : Seq(Nat)] /\ W.pc = "busy"
  BY <1>0, WriterIs DEF Pcs
<1>2. /\ writer' = [writer EXCEPT ![e] = W] /\ load' = load
      /\ AreTransmitting' = [AreTransmitting EXCEPT ![e] = TRUE]
  BY DEF Transmitting
<1>3. /\ tx' = [tx EXCEPT ![e] = tx[e]] /\ tx[e] \in Seq(Nat)
      /\ backEnabling' = [backEnabling EXCEPT ![e] = backEnabling[e]]
      /\ written' \in [Ends -> Nat] /\ backEnabling[e] \in BOOLEAN
  BY <1>0, WriterIs DEF Transmitting, tty
<1> HIDE DEF W
<1>4. WriterTypes' /\ Busy'
  <2>1. TRUE => backEnabling[e] \/ W.pc \in {"busy", "done"}
    BY <1>1
  <2> QED
    BY <1>0, <1>1, <1>2, <1>3, <2>1, WriterKept
<1>5. HistoryTypes'
  BY <1>0 DEF Typed, HistoryTypes, Transmitting, history
<1> QED
  BY <1>4, <1>5, Kept DEF IInv, Typed, Transmitting, tty, history

(* ... and, when all is written, that it does not.                           *)
LEMMA StepTransmitted ==
  ASSUME IInv, NEW e \in Ends, Transmitted(e)
  PROVE  IInv'
<1>0. Typed /\ Busy
  BY DEF IInv
<1>1. /\ writer' = [writer EXCEPT ![e] = Idle] /\ load' = load
      /\ AreTransmitting' = [AreTransmitting EXCEPT ![e] = FALSE]
  BY DEF Transmitted
<1>2. /\ tx' = [tx EXCEPT ![e] = tx[e]] /\ tx[e] \in Seq(Nat)
      /\ backEnabling' = [backEnabling EXCEPT ![e] = backEnabling[e]]
      /\ written' \in [Ends -> Nat] /\ backEnabling[e] \in BOOLEAN
      /\ Idle \in [pc : Pcs, room : Nat, buf : Seq(Nat)] /\ Idle.pc = "idle"
  BY <1>0, WriterIs DEF Transmitted, tty
<1>3. WriterTypes' /\ Busy'
  <2>1. FALSE => backEnabling[e] \/ Idle.pc \in {"busy", "done"}
    OBVIOUS
  <2> QED
    BY <1>0, <1>1, <1>2, <2>1, WriterKept
<1>4. HistoryTypes'
  BY <1>0 DEF Typed, HistoryTypes, Transmitted, history
<1> QED
  BY <1>3, <1>4, Kept DEF IInv, Typed, Transmitted, tty, history

(* An end that only sends: the link and the credits are in order after it.   *)
LEMMA SendingIs ==
  ASSUME IInv, NEW e \in Ends, Connected[e], NEW t, Sends(State(e), t),
         ttp' = [ttp EXCEPT ![e] = Credits(t)], DataPut(e, t.out),
         UNCHANGED <<link, Connected, notice>>
  PROVE  /\ CounterTypes' /\ LinkTypes' /\ WireTypes' /\ Linked' /\ Circulation'
         /\ ttp'[e].avail = t.avail /\ ttp'[e].remote = t.remote
         /\ ttp'[e].send <= ttp[e].send /\ ttp'[e].send \in Nat
         /\ t.avail \in Nat /\ t.remote \in Nat
         /\ \A p \in Ends : p # e => ttp'[p] = ttp[p]
<1>0. /\ Typed /\ CounterTypes /\ WireTypes /\ Linked /\ Circulation
      /\ t \in States
  BY DEF IInv, Typed, Sends
<1>1. /\ ttp \in [Ends -> Counters] /\ wire \in [Ends -> Seq(PDU)]
      /\ wire[e] \in Seq(PDU)
  BY <1>0 DEF CounterTypes, WireTypes, PDU
<1>2. /\ Given(State(e).out) = 0 /\ Used(State(e).out) = 0
      /\ State(e).remote = ttp[e].remote /\ State(e).send = ttp[e].send
      /\ ttp[e].remote \in Nat /\ ttp[e].send \in Nat
  BY <1>0, StateIs
<1>3. /\ t.out \in Seq(DataPDU) /\ Given(t.out) \in Nat /\ Used(t.out) \in Nat
      /\ t.avail \in Nat /\ t.remote \in Nat /\ t.send \in Nat
  BY <1>0, OutIsPDUs DEF States
<1>4. Given(wire[e]) \in Nat /\ Used(wire[e]) \in Nat
  BY <1>1, GivenUsed
<1>5. Exchanged(e, wire[e], t)
  <2>1. wire' = [p \in Ends |-> IF link # "up" THEN wire[p]
                                ELSE IF p = e THEN wire[e] ELSE wire[p] \o t.out]
    BY <1>1, Two DEF DataPut
  <2> QED
    BY <2>1 DEF Exchanged
<1>6. CounterTypes' /\ LinkTypes' /\ WireTypes' /\ Linked'
  BY <1>0, <1>1, <1>5, ExchangeIsLinked
<1>7. /\ t.remote + 0 = ttp[e].remote + Given(t.out)
      /\ t.send + Used(t.out) = ttp[e].send + 0
      /\ t.send + Used(t.out) <= ttp[e].send + 0
  <2>1. /\ t.remote + 0 = ttp[e].remote + Given(t.out)
        /\ t.send + Used(t.out) = ttp[e].send + 0
    BY <1>2, Sends(State(e), t) DEF Sends
  <2>2. ttp[e].send + 0 <= ttp[e].send + 0
    BY <1>2
  <2> QED
    BY <2>1, <2>2
<1>8. Circulation'
  <2>1. Given(wire[e]) = 0 + Given(wire[e]) /\ Used(wire[e]) = 0 + Used(wire[e])
    BY <1>4
  <2> QED
    BY <1>0, <1>1, <1>5, <1>7, <2>1, ExchangeConserves
<1>9. /\ ttp'[e].avail = t.avail /\ ttp'[e].remote = t.remote
      /\ ttp'[e].send = t.send /\ \A p \in Ends : p # e => ttp'[p] = ttp[p]
  BY <1>1 DEF Credits
<1>10. t.send <= ttp[e].send
  BY <1>2, <1>3, <1>7
<1> QED
  BY <1>3, <1>6, <1>8, <1>9, <1>10

(* The threads and the rings that a step leaves alone.                       *)
LEMMA WriterStays ==
  ASSUME IInv, UNCHANGED <<tx, written, AreTransmitting, backEnabling, writer, load>>
  PROVE  WriterTypes' /\ Busy'
BY DEF IInv, Typed, WriterTypes, Busy

(* What is written goes out with the credit there is.                        *)
LEMMA StepTtyWrite ==
  ASSUME IInv, NEW e \in Ends, TtyWrite(e)
  PROVE  IInv'
<1> DEFINE W == [Idle EXCEPT !.pc = "done"]
           t == Write(State(e), writer[e].buf)
<1>0. Typed /\ Busy /\ CounterTypes
  BY DEF IInv, Typed
<1>1. WriterTypes' /\ Busy'
  <2>1. /\ W \in [pc : Pcs, room : Nat, buf : Seq(Nat)] /\ W.pc = "done"
        /\ writer' = [writer EXCEPT ![e] = W] /\ load' = load
    <3>1. <<>> \in Seq(Nat)
      OBVIOUS
    <3> QED
      BY <3>1 DEF Idle, Pcs, TtyWrite
  <2>2. /\ tx' = [tx EXCEPT ![e] = tx[e]] /\ tx[e] \in Seq(Nat)
        /\ AreTransmitting' = [AreTransmitting EXCEPT ![e] = AreTransmitting[e]]
        /\ backEnabling' = [backEnabling EXCEPT ![e] = backEnabling[e]]
        /\ AreTransmitting[e] \in BOOLEAN /\ backEnabling[e] \in BOOLEAN
        /\ written' \in [Ends -> Nat]
    BY <1>0, WriterIs DEF TtyWrite, tty
  <2>3. AreTransmitting[e] => backEnabling[e] \/ W.pc \in {"busy", "done"}
    <3>1. writer[e].pc = "busy"
      BY DEF TtyWrite
    <3> QED
      BY <1>0, <2>1, <3>1 DEF Busy
  <2> HIDE DEF W
  <2> QED
    BY <1>0, <2>1, <2>2, <2>3, WriterKept
<1>2. HistoryTypes'
  <2>1. spoiled \in [Ends -> BOOLEAN] /\ leftover' = leftover /\ parked' = parked
    BY <1>0 DEF Typed, HistoryTypes, TtyWrite
  <2>2. spoiled' \in [Ends -> BOOLEAN]
    <3>1. CASE ~Connected[e]
      BY <2>1, <3>1 DEF TtyWrite
    <3>2. CASE Connected[e]
      <4>1. spoiled' = [spoiled EXCEPT ![e] =
                 spoiled[e] \/ Len(t.out) < Len(Packets(writer[e].buf))]
        BY <3>2 DEF TtyWrite
      <4>2. (spoiled[e] \/ Len(t.out) < Len(Packets(writer[e].buf))) \in BOOLEAN
        OBVIOUS
      <4> QED
        BY <2>1, <4>1, <4>2
    <3> QED
      BY <3>1, <3>2
  <2> QED
    BY <1>0, <2>1, <2>2 DEF Typed, HistoryTypes
<1>3. CASE ~Connected[e]
  BY <1>1, <1>2, <1>3, Kept DEF IInv, Typed, TtyWrite, tty
<1>4. CASE Connected[e]
  <2>1. /\ Sends(State(e), t)
        /\ t.avail + t.remote = ttp[e].avail + ttp[e].remote
    BY SMTT(30), <1>0, WriterIs, WriteIs, StateIs
  <2>2. /\ ttp' = [ttp EXCEPT ![e] = Credits(t)] /\ DataPut(e, t.out)
        /\ UNCHANGED <<link, Connected, notice, sizes, rx, reader, leftover>>
    BY <1>4 DEF TtyWrite, tty
  <2> HIDE DEF t
  <2>3. /\ CounterTypes' /\ LinkTypes' /\ WireTypes' /\ Linked' /\ Circulation'
        /\ ttp'[e].avail = t.avail /\ ttp'[e].remote = t.remote
        /\ ttp'[e].send <= ttp[e].send /\ ttp'[e].send \in Nat
        /\ t.avail \in Nat /\ t.remote \in Nat
        /\ \A p \in Ends : p # e => ttp'[p] = ttp[p]
    BY <1>4, <2>1, <2>2, SendingIs
  <2>4. RingTypes'
    BY <1>0, <2>2 DEF Typed, RingTypes
  <2>5. Len(sizes[e]) + ttp'[e].avail + ttp'[e].remote
            = Len(sizes[e]) + ttp[e].avail + ttp[e].remote
    <3> DEFINE l == Len(sizes[e])
               a == ttp[e].avail
               r == ttp[e].remote
    <3>1. l \in Nat /\ a \in Nat /\ r \in Nat
      BY <1>0, StateIs DEF Typed, RingTypes
    <3>2. t.avail + t.remote = a + r + 0 /\ l = l - 0 /\ 0 <= l
      BY <2>1, <3>1
    <3> HIDE DEF l, a, r
    <3>3. l + t.avail + t.remote = l + a + r
      BY <2>3, <3>1, <3>2, Returned
    <3> QED
      BY <2>3, <3>3 DEF l, a, r
  <2>6. Bounded'
    <3> SUFFICES ASSUME NEW p \in Ends
                 PROVE  /\ ttp'[p].send <= Cap
                        /\ Len(sizes[p]) <= Credit + 2
                        /\ Len(sizes[p]) + ttp'[p].avail + ttp'[p].remote <= 2 * Credit + 2
                        /\ Len(rx[p]) <= Ring
      BY <2>2 DEF Bounded, Ring
    <3>1. /\ ttp[p].send <= Cap /\ Len(sizes[p]) <= Credit + 2
          /\ Len(sizes[p]) + ttp[p].avail + ttp[p].remote <= 2 * Credit + 2
          /\ Len(rx[p]) <= Ring
      BY DEF IInv, Bounded
    <3>2. CASE p # e
      BY <2>3, <3>1, <3>2
    <3>3. CASE p = e
      <4>1. /\ ttp[e].send \in Nat /\ ttp[e].avail \in Nat /\ ttp[e].remote \in Nat
            /\ Len(sizes[e]) \in Nat
        BY <1>0, StateIs DEF Typed, RingTypes
      <4>2. ttp'[e].send <= Cap
        BY SMTT(30), <2>3, <3>1, <3>3, <4>1, TinyTPAssumption
      <4> QED
        BY <2>5, <3>1, <3>3, <4>2
    <3> QED
      BY <3>2, <3>3
  <2>7. Room'
    <3> SUFFICES ASSUME NEW p \in Ends, Connected[p], ~leftover[p]
                 PROVE  /\ Total(sizes[p]) = Len(rx[p]) + reader[p]
                        /\ Len(sizes[p]) + ttp'[p].avail + ttp'[p].remote = Credit
      BY <2>2 DEF Room
    <3>1. /\ Total(sizes[p]) = Len(rx[p]) + reader[p]
          /\ Len(sizes[p]) + ttp[p].avail + ttp[p].remote = Credit
      BY DEF IInv, Room
    <3>2. CASE p # e
      BY <2>3, <3>1, <3>2
    <3>3. CASE p = e
      BY <2>5, <3>1, <3>3
    <3> QED
      BY <3>2, <3>3
  <2> QED
    BY <1>1, <1>2, <2>3, <2>4, <2>6, <2>7 DEF IInv, Typed
<1> QED
  BY <1>3, <1>4

(* The tty takes bytes out of the ring.                                      *)
LEMMA StepDequeueData ==
  ASSUME IInv, NEW e \in Ends, NEW n \in 1 .. Ring, dequeueData(e, n)
  PROVE  IInv'
<1> DEFINE rest == SubSeq(rx[e], n + 1, Len(rx[e]))
<1>0. /\ CounterTypes' /\ LinkTypes' /\ WireTypes' /\ Linked' /\ Circulation'
      /\ HistoryTypes'
  <2>1. CounterTypes' /\ LinkTypes' /\ WireTypes' /\ HistoryTypes'
    BY DEF IInv, Typed, CounterTypes, LinkTypes, WireTypes, HistoryTypes,
           dequeueData, history
  <2>2. Linked'
    BY DEF IInv, Linked, Calling, Joined, dequeueData
  <2>3. Circulation'
    BY DEF IInv, Circulation, Owed, CapIsEnough, dequeueData
  <2> QED
    BY <2>1, <2>2, <2>3
<1>1. WriterTypes' /\ Busy'
  BY WriterStays DEF dequeueData
<1>2. /\ n \in Nat /\ n <= Len(rx[e]) /\ reader[e] = 0
      /\ rx \in [Ends -> Seq(Nat)] /\ reader \in [Ends -> Nat]
      /\ Len(rx[e]) \in Nat /\ rx[e] \in Seq(Nat)
      /\ sizes \in [Ends -> Seq(1 .. MaxPacket)]
  <2>1. Ring \in Nat
    BY TinyTPAssumption DEF Ring
  <2> QED
    BY <2>1 DEF dequeueData, IInv, Typed, RingTypes
<1>3. rest \in Seq(Nat) /\ Len(rest) = Len(rx[e]) - n
  <2>1. \A i \in n + 1 .. Len(rx[e]) : rx[e][i] \in Nat
    BY <1>2
  <2>2. /\ rest \in Seq(Nat)
        /\ Len(rest) = IF n + 1 <= Len(rx[e]) THEN Len(rx[e]) - (n + 1) + 1 ELSE 0
    BY <1>2, <2>1, SubSeqProperties
  <2> HIDE DEF rest
  <2> QED
    BY <1>2, <2>2
<1>4. /\ rx' = [rx EXCEPT ![e] = rest] /\ reader' = [reader EXCEPT ![e] = n]
      /\ UNCHANGED <<ttp, sizes, Connected, leftover>>
  BY DEF dequeueData, history
<1> HIDE DEF rest
<1>5. RingTypes'
  BY <1>2, <1>3, <1>4 DEF RingTypes
<1>6. \A p \in Ends : p # e => rx'[p] = rx[p] /\ reader'[p] = reader[p]
  BY <1>2, <1>4
<1>7. rx'[e] = rest /\ reader'[e] = n
  BY <1>2, <1>4
<1>8. Bounded'
  <2> SUFFICES ASSUME NEW p \in Ends
               PROVE  Len(rx'[p]) <= Ring
    BY <1>4 DEF IInv, Bounded, Ring
  <2>1. Len(rx[p]) <= Ring
    BY DEF IInv, Bounded
  <2>2. CASE p = e
    BY SMTT(30), <1>2, <1>3, <1>7, <2>1, <2>2, TinyTPAssumption DEF Ring
  <2> QED
    BY <1>6, <2>1, <2>2
<1>9. Room'
  <2> SUFFICES ASSUME NEW p \in Ends, Connected[p], ~leftover[p]
               PROVE  Total(sizes[p]) = Len(rx'[p]) + reader'[p]
    BY <1>4 DEF IInv, Room
  <2>1. Total(sizes[p]) = Len(rx[p]) + reader[p]
    BY DEF IInv, Room
  <2>2. CASE p = e
    BY <1>2, <1>3, <1>7, <2>1, <2>2
  <2> QED
    BY <1>6, <2>1, <2>2
<1> QED
  BY <1>0, <1>1, <1>5, <1>8, <1>9 DEF IInv, Typed

(* The credit of what it took goes back.                                     *)
LEMMA StepReturnCredit ==
  ASSUME IInv, NEW e \in Ends, ReturnCredit(e)
  PROVE  IInv'
<1> DEFINE k == Consumed(sizes[e], reader[e])
           t == PacketsRead(State(e), k)
           left == Shrunk(sizes[e], reader[e])
<1>0. Typed /\ CounterTypes /\ RingTypes
  BY DEF IInv, Typed
<1>1. WriterTypes' /\ Busy'
  BY WriterStays DEF ReturnCredit
<1>2. HistoryTypes'
  BY <1>0 DEF Typed, HistoryTypes, ReturnCredit, history
<1>3. /\ sizes \in [Ends -> Seq(1 .. MaxPacket)] /\ sizes[e] \in Seq(1 .. MaxPacket)
      /\ reader \in [Ends -> Nat] /\ reader[e] \in Nat
      /\ \A p \in Ends : rx[p] \in Seq(Nat) /\ Len(rx[p]) \in Nat
      /\ \A p \in Ends : Len(sizes[p]) \in Nat
  BY <1>0 DEF RingTypes
<1>4. /\ reader' = [reader EXCEPT ![e] = 0] /\ reader'[e] = 0
      /\ \A p \in Ends : p # e => reader'[p] = reader[p]
      /\ UNCHANGED <<link, Connected, notice, rx, leftover>>
  BY <1>3 DEF ReturnCredit, history
<1>5. CASE ~Connected[e]
  <2>1. UNCHANGED <<ttp, wire, sizes>>
    BY <1>5 DEF ReturnCredit
  <2>2. CounterTypes' /\ LinkTypes' /\ WireTypes' /\ RingTypes'
    BY <1>0, <1>3, <1>4, <2>1 DEF Typed, CounterTypes, LinkTypes, WireTypes, RingTypes
  <2>3. Linked'
    BY <1>4, <2>1 DEF IInv, Linked, Calling, Joined
  <2>4. Circulation'
    BY <1>4, <2>1 DEF IInv, Circulation, Owed, CapIsEnough
  <2>5. Bounded'
    BY <1>4, <2>1 DEF IInv, Bounded, Ring
  <2>6. Room'
    BY <1>4, <1>5, <2>1 DEF IInv, Room
  <2> QED
    BY <1>1, <1>2, <2>2, <2>3, <2>4, <2>5, <2>6 DEF IInv, Typed
<1>6. CASE Connected[e]
  <2>1. k \in Nat /\ k <= Len(sizes[e])
    BY <1>3, ConsumedIs
  <2>2. /\ left \in Seq(1 .. MaxPacket) /\ Len(left) = Len(sizes[e]) - k
        /\ reader[e] <= Total(sizes[e]) => Total(left) = Total(sizes[e]) - reader[e]
    BY <1>3, ShrunkIs
  <2>3. /\ Sends(State(e), t)
        /\ t.avail + t.remote = ttp[e].avail + ttp[e].remote + k
    <3> HIDE DEF k
    <3> QED
      BY <1>0, <2>1, PacketsReadIs, StateIs
  <2>4. /\ ttp' = [ttp EXCEPT ![e] = Credits(t)] /\ DataPut(e, t.out)
        /\ sizes' = [sizes EXCEPT ![e] = left]
    BY <1>6 DEF ReturnCredit
  <2> HIDE DEF k, t, left
  <2>5. /\ CounterTypes' /\ LinkTypes' /\ WireTypes' /\ Linked' /\ Circulation'
        /\ ttp'[e].avail = t.avail /\ ttp'[e].remote = t.remote
        /\ ttp'[e].send <= ttp[e].send /\ ttp'[e].send \in Nat
        /\ t.avail \in Nat /\ t.remote \in Nat
        /\ \A p \in Ends : p # e => ttp'[p] = ttp[p]
    BY <1>4, <1>6, <2>3, <2>4, SendingIs
  <2>6. sizes'[e] = left /\ \A p \in Ends : p # e => sizes'[p] = sizes[p]
    BY <1>3, <2>4
  <2>7. RingTypes'
    BY <1>0, <1>3, <1>4, <2>2, <2>4 DEF RingTypes
  <2>8. /\ ttp[e].send \in Nat /\ ttp[e].avail \in Nat /\ ttp[e].remote \in Nat
        /\ Len(left) \in Nat
    BY <1>0, <2>2, StateIs
  <2>9. Len(left) + ttp'[e].avail + ttp'[e].remote
            = Len(sizes[e]) + ttp[e].avail + ttp[e].remote
    <3> DEFINE l == Len(sizes[e])
               m == Len(left)
               a == ttp[e].avail
               r == ttp[e].remote
    <3>1. /\ l \in Nat /\ m \in Nat /\ a \in Nat /\ r \in Nat
          /\ m = l - k /\ t.avail + t.remote = a + r + k /\ k <= l
      BY <1>3, <2>1, <2>2, <2>3, <2>8
    <3> HIDE DEF l, m, a, r
    <3>2. m + t.avail + t.remote = l + a + r
      BY <2>1, <2>5, <3>1, Returned
    <3> QED
      BY <2>5, <3>2 DEF l, m, a, r
  <2>10. Bounded'
    <3> SUFFICES ASSUME NEW p \in Ends
                 PROVE  /\ ttp'[p].send <= Cap
                        /\ Len(sizes'[p]) <= Credit + 2
                        /\ Len(sizes'[p]) + ttp'[p].avail + ttp'[p].remote <= 2 * Credit + 2
                        /\ Len(rx[p]) <= Ring
      BY <1>4 DEF Bounded, Ring
    <3>1. /\ ttp[p].send <= Cap /\ Len(sizes[p]) <= Credit + 2
          /\ Len(sizes[p]) + ttp[p].avail + ttp[p].remote <= 2 * Credit + 2
          /\ Len(rx[p]) <= Ring
      BY DEF IInv, Bounded
    <3>2. CASE p # e
      BY <2>5, <2>6, <3>1, <3>2
    <3>3. CASE p = e
      <4>1. ttp'[e].send <= Cap
        BY SMTT(30), <2>5, <2>8, <3>1, <3>3, TinyTPAssumption
      <4>2. Len(left) <= Credit + 2
        BY <1>3, <2>1, <2>2, <3>1, <3>3, TinyTPAssumption
      <4> QED
        BY <2>6, <2>9, <3>1, <3>3, <4>1, <4>2
    <3> QED
      BY <3>2, <3>3
  <2>11. Room'
    <3> SUFFICES ASSUME NEW p \in Ends, Connected[p], ~leftover[p]
                 PROVE  /\ Total(sizes'[p]) = Len(rx[p]) + reader'[p]
                        /\ Len(sizes'[p]) + ttp'[p].avail + ttp'[p].remote = Credit
      BY <1>4 DEF Room
    <3>1. /\ Total(sizes[p]) = Len(rx[p]) + reader[p]
          /\ Len(sizes[p]) + ttp[p].avail + ttp[p].remote = Credit
      BY DEF IInv, Room
    <3>2. CASE p # e
      BY <1>4, <2>5, <2>6, <3>1, <3>2
    <3>3. CASE p = e
      <4>1. reader[e] <= Len(rx[e]) + reader[e]
        BY <1>3
      <4>2. Total(left) = (Len(rx[e]) + reader[e]) - reader[e]
        BY <2>2, <3>1, <3>3, <4>1
      <4>3. Total(left) = Len(rx[e]) + 0
        BY <1>3, <4>2
      <4> QED
        BY <1>4, <2>6, <2>9, <3>1, <3>3, <4>3
    <3> QED
      BY <3>2, <3>3
  <2> QED
    BY <1>1, <1>2, <2>5, <2>7, <2>10, <2>11 DEF IInv, Typed
<1> QED
  BY <1>5, <1>6

-----------------------------------------------------------------------------
(* Connections.                                                              *)

(* What the types say of an end.                                             *)
LEMMA EndIs ==
  ASSUME Typed, NEW e \in Ends
  PROVE  /\ ttp \in [Ends -> Counters] /\ wire \in [Ends -> Seq(PDU)]
         /\ wire[e] \in Seq(PDU) /\ link \in {"down", "connecting", "up", "lost"}
         /\ sizes[e] \in Seq(1 .. MaxPacket) /\ Len(sizes[e]) \in Nat
         /\ rx[e] \in Seq(Nat) /\ Len(rx[e]) \in Nat /\ reader[e] \in Nat
         /\ ttp[e].avail \in Nat /\ ttp[e].remote \in Nat /\ ttp[e].send \in Nat
         /\ Connected \in [Ends -> BOOLEAN] /\ notice \in [Ends -> BOOLEAN]
BY SMTT(30) DEF Typed, CounterTypes, WireTypes, RingTypes, LinkTypes, Counters,
                PDU

(* The requests and answers are PDUs of their kind.                          *)
LEMMA OpeningsAre ==
  /\ Connect \in PDU /\ Connect.kind = "connect" /\ Connect.credit = Credit
  /\ Accept \in PDU /\ Accept.kind = "accept" /\ Accept.credit = Credit
  /\ Credit \in Nat /\ Fresh \in Counters
  /\ Fresh.avail = 0 /\ Fresh.remote = Credit /\ Fresh.send = 0
  /\ <<Connect>> \in Seq(PDU) /\ <<Accept>> \in Seq(PDU)
  /\ Given(<<Connect>>) = Credit /\ Used(<<Connect>>) = 0
  /\ Given(<<Accept>>) = Credit /\ Used(<<Accept>>) = 0
<1>1. Credit \in Nat
  BY TinyTPAssumption
<1>2. /\ Connect \in PDU /\ Connect.kind = "connect" /\ Connect.credit = Credit
      /\ Accept \in PDU /\ Accept.kind = "accept" /\ Accept.credit = Credit
  BY <1>1 DEF Connect, Accept, PDU, Opening
<1>3. /\ Fresh \in Counters
      /\ Fresh.avail = 0 /\ Fresh.remote = Credit /\ Fresh.send = 0
  BY <1>1 DEF Fresh, Counters
<1>4. /\ <<Connect>> \in Seq(PDU) /\ <<Accept>> \in Seq(PDU)
  BY <1>2
<1>5. /\ Given(<<Connect>>) = Credit /\ Used(<<Connect>>) = 0
      /\ Given(<<Accept>>) = Credit /\ Used(<<Accept>>) = 0
  BY <1>2, GivenUsedByOne
<1> QED
  BY <1>1, <1>2, <1>3, <1>4, <1>5

(* An end asks for a connection.                                             *)
LEMMA StepDoConnectRequest ==
  ASSUME IInv, NEW e \in Ends, DoConnectRequest(e)
  PROVE  IInv'
<1> DEFINE q == Peer(e)
<1>0. Typed /\ Linked
  BY DEF IInv
<1>1. q \in Ends /\ q # e /\ Peer(q) = e /\ \A p \in Ends : p = e \/ p = q
  BY Two
<1> HIDE DEF q
<1>2. WriterTypes' /\ Busy'
  BY WriterStays DEF DoConnectRequest, tty
<1>3. HistoryTypes' /\ RingTypes'
  BY <1>0 DEF Typed, HistoryTypes, RingTypes, DoConnectRequest, history, tty
<1>4. /\ link = "down" /\ link' = "connecting"
      /\ ttp' = [ttp EXCEPT ![e] = Fresh]
      /\ wire' = [wire EXCEPT ![q] = <<Connect>>]
      /\ UNCHANGED <<Connected, notice, sizes, rx, reader, leftover>>
  BY DEF DoConnectRequest, history, tty, q, Fresh, Connect
<1>5. \A p \in Ends : wire[p] = <<>> /\ ~Connected[p] /\ ~notice[p]
  BY <1>0, <1>4 DEF Linked
<1>6. /\ ttp'[e] = Fresh /\ ttp'[q] = ttp[q]
      /\ wire'[q] = <<Connect>> /\ wire'[e] = <<>>
  BY <1>0, <1>1, <1>4, <1>5, EndIs
<1>7. CounterTypes'
  BY <1>0, <1>4, EndIs, OpeningsAre DEF CounterTypes
<1>8. WireTypes'
  BY <1>0, <1>4, EndIs, OpeningsAre DEF WireTypes, PDU
<1>9. LinkTypes'
  BY <1>0, <1>4 DEF Typed, LinkTypes
<1>10. Linked'
  <2>1. Calling(e)'
    BY <1>6 DEF Calling, q
  <2>2. \A p \in Ends : Calling(p)' \/ Calling(Peer(p))'
    BY <1>1, <2>1
  <2> QED
    BY <1>4, <1>5, <2>2 DEF Linked
<1>11. Circulation'
  BY <1>4 DEF Circulation
<1>12. Bounded'
  <2> SUFFICES ASSUME NEW p \in Ends
               PROVE  /\ ttp'[p].send <= Cap
                      /\ Len(sizes[p]) + ttp'[p].avail + ttp'[p].remote <= 2 * Credit + 2
    BY <1>4 DEF Bounded, IInv, Ring
  <2>1. /\ ttp[p].send <= Cap /\ Len(sizes[p]) <= Credit + 2
        /\ Len(sizes[p]) + ttp[p].avail + ttp[p].remote <= 2 * Credit + 2
    BY DEF IInv, Bounded
  <2>2. CASE p = e
    <3>1. Len(sizes[e]) \in Nat /\ Len(sizes[e]) <= Credit + 2 /\ Credit \in Nat
      BY <1>0, <2>1, <2>2, EndIs, OpeningsAre
    <3>2. Len(sizes[e]) + 0 + Credit <= 2 * Credit + 2
      BY <3>1
    <3>3. 0 <= Cap
      BY TinyTPAssumption
    <3> QED
      BY <1>6, <2>2, <3>2, <3>3, OpeningsAre
  <2>3. CASE p = q
    BY <1>6, <2>1, <2>3
  <2> QED
    BY <1>1, <2>2, <2>3
<1>13. Room'
  BY <1>4, <1>5 DEF Room
<1> QED
  BY <1>2, <1>3, <1>7, <1>8, <1>9, <1>10, <1>11, <1>12, <1>13 DEF IInv, Typed

(* An end that opens while nothing is left has nothing to account for.       *)
LEMMA OpenedIs ==
  ASSUME IInv, NEW e \in Ends, Opened(e),
         NEW c \in Counters, ttp' = [ttp EXCEPT ![e] = c],
         c.send = Credit, c.avail = 0, c.remote = Credit,
         UNCHANGED <<sizes, rx, reader>>
  PROVE  /\ CounterTypes' /\ Bounded' /\ Room' /\ HistoryTypes' /\ RingTypes'
         /\ Connected' = [Connected EXCEPT ![e] = TRUE]
<1>0. Typed
  BY DEF IInv
<1>1. Connected' = [Connected EXCEPT ![e] = TRUE]
  BY DEF Opened
<1>2. CounterTypes'
  BY <1>0, EndIs DEF CounterTypes
<1>3. RingTypes'
  BY <1>0 DEF Typed, RingTypes
<1>4. HistoryTypes'
  <2>1. leftover' \in [Ends -> BOOLEAN]
    BY <1>0 DEF Typed, HistoryTypes, Opened
  <2>2. parked' \in [Ends -> BOOLEAN]
    BY <1>0 DEF Typed, HistoryTypes, Opened
  <2>3. spoiled' \in [Ends -> BOOLEAN]
    BY <1>0 DEF Typed, HistoryTypes, Opened
  <2> QED
    BY <2>1, <2>2, <2>3 DEF HistoryTypes
<1>5. ttp'[e] = c /\ \A p \in Ends : p # e => ttp'[p] = ttp[p]
  BY <1>0, EndIs
<1>6. Bounded'
  <2> SUFFICES ASSUME NEW p \in Ends
               PROVE  /\ ttp'[p].send <= Cap
                      /\ Len(sizes[p]) + ttp'[p].avail + ttp'[p].remote <= 2 * Credit + 2
    BY DEF Bounded, IInv, Ring
  <2>1. /\ ttp[p].send <= Cap /\ Len(sizes[p]) <= Credit + 2
        /\ Len(sizes[p]) + ttp[p].avail + ttp[p].remote <= 2 * Credit + 2
    BY DEF IInv, Bounded
  <2>2. CASE p = e
    <3>1. Len(sizes[e]) \in Nat
      BY <1>0, EndIs
    <3>2. Len(sizes[e]) + 0 + Credit <= 2 * Credit + 2 /\ Credit <= Cap
      BY SMTT(30), <2>1, <2>2, <3>1, TinyTPAssumption
    <3> QED
      BY <1>5, <2>2, <3>2
  <2>3. CASE p # e
    BY <1>5, <2>1, <2>3
  <2> QED
    BY <2>2, <2>3
<1>7. Room'
  <2> SUFFICES ASSUME NEW p \in Ends, Connected'[p], ~leftover'[p]
               PROVE  /\ Total(sizes[p]) = Len(rx[p]) + reader[p]
                      /\ Len(sizes[p]) + ttp'[p].avail + ttp'[p].remote = Credit
    BY DEF Room
  <2>1. CASE p = e
    <3>1. ~(leftover[e] \/ rx[e] # <<>> \/ sizes[e] # <<>> \/ reader[e] > 0)
      BY <1>0, <2>1 DEF Opened, Typed, HistoryTypes
    <3>2. rx[e] = <<>> /\ sizes[e] = <<>> /\ reader[e] = 0
      BY <1>0, <3>1, EndIs
    <3>3. Len(<<>>) = 0 /\ 0 = 0 + 0 /\ 0 + 0 + Credit = Credit
      BY OpeningsAre
    <3> QED
      BY <1>5, <2>1, <3>2, <3>3, TotalOfNone
  <2>2. CASE p # e
    <3>1. Connected[p] /\ ~leftover[p]
      BY <1>0, <1>1, <2>2 DEF Opened, Typed, HistoryTypes, LinkTypes
    <3> QED
      BY <1>5, <2>2, <3>1 DEF IInv, Room
  <2> QED
    BY <2>1, <2>2
<1> QED
  BY <1>1, <1>2, <1>3, <1>4, <1>6, <1>7

(* The listener is connected: it has the credit of the caller, and the       *)
(* caller's is on its way.                                                   *)
LEMMA StepHandleConnectIndication ==
  ASSUME IInv, NEW e \in Ends, HandleConnectIndication(e)
  PROVE  IInv'
<1> DEFINE q == Peer(e)
           c == [avail |-> 0, remote |-> Credit, send |-> First(e).credit]
<1>0. Typed /\ Linked
  BY DEF IInv
<1>1. q \in Ends /\ q # e /\ Peer(q) = e /\ \A p \in Ends : p = e \/ p = q
  BY Two
<1> HIDE DEF q
<1>2. wire[e] \in Seq(PDU) /\ wire[e] # <<>> /\ wire[e][1].kind = "connect"
  BY <1>0, EndIs DEF HandleConnectIndication, First
<1>3. link = "connecting"
  <2>1. link \notin {"down", "lost"}
    BY <1>0, <1>2 DEF Linked
  <2>2. ASSUME link = "up"
        PROVE  FALSE
    <3>1. Joined(e)
      BY <1>0, <2>2 DEF Linked
    <3>2. CASE AllData(wire[e], 1)
      <4>1. 1 \in 1 .. Len(wire[e])
        BY <1>2
      <4>2. wire[e][1] \in DataPDU
        BY <3>2, <4>1 DEF AllData
      <4> QED
        BY <1>2, <4>2 DEF DataPDU
    <3>3. CASE wire[e][1] = Accept
      BY <1>2, <3>3, OpeningsAre
    <3> QED
      BY <3>1, <3>2, <3>3 DEF Joined
  <2> QED
    BY <1>0, <2>1, <2>2, EndIs
<1>4. /\ wire[q] = <<>> /\ ttp[q] = Fresh /\ wire[e] = <<Connect>>
      /\ \A p \in Ends : ~Connected[p] /\ ~notice[p]
  <2>1. Calling(e) \/ Calling(q)
    BY <1>0, <1>3 DEF Linked, q
  <2>2. ~Calling(e)
    BY <1>2 DEF Calling
  <2>3. \A p \in Ends : ~Connected[p] /\ ~notice[p]
    BY <1>0, <1>3 DEF Linked
  <2> QED
    BY <1>1, <2>1, <2>2, <2>3 DEF Calling
<1>5. First(e) = Connect
  BY <1>4 DEF First
<1>6. /\ c \in Counters /\ c.send = Credit /\ c.avail = 0 /\ c.remote = Credit
  BY <1>5, OpeningsAre DEF Counters
<1>7. /\ Opened(e) /\ ttp' = [ttp EXCEPT ![e] = c] /\ link' = "up"
      /\ UNCHANGED <<notice, sizes, rx, reader>>
      /\ wire' = [wire EXCEPT ![e] = Tail(wire[e]),
                              ![q] = Append(wire[q], Accept)]
  BY <1>1 DEF HandleConnectIndication, tty, Accept, q
<1> HIDE DEF c
<1>8. /\ CounterTypes' /\ Bounded' /\ Room' /\ HistoryTypes' /\ RingTypes'
      /\ Connected' = [Connected EXCEPT ![e] = TRUE]
  BY <1>6, <1>7, OpenedIs
<1>9. WriterTypes' /\ Busy'
  BY WriterStays DEF HandleConnectIndication, tty
<1>10. wire'[e] = <<>> /\ wire'[q] = <<Accept>>
  <2>1. Tail(<<Connect>>) = <<>> /\ Append(<<>>, Accept) = <<Accept>>
    OBVIOUS
  <2> QED
    BY <1>0, <1>1, <1>4, <1>7, <2>1, EndIs
<1>11. WireTypes'
  <2>1. <<>> \in Seq(PDU)
    OBVIOUS
  <2>2. wire' = [wire EXCEPT ![e] = wire'[e], ![q] = wire'[q]]
    BY <1>0, <1>1, <1>7, EndIs
  <2> QED
    BY <1>0, <1>1, <1>10, <2>1, <2>2, EndIs, OpeningsAre DEF WireTypes, PDU
<1>12. LinkTypes'
  BY <1>0, <1>7, <1>8 DEF Typed, LinkTypes
<1>13. ttp'[e] = c /\ ttp'[q] = Fresh /\ Connected'[e] /\ ~Connected'[q]
  BY <1>0, <1>1, <1>4, <1>7, <1>8, EndIs
<1>14. Linked'
  <2>1. Joined(e)'
    <3>1. AllData(<<>>, 1)
      BY DEF AllData
    <3> QED
      BY <1>10, <1>13, <3>1 DEF Joined
  <2>2. Joined(q)'
    <3>1. AllData(<<Accept>>, 2) /\ <<Accept>> # <<>> /\ <<Accept>>[1] = Accept
      BY DEF AllData
    <3> QED
      BY <1>1, <1>10, <1>13, <3>1 DEF Joined
  <2> QED
    BY <1>1, <1>4, <1>7, <2>1, <2>2 DEF Linked
<1>15. Circulation'
  <2>1. Given(<<>>) = 0 /\ Used(<<>>) = 0
    <3>1. <<>> \in Seq(PDU)
      OBVIOUS
    <3> QED
      BY <3>1, GivenUsed
  <2>2. Owed(e)' = 0 + Credit + 0
    BY <1>10, <1>13, <2>1, OpeningsAre DEF Owed, q
  <2>3. Owed(q)' = Credit + 0 + 0
    BY <1>1, <1>6, <1>10, <1>13, <2>1, OpeningsAre DEF Owed
  <2>4. ttp'[e].remote = Credit /\ ttp'[q].remote = Credit
    BY <1>6, <1>13, OpeningsAre
  <2>5. \A p \in Ends : Owed(p)' <= ttp'[p].remote /\ Owed(p)' = ttp'[p].remote
    BY <1>1, <2>2, <2>3, <2>4, OpeningsAre
  <2> QED
    BY <2>5 DEF Circulation
<1> QED
  BY <1>8, <1>9, <1>11, <1>12, <1>14, <1>15 DEF IInv, Typed

(* The caller is connected, with the credit of the listener.                 *)
LEMMA StepHandleConnectConfirm ==
  ASSUME IInv, NEW e \in Ends, HandleConnectConfirm(e)
  PROVE  IInv'
<1> DEFINE q == Peer(e)
           c == [ttp[e] EXCEPT !.send = First(e).credit]
<1>0. Typed /\ Linked
  BY DEF IInv
<1>1. q \in Ends /\ q # e /\ Peer(q) = e /\ \A p \in Ends : p = e \/ p = q
  BY Two
<1> HIDE DEF q
<1>2. /\ wire[e] \in Seq(PDU) /\ wire[e] # <<>> /\ wire[e][1].kind = "accept"
      /\ First(e) = wire[e][1]
  BY <1>0, EndIs DEF HandleConnectConfirm, First
<1>3. link = "up"
  <2>1. link \notin {"down", "lost"}
    BY <1>0, <1>2 DEF Linked
  <2>2. ASSUME link = "connecting"
        PROVE  FALSE
    <3>1. wire[e] = <<>> \/ wire[e] = <<Connect>>
      BY <1>0, <1>1, <2>2 DEF Linked, Calling, q
    <3>2. <<Connect>>[1] = Connect
      OBVIOUS
    <3> QED
      BY <1>2, <3>1, <3>2, OpeningsAre
  <2> QED
    BY <1>0, <2>1, <2>2, EndIs
<1>4. /\ ~Connected[e] /\ Connected[q] /\ ttp[e] = Fresh
      /\ wire[e][1] = Accept /\ AllData(wire[e], 2)
  <2>1. Joined(e)
    BY <1>0, <1>3 DEF Linked
  <2>2. ASSUME AllData(wire[e], 1)
        PROVE  FALSE
    <3>1. 1 \in 1 .. Len(wire[e])
      BY <1>2
    <3>2. wire[e][1] \in DataPDU
      BY <2>2, <3>1 DEF AllData
    <3> QED
      BY <1>2, <3>2 DEF DataPDU
  <2> QED
    BY <2>1, <2>2 DEF Joined, q
<1>5. AllData(wire[q], 1) /\ \A p \in Ends : ~notice[p]
  <2>1. Joined(q) /\ \A p \in Ends : ~notice[p]
    BY <1>0, <1>1, <1>3 DEF Linked
  <2> QED
    BY <1>4, <2>1 DEF Joined
<1>6. /\ c \in Counters /\ c.send = Credit /\ c.avail = 0 /\ c.remote = Credit
  BY <1>2, <1>4, OpeningsAre DEF Counters, Fresh
<1>7. /\ Opened(e) /\ ttp' = [ttp EXCEPT ![e] = c]
      /\ UNCHANGED <<link, notice, sizes, rx, reader>>
      /\ wire' = [wire EXCEPT ![e] = Tail(wire[e])]
  BY DEF HandleConnectConfirm, tty
<1> HIDE DEF c
<1>8. /\ CounterTypes' /\ Bounded' /\ Room' /\ HistoryTypes' /\ RingTypes'
      /\ Connected' = [Connected EXCEPT ![e] = TRUE]
  BY <1>6, <1>7, OpenedIs
<1>9. WriterTypes' /\ Busy'
  BY WriterStays DEF HandleConnectConfirm, tty
<1>10. wire'[e] = Tail(wire[e]) /\ wire'[q] = wire[q]
  BY <1>0, <1>1, <1>7, EndIs
<1>11. Tail(wire[e]) \in Seq(PDU) /\ AllData(Tail(wire[e]), 1)
  BY <1>2, <1>4, TailIsData
<1>12. WireTypes'
  BY <1>0, <1>7, <1>11, EndIs DEF WireTypes, PDU
<1>13. LinkTypes'
  BY <1>0, <1>7, <1>8 DEF Typed, LinkTypes
<1>14. ttp'[e] = c /\ ttp'[q] = ttp[q] /\ Connected'[e] /\ Connected'[q]
  BY <1>0, <1>1, <1>4, <1>7, <1>8, EndIs
<1>15. Linked'
  <2>1. Joined(e)'
    BY <1>10, <1>11, <1>14 DEF Joined
  <2>2. Joined(q)'
    BY <1>5, <1>10, <1>14 DEF Joined
  <2> QED
    BY <1>1, <1>3, <1>5, <1>7, <2>1, <2>2 DEF Linked
<1>16. Circulation'
  <2>1. /\ Given(wire[e]) = Credit + Given(Tail(wire[e]))
        /\ Used(wire[e]) = 0 + Used(Tail(wire[e]))
        /\ Given(Tail(wire[e])) \in Nat /\ Used(Tail(wire[e])) \in Nat
    <3>1. Head(wire[e]) = Accept
      BY <1>2, <1>4 DEF First
    <3> QED
      BY <1>2, <1>11, <3>1, GivenUsedByFirst, GivenUsed, OpeningsAre
  <2>2. /\ Given(wire[q]) \in Nat /\ Used(wire[q]) \in Nat
        /\ ttp[q].send \in Nat /\ ttp[q].remote \in Nat
    BY <1>0, <1>1, EndIs, GivenUsed
  <2>3. /\ Owed(e) = ttp[q].send + Given(wire[q]) + Used(wire[e])
        /\ Owed(e)' = ttp[q].send + Given(wire[q]) + Used(Tail(wire[e]))
    BY <1>10, <1>14 DEF Owed, q
  <2>4. /\ Owed(q) = 0 + Given(wire[e]) + Used(wire[q])
        /\ Owed(q)' = Credit + Given(Tail(wire[e])) + Used(wire[q])
    BY <1>1, <1>4, <1>6, <1>10, <1>14, OpeningsAre DEF Owed
  <2>5. Owed(e)' = Owed(e) /\ ttp'[e].remote = ttp[e].remote
    BY <1>4, <1>6, <1>14, <2>1, <2>2, <2>3, OpeningsAre
  <2>6. Owed(q)' = Owed(q) /\ ttp'[q].remote = ttp[q].remote
    BY <1>14, <2>1, <2>2, <2>4, OpeningsAre
  <2>7. \A p \in Ends : /\ Owed(p) <= ttp[p].remote
                        /\ CapIsEnough => Owed(p) = ttp[p].remote
    BY <1>3 DEF IInv, Circulation
  <2>8. \A p \in Ends : Owed(p)' = Owed(p) /\ ttp'[p].remote = ttp[p].remote
    BY <1>1, <2>5, <2>6
  <2> QED
    BY <2>7, <2>8 DEF Circulation, CapIsEnough
<1> QED
  BY <1>8, <1>9, <1>12, <1>13, <1>15, <1>16 DEF IInv, Typed

(* Nothing is on its way any more.                                           *)
LEMMA StepLinkLost ==
  ASSUME IInv, LinkLost
  PROVE  IInv'
<1>1. WriterTypes' /\ Busy'
  BY WriterStays DEF LinkLost, tty
<1>2. CounterTypes' /\ RingTypes' /\ HistoryTypes'
  BY DEF IInv, Typed, CounterTypes, RingTypes, HistoryTypes, LinkLost, tty, history
<1>3. LinkTypes' /\ WireTypes'
  <2>1. <<>> \in Seq(DataPDU \cup Opening)
    OBVIOUS
  <2> QED
    BY <2>1 DEF IInv, Typed, LinkTypes, WireTypes, LinkLost
<1>4. Linked'
  BY DEF Linked, LinkLost
<1>5. Circulation'
  BY DEF Circulation, LinkLost
<1>6. Bounded' /\ Room'
  BY DEF IInv, Bounded, Room, Ring, LinkLost, tty, history
<1> QED
  BY <1>1, <1>2, <1>3, <1>4, <1>5, <1>6 DEF IInv, Typed

(* An end hears of it.                                                       *)
LEMMA StepHandleDisconnectIndication ==
  ASSUME IInv, NEW e \in Ends, HandleDisconnectIndication(e)
  PROVE  IInv'
<1> DEFINE q == Peer(e)
<1>0. Typed /\ Linked
  BY DEF IInv
<1>1. q \in Ends /\ q # e /\ Peer(q) = e /\ \A p \in Ends : p = e \/ p = q
  BY Two
<1> HIDE DEF q
<1>2. WriterTypes' /\ Busy'
  BY WriterStays DEF HandleDisconnectIndication, tty
<1>3. CounterTypes' /\ RingTypes' /\ HistoryTypes' /\ WireTypes'
  BY DEF IInv, Typed, CounterTypes, RingTypes, HistoryTypes, WireTypes,
         HandleDisconnectIndication, tty, history
<1>4. link = "lost" /\ \A p \in Ends : wire[p] = <<>>
  <2>1. notice[e]
    BY DEF HandleDisconnectIndication
  <2> QED
    BY <1>0, <2>1 DEF Linked
<1>5. /\ notice' = [notice EXCEPT ![e] = FALSE]
      /\ Connected' = [Connected EXCEPT ![e] = FALSE]
      /\ link' = (IF notice[q] THEN "lost" ELSE "down")
      /\ UNCHANGED <<ttp, wire, sizes, rx, reader, leftover>>
  BY <1>4 DEF HandleDisconnectIndication, tty, history, q
<1>6. /\ ~notice'[e] /\ ~Connected'[e]
      /\ notice'[q] = notice[q] /\ Connected'[q] = Connected[q]
  BY <1>0, <1>1, <1>5, EndIs
<1>7. LinkTypes'
  <2>1. notice' \in [Ends -> BOOLEAN] /\ Connected' \in [Ends -> BOOLEAN]
    BY <1>0, <1>5, EndIs
  <2> QED
    BY <1>5, <2>1 DEF LinkTypes
<1>8. Linked'
  <2>1. CASE notice[q]
    <3>1. link' = "lost"
      BY <1>5, <2>1
    <3> QED
      BY <1>1, <1>4, <1>5, <1>6, <2>1, <3>1 DEF Linked, q
  <2>2. CASE ~notice[q]
    <3>1. link' = "down"
      BY <1>5, <2>2
    <3>2. ~Connected[q]
      BY <1>0, <1>1, <1>4, <2>2 DEF Linked
    <3> QED
      BY <1>1, <1>4, <1>5, <1>6, <2>2, <3>1, <3>2 DEF Linked
  <2> QED
    BY <2>1, <2>2
<1>9. Circulation'
  BY <1>5 DEF Circulation
<1>10. Bounded'
  BY <1>5 DEF IInv, Bounded, Ring
<1>11. Room'
  <2>1. \A p \in Ends : Connected'[p] => Connected[p]
    BY <1>1, <1>6
  <2> QED
    BY <1>5, <2>1 DEF IInv, Room
<1> QED
  BY <1>2, <1>3, <1>7, <1>8, <1>9, <1>10, <1>11 DEF IInv, Typed

-----------------------------------------------------------------------------
(* Data arrives.                                                             *)

(* What the arrival of a PDU does to the link and the counters.              *)
LEMMA ArrivalIs ==
  ASSUME IInv, NEW e \in Ends, DataGetComplete(e),
         NEW u, u = (IF First(e).bytes = <<>> THEN 0 ELSE 1)
  PROVE  /\ First(e) \in DataPDU /\ link = "up"
         /\ CounterTypes' /\ LinkTypes' /\ WireTypes' /\ Linked' /\ Circulation'
         /\ u \in 0 .. 1 /\ u <= ttp[e].remote /\ ttp'[e].send <= Cap
         /\ ttp'[e].avail + ttp'[e].remote + u = ttp[e].avail + ttp[e].remote
         /\ ttp'[e].avail \in Nat /\ ttp'[e].remote \in Nat
         /\ \A p \in Ends : p # e => ttp'[p] = ttp[p]
<1> DEFINE q == Peer(e)
           w == Tail(wire[e])
           pdu == First(e)
           t == CheckTheQueues(HandleDataIndication(e, pdu))
<1>0. /\ Typed /\ Linked /\ Circulation /\ Bounded /\ CounterTypes /\ WireTypes
      /\ Connected[e]
  BY DEF IInv, Typed, DataGetComplete
<1>1. q \in Ends /\ q # e /\ Peer(q) = e /\ \A p \in Ends : p = e \/ p = q
  BY Two
<1> HIDE DEF q
<1>2. /\ wire[e] \in Seq(PDU) /\ wire[e] # <<>> /\ pdu.kind = "data"
  BY <1>0, EndIs DEF DataGetComplete
<1>3. /\ w \in Seq(PDU) /\ pdu \in PDU
      /\ Given(wire[e]) = pdu.credit + Given(w)
      /\ Used(wire[e]) = u + Used(w)
  <2>1. /\ w \in Seq(PDU) /\ Head(wire[e]) \in PDU
        /\ Given(wire[e]) = Head(wire[e]).credit + Given(w)
        /\ Used(wire[e]) = (IF Head(wire[e]).kind = "data" /\ Head(wire[e]).bytes # <<>>
                            THEN 1 ELSE 0) + Used(w)
    BY <1>2, GivenUsedByFirst
  <2>2. (IF pdu.kind = "data" /\ pdu.bytes # <<>> THEN 1 ELSE 0) = u
    BY <1>2
  <2> QED
    BY <2>1, <2>2 DEF First
<1>4. pdu \in DataPDU /\ pdu.credit \in Nat
  BY <1>2, <1>3 DEF PDU, DataPDU, Opening
<1>5. u \in 0 .. 1 /\ u \in Nat
  OBVIOUS
<1>6. link = "up"
  BY <1>0, <1>2, EndIs DEF Linked
<1>7. AllData(wire[e], 1)
  BY <1>0, <1>6 DEF Linked, Joined
<1>8. AllData(w, 1)
  BY <1>2, <1>7, TailIsData
<1>9. /\ ttp[e].avail \in Nat /\ ttp[e].remote \in Nat /\ ttp[e].send \in Nat
      /\ ttp[q].send \in Nat /\ ttp[q].remote \in Nat /\ ttp[q].avail \in Nat
      /\ Given(w) \in Nat /\ Used(w) \in Nat
      /\ Given(wire[q]) \in Nat /\ Used(wire[q]) \in Nat
      /\ Len(sizes[q]) \in Nat
  BY <1>0, <1>1, <1>3, EndIs, GivenUsed
<1> HIDE DEF w, pdu
<1>10. u <= ttp[e].remote
  <2>1. ttp[q].send + Given(wire[q]) + (u + Used(w)) <= ttp[e].remote
    BY <1>0, <1>1, <1>3, <1>6 DEF Circulation, Owed, q
  <2>2. ttp[q].send + Given(wire[q]) \in Nat
    BY <1>9
  <2> QED
    BY <1>5, <1>9, <2>1, <2>2
<1>11. CapIsEnough => ttp[e].send + pdu.credit <= Cap
  <2> SUFFICES ASSUME CapIsEnough
               PROVE  ttp[e].send + pdu.credit <= Cap
    OBVIOUS
  <2>1. ttp[e].send + (pdu.credit + Given(w)) + Used(wire[q]) <= ttp[q].remote
    BY <1>0, <1>1, <1>3, <1>6 DEF Circulation, Owed
  <2>2. Len(sizes[q]) + ttp[q].avail + ttp[q].remote <= 2 * Credit + 2
    BY <1>0, <1>1 DEF Bounded
  <2>3. Cap \in Nat /\ 2 * Credit + 2 \in Nat /\ 2 * Credit + 2 <= Cap
    <3>1. Cap \in Nat /\ Credit \in Nat
      BY TinyTPAssumption
    <3>2. 2 * Credit + 2 \in Nat
      BY <3>1
    <3> QED
      BY <3>1, <3>2 DEF CapIsEnough
  <2>4. ttp[q].remote <= 2 * Credit + 2
    BY <1>9, <2>2, <2>3, LastPart
  <2>5. ttp[e].send + pdu.credit <= ttp[q].remote
    BY <1>4, <1>9, <2>1, Parts
  <2>6. ttp[e].send + pdu.credit \in Nat
    BY SMTT(30), <1>4, <1>9
  <2> HIDE DEF CapIsEnough
  <2>7. \A a, b, c, d \in Nat : a <= b /\ b <= c /\ c <= d => a <= d
    OBVIOUS
  <2> QED
    BY <1>9, <2>3, <2>4, <2>5, <2>6, <2>7
<1>12. /\ t \in States
       /\ t.remote + u = ttp[e].remote + Given(t.out)
       /\ t.send + Used(t.out) = Lesser(ttp[e].send + pdu.credit, Cap)
       /\ t.avail + t.remote + u = ttp[e].avail + ttp[e].remote
  <2>1. u = Uses(pdu) /\ t = Answered(e, pdu)
    BY DEF pdu, Uses, Answered
  <2> HIDE DEF t
  <2> QED
    BY <1>0, <1>4, <1>5, <1>10, <2>1, HandleDataIndicationIs
<1>13. /\ t.avail \in Nat /\ t.remote \in Nat /\ t.send \in Nat
       /\ Used(t.out) \in Nat /\ t.out \in Seq(DataPDU)
  BY <1>12, OutIsPDUs DEF States
<1>14. /\ ttp' = [ttp EXCEPT ![e] = Credits(t)]
       /\ wire' = [wire EXCEPT ![e] = w, ![q] = wire[q] \o t.out]
       /\ UNCHANGED <<link, Connected, notice>>
  BY <1>1 DEF DataGetComplete, w, pdu, q
<1> HIDE DEF t
<1>15. Exchanged(e, w, t)
  <2>1. wire \in [Ends -> Seq(PDU)]
    BY <1>0, EndIs
  <2>2. wire' = [p \in Ends |-> IF p = e THEN w ELSE wire[p] \o t.out]
    <3>1. wire' = [p \in Ends |-> IF p = q THEN wire[q] \o t.out
                                  ELSE IF p = e THEN w ELSE wire[p]]
      BY <1>1, <1>14, <2>1
    <3> QED
      BY <1>1, <3>1
  <2>3. wire' = [p \in Ends |-> IF link # "up" THEN wire[p]
                                ELSE IF p = e THEN w ELSE wire[p] \o t.out]
    BY <1>6, <2>2
  <2> QED
    BY <1>14, <2>3 DEF Exchanged
<1>16. CounterTypes' /\ LinkTypes' /\ WireTypes' /\ Linked'
  BY <1>0, <1>3, <1>8, <1>12, <1>15, ExchangeIsLinked
<1>17. /\ t.send + Used(t.out) <= ttp[e].send + pdu.credit
       /\ t.send + Used(t.out) <= Cap
       /\ CapIsEnough => t.send + Used(t.out) = ttp[e].send + pdu.credit
  <2>1. ttp[e].send + pdu.credit \in Nat /\ Cap \in Nat
    <3>1. ttp[e].send \in Nat /\ pdu.credit \in Nat
      BY <1>4, <1>9
    <3> QED
      BY <3>1, TinyTPAssumption
  <2>2. /\ Lesser(ttp[e].send + pdu.credit, Cap) <= ttp[e].send + pdu.credit
        /\ Lesser(ttp[e].send + pdu.credit, Cap) <= Cap
        /\ CapIsEnough =>
              Lesser(ttp[e].send + pdu.credit, Cap) = ttp[e].send + pdu.credit
    BY <1>11, <2>1 DEF Lesser
  <2> QED
    BY <1>12, <2>2
<1>18. Circulation'
  BY <1>0, <1>3, <1>4, <1>5, <1>12, <1>15, <1>17, ExchangeConserves
<1>19. /\ ttp'[e].avail = t.avail /\ ttp'[e].remote = t.remote
       /\ ttp'[e].send = t.send /\ \A p \in Ends : p # e => ttp'[p] = ttp[p]
  BY <1>0, <1>14, EndIs DEF Credits
<1>20. t.send <= Cap
  BY <1>13, <1>17, TinyTPAssumption
<1> QED
  BY <1>4, <1>5, <1>6, <1>10, <1>12, <1>13, <1>16, <1>18, <1>19, <1>20 DEF pdu

(* The driver hands over what it may, from the front of the transmit ring.   *)
LEMMA ArrivalAtTheWriter ==
  ASSUME IInv, NEW e \in Ends, DataGetComplete(e), ~backEnabling[e]
  PROVE  WriterTypes' /\ Busy' /\ HistoryTypes'
<1> DEFINE pdu == First(e)
           s == [State(e) EXCEPT !.send = Lesser(@ + pdu.credit, Cap)]
           taken == IF pdu.credit > 0 THEN Len(BackEnabled(e, s)) ELSE 0
           rest == SubSeq(tx[e], taken + 1, Len(tx[e]))
<1>0. Typed /\ Busy
  BY DEF IInv
<1>1. s \in States
  <2>1. pdu.credit \in Nat
    BY ArrivalIs DEF DataPDU
  <2>2. State(e) \in States /\ State(e).send \in Nat
    BY <1>0, StateIs DEF Typed
  <2>3. Lesser(State(e).send + pdu.credit, Cap) \in Nat
    BY <2>1, <2>2, TinyTPAssumption DEF Lesser
  <2> QED
    BY <2>2, <2>3 DEF States
<1>2. taken \in Nat
  <2> HIDE DEF s
  <2> QED
    BY <1>0, <1>1, BackEnabledIs, LenProperties
<1>3. /\ tx' = [tx EXCEPT ![e] = rest] /\ load' = load
      /\ UNCHANGED <<writer, written, leftover>>
  BY DEF DataGetComplete, tty
<1> HIDE DEF taken
<1>4. rest \in Seq(Nat)
  BY <1>0, <1>2, WriterIs
<1>5. /\ writer' = [writer EXCEPT ![e] = writer[e]]
      /\ written' \in [Ends -> Nat]
  BY <1>0, <1>3, WriterIs DEF Typed, WriterTypes
<1>6. WriterTypes' /\ Busy'
  <2> DEFINE g == taken > 0
             b == AreTransmitting[e] \/ taken > 0
  <2>1. ~backEnabling[e] => (b => g \/ writer[e].pc \in {"busy", "done"})
    BY <1>0 DEF Busy
  <2>2. writer[e] \in [pc : Pcs, room : Nat, buf : Seq(Nat)]
    BY <1>0, WriterIs
  <2>3. /\ AreTransmitting' = [AreTransmitting EXCEPT ![e] = b]
        /\ backEnabling' = [backEnabling EXCEPT ![e] = g]
    BY DEF DataGetComplete, taken
  <2>4. b \in BOOLEAN /\ g \in BOOLEAN
    BY <1>0, WriterIs
  <2> HIDE DEF rest, g, b
  <2> QED
    BY <1>0, <1>3, <1>4, <1>5, <2>1, <2>2, <2>3, <2>4, WriterKept
<1>7. HistoryTypes'
  <2>1. HistoryTypes
    BY <1>0 DEF Typed
  <2>2. spoiled' = [spoiled EXCEPT ![e] =
                       spoiled[e] \/ (taken > 0 /\ writer[e].pc \in {"taken", "busy"})]
    BY DEF DataGetComplete, taken
  <2>3. parked' = [parked EXCEPT ![e] =
                       IF pdu.credit > 0 THEN AreTransmitting[e] /\ tx[e] # <<>>
                       ELSE parked[e]]
    BY DEF DataGetComplete
  <2>4. parked' \in [Ends -> BOOLEAN]
    BY <2>1, <2>3 DEF HistoryTypes
  <2>5. spoiled' \in [Ends -> BOOLEAN]
    BY <2>1, <2>2 DEF HistoryTypes
  <2> QED
    BY <1>3, <2>1, <2>4, <2>5 DEF HistoryTypes
<1> QED
  BY <1>6, <1>7

(* A packet finds room in the receive ring, and its size in the list.        *)
LEMMA ArrivalAtTheRing ==
  ASSUME IInv, NEW e \in Ends, DataGetComplete(e)
  PROVE  RingTypes' /\ Bounded' /\ Room'
<1> DEFINE u == IF First(e).bytes = <<>> THEN 0 ELSE 1
           n == Len(First(e).bytes)
           m == Lesser(n, Ring - Len(rx[e]))
           got == SubSeq(First(e).bytes, 1, m)
<1>0. Typed /\ Bounded /\ Room
  BY DEF IInv
<1>1. /\ First(e) \in DataPDU
      /\ u \in 0 .. 1 /\ u <= ttp[e].remote /\ ttp'[e].send <= Cap
      /\ ttp'[e].avail + ttp'[e].remote + u = ttp[e].avail + ttp[e].remote
      /\ ttp'[e].avail \in Nat /\ ttp'[e].remote \in Nat
      /\ \A p \in Ends : p # e => ttp'[p] = ttp[p]
  BY ArrivalIs
<1>2. /\ ttp[e].avail \in Nat /\ ttp[e].remote \in Nat
      /\ sizes[e] \in Seq(1 .. MaxPacket) /\ Len(sizes[e]) \in Nat
      /\ rx[e] \in Seq(Nat) /\ Len(rx[e]) \in Nat /\ reader[e] \in Nat
  BY <1>0, EndIs
<1>3. /\ Len(sizes[e]) <= Credit + 2 /\ Len(rx[e]) <= Ring
      /\ Len(sizes[e]) + ttp[e].avail + ttp[e].remote <= 2 * Credit + 2
      /\ Ring \in Nat /\ Credit \in Nat /\ MaxPacket \in Nat
      /\ Ring = Credit * MaxPacket
  BY <1>0, TinyTPAssumption DEF Bounded, Ring
<1>4. UNCHANGED <<Connected, reader, leftover>>
  BY DEF DataGetComplete, tty
<1>5. CASE First(e).bytes = <<>>
  <2>1. UNCHANGED <<sizes, rx>> /\ u = 0
    BY <1>5 DEF DataGetComplete
  <2>2. ttp'[e].avail + ttp'[e].remote = ttp[e].avail + ttp[e].remote
    BY <1>1, <2>1
  <2>3. Len(sizes[e]) + ttp'[e].avail + ttp'[e].remote
            = Len(sizes[e]) + ttp[e].avail + ttp[e].remote
    <3> DEFINE l == Len(sizes[e])
               a == ttp[e].avail
               r == ttp[e].remote
               ta == ttp'[e].avail
               tr == ttp'[e].remote
    <3>1. /\ l \in Nat /\ a \in Nat /\ r \in Nat /\ ta \in Nat /\ tr \in Nat
          /\ ta + tr = a + r
      BY <1>1, <1>2, <2>2
    <3> HIDE DEF l, a, r, ta, tr
    <3>2. ta + tr = a + r + 0 /\ l = l - 0 /\ 0 <= l
      BY <3>1
    <3>3. l + ta + tr = l + a + r
      BY <3>1, <3>2, Returned
    <3> QED
      BY <3>3 DEF l, a, r, ta, tr
  <2>4. RingTypes'
    BY <1>0, <1>4, <2>1 DEF Typed, RingTypes
  <2>5. \A p \in Ends : Len(sizes[p]) + ttp'[p].avail + ttp'[p].remote
                            = Len(sizes[p]) + ttp[p].avail + ttp[p].remote
    BY <1>1, <2>3
  <2>6. \A p \in Ends : ttp'[p].send <= Cap
    BY <1>0, <1>1 DEF Bounded
  <2>7. Bounded'
    BY <1>0, <2>1, <2>5, <2>6 DEF Bounded, Ring
  <2>8. Room'
    BY <1>0, <1>4, <2>1, <2>5 DEF Room
  <2> QED
    BY <2>4, <2>7, <2>8
<1>6. CASE First(e).bytes # <<>>
  <2> HIDE DEF n, m, got
  <2>1. /\ First(e).bytes \in Seq(Nat) /\ n \in Nat /\ n <= MaxPacket
        /\ n = Len(First(e).bytes) /\ u = 1
    BY <1>1, <1>6 DEF DataPDU, Bytes, n
  <2>2. n \in 1 .. MaxPacket
    BY <1>6, <2>1
  <2>3. m \in Nat /\ m <= n /\ Len(rx[e]) + m <= Ring
        /\ (Len(rx[e]) + n <= Ring => m = n)
    <3> DEFINE x == Len(rx[e])
    <3>1. m = Lesser(n, Ring - x) /\ x \in Nat /\ x <= Ring /\ n \in Nat /\ Ring \in Nat
      BY <1>2, <1>3, <2>1 DEF m
    <3> HIDE DEF x
    <3>2. m \in Nat /\ m <= n /\ x + m <= Ring /\ (x + n <= Ring => m = n)
      BY <3>1 DEF Lesser
    <3> QED
      BY <3>2 DEF x
  <2>4. got \in Seq(Nat) /\ Len(got) = m
    <3>1. \A i \in 1 .. m : i \in 1 .. Len(First(e).bytes)
      BY <2>1, <2>3
    <3>2. \A i \in 1 .. m : First(e).bytes[i] \in Nat
      BY <2>1, <3>1, ElementOfSeq
    <3>3. /\ got \in Seq(Nat) /\ Len(got) = IF 1 <= m THEN m - 1 + 1 ELSE 0
      BY <2>3, <3>2, SubSeqProperties DEF got
    <3>4. (IF 1 <= m THEN m - 1 + 1 ELSE 0) = m
      BY <2>3
    <3> QED
      BY <3>3, <3>4
  <2>5. /\ sizes' = [sizes EXCEPT ![e] = AddPacketSize(sizes[e], n)]
        /\ rx' = [rx EXCEPT ![e] = rx[e] \o got]
    BY <1>6 DEF DataGetComplete, n, m, got
  <2>6. rx[e] \o got \in Seq(Nat) /\ Len(rx[e] \o got) = Len(rx[e]) + m
    BY <1>2, <2>4, ConcatProperties
  <2> DEFINE more == <<n>> \o sizes[e]
             l == AddPacketSize(sizes[e], n)
  <2>7. /\ more \in Seq(1 .. MaxPacket) /\ Len(more) = 1 + Len(sizes[e])
        /\ Total(more) = n + Total(sizes[e])
    <3>1. <<n>> \in Seq(1 .. MaxPacket) /\ Len(<<n>>) = 1 /\ <<n>> \in Seq(Nat)
      BY <2>1, <2>2
    <3>2. sizes[e] \in Seq(Nat)
      BY <1>2, ConsumedIs
    <3>3. /\ more \in Seq(1 .. MaxPacket) /\ Len(more) = Len(<<n>>) + Len(sizes[e])
      BY <1>2, <3>1, ConcatProperties
    <3>4. Total(more) = Total(<<n>>) + Total(sizes[e])
      BY <3>1, <3>2, TotalOfConcat
    <3> QED
      BY <2>1, <3>1, <3>3, <3>4, TotalOfOne
  <2> HIDE DEF more
  <2>8. l = IF Len(sizes[e]) < Credit + 2 THEN more ELSE sizes[e]
    BY DEF AddPacketSize, more
  <2> HIDE DEF l
  <2>9. /\ l \in Seq(1 .. MaxPacket) /\ Len(l) \in Nat /\ Len(l) <= Credit + 2
        /\ Len(l) <= Len(sizes[e]) + 1
    BY SMTT(30), <1>2, <1>3, <2>7, <2>8
  <2>10. /\ sizes'[e] = l /\ rx'[e] = rx[e] \o got
         /\ \A p \in Ends : p # e => sizes'[p] = sizes[p] /\ rx'[p] = rx[p]
    BY <1>0, <2>5 DEF Typed, RingTypes, l
  <2>11. RingTypes'
    <3>1. sizes' \in [Ends -> Seq(1 .. MaxPacket)]
      BY <1>0, <2>5, <2>9 DEF Typed, RingTypes, l
    <3>2. rx' \in [Ends -> Seq(Nat)]
      BY <1>0, <2>5, <2>6 DEF Typed, RingTypes
    <3> QED
      BY <1>0, <1>4, <3>1, <3>2 DEF Typed, RingTypes
  <2>12. Len(l) + ttp'[e].avail + ttp'[e].remote
             <= Len(sizes[e]) + ttp[e].avail + ttp[e].remote
    <3> DEFINE a == ttp[e].avail
               r == ttp[e].remote
               ta == ttp'[e].avail
               tr == ttp'[e].remote
    <3>1. /\ a \in Nat /\ r \in Nat /\ ta \in Nat /\ tr \in Nat
          /\ ta + tr + 1 = a + r
      BY <1>1, <1>2, <2>1
    <3> HIDE DEF a, r, ta, tr
    <3>2. Len(l) + ta + tr <= Len(sizes[e]) + a + r
      BY <1>2, <2>9, <3>1, Taken
    <3> QED
      BY <3>2 DEF a, r, ta, tr
  <2>13. Bounded'
    <3> SUFFICES ASSUME NEW p \in Ends
                 PROVE  /\ ttp'[p].send <= Cap
                        /\ Len(sizes'[p]) <= Credit + 2
                        /\ Len(sizes'[p]) + ttp'[p].avail + ttp'[p].remote <= 2 * Credit + 2
                        /\ Len(rx'[p]) <= Ring
      BY DEF Bounded, Ring
    <3>1. CASE p = e
      <4>1. Len(l) + ttp'[e].avail + ttp'[e].remote <= 2 * Credit + 2
        <5> DEFINE x == Len(l) + ttp'[e].avail + ttp'[e].remote
                   y == Len(sizes[e]) + ttp[e].avail + ttp[e].remote
        <5>1. x \in Nat /\ y \in Nat /\ x <= y /\ y <= 2 * Credit + 2
          <6>1. x \in Nat
            BY <1>1, <2>9
          <6>2. y \in Nat
            BY <1>2
          <6> QED
            BY <1>3, <2>12, <6>1, <6>2
        <5> HIDE DEF x, y
        <5>2. x <= 2 * Credit + 2
          BY <1>3, <5>1
        <5> QED
          BY <5>2 DEF x
      <4> QED
        BY <1>1, <2>3, <2>6, <2>9, <2>10, <3>1, <4>1
    <3>2. CASE p # e
      BY <1>0, <1>1, <2>10, <3>2 DEF Bounded
    <3> QED
      BY <3>1, <3>2
  <2>14. Room'
    <3> SUFFICES ASSUME NEW p \in Ends, Connected[p], ~leftover[p]
                 PROVE  /\ Total(sizes'[p]) = Len(rx'[p]) + reader[p]
                        /\ Len(sizes'[p]) + ttp'[p].avail + ttp'[p].remote = Credit
      BY <1>4 DEF Room
    <3>1. /\ Total(sizes[p]) = Len(rx[p]) + reader[p]
          /\ Len(sizes[p]) + ttp[p].avail + ttp[p].remote = Credit
      BY <1>0 DEF Room
    <3>2. CASE p # e
      BY <1>1, <2>10, <3>1, <3>2
    <3>3. CASE p = e
      <4>1. Len(sizes[e]) <= Credit - 1
        <5>1. 1 <= ttp[e].remote
          BY <1>1, <2>1
        <5>2. Len(sizes[e]) + ttp[e].avail + ttp[e].remote = Credit
          BY <3>1, <3>3
        <5> DEFINE k == Len(sizes[e])
                   a == ttp[e].avail
                   r == ttp[e].remote
        <5>3. k \in Nat /\ a \in Nat /\ r \in Nat /\ 1 <= r /\ k + a + r = Credit
          BY <1>2, <5>1, <5>2
        <5> HIDE DEF k, a, r
        <5>4. k <= Credit - 1
          BY <1>3, <5>3
        <5> QED
          BY <5>4 DEF k
      <4>2. l = more
        BY <1>2, <1>3, <2>8, <4>1
      <4>3. Total(sizes[e]) <= MaxPacket * Len(sizes[e])
        BY <1>2, <1>3, TotalAtMost
      <4>4. Len(rx[e]) + n <= Ring
        <5> DEFINE k == Len(sizes[e])
                   x == MaxPacket * k
        <5>1. /\ k \in Nat /\ x \in Nat /\ Len(rx[e]) + reader[e] <= x
              /\ k + 1 <= Credit /\ x = MaxPacket * k
          BY <1>2, <1>3, <3>1, <3>3, <4>1, <4>3
        <5> HIDE DEF k, x
        <5>2. x + MaxPacket <= Ring
          BY <1>3, <5>1, RoomForOneMore
        <5> DEFINE y == Len(rx[e])
                   z == reader[e]
        <5>3. y \in Nat /\ z \in Nat /\ y + z <= x
          BY <1>2, <5>1
        <5> HIDE DEF y, z
        <5>4. n \in Nat /\ n <= MaxPacket /\ MaxPacket \in Nat /\ Ring \in Nat /\ x \in Nat
          BY <1>3, <2>1, <5>1
        <5>5. y + n <= Ring
          BY <5>2, <5>3, <5>4, Under
        <5> QED
          BY <5>5 DEF y
      <4>5. Total(l) = (Len(rx[e]) + m) + reader[e]
        <5>1. Total(l) = m + (Len(rx[e]) + reader[e])
          BY <2>3, <2>7, <3>1, <3>3, <4>2, <4>4
        <5>2. \A a, b, c \in Nat : a + (b + c) = (b + a) + c
          OBVIOUS
        <5> QED
          BY <1>2, <2>3, <5>1, <5>2
      <4>6. Len(l) + ttp'[e].avail + ttp'[e].remote = Credit
        <5> DEFINE k == Len(sizes[e])
                   a == ttp[e].avail
                   r == ttp[e].remote
                   ta == ttp'[e].avail
                   tr == ttp'[e].remote
        <5>1. /\ k \in Nat /\ a \in Nat /\ r \in Nat /\ ta \in Nat /\ tr \in Nat
              /\ ta + tr + 1 = a + r /\ k + a + r = Credit /\ Len(l) = 1 + k
          BY <1>1, <1>2, <2>1, <2>7, <3>1, <3>3, <4>2
        <5> HIDE DEF k, a, r, ta, tr
        <5>2. 1 + k + ta + tr = Credit
          BY <1>3, <5>1
        <5> QED
          BY <5>1, <5>2 DEF k, ta, tr
      <4> QED
        BY <2>6, <2>10, <3>3, <4>5, <4>6
    <3> QED
      BY <3>2, <3>3
  <2> QED
    BY <2>11, <2>13, <2>14
<1> QED
  BY <1>5, <1>6

(* A PDU arrives.                                                            *)
LEMMA StepDataGetComplete ==
  ASSUME IInv, NEW e \in Ends, DataGetComplete(e), ~backEnabling[e]
  PROVE  IInv'
BY ArrivalIs, ArrivalAtTheWriter, ArrivalAtTheRing DEF IInv, Typed

(* The work loop has written what it took from the transmit ring.            *)
LEMMA StepBackEnableEnds ==
  ASSUME IInv, NEW e \in Ends, BackEnableEnds(e)
  PROVE  IInv'
<1>0. Typed /\ Busy
  BY DEF IInv
<1>1. /\ writer' = [writer EXCEPT ![e] = writer[e]] /\ load' = load
      /\ writer[e] \in [pc : Pcs, room : Nat, buf : Seq(Nat)]
  BY <1>0, WriterIs DEF BackEnableEnds, Typed, WriterTypes
<1>2. /\ tx' = [tx EXCEPT ![e] = tx[e]] /\ tx[e] \in Seq(Nat)
      /\ written' \in [Ends -> Nat]
  BY <1>0, WriterIs DEF BackEnableEnds, tty
<1>3. /\ AreTransmitting' = [AreTransmitting EXCEPT ![e] = FALSE]
      /\ backEnabling' = [backEnabling EXCEPT ![e] = FALSE]
  BY DEF BackEnableEnds
<1>4. WriterTypes' /\ Busy'
  <2>1. FALSE => FALSE \/ writer[e].pc \in {"busy", "done"}
    OBVIOUS
  <2> QED
    BY <1>0, <1>1, <1>2, <1>3, <2>1, WriterKept
<1>5. HistoryTypes'
  BY <1>0 DEF Typed, HistoryTypes, BackEnableEnds, history
<1> QED
  BY <1>4, <1>5, Kept DEF IInv, Typed, BackEnableEnds, tty, history

-----------------------------------------------------------------------------
(* The specification.                                                        *)

(* It starts with nothing under way.                                         *)
LEMMA Start ==
  ASSUME Init
  PROVE  IInv
<1>1. <<>> \in Seq(Nat) /\ <<>> \in Seq(DataPDU \cup Opening)
      /\ <<>> \in Seq(1 .. MaxPacket) /\ Len(<<>>) = 0
  OBVIOUS
<1>2. Idle \in [pc : Pcs, room : Nat, buf : Seq(Nat)] /\ Idle.pc = "idle"
  BY <1>1 DEF Idle, Pcs
<1>3. Typed
  <2>1. CounterTypes /\ LinkTypes /\ WireTypes /\ RingTypes /\ HistoryTypes
    BY <1>1 DEF Init, CounterTypes, Counters, LinkTypes, WireTypes, RingTypes,
                HistoryTypes
  <2>2. WriterTypes
    BY <1>1, <1>2 DEF Init, WriterTypes
  <2> QED
    BY <2>1, <2>2 DEF Typed
<1>4. Busy
  BY <1>2 DEF Init, Busy
<1>5. Linked
  BY DEF Init, Linked
<1>6. Circulation
  BY DEF Init, Circulation
<1>7. Bounded
  <2>1. 0 <= Cap /\ 0 <= Credit + 2 /\ 0 + 0 + 0 <= 2 * Credit + 2 /\ 0 <= Ring
    BY TinyTPAssumption DEF Ring
  <2> QED
    BY <1>1, <2>1 DEF Init, Bounded
<1>8. Room
  BY DEF Init, Room
<1> QED
  BY <1>3, <1>4, <1>5, <1>6, <1>7, <1>8 DEF IInv

(* Every step keeps the invariant.                                           *)
LEMMA Step ==
  ASSUME IInv, [Next]_vars
  PROVE  IInv'
<1>1. CASE UNCHANGED vars
  <2>1. HistoryTypes'
    BY <1>1 DEF IInv, Typed, HistoryTypes, vars, history
  <2> QED
    BY <1>1, <2>1, Kept, WriterStays DEF vars, tty, history, IInv, Typed
<1>2. CASE LinkLost
  BY <1>2, StepLinkLost
<1>3. CASE \E e \in Ends : \E n \in 1 .. load.bytes[e] : Enqueue(e, n)
  BY <1>3, StepEnqueue
<1>4. CASE \E e \in Ends : DoConnectRequest(e)
  BY <1>4, StepDoConnectRequest
<1>5. CASE \E e \in Ends : Writer(e)
  BY <1>5, StepSetUpTransmit, StepAskForRoom, StepRemovefromQueue, StepTransmitting,
     StepTtyWrite, StepTransmitted DEF Writer
<1>6. CASE \E e \in Ends : Reader(e)
  BY <1>6, StepReturnCredit, StepDequeueData DEF Reader
<1>7. CASE \E e \in Ends : WorkLoop(e)
  BY <1>7, StepHandleConnectIndication, StepHandleConnectConfirm,
     StepHandleDisconnectIndication, StepDataGetComplete, StepBackEnableEnds
     DEF WorkLoop
<1> QED
  BY <1>1, <1>2, <1>3, <1>4, <1>5, <1>6, <1>7 DEF Next

(* The inductive invariant: the link, the wire, the counters of credits, the *)
(* list of sizes and the ring agree in every state.                          *)
THEOREM Invariant == Spec => []IInv
BY Start, Step, PTL DEF Spec

(* No counter of credits goes below zero or past its cap, the list of sizes  *)
(* and the receive ring keep to their limits, and AreTransmitting is never   *)
(* left set by nobody, however the ends connect, lose the link, write and    *)
(* read.                                                                     *)
THEOREM TypeCorrect == Spec => []TypeOK
<1>1. ASSUME IInv
      PROVE  TypeOK
  <2>1. /\ Typed /\ Bounded /\ Busy
        /\ \A e \in Ends : ttp[e] \in Counters /\ ttp[e].send <= Cap
    BY <1>1 DEF IInv, Typed, CounterTypes, Bounded
  <2>2. ttp \in [Ends -> [avail : Nat, remote : Nat, send : 0 .. Cap]]
    <3>1. ASSUME NEW e \in Ends
          PROVE  ttp[e] \in [avail : Nat, remote : Nat, send : 0 .. Cap]
      <4>1. ttp[e].send \in 0 .. Cap
        BY <2>1, TinyTPAssumption DEF Counters
      <4> QED
        BY <2>1, <4>1 DEF Counters
    <3> QED
      BY <2>1, <3>1 DEF Typed, CounterTypes
  <2>3. \A e \in Ends :
           /\ Len(sizes[e]) <= Credit + 2 /\ Len(rx[e]) <= Ring
           /\ \A i \in DOMAIN sizes[e] : sizes[e][i] \in 1 .. MaxPacket
    <3>1. \A e \in Ends : Len(sizes[e]) <= Credit + 2 /\ Len(rx[e]) <= Ring
      BY <2>1 DEF Bounded
    <3>2. ASSUME NEW e \in Ends, NEW i \in DOMAIN sizes[e]
          PROVE  sizes[e][i] \in 1 .. MaxPacket
      <4>1. sizes[e] \in Seq(1 .. MaxPacket)
        BY <2>1, EndIs
      <4>2. i \in 1 .. Len(sizes[e])
        BY <4>1, LenProperties
      <4> QED
        BY <4>1, <4>2, ElementOfSeq
    <3> QED
      BY <3>1, <3>2
  <2>4. \A e \in Ends :
           /\ writer[e].pc \in {"idle", "start", "ask", "room", "taken", "busy",
                                "done"}
           /\ AreTransmitting[e] =>
                  backEnabling[e] \/ writer[e].pc \in {"busy", "done"}
    BY <2>1 DEF Typed, WriterTypes, Busy, Pcs
  <2> QED
    BY <2>1, <2>2, <2>3, <2>4 DEF TypeOK, Typed, LinkTypes, HistoryTypes, WriterTypes
<1> QED
  BY <1>1, Invariant, PTL

(* Credits are neither lost nor invented while a link is up, where SendCredit*)
(* can hold all that a peer may give away (2 and 30 in the code).            *)
THEOREM CreditIsConserved ==
  ASSUME CapIsEnough
  PROVE  Spec => []CreditConserved
<1>1. ASSUME IInv
      PROVE  CreditConserved
  BY <1>1 DEF IInv, Circulation, Owed, CreditConserved
<1> QED
  BY <1>1, Invariant, PTL

(* Whatever that limit is, no end sends more than its peer expects: what it  *)
(* has, what is on the way to it and what it has used is never more than     *)
(* what the peer believes.                                                   *)
THEOREM NoCreditInvented ==
  Spec => [](link = "up" => \A e \in Ends : Owed(e) <= ttp[e].remote)
<1>1. ASSUME IInv
      PROVE  link = "up" => \A e \in Ends : Owed(e) <= ttp[e].remote
  BY <1>1 DEF IInv, Circulation
<1> QED
  BY <1>1, Invariant, PTL

(* A credit stands for room: what a connected end has in its ring and what   *)
(* it may still be sent fit the ring, unless bytes of an earlier connection  *)
(* were in it.                                                               *)
THEOREM CreditIsForRoom == Spec => []CreditIsRoom
<1>1. ASSUME IInv
      PROVE  CreditIsRoom
  <2> SUFFICES ASSUME NEW e \in Ends, Connected[e], ~leftover[e]
               PROVE  Len(rx[e]) + MaxPacket * (ttp[e].avail + ttp[e].remote) <= Ring
    BY DEF CreditIsRoom
  <2> DEFINE k == Len(sizes[e])
             s == ttp[e].avail + ttp[e].remote
             y == Len(rx[e])
  <2>1. /\ Total(sizes[e]) = y + reader[e]
        /\ k + ttp[e].avail + ttp[e].remote = Credit
    BY <1>1 DEF IInv, Room
  <2>2. /\ ttp[e].avail \in Nat /\ ttp[e].remote \in Nat /\ k \in Nat /\ y \in Nat
        /\ reader[e] \in Nat /\ sizes[e] \in Seq(1 .. MaxPacket)
    BY <1>1, EndIs DEF IInv
  <2>3. y + reader[e] <= MaxPacket * k
    BY <2>1, <2>2, TotalAtMost
  <2>4. s \in Nat /\ k + s = Credit
    BY <2>1, <2>2
  <2> HIDE DEF k, s, y
  <2>5. y + MaxPacket * s <= Ring
    BY <2>2, <2>3, <2>4, RoomForAll
  <2> QED
    BY <2>5 DEF s, y
<1> QED
  BY <1>1, Invariant, PTL

=============================================================================
