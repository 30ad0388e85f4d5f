---------------------------- MODULE HubIO_proofs ----------------------------
(* The proof that the hub driver counts its work right: whatever the numbers *)
(* of ports and of threads, _outstandingIO is the number of claims that are  *)
(* still to be given back, and so the number of the reads of the controller  *)
(* when nothing else is under way.                                           *)

EXTENDS HubIO, FiniteSetTheorems, FunctionTheorems, SequenceTheorems, TLAPS

(* The steps of DecrementOutstandingIO and RearmInterruptRead: a thread that *)
(* is in one of them has a place to return to.                               *)
Leavings == {"decrement", "tail", "close", "clearNeed", "rearm", "armed",
             "claim", "read", "lost"}

(* Where a thread goes on after its last decrement.                          *)
Ends == {"idle", "each", "gone", "done"}

(* A stack: reads that failed, one more decrement, and the place to go on.   *)
Framed(s) ==
    /\ Len(s) >= 1 /\ s[Len(s)] \in Ends
    /\ \A i \in 1 .. Len(s) - 1 :
          \/ s[i] = "lost"
          \/ s[i] = "decrement" /\ i = Len(s) - 1

Fits(l, s) == IF l \in Leavings THEN Framed(s) ELSE s = <<>>

(* The claims that a thread at l has still to give back.                     *)
Weight(l) ==
    IF l = "each" THEN 2
    ELSE IF l \in {"decrement", "queued", "run", "start", "master", "read",
                   "unlock", "set", "did"} THEN 1 ELSE 0

(* Those that it gives back on its way through its stack.                    *)
Held(s) ==
    (IF Len(s) > 0 THEN Weight(s[Len(s)]) ELSE 0)
      + (IF Len(s) > 1 /\ s[Len(s) - 1] = "decrement" THEN 1 ELSE 0)

Debt(l, s) == Weight(l) + Held(s)

Debts == [t \in Threads |-> Debt(pc[t], stack[t])]

(* Every claim by a name of its own: those of a thread are numbered, and a   *)
(* thread call that is entered brings the one numbered 0.                    *)
Claims(d, c) == {x \in Threads \X (0 .. 4) :
                    IF x[2] = 0 THEN x[1] \in c ELSE x[2] <= d[x[1]]}

Shapes  == \A t \in Threads : Fits(pc[t], stack[t])
Balance == outstandingIO = Cardinality(Claims(Debts, calls)) + reads

(* While the power changes it is known to which state.                       *)
Changing == pc["power"] \in {"quiesce", "set", "did"} => changingTo # "stable"

IInv == TypeOK /\ Shapes /\ Balance /\ Changing

-----------------------------------------------------------------------------
(* Stacks.                                                                   *)

(* Weights are small.                                                        *)
LEMMA WeightIsSmall ==
  ASSUME NEW l
  PROVE  Weight(l) \in 0 .. 2 /\ (l \notin Leavings \/ l = "decrement" \/ l = "read"
                                    \/ Weight(l) = 0)
BY DEF Weight, Leavings

(* The empty stack holds no claim.                                           *)
LEMMA NothingHeld == Held(<<>>) = 0
BY DEF Held

(* A stack holds at most three claims.                                       *)
LEMMA HeldIsSmall ==
  ASSUME NEW s \in Seq(Pcs)
  PROVE  Held(s) \in 0 .. 3
BY DEF Held, Weight

(* What a thread of a fitting shape owes.                                    *)
LEMMA DebtIsSmall ==
  ASSUME NEW l \in Pcs, NEW s \in Seq(Pcs), Fits(l, s)
  PROVE  Debt(l, s) \in 0 .. 4
<1>1. CASE l \in Leavings
  BY <1>1, HeldIsSmall, WeightIsSmall DEF Debt, Weight, Leavings
<1>2. CASE l \notin Leavings
  BY <1>2, NothingHeld, WeightIsSmall DEF Fits, Debt
<1> QED
  BY <1>1, <1>2

(* A return takes the head off the stack and keeps the rest of the shape:    *)
(* what the thread owes is less by what it gave back at l.                   *)
LEMMA AfterAReturn ==
  ASSUME NEW l \in Leavings, NEW s \in Seq(Pcs), Fits(l, s)
  PROVE  /\ Head(s) \in Pcs /\ Tail(s) \in Seq(Pcs)
         /\ Head(s) \in Ends \cup {"lost", "decrement"}
         /\ Fits(Head(s), Tail(s))
         /\ Debt(Head(s), Tail(s)) = Debt(l, s) - Weight(l)
         /\ IF Head(s) \in Leavings THEN Tail(s)[Len(Tail(s))] = s[Len(s)]
                                    ELSE Head(s) = s[Len(s)]
<1>1. Framed(s) /\ s # <<>> /\ Len(s) \in Nat
  BY LenProperties DEF Fits, Framed
<1>2. /\ Head(s) \in Pcs /\ Tail(s) \in Seq(Pcs)
      /\ Head(s) = s[1] /\ Len(Tail(s)) = Len(s) - 1
      /\ \A i \in 1 .. Len(Tail(s)) : Tail(s)[i] = s[i + 1]
  BY <1>1, HeadTailProperties
<1>3. CASE Len(s) = 1
  <2>0. s[1] \in Ends
    BY <1>1, <1>3 DEF Framed
  <2>1. Tail(s) = <<>>
    <3>1. Len(Tail(s)) = 0
      BY <1>2, <1>3
    <3> QED
      BY <1>2, <3>1, EmptySeq
  <2>2. Held(s) = Weight(s[1]) /\ Held(Tail(s)) = 0
    <3>1. Held(s) = Weight(s[1]) + 0
      BY <1>3 DEF Held
    <3>2. Weight(s[1]) \in 0 .. 2
      BY WeightIsSmall
    <3>3. Held(s) = Weight(s[1])
      BY <3>1, <3>2
    <3> QED
      BY <2>1, <3>3, NothingHeld, Zenon
  <2>3. Fits(Head(s), Tail(s))
    BY <2>0, <2>1, <1>2 DEF Fits, Ends, Leavings
  <2>4. Head(s) \notin Leavings /\ Head(s) = s[Len(s)]
    BY <1>2, <1>3, <2>0 DEF Ends, Leavings
  <2>5. Debt(Head(s), Tail(s)) = Debt(l, s) - Weight(l)
    BY <1>2, <2>2, WeightIsSmall DEF Debt
  <2> QED
    BY <1>2, <2>0, <2>3, <2>4, <2>5
<1>4. CASE Len(s) > 1
  <2> DEFINE r == Tail(s)
  <2>1. Len(r) >= 1 /\ r[Len(r)] = s[Len(s)]
    BY <1>2, <1>4
  <2>2. s[1] \in {"lost", "decrement"}
    BY <1>1, <1>4 DEF Framed
  <2>3. Framed(r)
    <3>1. \A i \in 1 .. Len(r) - 1 :
             r[i] = "lost" \/ (r[i] = "decrement" /\ i = Len(r) - 1)
      <4> TAKE i \in 1 .. Len(r) - 1
      <4>1. r[i] = s[i + 1] /\ i + 1 \in 1 .. Len(s) - 1
        BY <1>2, <1>4
      <4>2. s[i + 1] = "lost" \/ (s[i + 1] = "decrement" /\ i + 1 = Len(s) - 1)
        BY <1>1, <4>1 DEF Framed
      <4> QED
        <5>1. i + 1 = Len(s) - 1 => i = Len(r) - 1
          <6>1. PICK n \in Nat : n = Len(s)
            BY <1>1
          <6>2. Len(r) = n - 1
            BY <1>2, <6>1
          <6>3. i \in Nat
            BY <6>1, <6>2
          <6> QED
            BY <6>1, <6>2, <6>3
        <5>2. r[i] = s[i + 1]
          BY <4>1
        <5> QED
          BY <4>2, <5>1, <5>2, Zenon
    <3> QED
      BY <1>1, <1>2, <2>1, <3>1 DEF Framed
  <2>4. Fits(Head(s), r)
    BY <1>2, <2>2, <2>3 DEF Fits, Leavings
  <2>5. Held(s) = Weight(Head(s)) + Held(r)
    <3>1. CASE Len(s) = 2
      <4>1. Len(r) = 1 /\ r[1] = s[2]
        BY <1>1, <1>2, <3>1
      <4>2. Held(r) = Weight(s[2])
        BY <4>1, WeightIsSmall DEF Held
      <4>3. Held(s) = Weight(s[2]) + (IF s[1] = "decrement" THEN 1 ELSE 0)
        BY <3>1 DEF Held
      <4> QED
        BY <4>2, <4>3, <1>2, <2>2, WeightIsSmall DEF Weight
    <3>2. CASE Len(s) > 2
      <4>1. s[1] = "lost"
        BY <1>1, <3>2 DEF Framed
      <4>2. Weight(Head(s)) = 0
        BY <4>1, <1>2 DEF Weight
      <4>3. Len(r) > 1 /\ r[Len(r) - 1] = s[Len(s) - 1]
        BY <1>2, <3>2
      <4>4. Held(r) = Held(s)
        BY <4>3, <2>1, <3>2 DEF Held
      <4> QED
        BY <4>2, <4>4, HeldIsSmall
    <3>3. Len(s) = 2 \/ Len(s) > 2
      BY <1>1, <1>4
    <3> QED
      BY <3>1, <3>2, <3>3, Zenon
  <2>6. Held(s) \in 0 .. 3 /\ Held(r) \in 0 .. 3 /\ Weight(Head(s)) \in 0 .. 2
         /\ Weight(l) \in 0 .. 2
    BY <1>2, HeldIsSmall, WeightIsSmall
  <2>7. Debt(Head(s), r) = Debt(l, s) - Weight(l)
    BY <2>5, <2>6 DEF Debt
  <2>8. Head(s) \in Leavings
    BY <1>2, <2>2 DEF Leavings
  <2> QED
    BY <1>2, <2>1, <2>2, <2>4, <2>7, <2>8
<1>5. Len(s) = 1 \/ Len(s) > 1
  <2>1. PICK n \in Nat : n = Len(s)
    BY <1>1
  <2>2. n >= 1
    BY <1>1, <2>1 DEF Framed
  <2> QED
    BY <2>1, <2>2
<1> QED
  BY <1>3, <1>4, <1>5, Zenon

(* One decrement before the thread goes on at l.                             *)
LEMMA BeforeOneDecrement ==
  ASSUME NEW l \in Ends, NEW s, s = [i \in 1 .. 1 - 1 |-> "decrement"] \o <<l>> \o <<>>
  PROVE  /\ s \in Seq(Pcs) /\ Fits("decrement", s)
         /\ Debt("decrement", s) = 1 + Weight(l)
         /\ s[Len(s)] = l
<1>1. s = <<l>>
  BY DEF Ends
<1>2. s \in Seq(Pcs) /\ Len(s) = 1 /\ s[1] = l
  BY <1>1 DEF Ends, Pcs
<1>3. Framed(s)
  BY <1>2 DEF Framed
<1>4. Held(s) = Weight(l)
  BY <1>2, WeightIsSmall DEF Held
<1> QED
  BY <1>2, <1>3, <1>4 DEF Fits, Leavings, Debt, Weight

(* Two decrements before the thread goes on at l.                            *)
LEMMA BeforeTwoDecrements ==
  ASSUME NEW l \in Ends, NEW s, s = [i \in 1 .. 2 - 1 |-> "decrement"] \o <<l>> \o <<>>
  PROVE  /\ s \in Seq(Pcs) /\ Fits("decrement", s)
         /\ Debt("decrement", s) = 2 + Weight(l)
<1> DEFINE d == [i \in 1 .. 2 - 1 |-> "decrement"]
<1>0. d = <<"decrement">>
  <2>1. d = [i \in 1 .. 1 |-> "decrement"]
    OBVIOUS
  <2> QED
    BY <2>1
<1>1. s = <<"decrement">> \o <<l>> \o <<>>
  <2>1. s = d \o <<l>> \o <<>>
    OBVIOUS
  <2> QED
    BY <1>0, <2>1, Zenon
<1>2. s \in Seq(Pcs) /\ Len(s) = 2 /\ s[1] = "decrement" /\ s[2] = l
  <2> DEFINE q == <<"decrement">> \o <<l>>
  <2>1. /\ <<"decrement">> \in Seq(Pcs) /\ Len(<<"decrement">>) = 1
        /\ <<l>> \in Seq(Pcs) /\ Len(<<l>>) = 1
    BY DEF Ends, Pcs
  <2>2. q \in Seq(Pcs) /\ Len(q) = 2 /\ q[1] = "decrement" /\ q[2] = l
    BY <2>1, ConcatProperties
  <2>3. s = q
    BY <1>1, <2>2, ConcatEmptySeq
  <2> QED
    BY <2>2, <2>3, Zenon
<1>3. Framed(s)
  BY <1>2 DEF Framed
<1>4. Held(s) = Weight(l) + 1
  BY <1>2, WeightIsSmall DEF Held
<1> QED
  BY <1>2, <1>3, <1>4, WeightIsSmall DEF Fits, Leavings, Debt, Weight

(* A refused read is one more frame on the stack.                            *)
LEMMA BeforeALostRead ==
  ASSUME NEW r \in Seq(Pcs), Fits("read", r),
         NEW s, s = [i \in 1 .. 1 - 1 |-> "decrement"] \o <<"lost">> \o r
  PROVE  /\ s \in Seq(Pcs) /\ Fits("decrement", s)
         /\ Debt("decrement", s) = Debt("read", r)
         /\ s[Len(s)] = r[Len(r)]
<1>1. Framed(r)
  BY DEF Fits, Leavings
<1>2. s = <<"lost">> \o r
  OBVIOUS
<1>3. /\ s \in Seq(Pcs) /\ Len(s) = Len(r) + 1 /\ s[1] = "lost"
      /\ \A i \in 1 .. Len(r) : s[i + 1] = r[i]
  BY <1>2 DEF Pcs
<1>4. Len(r) >= 1 /\ s[Len(s)] = r[Len(r)]
  BY <1>1, <1>3 DEF Framed
<1>5. Framed(s)
  <2>1. \A i \in 1 .. Len(s) - 1 :
           s[i] = "lost" \/ (s[i] = "decrement" /\ i = Len(s) - 1)
    <3> TAKE i \in 1 .. Len(s) - 1
    <3>1. CASE i = 1
      BY <3>1, <1>3
    <3>2. CASE i > 1
      <4>1. i - 1 \in 1 .. Len(r) - 1 /\ s[i] = r[i - 1]
        <5>1. i - 1 \in 1 .. Len(r) - 1
          BY <1>3, <3>2
        <5>2. s[(i - 1) + 1] = r[i - 1]
          BY <1>3, <5>1
        <5> QED
          BY <5>1, <5>2
      <4>2. r[i - 1] = "lost" \/ (r[i - 1] = "decrement" /\ i - 1 = Len(r) - 1)
        BY <1>1, <4>1 DEF Framed
      <4> QED
        BY <1>3, <4>1, <4>2
    <3> QED
      BY <3>1, <3>2
  <2> QED
    BY <1>1, <1>3, <1>4, <2>1 DEF Framed
<1>6. Held(s) = Held(r)
  <2>1. CASE Len(r) = 1
    <3>1. Len(s) = 2 /\ s[1] = "lost" /\ s[2] = r[1]
      BY <1>3, <1>4, <2>1
    <3>2. Held(s) = Weight(r[1]) + 0
      BY <3>1 DEF Held
    <3>3. Held(r) = Weight(r[1]) + 0
      BY <2>1 DEF Held
    <3> QED
      BY <3>2, <3>3
  <2>2. CASE Len(r) > 1
    <3>1. s[Len(s) - 1] = r[Len(r) - 1]
      <4>1. Len(r) - 1 \in 1 .. Len(r) /\ Len(s) - 1 = (Len(r) - 1) + 1
        BY <1>3, <2>2
      <4> QED
        BY <1>3, <4>1
    <3> QED
      BY <1>3, <1>4, <2>2, <3>1 DEF Held
  <2> QED
    BY <1>4, <2>1, <2>2
<1> QED
  BY <1>3, <1>4, <1>5, <1>6 DEF Fits, Leavings, Debt, Weight

-----------------------------------------------------------------------------
(* Counting the claims.                                                      *)

(* There are finitely many threads, and so finitely many claims.             *)
LEMMA FinitelyManyClaims ==
  ASSUME NEW d, NEW c
  PROVE  IsFiniteSet(Claims(d, c)) /\ Cardinality(Claims(d, c)) \in Nat
<1>1. IsFiniteSet(Threads)
  <2>1. IsFiniteSet({"loop", "work", "power", "end"})
    <3>1. IsFiniteSet({"loop"}) /\ IsFiniteSet({"work"}) /\ IsFiniteSet({"power"})
            /\ IsFiniteSet({"end"})
      BY FS_Singleton
    <3>2. IsFiniteSet({"loop"} \cup {"work"} \cup {"power"} \cup {"end"})
      BY <3>1, FS_Union
    <3> QED
      BY <3>2
  <2>2. IsFiniteSet({"loop", "work", "power", "end"} \cup Ports)
    BY <2>1, ThreadsAssumption, FS_Union
  <2>3. IsFiniteSet(({"loop", "work", "power", "end"} \cup Ports) \cup Inits)
    BY <2>2, ThreadsAssumption, FS_Union
  <2> QED
    BY <2>3, ThreadsAssumption, FS_Union DEF Threads
<1>2. IsFiniteSet(0 .. 4)
  BY 0 \in Int, 4 \in Int, FS_Interval, Zenon
<1>3. IsFiniteSet(Threads \X (0 .. 4))
  BY <1>1, <1>2, FS_Product
<1>4. Claims(d, c) \subseteq Threads \X (0 .. 4)
  BY DEF Claims
<1> QED
  BY <1>3, <1>4, FS_Subset, FS_CardinalityType

(* The claims of one thread are as many as it owes.                          *)
LEMMA ClaimsOfOne ==
  ASSUME NEW d \in [Threads -> 0 .. 4], NEW c \in SUBSET Threads,
         NEW t \in Threads, NEW k \in 0 .. 4
  PROVE  Cardinality(Claims([d EXCEPT ![t] = k], c))
           = Cardinality(Claims([d EXCEPT ![t] = 0], c)) + k
<1> DEFINE rest == Claims([d EXCEPT ![t] = 0], c)
           own  == {t} \X (1 .. k)
<1>1. Claims([d EXCEPT ![t] = k], c) = rest \cup own
  BY DEF Claims
<1>2. rest \cap own = {}
  BY DEF Claims
<1>3. IsFiniteSet(rest) /\ Cardinality(rest) \in Nat
  BY FinitelyManyClaims
<1>4. IsFiniteSet(own) /\ Cardinality(own) = k
  <2>1. IsFiniteSet({t}) /\ Cardinality({t}) = 1
    BY FS_Singleton
  <2>2. IsFiniteSet(1 .. k) /\ Cardinality(1 .. k) = k
    <3>1. 1 \in Int /\ k \in Int
      OBVIOUS
    <3>2. /\ IsFiniteSet(1 .. k)
          /\ Cardinality(1 .. k) = IF 1 > k THEN 0 ELSE k - 1 + 1
      BY <3>1, FS_Interval, Zenon
    <3> QED
      BY <3>2
  <2>3. IsFiniteSet(own) /\ Cardinality(own) = Cardinality({t}) * Cardinality(1 .. k)
    BY <2>1, <2>2, FS_Product
  <2> QED
    BY <2>1, <2>2, <2>3
<1>5. Cardinality(rest \cup own) = Cardinality(rest) + Cardinality(own) - Cardinality(rest \cap own)
  BY <1>3, <1>4, FS_Union
<1>6. Cardinality({}) = 0
  BY FS_EmptySet
<1> HIDE DEF rest, own
<1>7. Cardinality(rest \cup own) = Cardinality(rest) + k
  <2>1. Cardinality(rest \cap own) = 0
    BY <1>2, <1>6, Zenon
  <2>2. PICK n \in Nat : n = Cardinality(rest)
    BY <1>3
  <2> QED
    BY <1>4, <1>5, <2>1, <2>2
<1> QED
  BY <1>1, <1>7 DEF rest

(* A thread that owes other than before changes the count by the difference. *)
LEMMA ClaimsAfterAStep ==
  ASSUME NEW d \in [Threads -> 0 .. 4], NEW c \in SUBSET Threads,
         NEW t \in Threads, NEW k \in 0 .. 4
  PROVE  /\ Cardinality(Claims([d EXCEPT ![t] = k], c)) + d[t]
              = Cardinality(Claims(d, c)) + k
         /\ d[t] <= Cardinality(Claims(d, c))
<1> DEFINE rest == Cardinality(Claims([d EXCEPT ![t] = 0], c))
<1>1. d = [d EXCEPT ![t] = d[t]]
  OBVIOUS
<1>2. d[t] \in 0 .. 4
  OBVIOUS
<1>3. Cardinality(Claims([d EXCEPT ![t] = d[t]], c)) = rest + d[t]
  BY <1>2, ClaimsOfOne
<1>4. Cardinality(Claims(d, c)) = rest + d[t]
  BY <1>1, <1>3
<1>5. Cardinality(Claims([d EXCEPT ![t] = k], c)) = rest + k
  BY ClaimsOfOne
<1>6. rest \in Nat
  BY FinitelyManyClaims
<1> HIDE DEF rest
<1> QED
  BY <1>2, <1>4, <1>5, <1>6

(* A thread call that is entered is one claim.                               *)
LEMMA ClaimsAfterACall ==
  ASSUME NEW d \in [Threads -> 0 .. 4], NEW c \in SUBSET Threads,
         NEW q \in Threads, q \notin c
  PROVE  Cardinality(Claims(d, c \cup {q})) = Cardinality(Claims(d, c)) + 1
<1>1. Claims(d, c \cup {q}) = Claims(d, c) \cup {<<q, 0>>}
  BY DEF Claims
<1>2. <<q, 0>> \notin Claims(d, c)
  BY DEF Claims
<1>3. IsFiniteSet(Claims(d, c))
  BY FinitelyManyClaims
<1> QED
  BY <1>1, <1>2, <1>3, FS_AddElement

(* Nobody owes anything.                                                     *)
LEMMA NoClaims ==
  ASSUME NEW d \in [Threads -> 0 .. 4], \A t \in Threads : d[t] = 0
  PROVE  Cardinality(Claims(d, {})) = 0
<1>1. Claims(d, {}) = {}
  BY DEF Claims
<1> QED
  BY <1>1, FS_EmptySet

(* At first it is the PortInit threads that owe a claim each.                *)
LEMMA FirstClaims ==
  ASSUME NEW d \in [Threads -> 0 .. 4],
         \A t \in Threads : d[t] = IF t \in Inits THEN 1 ELSE 0
  PROVE  Cardinality(Claims(d, {})) = Cardinality(Inits)
<1> DEFINE f == [i \in Inits |-> <<i, 1>>]
<1>1. \A x : x \in Claims(d, {}) <=> \E i \in Inits : x = <<i, 1>>
  <2>1. ASSUME NEW x \in Claims(d, {})
        PROVE  \E i \in Inits : x = <<i, 1>>
    <3>1. /\ x \in Threads \X (0 .. 4)
          /\ IF x[2] = 0 THEN x[1] \in {} ELSE x[2] <= d[x[1]]
      BY <2>1 DEF Claims
    <3>2. PICK t \in Threads, k \in 0 .. 4 : x = <<t, k>>
      BY <3>1
    <3>3. k # 0 /\ k <= d[t]
      BY <3>1, <3>2
    <3>4. k = 1 /\ t \in Inits
      BY <3>3
    <3> QED
      BY <3>2, <3>4
  <2>2. ASSUME NEW i \in Inits
        PROVE  <<i, 1>> \in Claims(d, {})
    <3>1. i \in Threads
      BY DEF Threads
    <3>2. 1 <= d[i]
      BY <3>1
    <3> QED
      BY <3>1, <3>2 DEF Claims
  <2> QED
    BY <2>1, <2>2, Zenon
<1>2. f \in Bijection(Inits, Claims(d, {}))
  <2>1. f \in [Inits -> Claims(d, {})]
    BY <1>1
  <2>2. \A a, b \in Inits : f[a] = f[b] => a = b
    OBVIOUS
  <2>3. \A x \in Claims(d, {}) : \E a \in Inits : f[a] = x
    BY <1>1
  <2> QED
    BY <2>1, <2>2, <2>3, Fun_IsBij
<1>3. IsFiniteSet(Inits)
  BY ThreadsAssumption
<1> QED
  BY <1>2, <1>3, FS_Bijection DEF ExistsBijection

-----------------------------------------------------------------------------
(* Types.                                                                    *)

(* The types of the variables that say where the threads are and what they   *)
(* count, and those of the others.                                           *)
Places == /\ pc \in [Threads -> Pcs]
          /\ stack \in [Threads -> Seq(Pcs)]

Others == /\ needInterruptRead \in BOOLEAN /\ interruptReadPending \in BOOLEAN
          /\ aborting \in BOOLEAN /\ abortExpected \in BOOLEAN
          /\ ports \in BOOLEAN /\ inactive \in BOOLEAN /\ needToClose \in BOOLEAN
          /\ doPortActionLock \in BOOLEAN /\ disturbed \in BOOLEAN
          /\ late \in BOOLEAN
          /\ closes \in Nat
          /\ myPowerState \in {"low", "on"}
          /\ changingTo \in {"stable", "low", "on"}
          /\ initActive \in [Inits -> BOOLEAN]
          /\ todo \subseteq Ports
          /\ spent \in [Events -> Nat]

Typed == /\ outstandingIO \in Nat /\ reads \in Nat
         /\ calls \subseteq Ports \cup {"work"}
         /\ count \in [Threads -> Nat]
         /\ Places /\ Others

(* These are the types of TypeOK, before a step and after it.                *)
LEMMA TypedParts == TypeOK <=> Typed
BY DEF TypeOK, Typed, Places, Others

(* The parts of the type invariant after a step.                             *)
LEMMA TypedPartsNext == TypeOK' <=> Typed'
BY DEF TypeOK, Typed, Places, Others

(* An event counts as spent.                                                 *)
LEMMA SpendTyped ==
  ASSUME spent \in [Events -> Nat], NEW e \in Events, Spend(e)
  PROVE  spent' \in [Events -> Nat]
<1>1. spent' = [spent EXCEPT ![e] = spent[e] + 1]
  BY DEF Spend
<1>2. spent[e] + 1 \in Nat
  OBVIOUS
<1> QED
  BY <1>1, <1>2

-----------------------------------------------------------------------------
(* Steps of the threads.                                                     *)

(* Thread t has made a step, after which it owes k claims.                   *)
Owes(t, k) ==
    /\ Places' /\ Shapes'
    /\ k \in 0 .. 4
    /\ Debts' = [Debts EXCEPT ![t] = k]

(* What is known of a thread before its step.                                *)
LEMMA Before ==
  ASSUME Typed, Shapes, NEW t \in Threads
  PROVE  /\ pc[t] \in Pcs /\ stack[t] \in Seq(Pcs) /\ Fits(pc[t], stack[t])
         /\ Debts \in [Threads -> 0 .. 4]
         /\ Debts[t] = Debt(pc[t], stack[t])
         /\ pc[t] \notin Leavings => Debts[t] = Weight(pc[t]) /\ stack[t] = <<>>
<1>1. \A u \in Threads : /\ pc[u] \in Pcs /\ stack[u] \in Seq(Pcs)
                         /\ Fits(pc[u], stack[u])
  BY DEF Typed, Places, Shapes
<1>2. \A u \in Threads : Debt(pc[u], stack[u]) \in 0 .. 4
  BY <1>1, DebtIsSmall
<1>3. Debts[t] = Debt(pc[t], stack[t]) /\ Debts \in [Threads -> 0 .. 4]
  BY <1>2 DEF Debts
<1>4. ASSUME pc[t] \notin Leavings
      PROVE  Debts[t] = Weight(pc[t]) /\ stack[t] = <<>>
  <2>1. stack[t] = <<>>
    BY <1>1, <1>4 DEF Fits
  <2>2. Debts[t] = Weight(pc[t]) + Held(<<>>)
    BY <1>3, <2>1 DEF Debt
  <2> QED
    BY <2>1, <2>2, NothingHeld, WeightIsSmall
<1> QED
  BY <1>1, <1>3, <1>4

(* A thread that moves to a place that fits owes what it owes there.         *)
LEMMA Moves ==
  ASSUME Typed, Shapes, NEW t \in Threads, NEW l \in Pcs, NEW s \in Seq(Pcs),
         Fits(l, s),
         pc' = [pc EXCEPT ![t] = l], stack' = [stack EXCEPT ![t] = s]
  PROVE  Owes(t, Debt(l, s))
<1>1. Places'
  BY DEF Typed, Places
<1>2. Shapes'
  BY DEF Typed, Places, Shapes
<1>3. Debt(l, s) \in 0 .. 4
  BY DebtIsSmall
<1>4. Debts' = [Debts EXCEPT ![t] = Debt(l, s)]
  BY DEF Debts, Typed, Places
<1> QED
  BY <1>1, <1>2, <1>3, <1>4 DEF Owes

(* A step from one place to another.                                         *)
LEMMA Goes ==
  ASSUME Typed, Shapes, NEW t \in Threads, NEW l \in Pcs, Jump(t, l),
         pc[t] \in Leavings <=> l \in Leavings
  PROVE  Owes(t, Debts[t] - Weight(pc[t]) + Weight(l))
<1>1. /\ pc[t] \in Pcs /\ stack[t] \in Seq(Pcs) /\ Fits(pc[t], stack[t])
      /\ Debts[t] = Debt(pc[t], stack[t])
  BY Before
<1>2. Fits(l, stack[t])
  BY <1>1 DEF Fits
<1>3. stack' = [stack EXCEPT ![t] = stack[t]] /\ pc' = [pc EXCEPT ![t] = l]
  BY DEF Jump, Typed, Places
<1>4. Owes(t, Debt(l, stack[t]))
  BY <1>1, <1>2, <1>3, Moves
<1>5. Debt(l, stack[t]) = Debts[t] - Weight(pc[t]) + Weight(l)
  <2>1. /\ Weight(pc[t]) \in 0 .. 2 /\ Weight(l) \in 0 .. 2
        /\ Held(stack[t]) \in 0 .. 3
    BY <1>1, WeightIsSmall, HeldIsSmall
  <2> QED
    BY <1>1, <2>1 DEF Debt
<1> QED
  BY <1>4, <1>5

(* A thread that does not move.                                              *)
LEMMA Stays ==
  ASSUME Typed, Shapes, NEW t \in Threads, UNCHANGED <<pc, stack>>
  PROVE  Owes(t, Debts[t])
<1>1. Debts[t] \in 0 .. 4 /\ Debts \in [Threads -> 0 .. 4]
  BY Before
<1>2. Debts' = Debts
  BY DEF Debts
<1> QED
  BY <1>1, <1>2 DEF Owes, Typed, Places, Shapes

(* A return.                                                                 *)
LEMMA Returns ==
  ASSUME Typed, Shapes, NEW t \in Threads, pc[t] \in Leavings, Pop(t)
  PROVE  Owes(t, Debts[t] - Weight(pc[t]))
<1>1. /\ stack[t] \in Seq(Pcs) /\ Fits(pc[t], stack[t])
      /\ Debts[t] = Debt(pc[t], stack[t])
  BY Before
<1>2. /\ Head(stack[t]) \in Pcs /\ Tail(stack[t]) \in Seq(Pcs)
      /\ Fits(Head(stack[t]), Tail(stack[t]))
      /\ Debt(Head(stack[t]), Tail(stack[t])) = Debts[t] - Weight(pc[t])
  BY <1>1, AfterAReturn
<1>3. /\ pc' = [pc EXCEPT ![t] = Head(stack[t])]
      /\ stack' = [stack EXCEPT ![t] = Tail(stack[t])]
  BY DEF Pop
<1>4. Owes(t, Debt(Head(stack[t]), Tail(stack[t])))
  BY <1>2, <1>3, Moves
<1> QED
  BY <1>2, <1>4

(* Calls of DecrementOutstandingIO.                                          *)
LEMMA DecrementsOnce ==
  ASSUME Typed, Shapes, NEW t \in Threads, NEW l \in Ends,
         pc[t] \notin Leavings, Decrements(t, 1, l)
  PROVE  Owes(t, 1 + Weight(l))
<1> DEFINE r == [i \in 1 .. 1 - 1 |-> "decrement"] \o <<l>> \o <<>>
<1>1. stack[t] = <<>>
  BY Before
<1>2. PICK s : s = r
  OBVIOUS
<1>3. /\ s \in Seq(Pcs) /\ Fits("decrement", s)
      /\ Debt("decrement", s) = 1 + Weight(l)
  BY <1>2, BeforeOneDecrement
<1>4. pc' = [pc EXCEPT ![t] = "decrement"] /\ stack' = [stack EXCEPT ![t] = s]
  BY <1>1, <1>2 DEF Decrements
<1>5. "decrement" \in Pcs
  BY DEF Pcs
<1>6. Owes(t, Debt("decrement", s))
  BY <1>3, <1>4, <1>5, Moves
<1> QED
  BY <1>3, <1>6

(* A thread about to give back two claims owes the two, and what it goes on  *)
(* with.                                                                     *)
LEMMA DecrementsTwice ==
  ASSUME Typed, Shapes, NEW t \in Threads, NEW l \in Ends,
         pc[t] \notin Leavings, Decrements(t, 2, l)
  PROVE  Owes(t, 2 + Weight(l))
<1> DEFINE r == [i \in 1 .. 2 - 1 |-> "decrement"] \o <<l>> \o <<>>
<1>1. stack[t] = <<>>
  BY Before
<1>2. PICK s : s = r
  OBVIOUS
<1>3. /\ s \in Seq(Pcs) /\ Fits("decrement", s)
      /\ Debt("decrement", s) = 2 + Weight(l)
  BY <1>2, BeforeTwoDecrements
<1>4. pc' = [pc EXCEPT ![t] = "decrement"] /\ stack' = [stack EXCEPT ![t] = s]
  BY <1>1, <1>2 DEF Decrements
<1>5. "decrement" \in Pcs
  BY DEF Pcs
<1>6. Owes(t, Debt("decrement", s))
  BY <1>3, <1>4, <1>5, Moves
<1> QED
  BY <1>3, <1>6

(* A thread whose read is refused owes what it owed before: the claim of the *)
(* read is now its own to give back.                                         *)
LEMMA LosesARead ==
  ASSUME Typed, Shapes, NEW t \in Threads, pc[t] = "read",
         Decrements(t, 1, "lost")
  PROVE  Owes(t, Debts[t])
<1> DEFINE r == [i \in 1 .. 1 - 1 |-> "decrement"] \o <<"lost">> \o stack[t]
<1>1. /\ stack[t] \in Seq(Pcs) /\ Fits("read", stack[t])
      /\ Debts[t] = Debt("read", stack[t])
  BY Before
<1>2. PICK s : s = r
  OBVIOUS
<1>3. /\ s \in Seq(Pcs) /\ Fits("decrement", s)
      /\ Debt("decrement", s) = Debt("read", stack[t])
  BY <1>1, <1>2, BeforeALostRead
<1>4. pc' = [pc EXCEPT ![t] = "decrement"] /\ stack' = [stack EXCEPT ![t] = s]
  BY <1>2 DEF Decrements
<1>5. "decrement" \in Pcs
  BY DEF Pcs
<1>6. Owes(t, Debt("decrement", s))
  BY <1>3, <1>4, <1>5, Moves
<1> QED
  BY <1>1, <1>3, <1>6

(* How a step of t changes the number of claims.                             *)
LEMMA ClaimsNow ==
  ASSUME Typed, Shapes, Balance, NEW t \in Threads, NEW k \in 0 .. 4, Owes(t, k)
  PROVE  /\ calls \in SUBSET Threads
         /\ Debts' \in [Threads -> 0 .. 4]
         /\ \E m \in Nat, o \in 0 .. 4 :
               /\ Cardinality(Claims(Debts', calls)) = m
               /\ Debts[t] = o
               /\ outstandingIO + k = m + reads + o
<1>1. Debts \in [Threads -> 0 .. 4] /\ calls \in SUBSET Threads
  BY Before DEF Typed, Threads
<1>2. PICK n \in Nat : n = Cardinality(Claims(Debts, calls))
  BY FinitelyManyClaims
<1>3. Debts' = [Debts EXCEPT ![t] = k] /\ Debts' \in [Threads -> 0 .. 4]
  BY <1>1 DEF Owes
<1>4. PICK m \in Nat : m = Cardinality(Claims(Debts', calls))
  BY FinitelyManyClaims
<1>5. PICK o \in 0 .. 4 : o = Debts[t]
  BY <1>1
<1>6. Cardinality(Claims([Debts EXCEPT ![t] = k], calls)) + Debts[t]
        = Cardinality(Claims(Debts, calls)) + k
  BY <1>1, ClaimsAfterAStep
<1>7. m + o = n + k
  BY <1>2, <1>3, <1>4, <1>5, <1>6
<1>8. outstandingIO = n + reads
  BY <1>2 DEF Balance
<1>9. outstandingIO + k = m + reads + o
  BY <1>7, <1>8 DEF Typed
<1> QED
  BY <1>1, <1>3, <1>4, <1>5, <1>9

(* The books balance after a step of t when the count of claims and of reads *)
(* changes by what t owes more or less, and by the thread calls.             *)
LEMMA Counted ==
  ASSUME Typed, Shapes, Balance, NEW t \in Threads, NEW k \in 0 .. 4, Owes(t, k),
         UNCHANGED calls, outstandingIO' \in Int, reads' \in Nat,
         outstandingIO' - reads' + Debts[t] = outstandingIO - reads + k
  PROVE  Balance' /\ outstandingIO' \in Nat
<1>1. PICK m \in Nat, o \in 0 .. 4 :
         /\ Cardinality(Claims(Debts', calls)) = m
         /\ Debts[t] = o
         /\ outstandingIO + k = m + reads + o
  BY ClaimsNow
<1>2. PICK x \in Int, y \in Nat : x = outstandingIO' /\ y = reads'
  OBVIOUS
<1>3. PICK a \in Nat, b \in Nat : a = outstandingIO /\ b = reads
  BY DEF Typed
<1>4. x - y + o = a - b + k /\ a + k = m + b + o
  BY <1>1, <1>2, <1>3
<1>5. x = m + y
  BY <1>4
<1>6. Cardinality(Claims(Debts', calls')) = m
  BY <1>1
<1>7. outstandingIO' = m + reads' /\ outstandingIO' \in Nat
  <2>1. m + y \in Nat
    OBVIOUS
  <2> QED
    BY <1>2, <1>5, <2>1, Zenon
<1> QED
  BY <1>6, <1>7, Zenon DEF Balance

(* A thread call that is entered is a claim more.                            *)
LEMMA CountedCall ==
  ASSUME Typed, Shapes, Balance, NEW t \in Threads, NEW k \in 0 .. 4, Owes(t, k),
         NEW q \in Ports \cup {"work"}, q \notin calls, calls' = calls \cup {q},
         outstandingIO' \in Int, reads' \in Nat,
         outstandingIO' - reads' + Debts[t] = outstandingIO - reads + k + 1
  PROVE  Balance' /\ outstandingIO' \in Nat
<1>1. PICK m \in Nat, o \in 0 .. 4 :
         /\ Cardinality(Claims(Debts', calls)) = m
         /\ Debts[t] = o
         /\ outstandingIO + k = m + reads + o
  BY ClaimsNow
<1>2. outstandingIO' = (m + 1) + reads' /\ outstandingIO' \in Nat
  <2>1. PICK x \in Int, y \in Nat : x = outstandingIO' /\ y = reads'
    OBVIOUS
  <2>2. PICK a \in Nat, b \in Nat : a = outstandingIO /\ b = reads
    BY DEF Typed
  <2>3. x - y + o = a - b + k + 1 /\ a + k = m + b + o
    BY <1>1, <2>1, <2>2
  <2>4. x = (m + 1) + y
    BY <2>3
  <2>5. (m + 1) + y \in Nat
    OBVIOUS
  <2> QED
    BY <2>1, <2>4, <2>5, Zenon
<1>3. Cardinality(Claims(Debts', calls')) = m + 1
  <2>1. q \in Threads
    BY DEF Threads
  <2>2. calls \in SUBSET Threads /\ Debts' \in [Threads -> 0 .. 4]
    BY ClaimsNow
  <2>3. Cardinality(Claims(Debts', calls \cup {q}))
          = Cardinality(Claims(Debts', calls)) + 1
    BY <2>1, <2>2, ClaimsAfterACall
  <2> QED
    BY <1>1, <2>3
<1> QED
  BY <1>2, <1>3, Zenon DEF Balance

(* A thread call that runs is a claim of the thread.                         *)
LEMMA CountedRun ==
  ASSUME Typed, Shapes, Balance, NEW t \in Threads, NEW k \in 0 .. 4, Owes(t, k),
         t \in calls, calls' = calls \ {t},
         UNCHANGED <<outstandingIO, reads>>, k = Debts[t] + 1
  PROVE  Balance'
<1>1. PICK m \in Nat, o \in 0 .. 4 :
         /\ Cardinality(Claims(Debts', calls)) = m
         /\ Debts[t] = o
         /\ outstandingIO + k = m + reads + o
  BY ClaimsNow
<1>2. PICK n \in Nat : n = Cardinality(Claims(Debts', calls'))
  BY FinitelyManyClaims
<1>3. m = n + 1
  <2>1. calls \in SUBSET Threads /\ Debts' \in [Threads -> 0 .. 4]
    BY ClaimsNow
  <2>2. calls = calls' \cup {t} /\ t \notin calls' /\ calls' \in SUBSET Threads
    BY <2>1
  <2>3. Cardinality(Claims(Debts', calls' \cup {t}))
          = Cardinality(Claims(Debts', calls')) + 1
    BY <2>1, <2>2, ClaimsAfterACall
  <2> QED
    BY <1>1, <1>2, <2>2, <2>3
<1>4. outstandingIO = n + reads
  BY <1>1, <1>2, <1>3 DEF Typed
<1> QED
  BY <1>2, <1>4 DEF Balance

-----------------------------------------------------------------------------
(* The kinds of step that keep the books balanced.                           *)

Keeps == Places' /\ Shapes' /\ Balance' /\ outstandingIO' \in Nat

(* Nothing is claimed and nothing given back.                                *)
LEMMA EvenStep ==
  ASSUME Typed, Shapes, Balance, NEW t \in Threads, NEW k, k = Debts[t], Owes(t, k),
         UNCHANGED <<outstandingIO, reads, calls>>
  PROVE  Keeps
<1>1. k \in 0 .. 4
  BY DEF Owes
<1>2. outstandingIO' \in Int /\ reads' \in Nat
  BY DEF Typed
<1>3. outstandingIO' - reads' + Debts[t] = outstandingIO - reads + k
  OBVIOUS
<1>4. Balance' /\ outstandingIO' \in Nat
  BY <1>1, <1>2, <1>3, Counted
<1> QED
  BY <1>4 DEF Owes, Keeps

(* A claim is made.                                                          *)
LEMMA StepUp ==
  ASSUME Typed, Shapes, Balance, NEW t \in Threads, NEW k, k = Debts[t] + 1,
         Owes(t, k), outstandingIO' = outstandingIO + 1, UNCHANGED <<reads, calls>>
  PROVE  Keeps
<1>1. k \in 0 .. 4
  BY DEF Owes
<1>2. outstandingIO' \in Int /\ reads' \in Nat
  BY DEF Typed
<1>3. outstandingIO' - reads' + Debts[t] = outstandingIO - reads + k
  BY Before DEF Typed
<1>4. Balance' /\ outstandingIO' \in Nat
  BY <1>1, <1>2, <1>3, Counted, Zenon
<1> QED
  BY <1>4 DEF Owes, Keeps

(* A claim is given back.                                                    *)
LEMMA StepDown ==
  ASSUME Typed, Shapes, Balance, NEW t \in Threads, NEW k, k = Debts[t] - 1,
         Owes(t, k), outstandingIO' = outstandingIO - 1, UNCHANGED <<reads, calls>>
  PROVE  Keeps
<1>1. k \in 0 .. 4
  BY DEF Owes
<1>2. outstandingIO' \in Int /\ reads' \in Nat
  BY DEF Typed
<1>3. outstandingIO' - reads' + Debts[t] = outstandingIO - reads + k
  BY SMTT(30), Before DEF Typed
<1>4. Balance' /\ outstandingIO' \in Nat
  BY <1>1, <1>2, <1>3, Counted, Zenon
<1> QED
  BY <1>4 DEF Owes, Keeps

(* A thread goes to a place where it owes as much.                           *)
LEMMA GoesEven ==
  ASSUME Typed, Shapes, Balance, NEW t \in Threads, NEW l \in Pcs, Jump(t, l),
         pc[t] \in Leavings <=> l \in Leavings, Weight(l) = Weight(pc[t]),
         UNCHANGED <<outstandingIO, reads, calls>>
  PROVE  Keeps
<1>1. Owes(t, Debts[t] - Weight(pc[t]) + Weight(l))
  BY Goes
<1>2. Debts[t] \in 0 .. 4 /\ Weight(l) \in 0 .. 2
  BY Before, WeightIsSmall
<1>3. Debts[t] - Weight(pc[t]) + Weight(l) = Debts[t]
  BY <1>2
<1> QED
  BY <1>1, <1>3, EvenStep

(* A thread claims.                                                          *)
LEMMA GoesUp ==
  ASSUME Typed, Shapes, Balance, NEW t \in Threads, NEW l \in Pcs, Jump(t, l),
         pc[t] \in Leavings <=> l \in Leavings, Weight(l) = Weight(pc[t]) + 1,
         outstandingIO' = outstandingIO + 1, UNCHANGED <<reads, calls>>
  PROVE  Keeps
<1>1. Owes(t, Debts[t] - Weight(pc[t]) + Weight(l))
  BY Goes
<1>2. Debts[t] \in 0 .. 4 /\ Weight(pc[t]) \in 0 .. 2
  BY Before, WeightIsSmall
<1>3. Debts[t] - Weight(pc[t]) + Weight(l) = Debts[t] + 1
  BY <1>2
<1> QED
  BY <1>1, <1>3, StepUp

(* A thread goes back to where it came from.                                 *)
LEMMA ReturnsEven ==
  ASSUME Typed, Shapes, Balance, NEW t \in Threads, pc[t] \in Leavings,
         Weight(pc[t]) = 0, Pop(t), UNCHANGED <<outstandingIO, reads, calls>>
  PROVE  Keeps
<1>1. Owes(t, Debts[t] - Weight(pc[t]))
  BY Returns
<1>2. Debts[t] \in 0 .. 4
  BY Before
<1>3. Debts[t] - Weight(pc[t]) = Debts[t]
  BY <1>2
<1> QED
  BY <1>1, <1>3, EvenStep

(* A thread begins to give back what it owes.                                *)
LEMMA DecrementsEven ==
  ASSUME Typed, Shapes, Balance, NEW t \in Threads, NEW l \in Ends,
         pc[t] \notin Leavings,
         \/ Decrements(t, 1, l) /\ Weight(pc[t]) = 1 + Weight(l)
         \/ Decrements(t, 2, l) /\ Weight(pc[t]) = 2 + Weight(l),
         UNCHANGED <<outstandingIO, reads, calls>>
  PROVE  Keeps
<1>1. Debts[t] = Weight(pc[t])
  BY Before
<1>2. CASE Decrements(t, 1, l) /\ Weight(pc[t]) = 1 + Weight(l)
  <2>1. Owes(t, 1 + Weight(l))
    BY <1>2, DecrementsOnce
  <2>2. 1 + Weight(l) = Debts[t]
    BY <1>1, <1>2
  <2> QED
    BY <2>1, <2>2, EvenStep
<1>3. CASE Decrements(t, 2, l) /\ Weight(pc[t]) = 2 + Weight(l)
  <2>1. Owes(t, 2 + Weight(l))
    BY <1>3, DecrementsTwice
  <2>2. 2 + Weight(l) = Debts[t]
    BY <1>1, <1>3
  <2> QED
    BY <2>1, <2>2, EvenStep
<1> QED
  BY <1>2, <1>3

-----------------------------------------------------------------------------
(* The steps of DecrementOutstandingIO and RearmInterruptRead.               *)

(* A step that leaves the types of the rest alone.                           *)
LEMMA SameTypes ==
  ASSUME Typed, Keeps, Others', reads' \in Nat,
         calls' \subseteq Ports \cup {"work"}, count' \in [Threads -> Nat]
  PROVE  Typed' /\ Shapes' /\ Balance'
BY DEF Typed, Keeps

(* Every claim given back is owed one less: types, shapes and balance are    *)
(* kept.                                                                     *)
LEMMA DecrementKeeps ==
  ASSUME Typed, Shapes, Balance, NEW t \in Threads, DecrementOutstandingIO(t)
  PROVE  Typed' /\ Shapes' /\ Balance'
<1>1. pc[t] = "decrement" /\ Jump(t, "tail") /\ "tail" \in Pcs
  BY DEF DecrementOutstandingIO, At, Jump, Pcs
<1>2. Weight(pc[t]) = 1 /\ Weight("tail") = 0
  BY <1>1 DEF Weight
<1>3. Owes(t, Debts[t] - Weight(pc[t]) + Weight("tail"))
  BY <1>1, Goes DEF Leavings
<1>4. Debts[t] - Weight(pc[t]) + Weight("tail") = Debts[t] - 1
  BY <1>2, Before
<1>5. outstandingIO' = outstandingIO - 1 /\ UNCHANGED <<reads, calls>>
  BY DEF DecrementOutstandingIO, readVars
<1>6. Keeps
  BY <1>3, <1>4, <1>5, StepDown
<1>7. count' \in [Threads -> Nat]
  <2>1. count' = [count EXCEPT ![t] = outstandingIO']
    BY <1>5 DEF DecrementOutstandingIO
  <2>2. count \in [Threads -> Nat] /\ outstandingIO' \in Nat
    BY <1>6 DEF Typed, Keeps
  <2> QED
    BY <2>1, <2>2
<1>8. Others'
  BY DEF DecrementOutstandingIO, readVars, powerVars, endVars, Typed, Others
<1> QED
  BY <1>5, <1>6, <1>7, <1>8, SameTypes DEF Typed

(* The look at the returned count moves no claim: types, shapes and balance  *)
(* are kept.                                                                 *)
LEMMA LastOneOutKeeps ==
  ASSUME Typed, Shapes, Balance, NEW t \in Threads, LastOneOut(t)
  PROVE  Typed' /\ Shapes' /\ Balance'
<1>1. pc[t] = "tail" /\ pc[t] \in Leavings /\ Weight(pc[t]) = 0
  BY DEF LastOneOut, At, Leavings, Weight
<1>2. UNCHANGED <<outstandingIO, reads, calls>>
  BY DEF LastOneOut, readVars
<1>3. Jump(t, "close") \/ Jump(t, "clearNeed") \/ Pop(t)
  BY DEF LastOneOut
<1>4. /\ "close" \in Pcs \cap Leavings /\ "clearNeed" \in Pcs \cap Leavings
      /\ Weight("close") = 0 /\ Weight("clearNeed") = 0
  BY DEF Pcs, Leavings, Weight
<1>5. Keeps
  BY <1>1, <1>2, <1>3, <1>4, GoesEven, ReturnsEven
<1>6. count' \in [Threads -> Nat]
  BY DEF LastOneOut, Typed
<1>7. Others'
  BY DEF LastOneOut, readVars, powerVars, endVars, Typed, Others
<1> QED
  BY <1>2, <1>5, <1>6, <1>7, SameTypes DEF Typed

(* Closing the device moves no claim: types, shapes and balance are kept.    *)
LEMMA CloseHubKeeps ==
  ASSUME Typed, Shapes, Balance, NEW t \in Threads, CloseHub(t)
  PROVE  Typed' /\ Shapes' /\ Balance'
<1>1. pc[t] \in Leavings /\ Weight(pc[t]) = 0
  BY DEF CloseHub, At, Leavings, Weight
<1>2. Pop(t) /\ UNCHANGED <<outstandingIO, reads, calls, count>>
  BY DEF CloseHub, Return
<1>3. Keeps
  BY <1>1, <1>2, ReturnsEven
<1>4. aborting' \in BOOLEAN
  BY DEF CloseHub, CloseDevice, Abort
<1>5. closes' \in Nat
  BY DEF CloseHub, CloseDevice, Typed, Others
<1>6. Others'
  BY <1>4, <1>5 DEF CloseHub, CloseDevice, powerVars, Typed, Others
<1> QED
  BY <1>2, <1>3, <1>6, SameTypes DEF Typed

(* Clearing _needInterruptRead moves no claim: types, shapes and balance are *)
(* kept.                                                                     *)
LEMMA ClearNeedKeeps ==
  ASSUME Typed, Shapes, Balance, NEW t \in Threads, ClearNeed(t)
  PROVE  Typed' /\ Shapes' /\ Balance'
<1>1. /\ pc[t] \in Leavings /\ "rearm" \in Leavings /\ "rearm" \in Pcs
      /\ Weight(pc[t]) = 0 /\ Weight("rearm") = 0
  BY DEF ClearNeed, At, Leavings, Weight, Pcs
<1>2. Jump(t, "rearm") /\ UNCHANGED <<outstandingIO, reads, calls, count>>
  BY DEF ClearNeed, Go
<1>3. Keeps
  BY <1>1, <1>2, GoesEven
<1>4. Others'
  BY ZenonT(30) DEF ClearNeed, powerVars, endVars, Typed, Others
<1> QED
  BY <1>2, <1>3, <1>4, SameTypes DEF Typed

(* RearmInterruptRead before its claim moves none: types, shapes and balance *)
(* are kept.                                                                 *)
LEMMA RearmInterruptReadKeeps ==
  ASSUME Typed, Shapes, Balance, NEW t \in Threads, RearmInterruptRead(t)
  PROVE  Typed' /\ Shapes' /\ Balance'
<1>1. /\ pc[t] \in Leavings /\ Weight(pc[t]) = 0
      /\ "lost" \in Leavings \cap Pcs /\ Weight("lost") = 0
      /\ "armed" \in Leavings \cap Pcs /\ Weight("armed") = 0
  BY DEF RearmInterruptRead, At, Leavings, Weight, Pcs
<1>2. UNCHANGED <<outstandingIO, reads, calls, count>>
  BY DEF RearmInterruptRead, Go
<1>3. Jump(t, "lost") \/ Jump(t, "armed")
  BY DEF RearmInterruptRead, Go
<1>4. Keeps
  BY <1>1, <1>2, <1>3, GoesEven
<1>5. Others'
  BY DEF RearmInterruptRead, powerVars, endVars, Typed, Others
<1> QED
  BY <1>2, <1>4, <1>5, SameTypes DEF Typed

(* A compare-and-swap that fails moves no claim: types, shapes and balance   *)
(* are kept.                                                                 *)
LEMMA RearmFailedKeeps ==
  ASSUME Typed, Shapes, Balance, NEW t \in Threads, RearmFailed(t)
  PROVE  Typed' /\ Shapes' /\ Balance'
<1>1. pc[t] \in Leavings /\ Weight(pc[t]) = 0
  BY DEF RearmFailed, At, Leavings, Weight
<1>2. Pop(t) /\ UNCHANGED <<outstandingIO, reads, calls, count>>
  BY DEF RearmFailed, Return
<1>3. Keeps
  BY <1>1, <1>2, ReturnsEven
<1>4. Others'
  BY ZenonT(30) DEF RearmFailed, powerVars, endVars, Typed, Others
<1> QED
  BY <1>2, <1>3, <1>4, SameTypes DEF Typed

(* The look at the power state moves no claim: types, shapes and balance are *)
(* kept.                                                                     *)
LEMMA CheckPowerKeeps ==
  ASSUME Typed, Shapes, Balance, NEW t \in Threads, CheckPower(t)
  PROVE  Typed' /\ Shapes' /\ Balance'
<1>1. /\ pc[t] \in Leavings /\ Weight(pc[t]) = 0
      /\ "claim" \in Leavings \cap Pcs /\ Weight("claim") = 0
  BY DEF CheckPower, At, Leavings, Weight, Pcs
<1>2. UNCHANGED <<outstandingIO, reads, calls, count>>
  BY DEF CheckPower, Go, Return
<1>3. Jump(t, "claim") \/ Pop(t)
  BY DEF CheckPower, Go, Return
<1>4. Keeps
  BY <1>1, <1>2, <1>3, GoesEven, ReturnsEven
<1>5. needInterruptRead' \in BOOLEAN /\ disturbed' \in BOOLEAN
  BY DEF CheckPower, Typed, Others
<1>6. Others'
  BY <1>5 DEF CheckPower, powerVars, endVars, Typed, Others
<1> QED
  BY <1>2, <1>4, <1>6, SameTypes DEF Typed

(* The claim of a read is owed by the thread that takes it: types, shapes    *)
(* and balance are kept.                                                     *)
LEMMA ClaimReadKeeps ==
  ASSUME Typed, Shapes, Balance, NEW t \in Threads, ClaimRead(t)
  PROVE  Typed' /\ Shapes' /\ Balance'
<1>1. /\ pc[t] \in Leavings /\ Weight(pc[t]) = 0
      /\ "decrement" \in Leavings \cap Pcs /\ Weight("decrement") = 1
      /\ "read" \in Leavings \cap Pcs /\ Weight("read") = 1
  BY DEF ClaimRead, At, Leavings, Weight, Pcs
<1>2. outstandingIO' = outstandingIO + 1 /\ UNCHANGED <<reads, calls, count>>
  BY DEF ClaimRead, Go, IncrementOutstandingIO, readVars
<1>3. Jump(t, "decrement") \/ Jump(t, "read")
  BY DEF ClaimRead, Go
<1>4. Keeps
  BY <1>1, <1>2, <1>3, GoesUp
<1>5. Others'
  BY DEF ClaimRead, readVars, powerVars, endVars, Typed, Others
<1> QED
  BY <1>2, <1>4, <1>5, SameTypes DEF Typed

(* The claim of a read goes to the read, or is given back if it is refused:  *)
(* types, shapes and balance are kept.                                       *)
LEMMA StartReadKeeps ==
  ASSUME Typed, Shapes, Balance, NEW t \in Threads, StartRead(t)
  PROVE  Typed' /\ Shapes' /\ Balance'
<1>1. pc[t] = "read" /\ pc[t] \in Leavings /\ Weight(pc[t]) = 1
  BY DEF StartRead, At, Leavings, Weight
<1>2. UNCHANGED <<outstandingIO, calls, count>>
  BY DEF StartRead, Return, Decrements
<1>3. CASE reads' = reads + 1 /\ Return(t) /\ UNCHANGED <<spent, disturbed>>
  <2>1. Owes(t, Debts[t] - Weight(pc[t]))
    BY <1>1, <1>3, Returns DEF Return
  <2>2. PICK k : k = Debts[t] - 1 /\ Owes(t, k)
    BY <1>1, <2>1
  <2>3. k \in 0 .. 4 /\ outstandingIO' \in Int /\ reads' \in Nat
    BY <1>2, <1>3, <2>2 DEF Owes, Typed
  <2>4. outstandingIO' - reads' + Debts[t] = outstandingIO - reads + k
    BY <1>2, <1>3, <2>2, Before DEF Typed
  <2>5. Balance' /\ outstandingIO' \in Nat
    BY <1>2, <2>2, <2>3, <2>4, Counted, Zenon
  <2>6. Keeps
    BY <2>2, <2>5 DEF Owes, Keeps
  <2>7. Others'
    BY <1>3 DEF StartRead, powerVars, endVars, Typed, Others
  <2> QED
    BY <1>2, <2>3, <2>6, <2>7, SameTypes DEF Typed
<1>4. CASE /\ Spend("fault") /\ Decrements(t, 1, "lost")
           /\ disturbed' = TRUE /\ UNCHANGED reads
  <2>1. Owes(t, Debts[t])
    BY <1>1, <1>4, LosesARead
  <2>2. Keeps
    BY <1>2, <1>4, <2>1, EvenStep
  <2>3. spent' \in [Events -> Nat]
    BY <1>4, SpendTyped DEF Events, Typed, Others
  <2>4. Others'
    BY <1>4, <2>3 DEF StartRead, powerVars, endVars, Typed, Others
  <2> QED
    BY <1>2, <1>4, <2>2, <2>4, SameTypes DEF Typed
<1> QED
  BY <1>3, <1>4 DEF StartRead

(* A step of a thread on its way out keeps the books balanced.               *)
LEMMA LeavingKeeps ==
  ASSUME Typed, Shapes, Balance, NEW t \in Threads, Leaving(t)
  PROVE  Typed' /\ Shapes' /\ Balance'
BY DecrementKeeps, LastOneOutKeeps, CloseHubKeeps, ClearNeedKeeps,
   RearmInterruptReadKeeps, RearmFailedKeeps, CheckPowerKeeps, ClaimReadKeeps,
   StartReadKeeps DEF Leaving

-----------------------------------------------------------------------------
(* The completion of a read.                                                 *)

(* The claim of a read passes to its completion, which gives it back; a      *)
(* report claims once more for the worker: types, shapes and balance are     *)
(* kept.                                                                     *)
LEMMA InterruptReadHandlerKeeps ==
  ASSUME Typed, Shapes, Balance, InterruptReadHandler
  PROVE  Typed' /\ Shapes' /\ Balance'
<1>1. /\ "loop" \in Threads /\ "idle" \in Ends /\ Weight("idle") = 0
      /\ pc["loop"] = "idle" /\ pc["loop"] \notin Leavings
  BY DEF InterruptReadHandler, At, Threads, Ends, Weight, Leavings
<1>2. Debts["loop"] = 0
  BY <1>1, Before
<1>3. PICK a \in Nat, b \in Nat : a = outstandingIO /\ b + 1 = reads
  <2>1. outstandingIO \in Nat /\ reads - 1 \in Nat /\ (reads - 1) + 1 = reads
    BY DEF InterruptReadHandler, Typed
  <2> QED
    BY <2>1
<1>4. reads' = b /\ b \in Nat
  BY <1>3 DEF InterruptReadHandler
<1>5. ASSUME Decrements("loop", 1, "idle"), UNCHANGED <<calls, outstandingIO>>
      PROVE  Keeps /\ UNCHANGED <<calls, count>>
  <2>1. Owes("loop", 1)
    <3>1. Owes("loop", 1 + Weight("idle"))
      BY <1>1, <1>5, DecrementsOnce
    <3>2. 1 + Weight("idle") = 1
      BY <1>1
    <3> QED
      BY <3>1, <3>2, Zenon
  <2>2. outstandingIO' \in Int /\ reads' \in Nat
    BY <1>3, <1>4, <1>5
  <2>3. outstandingIO' - reads' + Debts["loop"] = outstandingIO - reads + 1
    <3>1. a - b + 0 = a - (b + 1) + 1
      OBVIOUS
    <3>2. outstandingIO' = a /\ outstandingIO = a
      BY <1>3, <1>5
    <3> QED
      BY <1>2, <1>3, <1>4, <3>1, <3>2, Zenon
  <2>4. 1 \in 0 .. 4
    OBVIOUS
  <2>5. Balance' /\ outstandingIO' \in Nat
    BY <1>1, <1>5, <2>1, <2>2, <2>3, <2>4, Counted, Zenon
  <2> QED
    BY <1>5, <2>1, <2>5 DEF Owes, Keeps, Decrements
<1>6. ASSUME HandleReport
      PROVE  Keeps /\ calls' \subseteq Ports \cup {"work"} /\ UNCHANGED count
  <2>1. CASE ~ports
    <3>1. Decrements("loop", 1, "idle") /\ UNCHANGED <<calls, outstandingIO>>
      BY <1>6, <2>1 DEF HandleReport
    <3> QED
      BY <1>5, <3>1 DEF Typed
  <2>2. CASE ports /\ "work" \notin calls
    <3>1. /\ calls' = calls \cup {"work"} /\ outstandingIO' = outstandingIO + 1
          /\ Decrements("loop", 1, "idle")
      BY <1>6, <2>2 DEF HandleReport
    <3>2. Owes("loop", 1)
      <4>1. Owes("loop", 1 + Weight("idle"))
        BY <1>1, <3>1, DecrementsOnce
      <4>2. 1 + Weight("idle") = 1
        BY <1>1
      <4> QED
        BY <4>1, <4>2, Zenon
    <3>3. outstandingIO' = a + 1 /\ a + 1 \in Int
      BY <1>3, <3>1
    <3>4. outstandingIO' - reads' + Debts["loop"] = outstandingIO - reads + 1 + 1
      <4>1. (a + 1) - b + 0 = a - (b + 1) + 1 + 1
        OBVIOUS
      <4> QED
        BY <1>2, <1>3, <1>4, <3>3, <4>1, Zenon
    <3>5. 1 \in 0 .. 4 /\ "work" \in Ports \cup {"work"}
      OBVIOUS
    <3>6. Balance' /\ outstandingIO' \in Nat
      BY <1>1, <1>4, <2>2, <3>1, <3>2, <3>3, <3>4, <3>5, CountedCall, Zenon
    <3> QED
      BY <3>1, <3>2, <3>6 DEF Owes, Keeps, Decrements, Typed
  <2>3. CASE ports /\ "work" \in calls
    <3>1. /\ UNCHANGED calls /\ outstandingIO' = outstandingIO + 1
          /\ Decrements("loop", 2, "idle")
      BY <1>6, <2>3 DEF HandleReport
    <3>2. Owes("loop", 2)
      <4>1. Owes("loop", 2 + Weight("idle"))
        BY <1>1, <3>1, DecrementsTwice
      <4>2. 2 + Weight("idle") = 2
        BY <1>1
      <4> QED
        BY <4>1, <4>2, Zenon
    <3>3. outstandingIO' = a + 1 /\ a + 1 \in Int
      BY <1>3, <3>1
    <3>4. outstandingIO' - reads' + Debts["loop"] = outstandingIO - reads + 2
      <4>1. (a + 1) - b + 0 = a - (b + 1) + 2
        OBVIOUS
      <4> QED
        BY <1>2, <1>3, <1>4, <3>3, <4>1, Zenon
    <3>5. 2 \in 0 .. 4
      OBVIOUS
    <3>6. Balance' /\ outstandingIO' \in Nat
      BY <1>1, <1>4, <3>1, <3>2, <3>3, <3>4, <3>5, Counted, Zenon
    <3> QED
      BY <3>1, <3>2, <3>6 DEF Owes, Keeps, Decrements, Typed
  <2> QED
    BY <2>1, <2>2, <2>3
<1>7. /\ Keeps /\ calls' \subseteq Ports \cup {"work"} /\ UNCHANGED count
      /\ spent' \in [Events -> Nat]
      /\ aborting' \in BOOLEAN /\ needInterruptRead' \in BOOLEAN
  <2>1. CASE aborting
    <3>1. /\ aborting' = (reads' > 0)
          /\ needInterruptRead' = (needInterruptRead \/ ~(inactive \/ abortExpected))
          /\ Decrements("loop", 1, "idle")
          /\ UNCHANGED spent /\ UNCHANGED <<calls, outstandingIO>>
      BY <2>1 DEF InterruptReadHandler
    <3> QED
      BY <1>5, <3>1 DEF Typed, Others
  <2>2. CASE ~aborting /\ HandleReport /\ Spend("report")
             /\ UNCHANGED <<needInterruptRead, aborting>>
    BY <1>6, <2>2, SpendTyped DEF Typed, Others, Events
  <2>3. CASE /\ IF inactive THEN UNCHANGED spent ELSE Spend("error")
             /\ needInterruptRead' = (needInterruptRead \/ ~inactive)
             /\ Decrements("loop", 1, "idle")
             /\ UNCHANGED <<calls, outstandingIO, aborting>>
    <3>1. spent' \in [Events -> Nat]
      BY <2>3, SpendTyped DEF Typed, Others, Events
    <3> QED
      BY <1>5, <2>3, <3>1 DEF Typed, Others
  <2> QED
    BY <2>1, <2>2, <2>3 DEF InterruptReadHandler
<1>8. Others'
  BY <1>7 DEF InterruptReadHandler, powerVars, endVars, Typed, Others
<1>9. reads' \in Nat /\ count' \in [Threads -> Nat]
  BY <1>4, <1>7 DEF Typed
<1> QED
  BY <1>7, <1>8, <1>9, SameTypes

-----------------------------------------------------------------------------
(* The worker, the threads of the ports and those in DoPortAction.           *)

(* The claim of a thread call passes to the thread when the call begins:     *)
(* types, shapes and balance are kept.                                       *)
LEMMA CalledKeeps ==
  ASSUME Typed, Shapes, Balance, NEW t \in Threads, Called(t)
  PROVE  Typed' /\ Shapes' /\ Balance'
<1>1. /\ pc[t] = "idle" /\ pc[t] \notin Leavings /\ Weight(pc[t]) = 0
      /\ "start" \in Pcs /\ "start" \notin Leavings /\ Weight("start") = 1
      /\ "run" \in Pcs /\ "run" \notin Leavings /\ Weight("run") = 1
  BY DEF Called, At, Weight, Leavings, Pcs
<1>2. /\ t \in calls /\ calls' = calls \ {t}
      /\ UNCHANGED <<outstandingIO, reads, count>>
      /\ Jump(t, "start") \/ Jump(t, "run")
  BY DEF Called, Go, unchangedByWork
<1>3. Owes(t, Debts[t] - Weight(pc[t]) + 1)
  BY <1>1, <1>2, Goes
<1>4. Debts[t] - Weight(pc[t]) + 1 = Debts[t] + 1
  BY <1>1, Before
<1>5. PICK k : k = Debts[t] + 1 /\ Owes(t, k)
  BY <1>3, <1>4
<1>6. k \in 0 .. 4
  BY <1>5 DEF Owes
<1>7. Balance'
  BY <1>2, <1>5, <1>6, CountedRun, Zenon
<1>8. Keeps
  BY <1>2, <1>5, <1>7 DEF Owes, Keeps, Typed
<1>9. Others'
  BY DEF Called, unchangedByWork, powerVars, endVars, Typed, Others
<1> QED
  BY <1>2, <1>8, <1>9, SameTypes DEF Typed

(* The worker thread takes over the claim of the call that was queued:       *)
(* types, shapes and balance are kept.                                       *)
LEMMA ProcessStatusChangedKeeps ==
  ASSUME Typed, Shapes, Balance, ProcessStatusChanged
  PROVE  Typed' /\ Shapes' /\ Balance'
<1>1. /\ "work" \in Threads /\ "idle" \in Ends /\ Weight("idle") = 0
      /\ pc["work"] = "start" /\ pc["work"] \notin Leavings /\ Weight(pc["work"]) = 1
      /\ "master" \in Pcs /\ "master" \notin Leavings /\ Weight("master") = 1
  BY DEF ProcessStatusChanged, At, Threads, Ends, Weight, Leavings, Pcs
<1>2. UNCHANGED <<outstandingIO, reads, calls, count>>
  BY DEF ProcessStatusChanged, unchangedByWork, Decrements, Go
<1>3. Decrements("work", 1, "idle") \/ Jump("work", "master")
  BY DEF ProcessStatusChanged, Go
<1>4. Weight(pc["work"]) = 1 + Weight("idle")
  BY <1>1
<1>5. Keeps
  <2>1. CASE Decrements("work", 1, "idle")
    BY <1>1, <1>2, <1>4, <2>1, DecrementsEven
  <2>2. CASE Jump("work", "master")
    BY <1>1, <1>2, <2>2, GoesEven
  <2> QED
    BY <1>3, <2>1, <2>2
<1>6. needInterruptRead' \in BOOLEAN /\ todo' \subseteq Ports
  BY DEF ProcessStatusChanged, Typed, Others
<1>7. Others'
  BY <1>6 DEF ProcessStatusChanged, unchangedByWork, powerVars, endVars, Typed, Others
<1> QED
  BY <1>2, <1>5, <1>7, SameTypes DEF Typed

(* The worker's own claim is owed by the worker: types, shapes and balance   *)
(* are kept.                                                                 *)
LEMMA MasterClaimKeeps ==
  ASSUME Typed, Shapes, Balance, MasterClaim
  PROVE  Typed' /\ Shapes' /\ Balance'
<1>1. /\ "work" \in Threads
      /\ pc["work"] \notin Leavings /\ Weight(pc["work"]) = 1
      /\ "each" \in Pcs /\ "each" \notin Leavings /\ Weight("each") = 2
  BY DEF MasterClaim, At, Threads, Weight, Leavings, Pcs
<1>2. /\ outstandingIO' = outstandingIO + 1 /\ UNCHANGED <<reads, calls, count>>
      /\ Jump("work", "each")
  BY DEF MasterClaim, IncrementOutstandingIO, unchangedByWork, Go
<1>3. Weight("each") = Weight(pc["work"]) + 1
  BY <1>1
<1>4. Keeps
  BY <1>1, <1>2, <1>3, GoesUp
<1>5. Others'
  BY DEF MasterClaim, unchangedByWork, powerVars, endVars, Typed, Others
<1> QED
  BY <1>2, <1>4, <1>5, SameTypes DEF Typed

(* The claim for a port's thread is owed by the thread, or given back by the *)
(* worker: types, shapes and balance are kept.                               *)
LEMMA StatusChangedKeeps ==
  ASSUME Typed, Shapes, Balance, NEW p \in Ports, StatusChanged(p)
  PROVE  Typed' /\ Shapes' /\ Balance'
<1>1. /\ "work" \in Threads /\ "each" \in Ends /\ Weight("each") = 2
      /\ pc["work"] = "each" /\ pc["work"] \notin Leavings
  BY DEF StatusChanged, At, Threads, Ends, Weight, Leavings
<1>2. Debts["work"] = 2
  BY <1>1, Before
<1>3. UNCHANGED <<reads, count>>
  BY DEF StatusChanged, unchangedByWork, Decrements
<1>4. Keeps /\ calls' \subseteq Ports \cup {"work"}
  <2>1. CASE ~ports
    <3>1. UNCHANGED <<outstandingIO, calls, pc, stack>>
      BY <2>1 DEF StatusChanged
    <3>2. Owes("work", Debts["work"])
      BY <1>1, <3>1, Stays
    <3> QED
      BY <1>1, <1>3, <3>1, <3>2, EvenStep DEF Typed
  <2>2. CASE ports /\ p \in calls
    <3>1. /\ outstandingIO' = outstandingIO + 1 /\ UNCHANGED calls
          /\ Decrements("work", 1, "each")
      BY <2>2 DEF StatusChanged, IncrementOutstandingIO
    <3>2. Owes("work", 1 + Weight("each"))
      BY <1>1, <3>1, DecrementsOnce
    <3>3. 1 + Weight("each") = Debts["work"] + 1
      BY <1>1, <1>2
    <3> QED
      BY <1>1, <1>3, <3>1, <3>2, <3>3, StepUp DEF Typed
  <2>3. CASE ports /\ p \notin calls
    <3>1. /\ outstandingIO' = outstandingIO + 1 /\ calls' = calls \cup {p}
          /\ UNCHANGED <<pc, stack>>
      BY <2>3 DEF StatusChanged, IncrementOutstandingIO
    <3>2. Owes("work", 2)
      BY <1>1, <1>2, <3>1, Stays
    <3>3. PICK a \in Nat, b \in Nat : a = outstandingIO /\ b = reads
      BY DEF Typed
    <3>4. outstandingIO' - reads' + Debts["work"] = outstandingIO - reads + 2 + 1
      <4>1. (a + 1) - b + 2 = a - b + 2 + 1
        OBVIOUS
      <4>2. outstandingIO' = a + 1 /\ reads' = b
        BY <1>3, <3>1, <3>3
      <4> QED
        BY <1>2, <3>3, <4>1, <4>2, Zenon
    <3>5. 2 \in 0 .. 4 /\ p \in Ports \cup {"work"}
      OBVIOUS
    <3>6. outstandingIO' \in Int /\ reads' \in Nat
      BY <1>3, <3>1, <3>3
    <3>7. Balance' /\ outstandingIO' \in Nat
      BY <1>1, <2>3, <3>1, <3>2, <3>4, <3>5, <3>6, CountedCall, Zenon
    <3> QED
      BY <3>1, <3>2, <3>7 DEF Owes, Keeps, Typed
  <2> QED
    BY <2>1, <2>2, <2>3
<1>5. Others'
  BY DEF StatusChanged, unchangedByWork, powerVars, endVars, Typed, Others
<1> QED
  BY <1>3, <1>4, <1>5, SameTypes DEF Typed

(* The worker gives back its claim and the caller's: types, shapes and       *)
(* balance are kept.                                                         *)
LEMMA PortsDoneKeeps ==
  ASSUME Typed, Shapes, Balance, PortsDone
  PROVE  Typed' /\ Shapes' /\ Balance'
<1>1. /\ "work" \in Threads /\ "idle" \in Ends /\ Weight("idle") = 0
      /\ pc["work"] \notin Leavings /\ Weight(pc["work"]) = 2
  BY DEF PortsDone, At, Threads, Ends, Weight, Leavings
<1>2. /\ UNCHANGED <<outstandingIO, reads, calls, count>>
      /\ Decrements("work", 2, "idle")
  BY DEF PortsDone, unchangedByWork, Decrements
<1>3. Weight(pc["work"]) = 2 + Weight("idle")
  BY <1>1
<1>4. Keeps
  BY <1>1, <1>2, <1>3, DecrementsEven
<1>5. Others'
  BY DEF PortsDone, unchangedByWork, powerVars, endVars, Typed, Others
<1> QED
  BY <1>2, <1>4, <1>5, SameTypes DEF Typed

(* The thread of a port gives its claim back once: types, shapes and balance *)
(* are kept.                                                                 *)
LEMMA PortDoneKeeps ==
  ASSUME Typed, Shapes, Balance, NEW p \in Ports, PortDone(p)
  PROVE  Typed' /\ Shapes' /\ Balance'
<1>1. /\ p \in Threads /\ "idle" \in Ends /\ Weight("idle") = 0
      /\ pc[p] \notin Leavings /\ Weight(pc[p]) = 1
  BY DEF PortDone, At, Threads, Ends, Weight, Leavings
<1>2. /\ UNCHANGED <<outstandingIO, reads, calls, count>>
      /\ Decrements(p, 1, "idle")
  BY DEF PortDone, unchangedByWork, Decrements
<1>3. Weight(pc[p]) = 1 + Weight("idle")
  BY <1>1
<1>4. Keeps
  BY <1>1, <1>2, <1>3, DecrementsEven
<1>5. Others'
  BY DEF PortDone, unchangedByWork, powerVars, endVars, Typed, Others
<1> QED
  BY <1>2, <1>4, <1>5, SameTypes DEF Typed

(* The first thread of a port gives back the claim taken for it: types,      *)
(* shapes and balance are kept.                                              *)
LEMMA PortInitKeeps ==
  ASSUME Typed, Shapes, Balance, NEW i \in Inits, PortInit(i)
  PROVE  Typed' /\ Shapes' /\ Balance'
<1>1. /\ i \in Threads /\ "gone" \in Ends /\ Weight("gone") = 0
      /\ pc[i] \notin Leavings /\ Weight(pc[i]) = 1
      /\ "run" \in Pcs /\ "run" \notin Leavings /\ Weight("run") = 1
  BY DEF PortInit, At, Threads, Ends, Weight, Leavings, Pcs
<1>2. /\ UNCHANGED <<outstandingIO, reads, calls, count>>
      /\ Decrements(i, 1, "gone") \/ Jump(i, "run")
  BY DEF PortInit, unchangedByWork, Decrements, Go
<1>3. Weight(pc[i]) = 1 + Weight("gone")
  BY <1>1
<1>4. Keeps
  <2>1. CASE Decrements(i, 1, "gone")
    BY <1>1, <1>2, <1>3, <2>1, DecrementsEven
  <2>2. CASE Jump(i, "run")
    BY <1>1, <1>2, <2>2, GoesEven
  <2> QED
    BY <1>2, <2>1, <2>2
<1>5. initActive' \in [Inits -> BOOLEAN]
  BY DEF PortInit, At, Typed, Others
<1>6. Others'
  BY <1>5 DEF PortInit, unchangedByWork, powerVars, endVars, Typed, Others
<1> QED
  BY <1>2, <1>4, <1>6, SameTypes DEF Typed

(* A caller of a port action claims nothing yet: types, shapes and balance   *)
(* are kept.                                                                 *)
LEMMA DoPortActionKeeps ==
  ASSUME Typed, Shapes, Balance, NEW c \in Callers, DoPortAction(c)
  PROVE  Typed' /\ Shapes' /\ Balance'
<1>1. /\ c \in Threads
      /\ pc[c] \notin Leavings /\ Weight(pc[c]) = 0
      /\ "wait" \in Pcs /\ "wait" \notin Leavings /\ Weight("wait") = 0
  BY DEF DoPortAction, At, Threads, Weight, Leavings, Pcs
<1>2. UNCHANGED <<outstandingIO, reads, calls, count>> /\ Jump(c, "wait")
  BY DEF DoPortAction, readVars, Go
<1>3. Keeps
  BY <1>1, <1>2, GoesEven
<1>4. spent' \in [Events -> Nat]
  BY SpendTyped DEF DoPortAction, Events, Typed, Others
<1>5. Others'
  BY <1>4 DEF DoPortAction, readVars, powerVars, endVars, Typed, Others
<1> QED
  BY <1>2, <1>3, <1>5, SameTypes DEF Typed

(* A port action claims once it has the lock, and gives that claim back:     *)
(* types, shapes and balance are kept.                                       *)
LEMMA PortActionKeeps ==
  ASSUME Typed, Shapes, Balance, NEW c \in Callers, PortAction(c)
  PROVE  Typed' /\ Shapes' /\ Balance'
<1>1. /\ c \in Threads /\ "idle" \in Ends /\ Weight("idle") = 0
      /\ Weight("wait") = 0 /\ Weight("locked") = 0 /\ Weight("unlock") = 1
      /\ {"wait", "locked", "unlock"} \cap Leavings = {}
      /\ "locked" \in Pcs /\ "unlock" \in Pcs
  BY DEF Threads, Ends, Weight, Leavings, Pcs
<1>2. UNCHANGED <<reads, calls, count>>
  BY DEF PortAction, unchangedByWork, Go, Decrements
<1>3. Keeps
  <2>1. CASE At(c, "wait") /\ Go(c, "locked") /\ UNCHANGED outstandingIO
    <3>1. pc[c] = "wait" /\ Jump(c, "locked")
      BY <2>1 DEF At, Go
    <3>2. /\ pc[c] \in Leavings <=> "locked" \in Leavings
          /\ Weight("locked") = Weight(pc[c])
      BY <1>1, <3>1
    <3> QED
      BY <1>1, <1>2, <2>1, <3>1, <3>2, GoesEven
  <2>2. CASE At(c, "locked") /\ IncrementOutstandingIO(c) /\ Go(c, "unlock")
    <3>1. pc[c] = "locked" /\ Jump(c, "unlock") /\ outstandingIO' = outstandingIO + 1
      BY <2>2 DEF At, Go, IncrementOutstandingIO
    <3>2. /\ pc[c] \in Leavings <=> "unlock" \in Leavings
          /\ Weight("unlock") = Weight(pc[c]) + 1
      BY <1>1, <3>1
    <3> QED
      BY <1>1, <1>2, <3>1, <3>2, GoesUp
  <2>3. CASE At(c, "unlock") /\ Decrements(c, 1, "idle") /\ UNCHANGED outstandingIO
    <3>1. pc[c] = "unlock" /\ pc[c] \notin Leavings
      BY <1>1, <2>3 DEF At
    <3>2. Weight(pc[c]) = 1 + Weight("idle")
      BY <1>1, <3>1
    <3> QED
      BY <1>1, <1>2, <2>3, <3>1, <3>2, DecrementsEven
  <2> QED
    BY <2>1, <2>2, <2>3 DEF PortAction
<1>4. doPortActionLock' \in BOOLEAN
  BY DEF PortAction, Typed, Others
<1>5. Others'
  BY <1>4 DEF PortAction, unchangedByWork, powerVars, endVars, Typed, Others
<1> QED
  BY <1>2, <1>3, <1>5, SameTypes DEF Typed

-----------------------------------------------------------------------------
(* A power change.                                                           *)

(* The announcement of a change of power moves no claim: types, shapes and   *)
(* balance are kept.                                                         *)
LEMMA PowerStateWillChangeToKeeps ==
  ASSUME Typed, Shapes, Balance, NEW s \in {"low", "on"}, PowerStateWillChangeTo(s)
  PROVE  Typed' /\ Shapes' /\ Balance'
<1>1. /\ "power" \in Threads /\ pc["power"] \notin Leavings /\ Weight(pc["power"]) = 0
      /\ "quiesce" \in Pcs /\ "quiesce" \notin Leavings /\ Weight("quiesce") = 0
  BY DEF PowerStateWillChangeTo, At, Threads, Weight, Leavings, Pcs
<1>2. UNCHANGED <<outstandingIO, reads, calls, count>> /\ Jump("power", "quiesce")
  BY DEF PowerStateWillChangeTo, unchangedByPower, Go
<1>3. Keeps
  BY <1>1, <1>2, GoesEven
<1>4. spent' \in [Events -> Nat]
  BY SpendTyped DEF PowerStateWillChangeTo, Events, Typed, Others
<1>5. /\ abortExpected' \in BOOLEAN /\ needInterruptRead' \in BOOLEAN
      /\ aborting' \in BOOLEAN
  <2>1. CASE s = "low"
    <3>1. Abort => aborting' \in BOOLEAN
      BY DEF Abort
    <3> QED
      BY <2>1, <3>1 DEF PowerStateWillChangeTo
  <2>2. CASE s = "on"
    BY <2>2 DEF PowerStateWillChangeTo, Typed, Others
  <2> QED
    BY <2>1, <2>2
<1>6. Others'
  BY <1>4, <1>5 DEF PowerStateWillChangeTo, unchangedByPower, Typed, Others
<1> QED
  BY <1>2, <1>3, <1>6, SameTypes DEF Typed

(* The change of power claims when the hub is quiet: types, shapes and       *)
(* balance are kept.                                                         *)
LEMMA QuiescedKeeps ==
  ASSUME Typed, Shapes, Balance, Quiesced
  PROVE  Typed' /\ Shapes' /\ Balance'
<1>1. /\ "power" \in Threads /\ pc["power"] \notin Leavings /\ Weight(pc["power"]) = 0
      /\ "set" \in Pcs /\ "set" \notin Leavings /\ Weight("set") = 1
  BY DEF Quiesced, At, Threads, Weight, Leavings, Pcs
<1>2. /\ outstandingIO' = outstandingIO + 1 /\ UNCHANGED <<reads, calls, count>>
      /\ Jump("power", "set")
  BY DEF Quiesced, IncrementOutstandingIO, unchangedByPower, Go
<1>3. Weight("set") = Weight(pc["power"]) + 1
  BY <1>1
<1>4. Keeps
  BY <1>1, <1>2, <1>3, GoesUp
<1>5. Others'
  BY DEF Quiesced, unchangedByPower, powerVars, Typed, Others
<1> QED
  BY <1>2, <1>4, <1>5, SameTypes DEF Typed

(* The change of power keeps its claim while it is made: types, shapes and   *)
(* balance are kept.                                                         *)
LEMMA SetPowerStateKeeps ==
  ASSUME Typed, Shapes, Balance, SetPowerState
  PROVE  Typed' /\ Shapes' /\ Balance'
<1>1. /\ "power" \in Threads /\ pc["power"] \notin Leavings /\ Weight(pc["power"]) = 1
      /\ "did" \in Pcs /\ "did" \notin Leavings /\ Weight("did") = 1
  BY DEF SetPowerState, At, Threads, Weight, Leavings, Pcs
<1>2. UNCHANGED <<outstandingIO, reads, calls, count>> /\ Jump("power", "did")
  BY DEF SetPowerState, unchangedByPower, Go
<1>3. Keeps
  BY <1>1, <1>2, GoesEven
<1>4. needInterruptRead' \in BOOLEAN /\ abortExpected' \in BOOLEAN
  BY DEF SetPowerState, Typed, Others
<1>5. Others'
  BY <1>4 DEF SetPowerState, unchangedByPower, powerVars, Typed, Others
<1> QED
  BY <1>2, <1>3, <1>5, SameTypes DEF Typed

(* The end of a change of power gives its claim back: types, shapes and      *)
(* balance are kept.                                                         *)
LEMMA PowerStateDidChangeToKeeps ==
  ASSUME Typed, Shapes, Balance, Changing, PowerStateDidChangeTo
  PROVE  Typed' /\ Shapes' /\ Balance'
<1>1. /\ "power" \in Threads /\ "done" \in Ends /\ Weight("done") = 0
      /\ pc["power"] \notin Leavings /\ Weight(pc["power"]) = 1
  BY DEF PowerStateDidChangeTo, At, Threads, Ends, Weight, Leavings
<1>2. /\ UNCHANGED <<outstandingIO, reads, calls, count>>
      /\ Decrements("power", 1, "done")
  BY DEF PowerStateDidChangeTo, unchangedByPower, Decrements
<1>3. Weight(pc["power"]) = 1 + Weight("done")
  BY <1>1
<1>4. Keeps
  BY <1>1, <1>2, <1>3, DecrementsEven
<1>5. myPowerState' \in {"low", "on"}
  BY DEF PowerStateDidChangeTo, Changing, At, Typed, Others
<1>6. Others'
  BY <1>5 DEF PowerStateDidChangeTo, unchangedByPower, Typed, Others
<1> QED
  BY <1>2, <1>4, <1>6, SameTypes DEF Typed

(* The look at the hub after a change claims what it gives back, and the end *)
(* of a change that the hub was not told of gives the claim of the change    *)
(* back: types, shapes and balance are kept.                                 *)
LEMMA PowerChangeDoneKeeps ==
  ASSUME Typed, Shapes, Balance, Changing, PowerChangeDone
  PROVE  Typed' /\ Shapes' /\ Balance'
<1>1. /\ "power" \in Threads /\ "idle" \in Ends /\ Weight("idle") = 0
      /\ pc["power"] \notin Leavings
      /\ "idle" \in Pcs /\ "idle" \notin Leavings
  BY DEF PowerChangeDone, At, Threads, Ends, Weight, Leavings, Pcs
<1>2. UNCHANGED <<reads, calls, count>>
  BY DEF PowerChangeDone, Recheck, unchangedByPower, Decrements, Go
<1>3. Keeps
  <2>1. CASE /\ pc["power"] = "done"
             /\ outstandingIO' = outstandingIO + 1 /\ Decrements("power", 1, "idle")
    <3>1. Owes("power", 1 + Weight("idle"))
      BY <1>1, <2>1, DecrementsOnce
    <3>2. Weight(pc["power"]) = 0
      BY <2>1 DEF Weight
    <3>3. 1 + Weight("idle") = Debts["power"] + 1
      BY <1>1, <3>2, Before
    <3> QED
      BY <1>1, <1>2, <2>1, <3>1, <3>3, StepUp
  <2>2. CASE pc["power"] = "done" /\ Jump("power", "idle") /\ UNCHANGED outstandingIO
    <3>1. Weight(pc["power"]) = 0
      BY <2>2 DEF Weight
    <3> QED
      BY <1>1, <1>2, <2>2, <3>1, GoesEven
  <2>3. CASE /\ pc["power"] = "did"
             /\ Decrements("power", 1, "idle") /\ UNCHANGED outstandingIO
    <3>1. Weight(pc["power"]) = 1 + Weight("idle")
      BY <1>1, <2>3 DEF Weight
    <3> QED
      BY <1>1, <1>2, <2>3, <3>1, DecrementsEven
  <2> QED
    BY <2>1, <2>2, <2>3 DEF PowerChangeDone, Recheck, Go, At
<1>4. myPowerState' \in {"low", "on"} /\ changingTo' \in {"stable", "low", "on"}
  BY DEF PowerChangeDone, Changing, At, Typed, Others
<1>5. Others'
  BY <1>4 DEF PowerChangeDone, unchangedByPower, Typed, Others
<1> QED
  BY <1>2, <1>3, <1>5, SameTypes DEF Typed

-----------------------------------------------------------------------------
(* The termination.                                                          *)

(* The start of the termination moves no claim: types, shapes and balance    *)
(* are kept.                                                                 *)
LEMMA TerminateKeeps ==
  ASSUME Typed, Shapes, Balance, Terminate
  PROVE  Typed' /\ Shapes' /\ Balance'
<1>1. /\ "end" \in Threads /\ pc["end"] \notin Leavings /\ Weight(pc["end"]) = 0
      /\ "abort" \in Pcs /\ "abort" \notin Leavings /\ Weight("abort") = 0
  BY DEF Terminate, At, Threads, Weight, Leavings, Pcs
<1>2. UNCHANGED <<outstandingIO, reads, calls, count>> /\ Jump("end", "abort")
  BY DEF Terminate, unchangedByEnd, Go
<1>3. Keeps
  BY <1>1, <1>2, GoesEven
<1>4. spent' \in [Events -> Nat]
  BY SpendTyped DEF Terminate, Events, Typed, Others
<1>5. Others'
  BY <1>4 DEF Terminate, unchangedByEnd, powerVars, Typed, Others
<1> QED
  BY <1>2, <1>3, <1>5, SameTypes DEF Typed

(* willTerminate aborts the reads; their completions give the claims back:   *)
(* types, shapes and balance are kept.                                       *)
LEMMA WillTerminateKeeps ==
  ASSUME Typed, Shapes, Balance, WillTerminate
  PROVE  Typed' /\ Shapes' /\ Balance'
<1>1. /\ "end" \in Threads /\ pc["end"] \notin Leavings /\ Weight(pc["end"]) = 0
      /\ "test" \in Pcs /\ "test" \notin Leavings /\ Weight("test") = 0
  BY DEF WillTerminate, At, Threads, Weight, Leavings, Pcs
<1>2. UNCHANGED <<outstandingIO, reads, calls, count>> /\ Jump("end", "test")
  BY DEF WillTerminate, unchangedByEnd, Go
<1>3. Keeps
  BY <1>1, <1>2, GoesEven
<1>4. aborting' \in BOOLEAN
  BY DEF WillTerminate, Abort
<1>5. Others'
  BY <1>4 DEF WillTerminate, unchangedByEnd, powerVars, Typed, Others
<1> QED
  BY <1>2, <1>3, <1>5, SameTypes DEF Typed

(* didTerminate waits, notes or closes, and moves no claim: types, shapes    *)
(* and balance are kept.                                                     *)
LEMMA DidTerminateKeeps ==
  ASSUME Typed, Shapes, Balance, DidTerminate
  PROVE  Typed' /\ Shapes' /\ Balance'
<1>1. /\ "end" \in Threads /\ pc["end"] \notin Leavings /\ Weight(pc["end"]) = 0
      /\ "closeNow" \in Pcs /\ "closeNow" \notin Leavings /\ Weight("closeNow") = 0
      /\ "note" \in Pcs /\ "note" \notin Leavings /\ Weight("note") = 0
      /\ "gone" \in Pcs /\ "gone" \notin Leavings /\ Weight("gone") = 0
  BY DEF DidTerminate, At, Threads, Weight, Leavings, Pcs
<1>2. /\ UNCHANGED <<outstandingIO, reads, calls, count>>
      /\ Jump("end", "closeNow") \/ Jump("end", "note") \/ Jump("end", "gone")
  BY DEF DidTerminate, unchangedByEnd, Go
<1>3. Keeps
  BY <1>1, <1>2, GoesEven
<1>4. /\ needToClose' \in BOOLEAN /\ late' \in BOOLEAN
      /\ needInterruptRead' \in BOOLEAN /\ abortExpected' \in BOOLEAN
      /\ ports' \in BOOLEAN /\ aborting' \in BOOLEAN /\ closes' \in Nat
  <2>1. CASE UNCHANGED <<needToClose, late, needInterruptRead, abortExpected,
                         aborting, ports, closes>>
    BY <2>1 DEF Typed, Others
  <2>2. CASE /\ needToClose' = TRUE /\ late' = Closable
             /\ UNCHANGED <<needInterruptRead, abortExpected, aborting, ports, closes>>
    BY <2>2 DEF Closable, Typed, Others
  <2>3. CASE CloseDevice /\ UNCHANGED <<needToClose, late>>
    <3>1. Abort => aborting' \in BOOLEAN
      BY DEF Abort
    <3>2. closes' \in Nat
      BY <2>3 DEF CloseDevice, Typed, Others
    <3> QED
      BY <2>3, <3>1, <3>2 DEF CloseDevice, Typed, Others
  <2> QED
    BY <2>1, <2>2, <2>3 DEF DidTerminate
<1>5. Others'
  BY <1>4 DEF DidTerminate, unchangedByEnd, powerVars, Typed, Others
<1> QED
  BY <1>2, <1>3, <1>5, SameTypes DEF Typed

-----------------------------------------------------------------------------
(* The invariant.                                                            *)

(* Only the power change moves its own thread into the middle of itself.     *)
LEMMA ChangingKept ==
  ASSUME Typed, Shapes, Changing, [Next]_vars
  PROVE  Changing'
<1> DEFINE Middle == {"quiesce", "set", "did"}
<1>1. "power" \in Threads /\ pc \in [Threads -> Pcs] /\ stack \in [Threads -> Seq(Pcs)]
  BY DEF Threads, Typed, Places
<1>2. ASSUME UNCHANGED changingTo,
             pc'["power"] = pc["power"] \/ pc'["power"] \notin Middle
      PROVE  Changing'
  BY <1>2 DEF Changing
<1>3. ASSUME NEW t \in Threads, NEW l, pc' = [pc EXCEPT ![t] = l],
             t # "power" \/ l \notin Middle
      PROVE  pc'["power"] = pc["power"] \/ pc'["power"] \notin Middle
  BY <1>1, <1>3
<1>4. ASSUME NEW t \in Threads, Leaving(t)
      PROVE  Changing'
  <2>1. \E l : pc' = [pc EXCEPT ![t] = l] /\ l \notin Middle
    <3>1. CASE Pop(t) /\ pc[t] \in Leavings
      <4>1. Head(stack[t]) \in Ends \cup {"lost", "decrement"}
        BY <3>1, Before, AfterAReturn
      <4>2. Head(stack[t]) \notin Middle
        BY <4>1 DEF Ends
      <4> QED
        BY <3>1, <4>2 DEF Pop
    <3>2. CASE \E l \in Leavings : pc' = [pc EXCEPT ![t] = l]
      BY <3>2 DEF Leavings
    <3>3. (Pop(t) /\ pc[t] \in Leavings) \/ \E l \in Leavings : pc' = [pc EXCEPT ![t] = l]
      BY <1>4 DEF Leaving, DecrementOutstandingIO, LastOneOut, CloseHub, ClearNeed,
                  RearmInterruptRead, RearmFailed, CheckPower, ClaimRead, StartRead,
                  At, Go, Jump, Return, Decrements, Leavings
    <3> QED
      BY <3>1, <3>2, <3>3
  <2>2. UNCHANGED changingTo
    BY <1>4 DEF Leaving, DecrementOutstandingIO, LastOneOut, CloseHub, ClearNeed,
                RearmInterruptRead, RearmFailed, CheckPower, ClaimRead, StartRead,
                powerVars
  <2> QED
    BY <1>2, <1>3, <2>1, <2>2
<1>5. ASSUME NEW t \in Threads, Called(t)
      PROVE  Changing'
  <2>1. \E l : pc' = [pc EXCEPT ![t] = l] /\ l \notin Middle
    <3>1. \E l \in {"start", "run"} : pc' = [pc EXCEPT ![t] = l]
      BY <1>5 DEF Called, Go, Jump
    <3> QED
      BY <3>1
  <2>2. UNCHANGED changingTo
    BY <1>5 DEF Called, unchangedByWork, powerVars
  <2> QED
    BY <1>2, <1>3, <2>1, <2>2
<1>6. CASE InterruptReadHandler
  <2>1. "loop" \in Threads /\ \E l : pc' = [pc EXCEPT !["loop"] = l]
    BY <1>6 DEF InterruptReadHandler, HandleReport, Decrements, Threads
  <2>2. UNCHANGED changingTo
    BY <1>6 DEF InterruptReadHandler, powerVars
  <2> QED
    BY <1>2, <1>3, <2>1, <2>2
<1>7. CASE ProcessStatusChanged \/ MasterClaim \/ PortsDone
               \/ \E p \in Ports : StatusChanged(p)
  <2>1. \/ UNCHANGED pc
        \/ "work" \in Threads /\ \E l : pc' = [pc EXCEPT !["work"] = l]
    BY <1>7 DEF ProcessStatusChanged, MasterClaim, PortsDone, StatusChanged, Go, Jump,
                Decrements, Threads
  <2>2. UNCHANGED changingTo
    BY <1>7 DEF ProcessStatusChanged, MasterClaim, PortsDone, StatusChanged,
                unchangedByWork, powerVars
  <2> QED
    BY <1>2, <1>3, <2>1, <2>2
<1>8. CASE \/ \E p \in Ports : PortDone(p)
           \/ \E i \in Inits : PortInit(i)
           \/ \E c \in Callers : DoPortAction(c) \/ PortAction(c)
  <2>1. \E t \in Threads : t # "power" /\ \E l : pc' = [pc EXCEPT ![t] = l]
    <3>1. \A t \in Ports \cup Inits \cup Callers : t \in Threads /\ t # "power"
      BY ThreadsAssumption DEF Threads
    <3>2. \E t \in Ports \cup Inits \cup Callers : \E l : pc' = [pc EXCEPT ![t] = l]
      BY <1>8 DEF PortDone, PortInit, DoPortAction, PortAction, Go, Jump, Decrements
    <3> QED
      BY <3>1, <3>2
  <2>2. UNCHANGED changingTo
    BY <1>8 DEF PortDone, PortInit, DoPortAction, PortAction, unchangedByWork, powerVars
  <2> QED
    BY <1>2, <1>3, <2>1, <2>2
<1>9. CASE PowerChange
  <2>1. ASSUME NEW s \in {"low", "on"}, PowerStateWillChangeTo(s)
        PROVE  Changing'
    BY <2>1 DEF PowerStateWillChangeTo, Changing
  <2>2. CASE Quiesced
    BY <2>2, <1>1 DEF Quiesced, powerVars, At, Go, Jump, Changing
  <2>3. CASE SetPowerState
    BY <2>3, <1>1 DEF SetPowerState, powerVars, At, Go, Jump, Changing
  <2>4. CASE PowerStateDidChangeTo \/ PowerChangeDone
    <3>1. pc'["power"] \in {"decrement", "idle"}
      BY <2>4, <1>1 DEF PowerStateDidChangeTo, PowerChangeDone, Recheck, Decrements,
                        Go, Jump
    <3> QED
      BY <3>1 DEF Changing
  <2> QED
    BY <1>9, <2>1, <2>2, <2>3, <2>4 DEF PowerChange
<1>10. CASE Terminate \/ WillTerminate \/ DidTerminate
  <2>1. "end" \in Threads /\ \E l : pc' = [pc EXCEPT !["end"] = l]
    BY <1>10 DEF Terminate, WillTerminate, DidTerminate, Go, Jump, Threads
  <2>2. UNCHANGED changingTo
    BY <1>10 DEF Terminate, WillTerminate, DidTerminate, unchangedByEnd, powerVars
  <2> QED
    BY <1>2, <1>3, <2>1, <2>2
<1>11. CASE UNCHANGED vars
  BY <1>11 DEF vars, powerVars, Changing
<1> QED
  BY <1>4, <1>5, <1>6, <1>7, <1>8, <1>9, <1>10, <1>11 DEF Next

(* The invariant holds at first: the PortInit threads are counted.           *)
LEMMA InitInvariant == Init => IInv
<1> SUFFICES ASSUME Init
             PROVE  IInv
  OBVIOUS
<1>1. Others
  BY LimitAssumption DEF Init, Others
<1>2. Places
  BY DEF Init, Places, Pcs
<1>3. IsFiniteSet(Inits) /\ Cardinality(Inits) \in Nat
  BY ThreadsAssumption, FS_CardinalityType
<1>4. Typed
  BY <1>1, <1>2, <1>3 DEF Init, Typed
<1>5. Shapes
  BY DEF Init, Shapes, Fits, Leavings
<1>6. Changing
  BY ThreadsAssumption DEF Init, Changing, Threads
<1>7. Balance
  <2>1. Debts \in [Threads -> 0 .. 4]
    BY <1>4, <1>5, Before DEF Threads
  <2>2. \A t \in Threads : Debts[t] = IF t \in Inits THEN 1 ELSE 0
    <3> TAKE t \in Threads
    <3>1. pc[t] = IF t \in Inits THEN "queued" ELSE "idle"
      BY DEF Init
    <3>2. Debts[t] = Weight(pc[t])
      BY <1>4, <1>5, <3>1, Before DEF Leavings
    <3> QED
      BY <3>1, <3>2 DEF Weight
  <2>3. Cardinality(Claims(Debts, {})) = Cardinality(Inits)
    BY <2>1, <2>2, FirstClaims
  <2>4. calls = {} /\ outstandingIO = Cardinality(Inits) /\ reads = 0
    BY DEF Init
  <2> QED
    BY <1>3, <2>3, <2>4 DEF Balance
<1> QED
  BY <1>4, <1>5, <1>6, <1>7, TypedParts DEF IInv

(* Every step keeps it.                                                      *)
LEMMA NextInvariant == IInv /\ [Next]_vars => IInv'
<1> SUFFICES ASSUME Typed, Shapes, Balance, Changing, [Next]_vars
             PROVE  Typed' /\ Shapes' /\ Balance'
  BY TypedParts, TypedPartsNext, ChangingKept DEF IInv
<1>1. ASSUME NEW t \in Threads, Leaving(t) \/ Called(t)
      PROVE  Typed' /\ Shapes' /\ Balance'
  BY <1>1, LeavingKeeps, CalledKeeps
<1>2. CASE InterruptReadHandler
  BY <1>2, InterruptReadHandlerKeeps
<1>3. CASE ProcessStatusChanged \/ MasterClaim \/ PortsDone
  BY <1>3, ProcessStatusChangedKeeps, MasterClaimKeeps, PortsDoneKeeps
<1>4. ASSUME NEW p \in Ports, StatusChanged(p) \/ PortDone(p)
      PROVE  Typed' /\ Shapes' /\ Balance'
  BY <1>4, StatusChangedKeeps, PortDoneKeeps
<1>5. ASSUME NEW i \in Inits, PortInit(i)
      PROVE  Typed' /\ Shapes' /\ Balance'
  BY <1>5, PortInitKeeps
<1>6. ASSUME NEW c \in Callers, DoPortAction(c) \/ PortAction(c)
      PROVE  Typed' /\ Shapes' /\ Balance'
  BY <1>6, DoPortActionKeeps, PortActionKeeps
<1>7. CASE PowerChange
  BY <1>7, PowerStateWillChangeToKeeps, QuiescedKeeps, SetPowerStateKeeps,
     PowerStateDidChangeToKeeps, PowerChangeDoneKeeps DEF PowerChange
<1>8. CASE Terminate \/ WillTerminate \/ DidTerminate
  BY <1>8, TerminateKeeps, WillTerminateKeeps, DidTerminateKeeps
<1>9. CASE UNCHANGED vars
  <2>1. UNCHANGED <<outstandingIO, reads, calls, pc, stack, count>>
    BY <1>9 DEF vars, readVars
  <2>2. Others'
    BY <1>9 DEF vars, readVars, powerVars, endVars, Typed, Others
  <2>3. Debts' = Debts
    BY <2>1 DEF Debts
  <2> QED
    BY <2>1, <2>2, <2>3 DEF Typed, Places, Shapes, Balance
<1> QED
  BY <1>1, <1>2, <1>3, <1>4, <1>5, <1>6, <1>7, <1>8, <1>9 DEF Next

(* Hence the invariant holds in every state of every behaviour.              *)
LEMMA Invariance == Spec => []IInv
BY InitInvariant, NextInvariant, PTL DEF Spec

(* When nobody is on the way nobody owes anything: the reads are counted.    *)
LEMMA QuietIsBalanced ==
  ASSUME IInv, Quiet
  PROVE  outstandingIO = reads
<1>1. Typed /\ Shapes /\ Balance
  BY TypedParts DEF IInv
<1>2. \A t \in Threads : Debts[t] = 0
  <2> TAKE t \in Threads
  <2>1. pc[t] \in {"idle", "gone"}
    BY DEF Quiet
  <2>2. Debts[t] = Weight(pc[t])
    BY <1>1, <2>1, Before DEF Leavings
  <2> QED
    BY <2>1, <2>2 DEF Weight
<1>3. Debts \in [Threads -> 0 .. 4]
  BY <1>1, Before DEF Threads
<1>4. Cardinality(Claims(Debts, {})) = 0
  BY <1>2, <1>3, NoClaims
<1>5. outstandingIO = 0 + reads
  BY <1>1, <1>4 DEF Balance, Quiet
<1> QED
  BY <1>1, <1>5 DEF Typed

-----------------------------------------------------------------------------
(* The theorems.                                                             *)

(* The variables keep their types.  In particular _outstandingIO is never    *)
(* negative: no thread gives back a claim that was not taken.                *)
THEOREM TypeCorrect == Spec => []TypeOK
<1>1. IInv => TypeOK
  BY DEF IInv
<1> QED
  BY <1>1, Invariance, PTL

(* Every claim is given back: when nothing is under way _outstandingIO is    *)
(* the number of the reads that the controller has.                          *)
THEOREM ClaimsGivenBack == Spec => []Balanced
<1>1. IInv => Balanced
  BY QuietIsBalanced DEF Balanced
<1> QED
  BY <1>1, Invariance, PTL

-----------------------------------------------------------------------------
(* The proof that the last thread out of the hub driver leaves nothing       *)
(* behind: a hub that is on listens, and a terminated one is closed.         *)

(* The termination goes its way, and only a terminated hub is closed.        *)
Terminating ==
    /\ pc["end"] \in {"idle", "abort", "test", "note", "closeNow", "gone"}
    /\ inactive <=> pc["end"] # "idle"
    /\ ~inactive => ports /\ ~needToClose /\ \A t \in Threads : pc[t] # "close"

(* Somebody has the lock, a PortInit thread that is active runs.             *)
Locked == doPortActionLock => \E c \in Callers : pc[c] \in {"locked", "unlock"}

Initialising == \A i \in Inits : initActive[i] => pc[i] = "run"

(* The power thread has nothing to do, or will have when it returns.         *)
PowerOver == \/ pc["power"] \in {"idle", "gone"}
             \/ /\ pc["power"] \in Leavings
                /\ stack["power"][Len(stack["power"])] \in {"idle", "gone"}

PowerStable == PowerOver => changingTo = "stable"

(* The power goes down; only then is a read of a hub that is there aborted.  *)
Sinking == pc["power"] \in {"quiesce", "set", "did"} /\ changingTo = "low"

Abortion == aborting /\ ~inactive => pc["power"] = "quiesce" /\ changingTo = "low"

Background == /\ TypeOK /\ Shapes /\ Balance /\ Changing
              /\ Terminating /\ Locked /\ Initialising /\ PowerStable /\ Abortion

(* A thread has still to find the count at zero, or has just found it.       *)
LastOneToCome ==
    outstandingIO > 0 \/ \E t \in Threads : pc[t] = "tail" /\ count[t] = 0

(* A read is on its way to the controller.                                   *)
ReadToCome == \E t \in Threads : pc[t] \in {"armed", "claim", "read"}

Pending == interruptReadPending /\ ~inactive /\ ~disturbed => reads > 0 \/ ReadToCome

(* The hub is on, or will be after the next step of its power change.        *)
Powered == myPowerState = "on" \/ (pc["power"] = "did" /\ changingTo = "on")

(* Why a hub will listen: the read is there or on its way, the power goes    *)
(* down, the worker will ask for a read, or the last one out will start it.  *)
Reader == \/ reads > 0 \/ ReadToCome
          \/ \E t \in Threads : pc[t] \in {"clearNeed", "rearm"}
          \/ Sinking
          \/ "work" \in calls \/ pc["work"] = "start"
          \/ needInterruptRead /\ LastOneToCome

Listens == ~inactive /\ ~disturbed /\ Powered => Reader

(* Why a terminated hub will be closed.                                      *)
Closer == \/ LastOneToCome
          \/ doPortActionLock \/ changingTo # "stable" \/ myPowerState # "on"
          \/ \E t \in Threads : pc[t] = "close"

Closes == pc["end"] = "gone" /\ ~late /\ closes = 0 => needToClose /\ Closer

QuietInv == Background /\ Pending /\ Closes

-----------------------------------------------------------------------------
(* Who moves.                                                                *)

Same(t) == pc'[t] = pc[t] /\ stack'[t] = stack[t] /\ count'[t] = count[t]

(* The names of the threads.                                                 *)
LEMMA Names ==
  /\ {"loop", "work", "power", "end"} \subseteq Threads
  /\ Ports \subseteq Threads /\ Inits \subseteq Threads /\ Callers \subseteq Threads
  /\ \A t \in Ports \cup Inits \cup Callers :
        t # "loop" /\ t # "work" /\ t # "power" /\ t # "end"
  /\ \A t \in Ports : t \notin Inits /\ t \notin Callers
  /\ \A t \in Inits : t \notin Ports /\ t \notin Callers
BY ThreadsAssumption DEF Threads

(* A step moves one thread, by an action of its own.                         *)
LEMMA Mover ==
  ASSUME Typed, [Next]_vars, NEW t \in Threads
  PROVE  \/ Same(t) \/ Leaving(t) \/ Called(t)
         \/ t = "loop" /\ InterruptReadHandler
         \/ t = "work" /\ (ProcessStatusChanged \/ MasterClaim \/ PortsDone
                             \/ \E p \in Ports : StatusChanged(p))
         \/ t \in Ports /\ PortDone(t)
         \/ t \in Inits /\ PortInit(t)
         \/ t \in Callers /\ (DoPortAction(t) \/ PortAction(t))
         \/ t = "power" /\ PowerChange
         \/ t = "end" /\ (Terminate \/ WillTerminate \/ DidTerminate)
<1> DEFINE Only(u) == \A v \in Threads \ {u} : Same(v)
<1>0. /\ pc \in [Threads -> Pcs] /\ stack \in [Threads -> Seq(Pcs)]
      /\ count \in [Threads -> Nat]
  BY DEF Typed, Places
<1>1. ASSUME NEW u \in Threads, NEW l, NEW n, Decrements(u, n, l) \/ Go(u, l)
      PROVE  Only(u)
  BY <1>0, <1>1 DEF Decrements, Go, Jump, Same
<1>2. ASSUME NEW u \in Threads, Leaving(u)
      PROVE  Only(u)
  <2>1. CASE DecrementOutstandingIO(u)
    BY <1>0, <2>1 DEF DecrementOutstandingIO, Same
  <2>2. CASE LastOneOut(u)
    BY <1>0, <2>2 DEF LastOneOut, Jump, Pop, Same
  <2>3. CASE CloseHub(u) \/ RearmFailed(u)
    BY <1>0, <2>3 DEF CloseHub, RearmFailed, Return, Pop, Same
  <2>4. CASE ClearNeed(u) \/ RearmInterruptRead(u) \/ ClaimRead(u)
    <3>1. \E l : Go(u, l)
      BY <2>4 DEF ClearNeed, RearmInterruptRead, ClaimRead
    <3> QED
      BY <1>1, <3>1
  <2>5. CASE CheckPower(u)
    BY <1>0, <2>5 DEF CheckPower, Go, Jump, Return, Pop, Same
  <2>6. CASE StartRead(u)
    <3>1. Return(u) \/ Decrements(u, 1, "lost")
      BY <2>6 DEF StartRead
    <3>2. Return(u) => Only(u)
      BY <1>0 DEF Return, Pop, Same
    <3> QED
      BY <1>1, <3>1, <3>2
  <2> QED
    BY <1>2, <2>1, <2>2, <2>3, <2>4, <2>5, <2>6 DEF Leaving
<1>3. ASSUME NEW u \in Threads, Called(u)
      PROVE  Only(u)
  BY <1>1, <1>3 DEF Called
<1>4. CASE InterruptReadHandler
  <2>1. \E n : Decrements("loop", n, "idle")
    BY <1>4 DEF InterruptReadHandler, HandleReport
  <2> QED
    BY <1>1, <1>4, <2>1, Names
<1>5. CASE ProcessStatusChanged \/ MasterClaim \/ PortsDone
             \/ \E p \in Ports : StatusChanged(p)
  <2>1. \/ \E n, l : Decrements("work", n, l) \/ Go("work", l)
        \/ UNCHANGED <<pc, stack, count>>
    BY <1>5 DEF ProcessStatusChanged, MasterClaim, PortsDone, StatusChanged
  <2>2. Only("work")
    BY <1>1, <2>1, Names DEF Same
  <2> QED
    BY <1>5, <2>2
<1>6. ASSUME NEW p \in Ports, PortDone(p)
      PROVE  Only(p)
  BY <1>1, <1>6, Names DEF PortDone
<1>7. ASSUME NEW i \in Inits, PortInit(i)
      PROVE  Only(i)
  BY <1>1, <1>7, Names DEF PortInit
<1>8. ASSUME NEW c \in Callers, DoPortAction(c) \/ PortAction(c)
      PROVE  Only(c)
  BY <1>1, <1>8, Names DEF DoPortAction, PortAction
<1>9. CASE PowerChange
  <2>1. \E n, l : Decrements("power", n, l) \/ Go("power", l)
    BY <1>9 DEF PowerChange, PowerStateWillChangeTo, Quiesced, SetPowerState,
                PowerStateDidChangeTo, PowerChangeDone, Recheck
  <2> QED
    BY <1>1, <1>9, <2>1, Names
<1>10. CASE Terminate \/ WillTerminate \/ DidTerminate
  <2>1. \E l : Go("end", l)
    BY <1>10 DEF Terminate, WillTerminate, DidTerminate
  <2> QED
    BY <1>1, <1>10, <2>1, Names
<1>11. CASE UNCHANGED vars
  BY <1>11 DEF vars, Same
<1> HIDE DEF Only
<1>12. ASSUME NEW u \in Threads, Only(u)
       PROVE  t = u \/ Same(t)
  BY <1>12 DEF Only
<1> QED
  <2>1. ASSUME NEW u \in Threads, Leaving(u) \/ Called(u)
        PROVE  Same(t) \/ Leaving(t) \/ Called(t)
    BY <1>2, <1>3, <1>12, <2>1
  <2>2. ASSUME NEW p \in Ports, PortDone(p)
        PROVE  Same(t) \/ (t \in Ports /\ PortDone(t))
    BY <1>6, <1>12, <2>2, Names
  <2>3. ASSUME NEW i \in Inits, PortInit(i)
        PROVE  Same(t) \/ (t \in Inits /\ PortInit(t))
    BY <1>7, <1>12, <2>3, Names
  <2>4. ASSUME NEW c \in Callers, DoPortAction(c) \/ PortAction(c)
        PROVE  Same(t) \/ (t \in Callers /\ (DoPortAction(t) \/ PortAction(t)))
    BY <1>8, <1>12, <2>4, Names
  <2>5. CASE \E u \in Threads : Leaving(u) \/ Called(u)
    BY <2>1, <2>5
  <2>6. CASE \/ \E p \in Ports : PortDone(p)
             \/ \E i \in Inits : PortInit(i)
             \/ \E c \in Callers : DoPortAction(c) \/ PortAction(c)
    BY <2>2, <2>3, <2>4, <2>6
  <2> QED
    BY <1>4, <1>5, <1>9, <1>10, <1>11, <2>5, <2>6 DEF Next

(* A thread on its way out makes the steps of Leaving only.                  *)
LEMMA LeavingStays ==
  ASSUME Typed, [Next]_vars, NEW t \in Threads, pc[t] \in Leavings
  PROVE  Same(t) \/ Leaving(t)
BY Mover DEF Leavings, Called, InterruptReadHandler, ProcessStatusChanged, MasterClaim,
             PortsDone, StatusChanged, PortDone, PortInit, DoPortAction, PortAction,
             PowerChange, PowerStateWillChangeTo, Quiesced, SetPowerState,
             PowerStateDidChangeTo, PowerChangeDone, Terminate, WillTerminate,
             DidTerminate, At

-----------------------------------------------------------------------------
(* Who writes which variable.                                                *)

EndWriters ==
    /\ UNCHANGED inactive \/ Terminate
    /\ UNCHANGED late \/ DidTerminate
    /\ UNCHANGED <<ports, closes, needToClose>> \/ DidTerminate
         \/ \E t \in Threads : CloseHub(t)

PowerWriters ==
    /\ UNCHANGED changingTo \/ PowerChangeDone
         \/ \E s \in {"low", "on"} : PowerStateWillChangeTo(s)
    /\ UNCHANGED myPowerState \/ PowerStateDidChangeTo \/ PowerChangeDone

ReadWriters ==
    /\ UNCHANGED reads \/ InterruptReadHandler \/ \E t \in Threads : StartRead(t)
    /\ UNCHANGED interruptReadPending \/ InterruptReadHandler
         \/ \E t \in Threads : RearmInterruptRead(t) \/ RearmFailed(t)
    /\ UNCHANGED aborting \/ InterruptReadHandler \/ WillTerminate \/ DidTerminate
         \/ (\E s \in {"low", "on"} : PowerStateWillChangeTo(s))
         \/ \E t \in Threads : CloseHub(t)
    /\ UNCHANGED needInterruptRead \/ InterruptReadHandler \/ ProcessStatusChanged
         \/ SetPowerState \/ DidTerminate
         \/ (\E s \in {"low", "on"} : PowerStateWillChangeTo(s))
         \/ \E t \in Threads : CloseHub(t) \/ ClearNeed(t) \/ CheckPower(t)
    /\ UNCHANGED disturbed \/ disturbed' = TRUE

WorkWriters ==
    /\ UNCHANGED doPortActionLock \/ \E c \in Callers : PortAction(c)
    /\ UNCHANGED initActive \/ \E i \in Inits : PortInit(i)
    /\ \/ calls \subseteq calls'
       \/ \E t \in Threads : Called(t)
    /\ \/ UNCHANGED outstandingIO \/ outstandingIO' = outstandingIO + 1
       \/ \E t \in Threads : DecrementOutstandingIO(t)

Writers == EndWriters /\ PowerWriters /\ ReadWriters /\ WorkWriters

(* Which actions write which of the variables that the invariant speaks of:  *)
(* every other action leaves them alone.                                     *)
LEMMA WhoWrites ==
  ASSUME [Next]_vars
  PROVE  Writers
<1> USE DEF Writers, EndWriters, PowerWriters, ReadWriters, WorkWriters
<1>1. ASSUME NEW t \in Threads, Leaving(t)
      PROVE  Writers
  <2>1. CASE DecrementOutstandingIO(t)
    BY <2>1 DEF DecrementOutstandingIO, readVars, powerVars, endVars
  <2>2. CASE LastOneOut(t)
    BY <2>2 DEF LastOneOut, readVars, powerVars, endVars
  <2>3. CASE CloseHub(t)
    <3>1. UNCHANGED <<inactive, late, changingTo, myPowerState, reads,
                      interruptReadPending, disturbed, doPortActionLock, initActive,
                      calls, outstandingIO>>
      BY <2>3 DEF CloseHub, powerVars
    <3> QED
      BY <2>3, <3>1
  <2>4. CASE ClearNeed(t)
    <3>1. UNCHANGED <<inactive, late, ports, closes, needToClose, changingTo,
                      myPowerState, reads, interruptReadPending, aborting, disturbed,
                      doPortActionLock, initActive, calls, outstandingIO>>
      BY <2>4 DEF ClearNeed, powerVars, endVars
    <3> QED
      BY <2>4, <3>1
  <2>5. CASE RearmInterruptRead(t) \/ RearmFailed(t)
    <3>1. UNCHANGED <<inactive, late, ports, closes, needToClose, changingTo,
                      myPowerState, reads, aborting, needInterruptRead, disturbed,
                      doPortActionLock, initActive, calls, outstandingIO>>
      BY <2>5 DEF RearmInterruptRead, RearmFailed, powerVars, endVars
    <3> QED
      BY <2>5, <3>1
  <2>6. CASE CheckPower(t)
    <3>1. UNCHANGED <<inactive, late, ports, closes, needToClose, changingTo,
                      myPowerState, reads, interruptReadPending, aborting,
                      doPortActionLock, initActive, calls, outstandingIO>>
      BY <2>6 DEF CheckPower, powerVars, endVars
    <3>2. UNCHANGED disturbed \/ disturbed' = TRUE
      BY <2>6 DEF CheckPower
    <3> QED
      BY <2>6, <3>1, <3>2
  <2>7. CASE ClaimRead(t)
    BY <2>7 DEF ClaimRead, IncrementOutstandingIO, readVars, powerVars, endVars
  <2>8. CASE StartRead(t)
    <3>1. UNCHANGED <<inactive, late, ports, closes, needToClose, changingTo,
                      myPowerState, interruptReadPending, aborting, needInterruptRead,
                      doPortActionLock, initActive, calls, outstandingIO>>
      BY <2>8 DEF StartRead, powerVars, endVars
    <3>2. UNCHANGED disturbed \/ disturbed' = TRUE
      BY <2>8 DEF StartRead
    <3> QED
      BY <2>8, <3>1, <3>2
  <2> QED
    BY <1>1, <2>1, <2>2, <2>3, <2>4, <2>5, <2>6, <2>7, <2>8 DEF Leaving
<1>2. ASSUME NEW t \in Threads, Called(t)
      PROVE  Writers
  BY <1>2 DEF Called, unchangedByWork, powerVars, endVars
<1>3. CASE InterruptReadHandler
  <2>1. UNCHANGED <<inactive, late, ports, closes, needToClose, changingTo,
                    myPowerState, disturbed, doPortActionLock, initActive>>
    BY <1>3 DEF InterruptReadHandler, powerVars, endVars
  <2>2. calls \subseteq calls'
    BY <1>3 DEF InterruptReadHandler, HandleReport
  <2>3. UNCHANGED outstandingIO \/ outstandingIO' = outstandingIO + 1
    BY <1>3 DEF InterruptReadHandler, HandleReport
  <2> QED
    BY <1>3, <2>1, <2>2, <2>3
<1>4. CASE ProcessStatusChanged
  <2>1. UNCHANGED <<inactive, late, ports, closes, needToClose, changingTo,
                    myPowerState, reads, interruptReadPending, aborting, disturbed,
                    doPortActionLock, initActive, calls, outstandingIO>>
    BY <1>4 DEF ProcessStatusChanged, unchangedByWork, powerVars, endVars
  <2> QED
    BY <1>4, <2>1
<1>5. CASE MasterClaim \/ PortsDone
  BY <1>5 DEF MasterClaim, PortsDone, IncrementOutstandingIO, unchangedByWork, powerVars,
              endVars
<1>6. ASSUME NEW p \in Ports, StatusChanged(p) \/ PortDone(p)
      PROVE  Writers
  <2>1. UNCHANGED <<inactive, late, ports, closes, needToClose, changingTo,
                    myPowerState, reads, interruptReadPending, aborting,
                    needInterruptRead, disturbed, doPortActionLock, initActive>>
    BY <1>6 DEF StatusChanged, PortDone, unchangedByWork, powerVars, endVars
  <2>2. /\ calls \subseteq calls'
        /\ UNCHANGED outstandingIO \/ outstandingIO' = outstandingIO + 1
    BY <1>6 DEF StatusChanged, PortDone, IncrementOutstandingIO
  <2> QED
    BY <2>1, <2>2
<1>7. ASSUME NEW i \in Inits, PortInit(i)
      PROVE  Writers
  BY <1>7 DEF PortInit, unchangedByWork, powerVars, endVars
<1>8. ASSUME NEW c \in Callers, DoPortAction(c)
      PROVE  Writers
  BY <1>8 DEF DoPortAction, readVars, powerVars, endVars
<1>9. ASSUME NEW c \in Callers, PortAction(c)
      PROVE  Writers
  <2>1. UNCHANGED <<inactive, late, ports, closes, needToClose, changingTo,
                    myPowerState, reads, interruptReadPending, aborting,
                    needInterruptRead, disturbed, initActive, calls>>
    BY <1>9 DEF PortAction, unchangedByWork, powerVars, endVars
  <2>2. UNCHANGED outstandingIO \/ outstandingIO' = outstandingIO + 1
    BY <1>9 DEF PortAction, IncrementOutstandingIO
  <2> QED
    BY <1>9, <2>1, <2>2
<1>10. ASSUME NEW s \in {"low", "on"}, PowerStateWillChangeTo(s)
       PROVE  Writers
  <2>1. UNCHANGED <<inactive, late, ports, closes, needToClose, myPowerState, reads,
                    interruptReadPending, disturbed, doPortActionLock, initActive,
                    calls, outstandingIO>>
    BY <1>10 DEF PowerStateWillChangeTo, unchangedByPower
  <2> QED
    BY <1>10, <2>1
<1>11. CASE Quiesced
  BY <1>11 DEF Quiesced, IncrementOutstandingIO, unchangedByPower, powerVars
<1>12. CASE SetPowerState
  <2>1. UNCHANGED <<inactive, late, ports, closes, needToClose, changingTo,
                    myPowerState, reads, interruptReadPending, aborting, disturbed,
                    doPortActionLock, initActive, calls, outstandingIO>>
    BY <1>12 DEF SetPowerState, unchangedByPower, powerVars
  <2> QED
    BY <1>12, <2>1
<1>13. CASE PowerStateDidChangeTo
  BY <1>13 DEF PowerStateDidChangeTo, unchangedByPower
<1>14. CASE PowerChangeDone
  <2>1. UNCHANGED outstandingIO \/ outstandingIO' = outstandingIO + 1
    BY <1>14 DEF PowerChangeDone, Recheck
  <2>2. UNCHANGED <<inactive, late, ports, closes, needToClose, reads,
                    interruptReadPending, aborting, needInterruptRead, disturbed,
                    doPortActionLock, initActive, calls>>
    BY <1>14 DEF PowerChangeDone, unchangedByPower
  <2> QED
    BY <1>14, <2>1, <2>2
<1>15. CASE Terminate \/ WillTerminate
  BY <1>15 DEF Terminate, WillTerminate, unchangedByEnd, powerVars
<1>16. CASE DidTerminate
  <2>1. UNCHANGED <<inactive, changingTo, myPowerState, reads, interruptReadPending,
                    disturbed, doPortActionLock, initActive, calls, outstandingIO>>
    BY <1>16 DEF DidTerminate, unchangedByEnd, powerVars
  <2> QED
    BY <1>16, <2>1
<1>17. CASE UNCHANGED vars
  BY <1>17 DEF vars, readVars, powerVars, endVars
<1> QED
  BY <1>1, <1>2, <1>3, <1>4, <1>5, <1>6, <1>7, <1>8, <1>9, <1>10, <1>11, <1>12, <1>13,
     <1>14, <1>15, <1>16, <1>17 DEF Next, PowerChange

-----------------------------------------------------------------------------
(* The background.                                                           *)

(* A thread that owes a claim is counted, and so is a read.                  *)
LEMMA Counts ==
  ASSUME Background, NEW t \in Threads
  PROVE  /\ Typed
         /\ Debts[t] > 0 => outstandingIO > 0
         /\ reads > 0 => outstandingIO > 0
         /\ pc[t] \notin Leavings => Debts[t] = Weight(pc[t])
<1>1. Typed
  BY TypedParts DEF Background
<1>2. /\ Debts \in [Threads -> 0 .. 4] /\ calls \in SUBSET Threads
      /\ pc[t] \notin Leavings => Debts[t] = Weight(pc[t])
  BY <1>1, Before DEF Background, Typed, Threads
<1>3. PICK n \in Nat : n = Cardinality(Claims(Debts, calls))
  BY FinitelyManyClaims
<1>4. Debts[t] <= n
  BY <1>2, <1>3, ClaimsAfterAStep
<1>5. outstandingIO = n + reads
  BY <1>3 DEF Background, Balance
<1>6. PICK o \in 0 .. 4 : o = Debts[t]
  BY <1>2
<1>7. PICK a \in Nat, b \in Nat : a = outstandingIO /\ b = reads
  BY <1>1 DEF Typed
<1>8. o <= n /\ a = n + b
  BY <1>4, <1>5, <1>6, <1>7
<1>9. (o > 0 => a > 0) /\ (b > 0 => a > 0)
  BY <1>8
<1> QED
  BY <1>1, <1>2, <1>6, <1>7, <1>9

(* A PortInit thread that is active, somebody who gives the lock up, and the *)
(* power thread at its last step all owe a claim.                            *)
LEMMA TheyAreCounted ==
  ASSUME Background
  PROVE  /\ PortInitActive => outstandingIO > 0
         /\ (\E c \in Callers : pc[c] = "unlock") => outstandingIO > 0
         /\ pc["power"] \in {"set", "did"} => outstandingIO > 0
         /\ pc["work"] = "start" => outstandingIO > 0
<1>1. ASSUME NEW t \in Threads, pc[t] \in {"run", "unlock", "set", "did", "start"}
      PROVE  outstandingIO > 0
  <2>1. pc[t] \notin Leavings /\ Weight(pc[t]) = 1
    BY <1>1 DEF Leavings, Weight
  <2>2. Debts[t] = 1
    BY <2>1, Counts
  <2> QED
    BY <2>2, Counts
<1>2. ASSUME PortInitActive
      PROVE  outstandingIO > 0
  <2>1. PICK i \in Inits : pc[i] = "run"
    BY <1>2 DEF PortInitActive, Background, Initialising
  <2> QED
    BY <1>1, <2>1, Names
<1> QED
  BY <1>1, <1>2, Names

(* Every step keeps what the flags of the termination say of where its       *)
(* thread is.                                                                *)
LEMMA TerminatingKept ==
  ASSUME Background, [Next]_vars
  PROVE  Terminating'
<1>1. Typed /\ Shapes /\ Terminating /\ "end" \in Threads
  BY TypedParts, Names DEF Background
<1>2. pc["end"] \notin Leavings /\ "end" \notin calls
  BY <1>1, Names DEF Terminating, Leavings, Typed
<1>3. \/ Same("end") \/ Terminate \/ WillTerminate \/ DidTerminate
  BY <1>1, <1>2, Mover, Names DEF Leaving, DecrementOutstandingIO, LastOneOut, CloseHub,
     ClearNeed, RearmInterruptRead, RearmFailed, CheckPower, ClaimRead, StartRead, At,
     Leavings, Called
<1>4. /\ pc'["end"] \in {"idle", "abort", "test", "note", "closeNow", "gone"}
      /\ inactive' <=> pc'["end"] # "idle"
  <2>1. pc \in [Threads -> Pcs]
    BY <1>1 DEF Typed, Places
  <2>2. UNCHANGED inactive \/ Terminate
    BY WhoWrites DEF Writers, EndWriters
  <2>3. CASE Terminate
    BY <1>1, <2>1, <2>3 DEF Terminate, Go, Jump
  <2>4. CASE ~Terminate /\ Same("end")
    BY <1>1, <2>2, <2>4 DEF Terminating, Same
  <2>5. CASE ~Terminate /\ (WillTerminate \/ DidTerminate)
    <3>1. pc["end"] # "idle" /\ pc'["end"] \in {"test", "note", "closeNow", "gone"}
      BY <1>1, <2>1, <2>5 DEF WillTerminate, DidTerminate, At, Go, Jump
    <3> QED
      BY <1>1, <2>2, <2>5, <3>1 DEF Terminating
  <2> QED
    BY <1>3, <2>3, <2>4, <2>5
<1>5. ASSUME ~inactive'
      PROVE  ports' /\ ~needToClose' /\ \A t \in Threads : pc'[t] # "close"
  <2>1. ~inactive /\ pc["end"] = "idle"
    <3>1. ~Terminate /\ UNCHANGED inactive
      BY <1>5, WhoWrites DEF Writers, EndWriters, Terminate
    <3> QED
      BY <1>1, <1>5, <3>1 DEF Terminating
  <2>2. /\ ports /\ ~needToClose /\ \A t \in Threads : pc[t] # "close"
    BY <1>1, <2>1 DEF Terminating
  <2>3. UNCHANGED <<ports, needToClose>>
    <3>1. ~DidTerminate /\ \A t \in Threads : ~CloseHub(t)
      BY <2>1, <2>2 DEF DidTerminate, CloseHub, At
    <3> QED
      BY <3>1, WhoWrites DEF Writers, EndWriters
  <2>4. ASSUME NEW t \in Threads
        PROVE  pc'[t] # "close"
    <3>1. CASE Leaving(t)
      <4>1. CASE Pop(t) /\ pc[t] \in Leavings
        <5>1. Head(stack[t]) \in Ends \cup {"lost", "decrement"}
          BY <1>1, <4>1, Before, AfterAReturn
        <5> QED
          BY <1>1, <4>1, <5>1 DEF Pop, Ends, Typed, Places
      <4>2. CASE \E l \in Leavings \ {"close"} : pc' = [pc EXCEPT ![t] = l]
        BY <1>1, <4>2 DEF Typed, Places
      <4>3. \/ Pop(t) /\ pc[t] \in Leavings
            \/ \E l \in Leavings \ {"close"} : pc' = [pc EXCEPT ![t] = l]
        BY <2>2, <3>1 DEF Leaving, DecrementOutstandingIO, LastOneOut, CloseHub,
           ClearNeed, RearmInterruptRead, RearmFailed, CheckPower, ClaimRead, StartRead,
           MayClose, At, Go, Jump, Return, Decrements, Leavings
      <4> QED
        BY <4>1, <4>2, <4>3
    <3>2. CASE ~Leaving(t) /\ ~Same(t)
      <4>1. pc'[t] # "close"
        BY <1>1, <3>2, Mover DEF Called, InterruptReadHandler, HandleReport,
           ProcessStatusChanged, MasterClaim, PortsDone, StatusChanged, PortDone, PortInit,
           DoPortAction, PortAction, PowerChange, PowerStateWillChangeTo, Quiesced,
           SetPowerState, PowerStateDidChangeTo, PowerChangeDone, Recheck, Terminate,
           WillTerminate, DidTerminate, Go, Jump, Decrements, Same, Typed, Places
      <4> QED
        BY <4>1
    <3>3. CASE Same(t)
      BY <2>2, <3>3 DEF Same
    <3> QED
      BY <3>1, <3>2, <3>3
  <2> QED
    BY <2>2, <2>3, <2>4
<1> QED
  BY <1>4, <1>5 DEF Terminating

(* A thread of a port action or of a PortInit makes its own steps only.      *)
LEMMA OwnSteps ==
  ASSUME Background, [Next]_vars
  PROVE  /\ \A c \in Callers : pc[c] \in {"wait", "locked", "unlock"} =>
               Same(c) \/ PortAction(c)
         /\ \A i \in Inits : pc[i] \in {"queued", "run"} => Same(i) \/ PortInit(i)
         /\ pc["power"] \in {"quiesce", "set", "did", "done"} =>
               Same("power") \/ PowerChange
         /\ pc["work"] = "start" => Same("work") \/ ProcessStatusChanged
<1>0. Typed /\ \A t \in Inits \cup Callers \cup {"power"} : t \notin calls
  BY TypedParts, Names DEF Background, Typed
<1>1. ASSUME NEW t \in Threads,
             pc[t] \in {"wait", "locked", "unlock", "queued", "run", "quiesce", "set",
                       "did", "done", "start"}
      PROVE  ~Leaving(t) /\ ~Called(t)
  BY <1>1 DEF Leaving, DecrementOutstandingIO, LastOneOut, CloseHub, ClearNeed,
     RearmInterruptRead, RearmFailed, CheckPower, ClaimRead, StartRead, At, Called
<1>2. ASSUME NEW c \in Callers, pc[c] \in {"wait", "locked", "unlock"}
      PROVE  Same(c) \/ PortAction(c)
  BY <1>0, <1>1, <1>2, Mover, Names DEF DoPortAction, At
<1>3. ASSUME NEW i \in Inits, pc[i] \in {"queued", "run"}
      PROVE  Same(i) \/ PortInit(i)
  BY <1>0, <1>1, <1>3, Mover, Names
<1>4. ASSUME pc["power"] \in {"quiesce", "set", "did", "done"}
      PROVE  Same("power") \/ PowerChange
  BY <1>0, <1>1, <1>4, Mover, Names
<1>5. ASSUME pc["work"] = "start"
      PROVE  Same("work") \/ ProcessStatusChanged
  BY <1>0, <1>1, <1>5, Mover, Names DEF MasterClaim, PortsDone, StatusChanged, At
<1> QED
  BY <1>2, <1>3, <1>4, <1>5

(* Every step keeps that a port action lock that is held has a caller inside *)
(* of the port action.                                                       *)
LEMMA LockedKept ==
  ASSUME Background, [Next]_vars
  PROVE  Locked'
<1> SUFFICES ASSUME doPortActionLock'
             PROVE  \E c \in Callers : pc'[c] \in {"locked", "unlock"}
  BY DEF Locked
<1>0. Typed /\ Locked
  BY TypedParts DEF Background
<1>1. ASSUME NEW c \in Callers, PortAction(c)
      PROVE  pc'[c] \in {"locked", "unlock"}
  BY <1>0, <1>1, Names DEF PortAction, Go, Jump, Typed, Places
<1>2. CASE \A c \in Callers : ~PortAction(c)
  <2>1. doPortActionLock
    BY <1>2, WhoWrites DEF Writers, WorkWriters
  <2>2. PICK c \in Callers : pc[c] \in {"locked", "unlock"}
    BY <1>0, <2>1 DEF Locked
  <2>3. Same(c)
    BY <1>2, <2>2, OwnSteps
  <2> QED
    BY <2>2, <2>3 DEF Same
<1> QED
  BY <1>1, <1>2

(* Every step keeps what the flag of a port's first thread says of where     *)
(* that thread is.                                                           *)
LEMMA InitialisingKept ==
  ASSUME Background, [Next]_vars
  PROVE  Initialising'
<1> SUFFICES ASSUME NEW i \in Inits, initActive'[i]
             PROVE  pc'[i] = "run"
  BY DEF Initialising
<1>0. Typed /\ Others /\ Initialising
  BY TypedParts DEF Background, Typed
<1>1. CASE PortInit(i)
  BY <1>0, <1>1, Names DEF PortInit, At, Go, Jump, Typed, Places, Others
<1>2. CASE ~PortInit(i)
  <2>1. initActive[i]
    <3>1. CASE \E j \in Inits : PortInit(j)
      BY <1>0, <1>2, <3>1 DEF PortInit, Others
    <3>2. CASE UNCHANGED initActive
      BY <3>2
    <3> QED
      BY <3>1, <3>2, WhoWrites DEF Writers, WorkWriters
  <2>2. pc[i] = "run"
    BY <1>0, <2>1 DEF Initialising
  <2>3. Same(i)
    BY <1>2, <2>2, OwnSteps
  <2> QED
    BY <2>2, <2>3 DEF Same
<1> QED
  BY <1>1, <1>2

(* Every step keeps what is true while the reads are being aborted.          *)
LEMMA AbortionKept ==
  ASSUME Background, [Next]_vars
  PROVE  Abortion'
<1> SUFFICES ASSUME aborting', ~inactive'
             PROVE  pc'["power"] = "quiesce" /\ changingTo' = "low"
  BY DEF Abortion
<1>0. /\ Typed /\ Abortion /\ Terminating /\ "power" \in Threads
      /\ pc \in [Threads -> Pcs]
  BY TypedParts, Names DEF Background, Typed, Places
<1>1. ~inactive /\ ~Terminate
  <2>1. ~Terminate
    BY DEF Terminate
  <2>2. UNCHANGED inactive
    BY <2>1, WhoWrites DEF Writers, EndWriters
  <2> QED
    BY <2>1, <2>2
<1>2. ~WillTerminate /\ ~DidTerminate /\ \A t \in Threads : ~CloseHub(t)
  BY <1>0, <1>1 DEF Terminating, WillTerminate, DidTerminate, CloseHub, At
<1>3. ASSUME NEW s \in {"low", "on"}, PowerStateWillChangeTo(s)
      PROVE  pc'["power"] = "quiesce" /\ changingTo' = "low"
  <2>1. pc["power"] = "idle" /\ pc'["power"] = "quiesce" /\ changingTo' = s
    BY <1>0, <1>3 DEF PowerStateWillChangeTo, At, Go, Jump
  <2>2. ~aborting
    BY <1>0, <1>1, <2>1 DEF Abortion
  <2>3. s = "low"
    BY <1>3, <2>2 DEF PowerStateWillChangeTo
  <2> QED
    BY <2>1, <2>3
<1>4. CASE \A s \in {"low", "on"} : ~PowerStateWillChangeTo(s)
  <2>1. aborting
    BY <1>2, <1>4, WhoWrites DEF Writers, ReadWriters, InterruptReadHandler
  <2>2. pc["power"] = "quiesce" /\ changingTo = "low"
    BY <1>0, <1>1, <2>1 DEF Abortion
  <2>3. ~Quiesced
    BY <2>1, <2>2 DEF Quiesced, Aborted
  <2>4. ~PowerChange
    BY <1>4, <2>2, <2>3 DEF PowerChange, SetPowerState, PowerStateDidChangeTo,
       PowerChangeDone, At
  <2>5. Same("power") /\ UNCHANGED changingTo
    BY <1>4, <2>2, <2>4, OwnSteps, WhoWrites DEF Writers, PowerWriters, PowerChange
  <2> QED
    BY <2>2, <2>5 DEF Same
<1> QED
  BY <1>3, <1>4

(* A return ends where the stack ends.                                       *)
LEMMA ReturnsToTheEnd ==
  ASSUME Typed, Shapes, NEW t \in Threads, Leaving(t)
  PROVE  /\ pc[t] \in Leavings
         /\ IF pc'[t] \in Leavings
            THEN stack'[t][Len(stack'[t])] = stack[t][Len(stack[t])]
            ELSE pc'[t] = stack[t][Len(stack[t])]
<1>0. /\ pc \in [Threads -> Pcs] /\ stack \in [Threads -> Seq(Pcs)]
      /\ stack[t] \in Seq(Pcs)
  BY DEF Typed, Places
<1>1. pc[t] \in Leavings
  BY DEF Leaving, DecrementOutstandingIO, LastOneOut, CloseHub, ClearNeed,
     RearmInterruptRead, RearmFailed, CheckPower, ClaimRead, StartRead, At, Leavings
<1>2. CASE Pop(t)
  <2>1. IF Head(stack[t]) \in Leavings
        THEN Tail(stack[t])[Len(Tail(stack[t]))] = stack[t][Len(stack[t])]
        ELSE Head(stack[t]) = stack[t][Len(stack[t])]
    BY <1>1, Before, AfterAReturn
  <2>2. pc'[t] = Head(stack[t]) /\ stack'[t] = Tail(stack[t])
    BY <1>0, <1>2 DEF Pop
  <2> QED
    BY <1>1, <2>1, <2>2
<1>3. CASE \E l \in Leavings : Jump(t, l)
  BY <1>0, <1>1, <1>3 DEF Jump
<1>4. CASE StartRead(t) /\ Decrements(t, 1, "lost")
  <2> DEFINE r == [i \in 1 .. 1 - 1 |-> "decrement"] \o <<"lost">> \o stack[t]
  <2>1. PICK s : s = r
    OBVIOUS
  <2>2. pc[t] = "read" /\ Fits("read", stack[t])
    BY <1>4, Before DEF StartRead, At
  <2>3. s[Len(s)] = stack[t][Len(stack[t])]
    BY <1>0, <2>1, <2>2, BeforeALostRead
  <2>4. pc'[t] = "decrement" /\ stack'[t] = s
    BY <1>0, <1>4, <2>1 DEF Decrements
  <2> QED
    BY <1>1, <2>3, <2>4 DEF Leavings
<1>5. Pop(t) \/ (\E l \in Leavings : Jump(t, l)) \/ (StartRead(t) /\ Decrements(t, 1, "lost"))
  BY DEF Leaving, DecrementOutstandingIO, LastOneOut, CloseHub, ClearNeed, Jump,
     RearmInterruptRead, RearmFailed, CheckPower, ClaimRead, StartRead, Go, Return, Leavings
<1> QED
  BY <1>2, <1>3, <1>4, <1>5

(* Every step keeps what is true between two changes of power.               *)
LEMMA PowerStableKept ==
  ASSUME Background, [Next]_vars
  PROVE  PowerStable'
<1> SUFFICES ASSUME PowerOver'
             PROVE  changingTo' = "stable"
  BY DEF PowerStable
<1>0. /\ Typed /\ Shapes /\ PowerStable /\ "power" \in Threads
      /\ pc \in [Threads -> Pcs] /\ stack \in [Threads -> Seq(Pcs)]
  BY TypedParts, Names DEF Background, Typed, Places
<1>1. CASE Same("power")
  <2>1. PowerOver
    BY <1>1 DEF PowerOver, Same
  <2>2. UNCHANGED changingTo \/ PowerChangeDone
    <3>1. \A s \in {"low", "on"} : ~PowerStateWillChangeTo(s)
      BY <1>0, <1>1 DEF PowerStateWillChangeTo, At, Go, Jump, Same
    <3> QED
      BY <3>1, WhoWrites DEF Writers, PowerWriters
  <2> QED
    BY <1>0, <2>1, <2>2 DEF PowerStable, PowerChangeDone
<1>2. CASE Leaving("power")
  <2>1. PowerOver
    BY <1>0, <1>2, ReturnsToTheEnd DEF PowerOver, Leavings
  <2>2. UNCHANGED changingTo
    BY <1>2 DEF Leaving, DecrementOutstandingIO, LastOneOut, CloseHub, ClearNeed,
       RearmInterruptRead, RearmFailed, CheckPower, ClaimRead, StartRead, powerVars
  <2> QED
    BY <1>0, <2>1, <2>2 DEF PowerStable
<1>3. CASE PowerChange
  <2>1. CASE \E s \in {"low", "on"} : PowerStateWillChangeTo(s)
    BY <1>0, <2>1 DEF PowerStateWillChangeTo, Go, Jump, PowerOver, Leavings
  <2>2. CASE Quiesced \/ SetPowerState
    BY <1>0, <2>2 DEF Quiesced, SetPowerState, Go, Jump, PowerOver, Leavings
  <2>3. CASE PowerStateDidChangeTo
    <3> DEFINE r == [i \in 1 .. 1 - 1 |-> "decrement"] \o <<"done">> \o <<>>
    <3>1. PICK s : s = r
      OBVIOUS
    <3>2. s[Len(s)] = "done"
      BY <3>1, BeforeOneDecrement DEF Ends
    <3>3. stack["power"] = <<>>
      BY <1>0, <2>3, Before DEF PowerStateDidChangeTo, At, Leavings
    <3>4. pc'["power"] = "decrement" /\ stack'["power"] = s
      BY <1>0, <2>3, <3>1, <3>3 DEF PowerStateDidChangeTo, Decrements
    <3> QED
      BY <3>2, <3>4 DEF PowerOver
  <2>4. CASE PowerChangeDone
    BY <2>4 DEF PowerChangeDone
  <2> QED
    BY <1>3, <2>1, <2>2, <2>3, <2>4 DEF PowerChange
<1>4. "power" \notin calls
  BY <1>0, Names DEF Typed
<1> QED
  BY <1>0, <1>1, <1>2, <1>3, <1>4, Mover, Names DEF Called

(* The background holds at first and is kept by every step.                  *)
LEMMA BackgroundKept ==
  /\ Init => Background
  /\ Background /\ [Next]_vars => Background'
<1>1. ASSUME Init
      PROVE  Background
  <2>1. IInv
    BY <1>1, InitInvariant
  <2>2. Terminating /\ Locked /\ Initialising /\ PowerStable /\ Abortion
    BY <1>1, Names DEF Init, Terminating, Locked, Initialising, PowerStable, Abortion
  <2> QED
    BY <2>1, <2>2 DEF IInv, Background
<1>2. ASSUME Background, [Next]_vars
      PROVE  Background'
  <2>1. IInv'
    BY <1>2, NextInvariant DEF IInv, Background
  <2>2. Terminating' /\ Locked' /\ Initialising' /\ PowerStable' /\ Abortion'
    BY <1>2, TerminatingKept, LockedKept, InitialisingKept, PowerStableKept, AbortionKept
  <2> QED
    BY <2>1, <2>2 DEF IInv, Background
<1> QED
  BY <1>1, <1>2

-----------------------------------------------------------------------------
(* The last one out.                                                         *)

(* A hub that is still there was there before, and undisturbed.              *)
LEMMA ThereBefore ==
  ASSUME Background, [Next]_vars, ~inactive'
  PROVE  /\ ~inactive /\ ports /\ ~needToClose
         /\ ~Terminate /\ ~WillTerminate /\ ~DidTerminate
         /\ \A t \in Threads : ~CloseHub(t)
         /\ ~disturbed' => ~disturbed
<1>0. Terminating
  BY DEF Background
<1>1. ~Terminate
  BY DEF Terminate
<1>2. UNCHANGED inactive
  BY <1>1, WhoWrites DEF Writers, EndWriters
<1>3. ~inactive
  BY <1>2
<1>4. ports /\ ~needToClose /\ pc["end"] = "idle" /\ \A t \in Threads : pc[t] # "close"
  BY <1>0, <1>3 DEF Terminating
<1>5. ~WillTerminate /\ ~DidTerminate /\ \A t \in Threads : ~CloseHub(t)
  BY <1>4 DEF WillTerminate, DidTerminate, CloseHub, At
<1>6. ~disturbed' => ~disturbed
  BY WhoWrites DEF Writers, ReadWriters
<1> QED
  BY <1>1, <1>3, <1>4, <1>5, <1>6

(* A read that is on its way arrives.                                        *)
LEMMA ReadArrives ==
  ASSUME Background, [Next]_vars, ~inactive', ~disturbed', ReadToCome
  PROVE  reads' > 0 \/ ReadToCome'
<1>0. /\ Typed /\ reads \in Nat /\ pc \in [Threads -> Pcs] /\ ~inactive /\ ports
  BY TypedParts, ThereBefore DEF Background, Typed, Places
<1>1. PICK t \in Threads : pc[t] \in {"armed", "claim", "read"}
  BY DEF ReadToCome
<1>2. CASE Same(t)
  BY <1>1, <1>2 DEF Same, ReadToCome
<1>3. CASE Leaving(t)
  <2>1. CheckPower(t) \/ ClaimRead(t) \/ StartRead(t)
    BY <1>1, <1>3 DEF Leaving, DecrementOutstandingIO, LastOneOut, CloseHub, ClearNeed,
       RearmInterruptRead, RearmFailed, At
  <2>2. CASE CheckPower(t)
    <3>1. Go(t, "claim")
      BY <2>2 DEF CheckPower
    <3> QED
      BY <1>0, <3>1 DEF Go, Jump, ReadToCome
  <2>3. CASE ClaimRead(t)
    <3>1. Go(t, "read")
      BY <1>0, <2>3 DEF ClaimRead
    <3> QED
      BY <1>0, <3>1 DEF Go, Jump, ReadToCome
  <2>4. CASE StartRead(t)
    <3>1. reads' = reads + 1
      BY <2>4 DEF StartRead
    <3> QED
      BY <1>0, <3>1
  <2> QED
    BY <2>1, <2>2, <2>3, <2>4
<1> QED
  BY <1>0, <1>1, <1>2, <1>3, LeavingStays DEF Leavings

(* Whoever finds the count at zero looks what there is to do.                *)
LEMMA LastOneLooks ==
  ASSUME Background, [Next]_vars, LastOneToCome
  PROVE  \/ LastOneToCome'
         \/ \E t \in Threads : LastOneOut(t) /\ count[t] = 0
<1>0. /\ Typed /\ outstandingIO \in Nat
      /\ pc \in [Threads -> Pcs] /\ count \in [Threads -> Nat]
  BY TypedParts DEF Background, Typed, Places
<1>1. CASE outstandingIO > 0
  <2>1. CASE UNCHANGED outstandingIO \/ outstandingIO' = outstandingIO + 1
    <3>1. outstandingIO' > 0
      BY <1>0, <1>1, <2>1
    <3> QED
      BY <3>1 DEF LastOneToCome
  <2>2. ASSUME NEW t \in Threads, DecrementOutstandingIO(t)
        PROVE  LastOneToCome'
    <3>1. /\ outstandingIO' = outstandingIO - 1 /\ pc'[t] = "tail"
          /\ count'[t] = outstandingIO - 1
      BY <1>0, <2>2 DEF DecrementOutstandingIO
    <3>2. outstandingIO' > 0 \/ outstandingIO - 1 = 0
      BY <1>0, <1>1, <3>1
    <3> QED
      BY <3>1, <3>2 DEF LastOneToCome
  <2> QED
    BY <2>1, <2>2, WhoWrites DEF Writers, WorkWriters
<1>2. ASSUME NEW t \in Threads, pc[t] = "tail", count[t] = 0
      PROVE  LastOneToCome' \/ LastOneOut(t)
  <2>1. Same(t) \/ LastOneOut(t)
    BY <1>0, <1>2, LeavingStays DEF Leaving, DecrementOutstandingIO, CloseHub, ClearNeed,
       RearmInterruptRead, RearmFailed, CheckPower, ClaimRead, StartRead, At, Leavings
  <2> QED
    BY <1>2, <2>1 DEF Same, LastOneToCome
<1> QED
  BY <1>1, <1>2 DEF LastOneToCome

-----------------------------------------------------------------------------
(* The reads.                                                                *)

(* A flag that says that a read is pending is true, or will be.              *)
LEMMA PendingKept ==
  ASSUME Background, Pending, [Next]_vars
  PROVE  Pending'
<1> SUFFICES ASSUME interruptReadPending', ~inactive', ~disturbed'
             PROVE  reads' > 0 \/ ReadToCome'
  BY DEF Pending
<1>0. /\ Typed /\ reads \in Nat /\ pc \in [Threads -> Pcs]
      /\ ~inactive /\ ~disturbed
  BY TypedParts, ThereBefore DEF Background, Typed, Places
<1>1. CASE interruptReadPending
  <2>1. reads > 0 \/ ReadToCome
    BY <1>0, <1>1 DEF Pending
  <2>2. CASE reads > 0
    <3>1. ~InterruptReadHandler
      BY DEF InterruptReadHandler
    <3>2. CASE UNCHANGED reads
      BY <2>2, <3>2
    <3>3. ASSUME NEW t \in Threads, StartRead(t)
          PROVE  reads' > 0
      <4>1. reads' = reads + 1
        BY <3>3 DEF StartRead
      <4> QED
        BY <1>0, <4>1
    <3> QED
      BY <3>1, <3>2, <3>3, WhoWrites DEF Writers, ReadWriters
  <2> QED
    BY <2>1, <2>2, ReadArrives
<1>2. CASE ~interruptReadPending
  <2>1. PICK t \in Threads : RearmInterruptRead(t)
    BY <1>2, WhoWrites DEF Writers, ReadWriters, InterruptReadHandler, RearmFailed
  <2>2. Go(t, "armed")
    BY <1>2, <2>1 DEF RearmInterruptRead
  <2> QED
    BY <1>0, <2>2 DEF Go, Jump, ReadToCome
<1> QED
  BY <1>1, <1>2

(* Only the step that sets the hub's power makes it one that will be on.     *)
LEMMA PoweredBefore ==
  ASSUME Background, [Next]_vars, Powered', ~Powered
  PROVE  SetPowerState /\ changingTo = "on"
<1>0. Typed /\ pc \in [Threads -> Pcs] /\ "power" \in Threads
  BY TypedParts, Names DEF Background, Typed, Places
<1>1. /\ ~PowerStateDidChangeTo
      /\ ~(PowerChangeDone /\ pc["power"] = "did")
  BY <1>0 DEF PowerStateDidChangeTo, PowerChangeDone, Decrements, At, Powered
<1>2. UNCHANGED myPowerState
  <2>1. PowerChangeDone => UNCHANGED myPowerState
    BY <1>1 DEF PowerChangeDone, At
  <2> QED
    BY <1>1, <2>1, WhoWrites DEF Writers, PowerWriters
<1>3. pc'["power"] = "did" /\ changingTo' = "on"
  BY <1>2 DEF Powered
<1>4. UNCHANGED changingTo
  BY <1>0, <1>3, WhoWrites DEF Writers, PowerWriters, PowerStateWillChangeTo,
     PowerChangeDone, Go, Jump
<1>5. ~Same("power")
  BY <1>3, <1>4 DEF Same, Powered
<1>6. ~Leaving("power") /\ ~Called("power")
  <2>1. ASSUME Leaving("power")
        PROVE  FALSE
    <3>1. CASE Pop("power") /\ pc["power"] \in Leavings
      <4>1. Head(stack["power"]) \in Ends \cup {"lost", "decrement"}
        BY <1>0, <3>1, Before, AfterAReturn DEF Background
      <4> QED
        BY <1>0, <1>3, <3>1, <4>1 DEF Pop, Ends
    <3>2. CASE \E l \in Leavings : pc' = [pc EXCEPT !["power"] = l]
      BY <1>0, <1>3, <3>2 DEF Leavings
    <3>3. \/ Pop("power") /\ pc["power"] \in Leavings
          \/ \E l \in Leavings : pc' = [pc EXCEPT !["power"] = l]
      BY <2>1 DEF Leaving, DecrementOutstandingIO, LastOneOut, CloseHub, ClearNeed,
                  RearmInterruptRead, RearmFailed, CheckPower, ClaimRead, StartRead,
                  At, Go, Jump, Return, Decrements, Leavings
    <3> QED
      BY <3>1, <3>2, <3>3
  <2>2. "power" \notin calls
    BY <1>0, Names DEF Typed
  <2> QED
    BY <2>1, <2>2 DEF Called
<1>7. PowerChange
  BY <1>0, <1>5, <1>6, Mover, Names
<1>8. SetPowerState
  BY <1>0, <1>3, <1>7 DEF PowerChange, PowerStateWillChangeTo, Quiesced,
     PowerStateDidChangeTo, PowerChangeDone, Recheck, Decrements, Go, Jump
<1> QED
  BY <1>3, <1>4, <1>8

(* While a read is there: when it ends, the worker is called, the next read  *)
(* is asked for, or the power goes down.                                     *)
LEMMA AfterARead ==
  ASSUME Background, [Next]_vars, ~inactive', reads > 0
  PROVE  Reader'
<1>0. /\ Typed /\ reads \in Nat /\ outstandingIO > 0 /\ ~inactive /\ ports
      /\ pc \in [Threads -> Pcs] /\ Abortion
  BY TypedParts, Counts, Names, ThereBefore DEF Background, Typed, Places
<1>1. CASE InterruptReadHandler
  <2>1. CASE aborting
    <3>1. pc["power"] = "quiesce" /\ changingTo = "low"
      BY <1>0, <2>1 DEF Abortion
    <3>2. Same("power")
      <4>1. ~PowerChange
        BY <2>1, <3>1 DEF PowerChange, PowerStateWillChangeTo, Quiesced, SetPowerState,
           PowerStateDidChangeTo, PowerChangeDone, At, Aborted
      <4> QED
        BY <3>1, <4>1, OwnSteps
    <3>3. UNCHANGED changingTo
      BY <1>1 DEF InterruptReadHandler, powerVars
    <3> QED
      BY <3>1, <3>2, <3>3 DEF Same, Sinking, Reader
  <2>2. CASE ~aborting /\ HandleReport
    <3>1. "work" \in calls'
      BY <1>0, <2>2 DEF HandleReport
    <3> QED
      BY <3>1 DEF Reader
  <2>3. CASE ~aborting /\ needInterruptRead' = (needInterruptRead \/ ~inactive)
                       /\ UNCHANGED outstandingIO
    <3>1. needInterruptRead' /\ outstandingIO' > 0
      BY <1>0, <2>3
    <3> QED
      BY <3>1 DEF Reader, LastOneToCome
  <2> QED
    BY <1>1, <2>1, <2>2, <2>3 DEF InterruptReadHandler
<1>2. CASE UNCHANGED reads
  BY <1>2 DEF Reader
<1>3. ASSUME NEW t \in Threads, StartRead(t)
      PROVE  reads' > 0
  <2>1. reads' = reads + 1 \/ UNCHANGED reads
    BY <1>3 DEF StartRead
  <2> QED
    BY <1>0, <2>1
<1> QED
  BY <1>1, <1>2, <1>3, WhoWrites DEF Writers, ReadWriters, Reader

(* A thread that is about to start a read: it does, or finds one pending.    *)
LEMMA AfterARearm ==
  ASSUME Background, Pending, [Next]_vars, ~inactive', ~disturbed',
         NEW t \in Threads, pc[t] \in {"clearNeed", "rearm"}
  PROVE  Reader'
<1>0. Typed /\ ~inactive /\ ~disturbed /\ pc \in [Threads -> Pcs]
  BY TypedParts, ThereBefore DEF Background, Typed, Places
<1>1. Same(t) \/ ClearNeed(t) \/ RearmInterruptRead(t)
  BY <1>0, LeavingStays DEF Leaving, DecrementOutstandingIO, LastOneOut, CloseHub,
     RearmFailed, CheckPower, ClaimRead, StartRead, At, Leavings
<1>2. CASE Same(t)
  BY <1>2 DEF Same, Reader
<1>3. CASE ClearNeed(t)
  BY <1>0, <1>3 DEF ClearNeed, Go, Jump, Reader
<1>4. CASE RearmInterruptRead(t) /\ ~interruptReadPending
  <2>1. Go(t, "armed")
    BY <1>4 DEF RearmInterruptRead
  <2> QED
    BY <1>0, <2>1 DEF Go, Jump, ReadToCome, Reader
<1>5. CASE RearmInterruptRead(t) /\ interruptReadPending
  <2>1. reads > 0 \/ ReadToCome
    BY <1>0, <1>5 DEF Pending
  <2>2. UNCHANGED reads
    BY <1>5 DEF RearmInterruptRead
  <2> QED
    BY <2>1, <2>2, ReadArrives DEF Reader
<1> QED
  BY <1>1, <1>2, <1>3, <1>4, <1>5

(* While the power goes down.                                                *)
LEMMA AfterSinking ==
  ASSUME Background, [Next]_vars, Sinking
  PROVE  Sinking' \/ ~Powered'
<1>0. Typed /\ pc \in [Threads -> Pcs] /\ "power" \in Threads
  BY TypedParts, Names DEF Background, Typed, Places
<1>1. pc["power"] \in {"quiesce", "set", "did"} /\ changingTo = "low"
  BY DEF Sinking
<1>2. \A s \in {"low", "on"} : ~PowerStateWillChangeTo(s)
  BY <1>1 DEF PowerStateWillChangeTo, At
<1>3. UNCHANGED changingTo \/ PowerChangeDone
  BY <1>2, WhoWrites DEF Writers, PowerWriters
<1>4. CASE PowerStateDidChangeTo
  BY <1>0, <1>1, <1>4 DEF PowerStateDidChangeTo, Decrements, Powered
<1>5. CASE PowerChangeDone
  BY <1>0, <1>1, <1>5 DEF PowerChangeDone, At, Decrements, Powered
<1>6. CASE Quiesced \/ SetPowerState
  <2>1. /\ Go("power", "set") \/ Go("power", "did")
        /\ UNCHANGED changingTo
    BY <1>6 DEF Quiesced, SetPowerState, powerVars
  <2> QED
    BY <1>0, <1>1, <2>1 DEF Go, Jump, Sinking
<1>7. CASE Same("power")
  BY <1>1, <1>3, <1>7, <1>5 DEF Same, Sinking
<1> QED
  BY <1>1, <1>2, <1>4, <1>6, <1>7, <1>5, OwnSteps DEF PowerChange

(* While the worker is called, or runs.                                      *)
LEMMA AfterACall ==
  ASSUME Background, [Next]_vars, ~inactive', "work" \in calls \/ pc["work"] = "start"
  PROVE  Reader'
<1>0. /\ Typed /\ ~inactive /\ ports /\ pc \in [Threads -> Pcs] /\ "work" \in Threads
  BY TypedParts, ThereBefore, Names DEF Background, Typed, Places
<1>1. CASE "work" \in calls
  <2>1. ASSUME NEW t \in Threads, Called(t)
        PROVE  Reader'
    <3>1. CASE t = "work"
      BY <1>0, <2>1, <3>1 DEF Called, Go, Jump, Reader
    <3>2. CASE t # "work"
      BY <1>1, <2>1, <3>2 DEF Called, Reader
    <3> QED
      BY <3>1, <3>2
  <2>2. CASE calls \subseteq calls'
    BY <1>1, <2>2 DEF Reader
  <2> QED
    BY <2>1, <2>2, WhoWrites DEF Writers, WorkWriters
<1>2. CASE pc["work"] = "start" /\ ProcessStatusChanged
  <2>1. needInterruptRead' /\ UNCHANGED outstandingIO
    BY <1>0, <1>2 DEF ProcessStatusChanged
  <2>2. outstandingIO > 0
    BY <1>2, TheyAreCounted
  <2>3. outstandingIO' > 0
    BY <2>1, <2>2
  <2> QED
    BY <2>1, <2>3 DEF LastOneToCome, Reader
<1>3. CASE pc["work"] = "start" /\ Same("work")
  BY <1>3 DEF Same, Reader
<1> QED
  BY <1>1, <1>2, <1>3, OwnSteps

(* While a read is asked for and somebody is still to look.                  *)
LEMMA AfterALook ==
  ASSUME Background, [Next]_vars, ~inactive', ~disturbed', Powered,
         needInterruptRead, LastOneToCome
  PROVE  Reader'
<1>0. /\ Typed /\ ~inactive /\ ports /\ ~needToClose /\ pc \in [Threads -> Pcs]
      /\ Changing /\ \A t \in Threads : ~CloseHub(t)
      /\ ~DidTerminate
  BY TypedParts, ThereBefore DEF Background, Typed, Places
<1>1. ASSUME NEW t \in Threads, LastOneOut(t), count[t] = 0
      PROVE  Reader'
  <2>1. CASE myPowerState = "on"
    <3>1. MayRearm(t) /\ ~MayClose(t)
      BY <1>0, <1>1, <2>1 DEF MayRearm, MayClose, AllDone
    <3>2. Jump(t, "clearNeed")
      BY <1>1, <3>1 DEF LastOneOut
    <3> QED
      BY <1>0, <3>2 DEF Jump, Reader
  <2>2. CASE myPowerState # "on"
    <3>1. outstandingIO > 0
      BY <2>2, TheyAreCounted DEF Powered
    <3>2. needInterruptRead' /\ outstandingIO' > 0
      BY <1>1, <3>1 DEF LastOneOut, readVars
    <3> QED
      BY <3>2 DEF LastOneToCome, Reader
  <2> QED
    BY <2>1, <2>2
<1>2. CASE LastOneToCome' /\ needInterruptRead'
  BY <1>2 DEF Reader
<1>3. CASE ~needInterruptRead'
  <2>1. \/ SetPowerState
        \/ \E s \in {"low", "on"} : PowerStateWillChangeTo(s)
        \/ \E t \in Threads : ClearNeed(t)
    BY <1>0, <1>3, WhoWrites DEF Writers, ReadWriters, InterruptReadHandler,
       ProcessStatusChanged, CheckPower
  <2>2. CASE SetPowerState
    <3>1. changingTo # "on" /\ pc["power"] = "set"
      BY <1>0, <1>3, <2>2 DEF SetPowerState, At
    <3>2. changingTo = "low"
      BY <1>0, <3>1 DEF Changing, Typed, Others
    <3> QED
      BY <1>0, <2>2, <3>2, Names DEF SetPowerState, powerVars, Go, Jump, Sinking, Reader
  <2>3. ASSUME NEW s \in {"low", "on"}, PowerStateWillChangeTo(s)
        PROVE  Reader'
    <3>1. s = "low"
      BY <1>3, <2>3 DEF PowerStateWillChangeTo
    <3> QED
      BY <1>0, <2>3, <3>1, Names DEF PowerStateWillChangeTo, Go, Jump, Sinking, Reader
  <2>4. ASSUME NEW t \in Threads, ClearNeed(t)
        PROVE  Reader'
    BY <1>0, <2>4 DEF ClearNeed, Go, Jump, Reader
  <2> QED
    BY <2>1, <2>2, <2>3, <2>4
<1> QED
  BY <1>1, <1>2, <1>3, LastOneLooks

(* A hub that is on goes on to listen.                                       *)
LEMMA ListensKept ==
  ASSUME Background, Pending, Listens, [Next]_vars
  PROVE  Listens'
<1> SUFFICES ASSUME ~inactive', ~disturbed', Powered'
             PROVE  Reader'
  BY DEF Listens
<1>0. ~inactive /\ ~disturbed
  BY ThereBefore
<1>1. CASE ~Powered
  <2>1. SetPowerState /\ changingTo = "on"
    BY <1>1, PoweredBefore
  <2>2. needInterruptRead' /\ UNCHANGED outstandingIO /\ pc["power"] = "set"
    BY <1>0, <2>1 DEF SetPowerState, At
  <2>3. outstandingIO > 0
    BY <2>2, TheyAreCounted
  <2>4. outstandingIO' > 0
    BY <2>2, <2>3
  <2> QED
    BY <2>2, <2>4 DEF LastOneToCome, Reader
<1>2. CASE Powered
  <2>1. Reader
    BY <1>0, <1>2 DEF Listens
  <2>2. CASE Sinking
    BY <2>2, AfterSinking DEF Reader
  <2>3. CASE ReadToCome
    BY <2>3, ReadArrives DEF Reader
  <2> QED
    BY <1>2, <2>1, <2>2, <2>3, AfterARead, AfterARearm, AfterACall, AfterALook DEF Reader
<1> QED
  BY <1>1, <1>2

-----------------------------------------------------------------------------
(* The end.                                                                  *)

(* While there is a reason why a hub that waits for it will be closed.       *)
LEMMA AfterAReason ==
  ASSUME Background, [Next]_vars, inactive, needToClose, Closer,
         \A t \in Threads : ~CloseHub(t)
  PROVE  Closer'
<1>0. /\ Typed /\ outstandingIO \in Nat /\ pc \in [Threads -> Pcs]
  BY TypedParts DEF Background, Typed, Places
<1>1. ASSUME NEW t \in Threads, LastOneOut(t), count[t] = 0
      PROVE  Closer'
  <2>0. UNCHANGED <<outstandingIO, doPortActionLock, myPowerState>>
    BY <1>1 DEF LastOneOut, powerVars
  <2>1. CASE PortInitActive
    <3>1. outstandingIO > 0
      BY <2>1, TheyAreCounted
    <3>2. outstandingIO' > 0
      BY <2>0, <3>1
    <3> QED
      BY <3>2 DEF LastOneToCome, Closer
  <2>2. CASE ~PortInitActive /\ MayClose(t)
    <3>1. Jump(t, "close")
      BY <1>1, <2>2 DEF LastOneOut, MayRearm
    <3> QED
      BY <1>0, <3>1 DEF Jump, Closer
  <2>3. CASE ~MayClose(t)
    BY <1>1, <2>0, <2>3 DEF MayClose, Closer
  <2> QED
    BY <2>1, <2>2, <2>3
<1>2. CASE LastOneToCome
  BY <1>1, <1>2, LastOneLooks DEF Closer
<1>3. CASE doPortActionLock
  <2>1. ASSUME NEW c \in Callers, PortAction(c), ~doPortActionLock'
        PROVE  Closer'
    <3>1. pc[c] = "unlock" /\ UNCHANGED outstandingIO
      BY <1>3, <2>1 DEF PortAction, At
    <3>2. outstandingIO > 0
      BY <3>1, TheyAreCounted
    <3>3. outstandingIO' > 0
      BY <3>1, <3>2
    <3> QED
      BY <3>3 DEF LastOneToCome, Closer
  <2>2. CASE doPortActionLock'
    BY <2>2 DEF Closer
  <2>3. CASE UNCHANGED doPortActionLock
    BY <1>3, <2>3 DEF Closer
  <2> QED
    BY <2>1, <2>2, <2>3, WhoWrites DEF Writers, WorkWriters
<1>4. ASSUME PowerChangeDone
       PROVE  Closer'
  <2>1. CASE outstandingIO' = outstandingIO + 1
    <3>1. outstandingIO' > 0
      BY <1>0, <2>1
    <3> QED
      BY <3>1 DEF LastOneToCome, Closer
  <2>2. CASE pc["power"] = "did" /\ UNCHANGED outstandingIO
    <3>1. outstandingIO > 0
      BY <2>2, TheyAreCounted
    <3>2. outstandingIO' > 0
      BY <2>2, <3>1
    <3> QED
      BY <3>2 DEF LastOneToCome, Closer
  <2> QED
    BY <1>4, <2>1, <2>2 DEF PowerChangeDone, Recheck, At
<1>5. CASE changingTo # "stable"
  <2>1. ASSUME NEW s \in {"low", "on"}, PowerStateWillChangeTo(s)
        PROVE  Closer'
    BY <2>1 DEF PowerStateWillChangeTo, Closer
  <2>2. CASE PowerChangeDone
    BY <2>2, <1>4
  <2>3. CASE UNCHANGED changingTo
    BY <1>5, <2>3 DEF Closer
  <2> QED
    BY <2>1, <2>2, <2>3, WhoWrites DEF Writers, PowerWriters
<1>6. CASE myPowerState # "on"
  <2>1. CASE PowerStateDidChangeTo
    <3>1. pc["power"] = "did" /\ UNCHANGED outstandingIO
      BY <2>1 DEF PowerStateDidChangeTo, At
    <3>2. outstandingIO > 0
      BY <3>1, TheyAreCounted
    <3>3. outstandingIO' > 0
      BY <3>1, <3>2
    <3> QED
      BY <3>3 DEF LastOneToCome, Closer
  <2>2. CASE UNCHANGED myPowerState
    BY <1>6, <2>2 DEF Closer
  <2> QED
    BY <2>1, <2>2, <1>4, WhoWrites DEF Writers, PowerWriters
<1>7. ASSUME NEW t \in Threads, pc[t] = "close"
      PROVE  Closer'
  <2>1. Same(t)
    BY <1>0, <1>7, LeavingStays DEF Leaving, DecrementOutstandingIO, LastOneOut, ClearNeed,
       RearmInterruptRead, RearmFailed, CheckPower, ClaimRead, StartRead, At, Leavings
  <2> QED
    BY <1>7, <2>1 DEF Same, Closer
<1> QED
  BY <1>2, <1>3, <1>5, <1>6, <1>7 DEF Closer

(* A terminated hub goes on to be closed.                                    *)
LEMMA ClosesKept ==
  ASSUME Background, Closes, [Next]_vars
  PROVE  Closes'
<1> SUFFICES ASSUME pc'["end"] = "gone", ~late', closes' = 0
             PROVE  needToClose' /\ Closer'
  BY DEF Closes
<1>0. /\ Typed /\ Terminating /\ closes \in Nat
      /\ pc \in [Threads -> Pcs] /\ "end" \in Threads
  BY TypedParts, Names DEF Background, Typed, Places, Others
<1>1. \A t \in Threads : ~CloseHub(t)
  <2>1. ASSUME NEW t \in Threads, CloseHub(t)
        PROVE  FALSE
    <3>1. closes' = closes + 1
      BY <2>1 DEF CloseHub, CloseDevice
    <3> QED
      BY <1>0, <3>1
  <2> QED
    BY <2>1
<1>2. CASE pc["end"] = "gone"
  <2>1. ~DidTerminate /\ ~Terminate
    BY <1>2 DEF DidTerminate, Terminate, At
  <2>2. UNCHANGED <<late, closes, needToClose>>
    BY <1>1, <2>1, WhoWrites DEF Writers, EndWriters
  <2>3. inactive /\ needToClose /\ Closer
    BY <1>0, <1>2, <2>2 DEF Terminating, Closes
  <2> QED
    BY <1>1, <2>2, <2>3, AfterAReason
<1>3. CASE pc["end"] # "gone"
  <2>1. ~Same("end") /\ pc["end"] \notin Leavings /\ "end" \notin calls
    BY <1>0, <1>3, Names DEF Same, Terminating, Leavings, Typed
  <2>2. Terminate \/ WillTerminate \/ DidTerminate
    BY <1>0, <2>1, Mover, Names DEF Leaving, DecrementOutstandingIO, LastOneOut, CloseHub,
       ClearNeed, RearmInterruptRead, RearmFailed, CheckPower, ClaimRead, StartRead, At,
       Leavings, Called
  <2>3. At("end", "note") \/ At("end", "closeNow")
    BY <1>0, <2>2 DEF Terminate, WillTerminate, DidTerminate, Go, Jump
  <2>4. DidTerminate
    BY <2>2, <2>3 DEF Terminate, WillTerminate, At
  <2>5. CASE At("end", "closeNow")
    <3>1. closes' = closes + 1
      BY <2>4, <2>5 DEF DidTerminate, CloseDevice, At
    <3> QED
      BY <1>0, <3>1
  <2>6. CASE At("end", "note")
    <3>1. needToClose' /\ late' = Closable
      BY <2>4, <2>6 DEF DidTerminate, At
    <3>2. UNCHANGED <<outstandingIO, changingTo, doPortActionLock>>
      BY <2>4 DEF DidTerminate, unchangedByEnd, powerVars
    <3>3. outstandingIO # 0 \/ changingTo # "stable" \/ doPortActionLock
      BY <3>1 DEF Closable
    <3>4. outstandingIO # 0 => outstandingIO' > 0
      <4>1. outstandingIO # 0 => outstandingIO > 0
        BY <1>0 DEF Typed
      <4> QED
        BY <3>2, <4>1
    <3> QED
      BY <3>1, <3>2, <3>3, <3>4 DEF LastOneToCome, Closer
  <2> QED
    BY <2>3, <2>5, <2>6
<1> QED
  BY <1>2, <1>3

-----------------------------------------------------------------------------
(* The theorems.                                                             *)

(* When nobody is on the way, nobody has the lock or changes the power, and  *)
(* what is counted are the reads.                                            *)
LEMMA WhenQuiet ==
  ASSUME Background, Quiet
  PROVE  /\ outstandingIO = reads /\ reads \in Nat
         /\ ~doPortActionLock /\ changingTo = "stable"
         /\ \A t \in Threads : pc[t] \in {"idle", "gone"}
         /\ ~ReadToCome /\ ~Sinking
<1>0. /\ Typed /\ reads \in Nat /\ \A t \in Threads : pc[t] \in {"idle", "gone"}
  BY TypedParts DEF Background, Typed, Quiet
<1>1. outstandingIO = reads
  BY <1>0, QuietIsBalanced DEF Background, IInv
<1>2. ~doPortActionLock
  BY <1>0, Names DEF Background, Locked
<1>3. changingTo = "stable"
  BY <1>0, Names DEF Background, PowerStable, PowerOver
<1> QED
  BY <1>0, <1>1, <1>2, <1>3, Names DEF ReadToCome, Sinking

(* The invariant holds at first and is kept by every step.                   *)
LEMMA QuietInvariance == Spec => []QuietInv
<1>1. Init => QuietInv
  BY BackgroundKept, Names DEF Init, QuietInv, Pending, Closes
<1>2. QuietInv /\ [Next]_vars => QuietInv'
  BY BackgroundKept, PendingKept, ClosesKept DEF QuietInv
<1> QED
  BY <1>1, <1>2, PTL DEF Spec

(* A hub that is on and has ports listens: when nothing is under way and no  *)
(* read was refused, a read waits for the next status change.  The first     *)
(* read is started by the PortInit thread that is the last to end, so there  *)
(* has to be one.                                                            *)
THEOREM ListensAgain ==
  ASSUME Inits # {}
  PROVE  Spec => []Listening
<1>1. Init => Listens
  <2> SUFFICES ASSUME Init
               PROVE  needInterruptRead /\ outstandingIO > 0
    BY DEF Listens, Reader, LastOneToCome
  <2>1. IsFiniteSet(Inits) /\ Cardinality(Inits) \in Nat /\ Cardinality(Inits) # 0
    BY ThreadsAssumption, FS_CardinalityType, FS_EmptySet
  <2>2. PICK n \in Nat : n = Cardinality(Inits)
    BY <2>1
  <2>3. n > 0
    BY <2>1, <2>2
  <2> QED
    BY <2>2, <2>3 DEF Init
<1>2. QuietInv /\ Listens /\ [Next]_vars => Listens'
  BY ListensKept DEF QuietInv
<1>3. QuietInv /\ Listens => Listening
  <2> SUFFICES ASSUME Background, Listens, Quiet, ~inactive, myPowerState = "on", ~disturbed
               PROVE  reads > 0
    BY DEF QuietInv, Listening
  <2>1. Reader
    BY DEF Listens, Powered
  <2>2. /\ ~ReadToCome /\ ~Sinking /\ outstandingIO = reads
        /\ \A t \in Threads : pc[t] \in {"idle", "gone"}
    BY WhenQuiet
  <2>3. LastOneToCome => reads > 0
    BY <2>2 DEF LastOneToCome
  <2> QED
    BY <2>1, <2>2, <2>3, Names DEF Reader, Quiet
<1> QED
  BY <1>1, <1>2, <1>3, QuietInvariance, PTL DEF Spec

(* A terminated hub is closed in the end: when nothing is under way, no read *)
(* is left and the last one out was not between the look of didTerminate and *)
(* its note, the device has been closed.                                     *)
THEOREM ClosedByTheLast == Spec => []ClosedInTheEnd
<1>1. QuietInv => ClosedInTheEnd
  <2> SUFFICES ASSUME QuietInv, Quiet, inactive, myPowerState = "on", reads = 0, ~late
               PROVE  closes > 0
    BY DEF ClosedInTheEnd
  <2>1. Background /\ Closes /\ Typed /\ closes \in Nat
    BY TypedParts DEF QuietInv, Background, Typed, Others
  <2>2. /\ outstandingIO = 0 /\ ~doPortActionLock /\ changingTo = "stable"
        /\ \A t \in Threads : pc[t] \in {"idle", "gone"}
    BY <2>1, WhenQuiet
  <2>3. pc["end"] = "gone"
    BY <2>1, <2>2, Names DEF Background, Terminating
  <2>4. ~LastOneToCome
    BY <2>2 DEF LastOneToCome
  <2>5. ~Closer
    BY <2>2, <2>4 DEF Closer
  <2>6. closes # 0
    BY <2>1, <2>3, <2>5 DEF Closes
  <2> QED
    BY <2>1, <2>6
<1> QED
  BY <1>1, QuietInvariance, PTL

=============================================================================
