-------------------------- MODULE EHCIAsync_proofs --------------------------
(* The proof that the asynchronous list neither loses nor doubles a          *)
(* transfer, that an endpoint is on one list, and that the hardware comes to *)
(* every transfer that it has still to do.                                   *)

EXTENDS EHCIAsync, Lists_proofs, FiniteSetTheorems, TLAPS

Hws      == {"active", "done", "halted"}
Errors   == {"success", "stall", "returned", "timeout"}
Clients  == Endpoints \cup {"client"}
Transfer == [req : Requests, stage : StageNames, hw : Hws]
Result   == [req : Requests, status : Errors]
Call     == [list : Seq(Result), calling : BOOLEAN, then : Clients]

(* The completion that runs is that of the first transfer of its list.       *)
Frames == {f \in Call : f.calling => f.list # <<>>}

Queues == [Endpoints -> Seq(Transfer)]

QueueTypes ==
    /\ queue \in Queues
    /\ overlay \in [Endpoints -> Overlays]
    /\ aborting \in [Endpoints -> BOOLEAN]

CommandTypes ==
    /\ sent \in [Requests -> SUBSET StageNames]
    /\ back \in [Requests -> SUBSET StageNames]
    /\ status \in [Requests -> {"success", "stall", "aborted", "timeout"}]
    /\ timed \in [Requests -> BOOLEAN]

(* A setup stage is followed by another of its request.                      *)
FollowedIn(ts) ==
    \A i \in 1 .. Len(ts) : ts[i].stage = "setup" => i + 1 \in 1 .. Len(ts)
Followed == \A e \in Endpoints : FollowedIn(queue[e])

(* The calls of EHCIUIMDoDoneQueueProcessing and the lists in their slots.   *)
Nested(fs, ss, n) ==
    /\ fs \in Seq(Frames) /\ ss \in Seq(Seq(Result)) /\ n \in 0 .. Slots
    /\ fs = <<>> => n = 0 /\ ss = <<>>
    /\ fs # <<>> => Len(ss) < n

(* The endpoints of o are on the lists of l: no endpoint is on two of them,  *)
(* or twice on one.                                                          *)
Apart(l, o) ==
    /\ l \in [active : Seq(Endpoints), inactive : Seq(Endpoints),
              disabled : Seq(Endpoints)]
    /\ IsInjective(l.active) /\ IsInjective(l.inactive) /\ IsInjective(l.disabled)
    /\ ToSet(l.active) \cap ToSet(l.inactive) = {}
    /\ ToSet(l.active) \cap ToSet(l.disabled) = {}
    /\ ToSet(l.inactive) \cap ToSet(l.disabled) = {}
    /\ ToSet(l.active) \cup ToSet(l.inactive) \cup ToSet(l.disabled) = o

(* A command knows its stages and what became of them.                       *)
Told ==
    \A r \in Requests :
        /\ sent[r] = {} \/ sent[r] = ToSet(Stages(r))
        /\ back[r] \subseteq sent[r]
        /\ status[r] # "success" /\ Out(r) => Target[r] \in Control

(* A transfer that is not finished is where the hardware finds it.           *)
Active(ts) == \E i \in DOMAIN ts : ts[i].hw = "active"

Reached(q, l, on) ==
    \A e \in Endpoints : Active(q[e]) =>
        (e \in ToSet(l.active) /\ on) \/ e \in ToSet(l.disabled)

(* What holds of the lists, the queues and the calls, those of fs.           *)
Standing(fs) ==
    /\ QueueTypes /\ schedule \in BOOLEAN /\ relinked \in BOOLEAN /\ Followed
    /\ Nested(fs, slots, nextDoneQueue) /\ Apart(lists, open)
    /\ Reached(queue, lists, schedule \/ relinked)

(* Where the transfers of the requests in R are: in the queues, in the lists *)
(* that are processed and in those that wait.                                *)
InQueues(q, R) == Total([i \in DOMAIN Order |-> Amount(q[Order[i]], R)])
InFrames(fs, R) == Total([i \in DOMAIN fs |-> Amount(Waiting(fs[i]), R)])
InSlots(ss, R) == Total([i \in DOMAIN ss |-> Amount(ss[i], R)])
InGate(fs, ss, R) == InFrames(fs, R) + InSlots(ss, R)
Around(q, fs, ss, R) == InQueues(q, R) + InGate(fs, ss, R)

(* Transfers are counted until their completion has returned, and every      *)
(* stage that is not back is one of them.                                    *)
Calls(fs) == Total([i \in DOMAIN fs |-> IF fs[i].calling THEN 1 ELSE 0])

Counted ==
    /\ transactionsOut \in Nat
    /\ transactionsOut = Around(queue, frames, slots, Requests) + Calls(frames)

Accounted ==
    \A r \in Requests :
        Around(queue, frames, slots, {r}) = Cardinality(sent[r] \ back[r])

IInv == Standing(frames) /\ CommandTypes /\ Told /\ Counted /\ Accounted

-----------------------------------------------------------------------------
(* The transfers of some requests in a list.                                 *)

(* Whether a transfer is one of those of the requests in R.                  *)
Mine(D, R) == [x \in D |-> IF x.req \in R THEN 1 ELSE 0]

(* Their number is the weight of the list.                                  *)
LEMMA AmountIsWeight ==
  ASSUME NEW D, NEW R, NEW l \in Seq(D)
  PROVE  /\ Mine(D, R) \in [D -> Nat] /\ Amount(l, R) = Weighed(l, Mine(D, R))
         /\ Amount(l, R) \in Nat
<1>1. Mine(D, R) \in [D -> Nat]
  BY DEF Mine
<1>2. [i \in DOMAIN l |-> IF l[i].req \in R THEN 1 ELSE 0]
          = [i \in DOMAIN l |-> Mine(D, R)[l[i]]]
  <2>1. \A i \in DOMAIN l : l[i] \in D
    OBVIOUS
  <2> QED
    BY <2>1 DEF Mine
<1>3. Amount(l, R) = Weighed(l, Mine(D, R))
  BY <1>2 DEF Amount, Weighed
<1>4. Weighed(l, Mine(D, R)) \in Nat
  BY <1>1, WeightsOf
<1> QED
  BY <1>1, <1>3, <1>4

(* None of them is in a list without elements.                               *)
LEMMA AmountOfNone == ASSUME NEW R PROVE Amount(<<>>, R) = 0
<1>1. [i \in DOMAIN <<>> |-> IF <<>>[i].req \in R THEN 1 ELSE 0] = <<>>
  OBVIOUS
<1> QED
  BY <1>1, TotalOfNone DEF Amount

(* Those of two lists are those of each.                                     *)
LEMMA AmountOfConcat ==
  ASSUME NEW D, NEW R, NEW s \in Seq(D), NEW t \in Seq(D)
  PROVE  s \o t \in Seq(D) /\ Amount(s \o t, R) = Amount(s, R) + Amount(t, R)
<1> DEFINE w == Mine(D, R)
           u == s \o t
<1>1. u \in Seq(D)
  OBVIOUS
<1> HIDE DEF w, u
<1>2. w \in [D -> Nat] /\ Amount(s, R) = Weighed(s, w)
  BY AmountIsWeight DEF w
<1>3. Amount(t, R) = Weighed(t, w)
  BY AmountIsWeight DEF w
<1>4. Amount(u, R) = Weighed(u, w)
  BY <1>1, AmountIsWeight DEF w
<1>5. Weighed(s \o t, w) = Weighed(s, w) + Weighed(t, w)
  BY <1>2, WeightOfConcat
<1> QED
  BY <1>1, <1>2, <1>3, <1>4, <1>5 DEF u

(* The first of a list is one of them or not.                                *)
LEMMA AmountOfTail ==
  ASSUME NEW D, NEW R, NEW s \in Seq(D), s # <<>>
  PROVE  Amount(s, R) = (IF s[1].req \in R THEN 1 ELSE 0) + Amount(Tail(s), R)
<1> DEFINE w == Mine(D, R)
           t == Tail(s)
           x == s[1]
<1>1. t \in Seq(D) /\ x \in D
  OBVIOUS
<1>2. w[x] = IF x.req \in R THEN 1 ELSE 0
  BY <1>1 DEF Mine
<1> HIDE DEF w, t, x
<1>3. w \in [D -> Nat] /\ Amount(s, R) = Weighed(s, w)
  BY AmountIsWeight DEF w
<1>4. Amount(t, R) = Weighed(t, w)
  BY <1>1, AmountIsWeight DEF w
<1>5. Weighed(s, w) = w[x] + Weighed(t, w)
  BY <1>3, WeightOfTail DEF x, t
<1> QED
  BY <1>2, <1>3, <1>4, <1>5 DEF x, t

(* What becomes of a transfer does not change whose it is.                   *)
LEMMA AmountOfSame ==
  ASSUME NEW R, NEW s, NEW t, DOMAIN s = DOMAIN t,
         \A i \in DOMAIN s : s[i].req = t[i].req
  PROVE  Amount(s, R) = Amount(t, R)
<1>1. [i \in DOMAIN s |-> IF s[i].req \in R THEN 1 ELSE 0]
          = [i \in DOMAIN t |-> IF t[i].req \in R THEN 1 ELSE 0]
  OBVIOUS
<1> QED
  BY <1>1 DEF Amount

(* A list that is cut in two.                                                *)
LEMMA AmountOfParts ==
  ASSUME NEW D, NEW R, NEW s \in Seq(D), NEW n \in 0 .. Len(s)
  PROVE  /\ SubSeq(s, 1, n) \in Seq(D) /\ SubSeq(s, n + 1, Len(s)) \in Seq(D)
         /\ Len(SubSeq(s, 1, n)) = n
         /\ Len(SubSeq(s, n + 1, Len(s))) = Len(s) - n
         /\ Amount(s, R) = Amount(SubSeq(s, 1, n), R)
                               + Amount(SubSeq(s, n + 1, Len(s)), R)
<1> DEFINE a == SubSeq(s, 1, n)
           b == SubSeq(s, n + 1, Len(s))
<1>1. /\ Len(s) \in Nat /\ n \in Nat /\ n <= Len(s)
      /\ \A i \in 1 .. Len(s) : s[i] \in D
  OBVIOUS
<1>2. a \in Seq(D) /\ Len(a) = n /\ \A i \in 1 .. n : a[i] = s[i]
  BY <1>1
<1>3. /\ b \in Seq(D) /\ Len(b) = Len(s) - n
      /\ \A i \in 1 .. Len(s) - n : b[i] = s[n + i]
  BY <1>1
<1> HIDE DEF a, b
<1>4. /\ a \o b \in Seq(D) /\ Len(a \o b) = Len(a) + Len(b)
      /\ \A i \in 1 .. Len(a) + Len(b) : (a \o b)[i] =
            IF i <= Len(a) THEN a[i] ELSE b[i - Len(a)]
  BY <1>2, <1>3, ConcatProperties
<1>5. Len(a \o b) = Len(s)
  BY <1>1, <1>2, <1>3, <1>4
<1>6. ASSUME NEW i \in 1 .. Len(s) PROVE (a \o b)[i] = s[i]
  <2>1. CASE i <= n
    BY <1>1, <1>2, <1>3, <1>4, <2>1
  <2>2. CASE ~(i <= n)
    <3>1. i - n \in 1 .. Len(s) - n /\ n + (i - n) = i
      BY <1>1, <2>2
    <3>2. (a \o b)[i] = b[i - n]
      BY <1>1, <1>2, <1>3, <1>4, <2>2
    <3> QED
      BY <1>3, <3>1, <3>2
  <2> QED
    BY <2>1, <2>2
<1>7. a \o b = s
  BY <1>4, <1>5, <1>6, SeqEqual
<1>8. Amount(a \o b, R) = Amount(a, R) + Amount(b, R)
  BY <1>2, <1>3, AmountOfConcat
<1> QED
  BY <1>2, <1>3, <1>7, <1>8 DEF a, b

-----------------------------------------------------------------------------
(* The sums over the queues, the calls and the slots.                        *)

(* What a list holds, and what a call has still to complete, as weights.     *)
ListWeights(R) == [l \in Seq(Result) |-> Amount(l, R)]
FrameWeights(R) == [f \in Frames |-> Amount(Waiting(f), R)]
CallWeights == [f \in Frames |-> IF f.calling THEN 1 ELSE 0]

(* What a call has still to complete is a list of results.                  *)
LEMMA WaitingIsList ==
  ASSUME NEW f \in Frames, NEW R
  PROVE  /\ Waiting(f) \in Seq(Result) /\ Amount(Waiting(f), R) \in Nat
         /\ f.list \in Seq(Result) /\ f.calling \in BOOLEAN /\ f.then \in Clients
         /\ f.calling => f.list # <<>>
<1>1. f \in Call /\ (f.calling => f.list # <<>>)
  BY DEF Frames
<1>2. f.list \in Seq(Result) /\ f.calling \in BOOLEAN /\ f.then \in Clients
  BY <1>1 DEF Call
<1>3. Waiting(f) \in Seq(Result)
  BY <1>1, <1>2 DEF Waiting
<1>4. Amount(Waiting(f), R) \in Nat
  BY <1>3, AmountIsWeight
<1> QED
  BY <1>1, <1>2, <1>3, <1>4

(* What the calls hold, and how many are in a completion, are weights.      *)
LEMMA FramesAreWeight ==
  ASSUME NEW fs \in Seq(Frames), NEW R
  PROVE  /\ FrameWeights(R) \in [Frames -> Nat]
         /\ CallWeights \in [Frames -> Nat]
         /\ InFrames(fs, R) = Weighed(fs, FrameWeights(R))
         /\ Calls(fs) = Weighed(fs, CallWeights)
         /\ InFrames(fs, R) \in Nat /\ Calls(fs) \in Nat
<1>1. FrameWeights(R) \in [Frames -> Nat]
  BY WaitingIsList DEF FrameWeights
<1>2. CallWeights \in [Frames -> Nat]
  BY DEF CallWeights
<1>3. \A i \in DOMAIN fs : fs[i] \in Frames
  OBVIOUS
<1>4. [i \in DOMAIN fs |-> Amount(Waiting(fs[i]), R)]
          = [i \in DOMAIN fs |-> FrameWeights(R)[fs[i]]]
  BY <1>3 DEF FrameWeights
<1>5. [i \in DOMAIN fs |-> IF fs[i].calling THEN 1 ELSE 0]
          = [i \in DOMAIN fs |-> CallWeights[fs[i]]]
  BY <1>3 DEF CallWeights
<1>6. InFrames(fs, R) = Weighed(fs, FrameWeights(R))
  BY <1>4 DEF InFrames, Weighed
<1>7. Calls(fs) = Weighed(fs, CallWeights)
  BY <1>5 DEF Calls, Weighed
<1>8. Weighed(fs, FrameWeights(R)) \in Nat
  BY <1>1, WeightsOf
<1>9. Weighed(fs, CallWeights) \in Nat
  BY <1>2, WeightsOf
<1> QED
  BY <1>1, <1>2, <1>6, <1>7, <1>8, <1>9

(* A call that begins.                                                       *)
LEMMA FramesMore ==
  ASSUME NEW fs \in Seq(Frames), NEW f \in Frames, NEW R
  PROVE  /\ <<f>> \o fs \in Seq(Frames)
         /\ InFrames(<<f>> \o fs, R) = Amount(Waiting(f), R) + InFrames(fs, R)
         /\ Calls(<<f>> \o fs) = (IF f.calling THEN 1 ELSE 0) + Calls(fs)
<1> DEFINE g == <<f>>
           w == FrameWeights(R)
           v == CallWeights
           all == g \o fs
<1>1. w[f] = Amount(Waiting(f), R) /\ v[f] = IF f.calling THEN 1 ELSE 0
  BY DEF FrameWeights, CallWeights
<1>2. w \in [Frames -> Nat] /\ v \in [Frames -> Nat]
  BY FramesAreWeight
<1>3. InFrames(fs, R) = Weighed(fs, w) /\ Calls(fs) = Weighed(fs, v)
  BY FramesAreWeight
<1>4. g \in Seq(Frames) /\ all \in Seq(Frames)
  OBVIOUS
<1> HIDE DEF all
<1>5. InFrames(all, R) = Weighed(all, w) /\ Calls(all) = Weighed(all, v)
  BY <1>4, FramesAreWeight
<1> HIDE DEF w, v
<1>6. Weighed(g, w) = w[f]
  BY <1>2, WeightOfOne
<1>7. Weighed(g, v) = v[f]
  BY <1>2, WeightOfOne
<1> HIDE DEF g
<1>8. Weighed(g \o fs, w) = Weighed(g, w) + Weighed(fs, w)
  BY <1>2, <1>4, WeightOfConcat
<1>9. Weighed(g \o fs, v) = Weighed(g, v) + Weighed(fs, v)
  BY <1>2, <1>4, WeightOfConcat
<1> QED
  BY <1>1, <1>3, <1>4, <1>5, <1>6, <1>7, <1>8, <1>9 DEF g, all

(* The innermost call and the others.                                        *)
LEMMA FramesFirst ==
  ASSUME NEW fs \in Seq(Frames), fs # <<>>, NEW R
  PROVE  /\ fs[1] \in Frames /\ Tail(fs) \in Seq(Frames)
         /\ InFrames(fs, R) = Amount(Waiting(fs[1]), R) + InFrames(Tail(fs), R)
         /\ Calls(fs) = (IF fs[1].calling THEN 1 ELSE 0) + Calls(Tail(fs))
<1> DEFINE f == fs[1]
           t == Tail(fs)
<1>1. f \in Frames /\ t \in Seq(Frames) /\ fs = <<f>> \o t
  OBVIOUS
<1> HIDE DEF f, t
<1>2. /\ InFrames(<<f>> \o t, R) = Amount(Waiting(f), R) + InFrames(t, R)
      /\ Calls(<<f>> \o t) = (IF f.calling THEN 1 ELSE 0) + Calls(t)
  BY <1>1, FramesMore
<1> QED
  BY <1>1, <1>2 DEF f, t

(* What the lists in the slots hold is their weight.                         *)
LEMMA SlotsAreWeight ==
  ASSUME NEW ss \in Seq(Seq(Result)), NEW R
  PROVE  /\ ListWeights(R) \in [Seq(Result) -> Nat]
         /\ InSlots(ss, R) = Weighed(ss, ListWeights(R)) /\ InSlots(ss, R) \in Nat
<1>1. ListWeights(R) \in [Seq(Result) -> Nat]
  BY AmountIsWeight DEF ListWeights
<1>2. \A i \in DOMAIN ss : ss[i] \in Seq(Result)
  OBVIOUS
<1>3. [i \in DOMAIN ss |-> Amount(ss[i], R)]
          = [i \in DOMAIN ss |-> ListWeights(R)[ss[i]]]
  BY <1>2 DEF ListWeights
<1>4. InSlots(ss, R) = Weighed(ss, ListWeights(R))
  BY <1>3 DEF InSlots, Weighed
<1>5. Weighed(ss, ListWeights(R)) \in Nat
  BY <1>1, WeightsOf
<1> QED
  BY <1>1, <1>4, <1>5

(* A list is put off for the outermost call.                                *)
LEMMA SlotsMore ==
  ASSUME NEW ss \in Seq(Seq(Result)), NEW l \in Seq(Result), NEW R
  PROVE  /\ Append(ss, l) \in Seq(Seq(Result)) /\ Len(Append(ss, l)) = Len(ss) + 1
         /\ InSlots(Append(ss, l), R) = InSlots(ss, R) + Amount(l, R)
<1> DEFINE w == ListWeights(R)
           D == Seq(Result)
           one == <<l>>
           all == Append(ss, l)
<1>1. w[l] = Amount(l, R)
  BY DEF ListWeights
<1> HIDE DEF w, D
<1>2. w \in [D -> Nat] /\ InSlots(ss, R) = Weighed(ss, w)
  BY SlotsAreWeight DEF w, D
<1>3. ss \in Seq(D) /\ l \in D
  BY DEF D
<1>4. /\ one \in Seq(D) /\ all \in Seq(D) /\ all = ss \o one
      /\ Len(all) = Len(ss) + 1
  BY <1>3
<1>5. Weighed(one, w) = w[l]
  BY <1>2, <1>3, WeightOfOne
<1> HIDE DEF one, all
<1>6. InSlots(all, R) = Weighed(all, w)
  BY <1>4, SlotsAreWeight DEF w, D
<1>7. Weighed(ss \o one, w) = Weighed(ss, w) + Weighed(one, w)
  BY <1>2, <1>3, <1>4, WeightOfConcat
<1> QED
  BY <1>1, <1>2, <1>4, <1>5, <1>6, <1>7 DEF all, D

(* The first of them is taken.                                              *)
LEMMA SlotsFirst ==
  ASSUME NEW ss \in Seq(Seq(Result)), ss # <<>>, NEW R
  PROVE  /\ Head(ss) \in Seq(Result) /\ Tail(ss) \in Seq(Seq(Result))
         /\ Len(Tail(ss)) = Len(ss) - 1
         /\ InSlots(ss, R) = Amount(Head(ss), R) + InSlots(Tail(ss), R)
<1> DEFINE w == ListWeights(R)
           D == Seq(Result)
           l == Head(ss)
           t == Tail(ss)
<1>1. l = ss[1] /\ l \in D /\ t \in Seq(D) /\ Len(t) = Len(ss) - 1
  OBVIOUS
<1>2. w[l] = Amount(l, R)
  BY <1>1 DEF ListWeights
<1> HIDE DEF w, D, l, t
<1>3. w \in [D -> Nat] /\ InSlots(ss, R) = Weighed(ss, w)
  BY SlotsAreWeight DEF w, D
<1>4. InSlots(t, R) = Weighed(t, w)
  BY <1>1, SlotsAreWeight DEF w, D
<1>5. ss \in Seq(D)
  BY DEF D
<1>6. Weighed(ss, w) = w[ss[1]] + Weighed(t, w)
  BY <1>3, <1>5, WeightOfTail DEF t
<1> QED
  BY <1>1, <1>2, <1>3, <1>4, <1>6 DEF l, t, D

(* Lists that are put together to one.                                       *)
LEMMA AmountOfFlat ==
  ASSUME NEW ls \in Seq(Seq(Result)), NEW R
  PROVE  /\ Flat(ls) \in Seq(Result) /\ Amount(Flat(ls), R) = InSlots(ls, R)
<1> DEFINE n == Len(ls)
           p == Joins(ls)
           f == [i \in DOMAIN ls |-> Amount(ls[i], R)]
           T == {k \in 0 .. n : Amount(p[k], R) = Sums(f)[k]}
<1>1. n \in Nat /\ DOMAIN ls = 1 .. n /\ \A i \in 1 .. n : ls[i] \in Seq(Result)
  OBVIOUS
<1> HIDE DEF n
<1>2. f \in Seq(Nat) /\ Len(f) = n /\ \A i \in 1 .. n : f[i] = Amount(ls[i], R)
  <2>1. \A i \in 1 .. n : Amount(ls[i], R) \in Nat
    BY <1>1, AmountIsWeight
  <2>2. f \in [1 .. n -> Nat] /\ \A i \in 1 .. n : f[i] = Amount(ls[i], R)
    BY <1>1, <2>1
  <2> HIDE DEF f
  <2> QED
    BY <1>1, <2>2
<1> HIDE DEF f
<1>3. /\ p[0] = <<>> /\ \A k \in 0 .. n : p[k] \in Seq(Result)
      /\ \A k \in 0 .. n - 1 : p[k + 1] = p[k] \o ls[k + 1]
      /\ Flat(ls) \in Seq(Result) /\ Flat(ls) = p[n]
  BY JoinsAre DEF n, Flat
<1> HIDE DEF p
<1>4. /\ Sums(f)[0] = 0
      /\ \A k \in 0 .. n - 1 : Sums(f)[k + 1] = Sums(f)[k] + f[k + 1]
  BY <1>2, SumsStep
<1>5. 0 \in T
  <2>1. 0 \in 0 .. n
    BY <1>1
  <2>2. Amount(<<>>, R) = 0
    BY AmountOfNone
  <2> QED
    BY <1>3, <1>4, <2>1, <2>2
<1>6. ASSUME NEW k \in 0 .. n - 1, k \in T
      PROVE  k + 1 \in T
  <2>1. k \in 0 .. n /\ k + 1 \in 0 .. n /\ k + 1 \in 1 .. n
    BY <1>1
  <2>2. p[k] \in Seq(Result) /\ ls[k + 1] \in Seq(Result)
    BY <1>1, <1>3, <2>1
  <2>3. Amount(p[k] \o ls[k + 1], R) = Amount(p[k], R) + Amount(ls[k + 1], R)
    BY <2>2, AmountOfConcat
  <2>4. p[k + 1] = p[k] \o ls[k + 1]
    BY <1>3
  <2>5. Sums(f)[k + 1] = Sums(f)[k] + Amount(ls[k + 1], R)
    BY <1>2, <1>4, <2>1
  <2> QED
    BY <1>6, <2>1, <2>3, <2>4, <2>5
<1> HIDE DEF T
<1>7. \A k \in 0 .. n : k \in T
  BY <1>1, <1>5, <1>6, Induction
<1>8. Amount(p[n], R) = Sums(f)[n]
  BY <1>1, <1>7 DEF T
<1>9. Sums(f)[n] = InSlots(ls, R)
  BY <1>2 DEF InSlots, Total, f
<1> QED
  BY <1>3, <1>8, <1>9

(* The transfers in the queues, in the order of the queue heads.             *)
QueueWeights(q, R) == [e \in Endpoints |-> Amount(q[e], R)]

(* What the queues hold is the weight of the list of their endpoints.       *)
LEMMA QueuesAreWeight ==
  ASSUME NEW q \in Queues, NEW R
  PROVE  /\ QueueWeights(q, R) \in [Endpoints -> Nat]
         /\ \A e \in Endpoints : QueueWeights(q, R)[e] = Amount(q[e], R)
         /\ InQueues(q, R) = Weighed(Order, QueueWeights(q, R))
         /\ InQueues(q, R) \in Nat
<1>1. QueueWeights(q, R) \in [Endpoints -> Nat]
  <2>1. \A e \in Endpoints : q[e] \in Seq(Transfer)
    BY DEF Queues
  <2>2. \A e \in Endpoints : Amount(q[e], R) \in Nat
    BY <2>1, AmountIsWeight
  <2> QED
    BY <2>2 DEF QueueWeights
<1>2. \A e \in Endpoints : QueueWeights(q, R)[e] = Amount(q[e], R)
  BY DEF QueueWeights
<1>3. Order \in Seq(Endpoints)
  BY EHCIAssumption
<1>4. \A i \in DOMAIN Order : Order[i] \in Endpoints
  BY <1>3
<1>5. [i \in DOMAIN Order |-> Amount(q[Order[i]], R)]
          = [i \in DOMAIN Order |-> QueueWeights(q, R)[Order[i]]]
  BY <1>2, <1>4
<1>6. InQueues(q, R) = Weighed(Order, QueueWeights(q, R))
  BY <1>5 DEF InQueues, Weighed
<1>7. Weighed(Order, QueueWeights(q, R)) \in Nat
  BY <1>1, <1>3, WeightsOf
<1> QED
  BY <1>1, <1>2, <1>6, <1>7

(* Every endpoint has its place in the order.                                *)
LEMMA PlaceInOrder ==
  ASSUME NEW e \in Endpoints
  PROVE  \E j \in 1 .. Len(Order) :
            /\ Order[j] = e
            /\ \A i \in 1 .. Len(Order) : i # j => Order[i] # e
<1>1. /\ Order \in Seq(Endpoints) /\ e \in ToSet(Order) /\ IsInjective(Order)
      /\ DOMAIN Order = 1 .. Len(Order)
  BY EHCIAssumption
<1>2. PICK j \in 1 .. Len(Order) : Order[j] = e
  BY <1>1 DEF ToSet
<1>3. \A i \in 1 .. Len(Order) : i # j => Order[i] # e
  BY <1>1, <1>2 DEF IsInjective
<1> QED
  BY <1>2, <1>3

(* One queue changes.                                                        *)
LEMMA QueueChanges ==
  ASSUME NEW q \in Queues, NEW p \in Queues, NEW e \in Endpoints, NEW R,
         \A d \in Endpoints : d # e => p[d] = q[d]
  PROVE  InQueues(p, R) + Amount(q[e], R) = InQueues(q, R) + Amount(p[e], R)
<1> DEFINE v == QueueWeights(p, R)
           w == QueueWeights(q, R)
           s == [i \in DOMAIN Order |-> w[Order[i]]]
           t == [i \in DOMAIN Order |-> v[Order[i]]]
<1>1. /\ w \in [Endpoints -> Nat] /\ InQueues(q, R) = Weighed(Order, w)
      /\ \A d \in Endpoints : w[d] = Amount(q[d], R)
  BY QueuesAreWeight
<1>2. /\ v \in [Endpoints -> Nat] /\ InQueues(p, R) = Weighed(Order, v)
      /\ \A d \in Endpoints : v[d] = Amount(p[d], R)
  BY QueuesAreWeight
<1> HIDE DEF v, w, s, t
<1>3. Order \in Seq(Endpoints) /\ \A i \in 1 .. Len(Order) : Order[i] \in Endpoints
  BY EHCIAssumption
<1>4. /\ s \in Seq(Nat) /\ Len(s) = Len(Order) /\ Weighed(Order, w) = Total(s)
      /\ \A i \in 1 .. Len(Order) : s[i] = w[Order[i]]
  BY <1>1, <1>3, WeightsOf DEF s
<1>5. /\ t \in Seq(Nat) /\ Len(t) = Len(Order) /\ Weighed(Order, v) = Total(t)
      /\ \A i \in 1 .. Len(Order) : t[i] = v[Order[i]]
  BY <1>2, <1>3, WeightsOf DEF t
<1>6. PICK j \in 1 .. Len(Order) :
          /\ Order[j] = e /\ \A i \in 1 .. Len(Order) : i # j => Order[i] # e
  BY PlaceInOrder
<1>7. s[j] = Amount(q[e], R) /\ t[j] = Amount(p[e], R)
  BY <1>1, <1>2, <1>4, <1>5, <1>6
<1>8. \A i \in 1 .. Len(s) : i # j => t[i] = s[i]
  <2>1. \A d \in Endpoints : d # e => v[d] = w[d]
    BY <1>1, <1>2
  <2>2. ASSUME NEW i \in 1 .. Len(Order), i # j
        PROVE  t[i] = s[i]
    <3>1. Order[i] \in Endpoints /\ Order[i] # e
      BY <1>3, <1>6, <2>2
    <3>2. v[Order[i]] = w[Order[i]]
      BY <2>1, <3>1
    <3> QED
      BY <1>4, <1>5, <3>2
  <2> QED
    BY <1>4, <2>2
<1>9. Len(t) = Len(s) /\ j \in 1 .. Len(s)
  BY <1>4, <1>5
<1>10. Total(t) + s[j] = Total(s) + t[j]
  BY <1>4, <1>5, <1>8, <1>9, TotalOfChange
<1> QED
  BY <1>1, <1>2, <1>4, <1>5, <1>7, <1>10

(* A queue holds no more than all of them.                                   *)
LEMMA QueueIsPart ==
  ASSUME NEW q \in Queues, NEW e \in Endpoints, NEW R
  PROVE  Amount(q[e], R) <= InQueues(q, R)
<1> DEFINE w == QueueWeights(q, R)
<1>1. /\ w \in [Endpoints -> Nat] /\ InQueues(q, R) = Weighed(Order, w)
      /\ w[e] = Amount(q[e], R)
  BY QueuesAreWeight
<1> HIDE DEF w
<1>2. Order \in Seq(Endpoints)
  BY EHCIAssumption
<1>3. PICK j \in 1 .. Len(Order) : Order[j] = e
  BY PlaceInOrder
<1>4. w[Order[j]] <= Weighed(Order, w)
  BY <1>1, <1>2, WeightOfPart
<1> QED
  BY <1>1, <1>3, <1>4

(* The queues of the endpoints in l are cut: p has what is left, cut what    *)
(* was taken from each.                                                      *)
LEMMA QueuesCut ==
  ASSUME NEW q \in Queues, NEW p \in Queues,
         NEW cut \in [Endpoints -> Seq(Result)], NEW R,
         NEW l \in Seq(Endpoints), IsInjective(l),
         \A e \in Endpoints : IF e \in ToSet(l)
             THEN Amount(q[e], R) = Amount(cut[e], R) + Amount(p[e], R)
             ELSE p[e] = q[e]
  PROVE  InQueues(q, R)
             = InQueues(p, R) + InSlots([i \in DOMAIN l |-> cut[l[i]]], R)
<1> DEFINE x == [e \in Endpoints |-> IF e \in ToSet(l) THEN Amount(cut[e], R) ELSE 0]
           y == [e \in Endpoints |-> Amount(p[e], R)]
           z == [e \in Endpoints |-> IF e \in ToSet(l) THEN y[e] ELSE x[e] + y[e]]
           a == QueueWeights(q, R)
<1>1. \A e \in Endpoints : /\ Amount(cut[e], R) \in Nat /\ Amount(p[e], R) \in Nat
                           /\ Amount(q[e], R) \in Nat
  <2>1. \A e \in Endpoints : /\ cut[e] \in Seq(Result) /\ p[e] \in Seq(Transfer)
                             /\ q[e] \in Seq(Transfer)
    BY DEF Queues
  <2> QED
    BY <2>1, AmountIsWeight
<1>2. /\ x \in [Endpoints -> Nat] /\ y \in [Endpoints -> Nat]
      /\ z \in [Endpoints -> Nat]
      /\ \A e \in Endpoints : z[e] = IF e \in ToSet(l) THEN y[e] ELSE x[e] + y[e]
  BY <1>1
<1>3. \A e \in Endpoints : x[e] + y[e] = Amount(q[e], R) /\ z[e] = Amount(p[e], R)
  BY <1>1
<1>11. a \in [Endpoints -> Nat] /\ \A e \in Endpoints : a[e] = x[e] + y[e]
  BY <1>3, QueuesAreWeight
<1>12. z = QueueWeights(p, R)
  BY <1>3 DEF QueueWeights
<1>4. ToSet(l) \subseteq Endpoints
  BY DEF ToSet
<1>10. \A e \in ToSet(l) : x[e] = Amount(cut[e], R)
  BY <1>4
<1> HIDE DEF x, y, z, a
<1>5. /\ Order \in Seq(Endpoints) /\ ToSet(Order) = Endpoints /\ IsInjective(Order)
      /\ \A i \in DOMAIN Order : Order[i] \in Endpoints
  BY EHCIAssumption
<1>6. Weighed(Order, a) = Weighed(Order, z) + Weighed(l, x)
  <2>1. Enumerates(Order, Endpoints)
    BY <1>5 DEF Enumerates
  <2>2. /\ x \in Weights(Endpoints) /\ y \in Weights(Endpoints)
        /\ z \in Weights(Endpoints) /\ a \in Weights(Endpoints)
    BY <1>2, <1>11 DEF Weights
  <2>3. Leaves(Endpoints, ToSet(l), x, y, z)
    BY <1>2 DEF Leaves
  <2>4. Added(Endpoints, x, y, a)
    BY <1>11 DEF Added
  <2> QED
    BY <2>1, <2>2, <2>3, <2>4, WeightOverPart
<1>7. InQueues(q, R) = Weighed(Order, a)
  BY QueuesAreWeight DEF a
<1>8. InQueues(p, R) = Weighed(Order, z)
  BY <1>12, QueuesAreWeight
<1>9. [i \in DOMAIN l |-> x[l[i]]]
          = [i \in DOMAIN [k \in DOMAIN l |-> cut[l[k]]] |->
                Amount([k \in DOMAIN l |-> cut[l[k]]][i], R)]
  <2>1. \A i \in DOMAIN l : l[i] \in ToSet(l)
    BY DEF ToSet
  <2>2. \A i \in DOMAIN l : x[l[i]] = Amount(cut[l[i]], R)
    BY <1>10, <2>1
  <2> QED
    BY <2>2
<1> QED
  BY <1>6, <1>7, <1>8, <1>9 DEF InSlots, Weighed

-----------------------------------------------------------------------------
(* The lists of queue heads.                                                 *)

(* s has the elements of a and of b, and each of them once if they have.     *)
Unites(s, a, b) ==
    /\ s \in Seq(Endpoints) /\ ToSet(s) = ToSet(a) \cup ToSet(b)
    /\ IsInjective(a) /\ IsInjective(b) /\ ToSet(a) \cap ToSet(b) = {}
           => IsInjective(s)

(* A list behind another has the elements of both.                           *)
LEMMA ConcatUnites ==
  ASSUME NEW s \in Seq(Endpoints), NEW t \in Seq(Endpoints)
  PROVE  Unites(s \o t, s, t)
<1>1. s \o t \in Seq(Endpoints)
  OBVIOUS
<1> QED
  BY <1>1, SetOfConcat DEF Unites

(* A list that is put behind the first of another.                           *)
LEMMA BehindHead ==
  ASSUME NEW l \in Seq(Endpoints), l # <<>>, NEW m \in Seq(Endpoints)
  PROVE  /\ <<Head(l)>> \o m \o Tail(l) \in Seq(Endpoints)
         /\ Unites(<<Head(l)>> \o m \o Tail(l), l, m)
<1> DEFINE h == <<Head(l)>>
           t == Tail(l)
           a == h \o m
<1>1. /\ Head(l) \in Endpoints /\ t \in Seq(Endpoints)
      /\ ToSet(l) = {Head(l)} \cup ToSet(t)
      /\ IsInjective(l) => IsInjective(t) /\ Head(l) \notin ToSet(t)
  BY SetOfTail
<1>2. h \in Seq(Endpoints) /\ ToSet(h) = {Head(l)} /\ IsInjective(h)
  BY <1>1, SetOfOne
<1> HIDE DEF h, t
<1>3. Unites(h \o m, h, m)
  BY <1>2, ConcatUnites
<1>4. a \in Seq(Endpoints)
  BY <1>3 DEF Unites
<1>5. Unites(a \o t, a, t)
  BY <1>1, <1>4, ConcatUnites
<1>6. a \o t \in Seq(Endpoints) /\ ToSet(a \o t) = ToSet(l) \cup ToSet(m)
  BY <1>1, <1>2, <1>3, <1>5 DEF Unites
<1>7. ASSUME IsInjective(l), IsInjective(m), ToSet(l) \cap ToSet(m) = {}
      PROVE  IsInjective(a \o t)
  <2>1. IsInjective(a)
    BY <1>1, <1>2, <1>3, <1>7 DEF Unites
  <2>2. ToSet(a) \cap ToSet(t) = {}
    BY <1>1, <1>2, <1>3, <1>7 DEF Unites
  <2> QED
    BY <1>1, <1>5, <1>7, <2>1, <2>2 DEF Unites
<1> QED
  BY <1>6, <1>7 DEF Unites, h, t

(* A queue head that is linked.                                              *)
LEMMA LinkIs ==
  ASSUME NEW l \in Seq(Endpoints), NEW e \in Endpoints
  PROVE  /\ linkAsyncEndpoint(l, e) \in Seq(Endpoints)
         /\ ToSet(linkAsyncEndpoint(l, e)) = ToSet(l) \cup {e}
         /\ IsInjective(l) /\ e \notin ToSet(l)
                => IsInjective(linkAsyncEndpoint(l, e))
<1> DEFINE m == <<e>>
<1>1. m \in Seq(Endpoints) /\ ToSet(m) = {e} /\ IsInjective(m)
  BY SetOfOne
<1>2. CASE l = <<>>
  <2>1. linkAsyncEndpoint(l, e) = m /\ ToSet(l) = {}
    BY <1>2 DEF linkAsyncEndpoint, ToSet
  <2> QED
    BY <1>1, <2>1
<1>3. CASE l # <<>>
  <2> DEFINE r == <<Head(l)>> \o m \o Tail(l)
  <2>1. linkAsyncEndpoint(l, e) = r
    <3>1. <<Head(l), e>> = <<Head(l)>> \o <<e>>
      OBVIOUS
    <3> QED
      BY <1>3, <3>1 DEF linkAsyncEndpoint
  <2> HIDE DEF m
  <2>2. Unites(r, l, m)
    BY <1>1, <1>3, BehindHead
  <2> HIDE DEF r
  <2>3. e \notin ToSet(l) => ToSet(l) \cap ToSet(m) = {}
    BY <1>1
  <2> QED
    BY <1>1, <2>1, <2>2, <2>3 DEF Unites
<1> QED
  BY <1>2, <1>3

(* One that is taken off.                                                    *)
LEMMA UnlinkIs ==
  ASSUME NEW l \in Seq(Endpoints), NEW e
  PROVE  /\ unlinkAsyncEndpoint(l, e) \in Seq(Endpoints)
         /\ ToSet(unlinkAsyncEndpoint(l, e)) = ToSet(l) \ {e}
         /\ IsInjective(l) => IsInjective(unlinkAsyncEndpoint(l, e))
<1>1. ToSet(l) \subseteq Endpoints
  BY DEF ToSet
<1>2. /\ Only(l, Endpoints \ {e}) \in Seq(Endpoints)
      /\ ToSet(Only(l, Endpoints \ {e})) = ToSet(l) \cap (Endpoints \ {e})
      /\ IsInjective(l) => IsInjective(Only(l, Endpoints \ {e}))
  BY OnlyIs
<1> QED
  BY <1>1, <1>2 DEF unlinkAsyncEndpoint

(* Several that are linked one after the other.                              *)
LEMMA LinkedInTurnIs ==
  ASSUME NEW l \in Seq(Endpoints), NEW new \in Seq(Endpoints), new # <<>>
  PROVE  Unites(LinkedInTurn(l, new), l, new)
<1>1. CASE l = <<>>
  <2> DEFINE h == <<Head(new)>>
             t == Tail(new)
  <2>1. /\ Head(new) \in Endpoints /\ t \in Seq(Endpoints)
        /\ ToSet(new) = {Head(new)} \cup ToSet(t)
        /\ IsInjective(new) => IsInjective(t) /\ Head(new) \notin ToSet(t)
    BY SetOfTail
  <2>2. h \in Seq(Endpoints) /\ ToSet(h) = {Head(new)} /\ IsInjective(h)
    BY <2>1, SetOfOne
  <2>3. LinkedInTurn(l, new) = h \o Reverse(t) /\ ToSet(l) = {}
    BY <1>1 DEF LinkedInTurn, ToSet
  <2> HIDE DEF h, t
  <2>4. /\ Reverse(t) \in Seq(Endpoints) /\ ToSet(Reverse(t)) = ToSet(t)
        /\ IsInjective(t) => IsInjective(Reverse(t))
    BY <2>1, SetOfReverse
  <2>5. Unites(h \o Reverse(t), h, Reverse(t))
    BY <2>2, <2>4, ConcatUnites
  <2>6. ASSUME IsInjective(new)
        PROVE  IsInjective(h \o Reverse(t))
    <3>1. IsInjective(Reverse(t)) /\ ToSet(h) \cap ToSet(Reverse(t)) = {}
      BY <2>1, <2>2, <2>4, <2>6
    <3> QED
      BY <2>2, <2>5, <3>1 DEF Unites
  <2> QED
    BY <2>1, <2>2, <2>3, <2>4, <2>5, <2>6 DEF Unites
<1>2. CASE l # <<>>
  <2> DEFINE m == Reverse(new)
             r == <<Head(l)>> \o m \o Tail(l)
  <2>1. m \in Seq(Endpoints) /\ ToSet(m) = ToSet(new)
        /\ (IsInjective(new) => IsInjective(m))
    BY SetOfReverse
  <2>2. LinkedInTurn(l, new) = r
    BY <1>2 DEF LinkedInTurn
  <2> HIDE DEF m
  <2>3. Unites(r, l, m)
    BY <1>2, <2>1, BehindHead
  <2> HIDE DEF r
  <2> QED
    BY <2>1, <2>2, <2>3 DEF Unites
<1> QED
  BY <1>1, <1>2

(* Looking for an endpoint may make it active and changes nothing else.      *)
LEMMA FindKeeps ==
  ASSUME NEW e \in Endpoints, Apart(lists, open),
         NEW l, l = FindControlBulkEndpoint(e)
  PROVE  /\ Apart(l, open) /\ ToSet(lists.active) \subseteq ToSet(l.active)
         /\ l.disabled = lists.disabled
         /\ ToSet(l.active) \subseteq ToSet(lists.active) \cup {e}
         /\ Found(e) <=> e \in ToSet(l.active)
<1> DEFINE a == lists.active
           i == lists.inactive
           d == lists.disabled
<1>1. /\ a \in Seq(Endpoints) /\ i \in Seq(Endpoints) /\ d \in Seq(Endpoints)
      /\ lists = [active |-> a, inactive |-> i, disabled |-> d]
  BY DEF Apart
<1>2. /\ IsInjective(a) /\ IsInjective(i) /\ IsInjective(d)
      /\ ToSet(a) \cap ToSet(i) = {} /\ ToSet(a) \cap ToSet(d) = {}
      /\ ToSet(i) \cap ToSet(d) = {}
      /\ ToSet(a) \cup ToSet(i) \cup ToSet(d) = open
  BY DEF Apart
<1>3. (Contains(a, e) <=> e \in ToSet(a)) /\ (Contains(i, e) <=> e \in ToSet(i))
  BY <1>1, ContainsIs
<1>4. ASSUME l.active \in Seq(Endpoints)
      PROVE  Found(e) <=> e \in ToSet(l.active)
  BY <1>4, ContainsIs DEF Found
<1>5. CASE e \in ToSet(a) \/ e \notin ToSet(i)
  <2>1. l = lists
    BY <1>3, <1>5 DEF FindControlBulkEndpoint
  <2> QED
    BY <1>1, <1>4, <2>1
<1>6. CASE e \notin ToSet(a) /\ e \in ToSet(i)
  <2> DEFINE b == linkAsyncEndpoint(a, e)
             j == unlinkAsyncEndpoint(i, e)
  <2>1. l = [lists EXCEPT !.active = b, !.inactive = j]
    BY <1>3, <1>6 DEF FindControlBulkEndpoint
  <2>2. /\ b \in Seq(Endpoints) /\ ToSet(b) = ToSet(a) \cup {e}
        /\ IsInjective(a) /\ e \notin ToSet(a) => IsInjective(b)
    BY <1>1, LinkIs
  <2>3. /\ j \in Seq(Endpoints) /\ ToSet(j) = ToSet(i) \ {e}
        /\ IsInjective(i) => IsInjective(j)
    BY <1>1, UnlinkIs
  <2> HIDE DEF a, b, d, i, j
  <2>4. l = [active |-> b, inactive |-> j, disabled |-> d]
    BY <1>1, <2>1
  <2>5. l.active = b /\ l.inactive = j /\ l.disabled = d
    BY <2>4
  <2>6. l \in [active : Seq(Endpoints), inactive : Seq(Endpoints),
               disabled : Seq(Endpoints)]
    BY <1>1, <2>2, <2>3, <2>4
  <2>7. /\ IsInjective(b) /\ IsInjective(j) /\ ToSet(b) \cap ToSet(j) = {}
        /\ ToSet(b) \cap ToSet(d) = {} /\ ToSet(j) \cap ToSet(d) = {}
        /\ ToSet(b) \cup ToSet(j) \cup ToSet(d) = open
    BY <1>2, <1>6, <2>2, <2>3
  <2>8. Apart(l, open)
    BY <1>2, <2>5, <2>6, <2>7 DEF Apart
  <2> QED
    BY <1>4, <2>2, <2>5, <2>8 DEF a, d
<1> QED
  BY <1>5, <1>6

(* An endpoint that is halted is linked again at another place.              *)
LEMMA HaltKeeps ==
  ASSUME NEW l, Apart(l, open), NEW e \in ToSet(l.active), schedule \in BOOLEAN,
         HaltAsyncEndpoint(l, e)
  PROVE  /\ Apart(lists', open) /\ ToSet(lists.active)' = ToSet(l.active)
         /\ lists.disabled' = l.disabled
         /\ schedule' \in BOOLEAN /\ (schedule => schedule')
<1>1. CASE Halted(e)
  BY <1>1 DEF HaltAsyncEndpoint
<1>2. CASE ~Halted(e)
  <2> DEFINE a == l.active
             i == l.inactive
             d == l.disabled
             u == unlinkAsyncEndpoint(a, e)
             b == linkAsyncEndpoint(u, e)
  <2>1. lists' = [l EXCEPT !.active = b] /\ schedule' = TRUE
    BY <1>2 DEF HaltAsyncEndpoint
  <2>2. /\ a \in Seq(Endpoints) /\ i \in Seq(Endpoints) /\ d \in Seq(Endpoints)
        /\ l = [active |-> a, inactive |-> i, disabled |-> d]
    BY DEF Apart
  <2>3. /\ IsInjective(a) /\ IsInjective(i) /\ IsInjective(d)
        /\ ToSet(a) \cap ToSet(i) = {} /\ ToSet(a) \cap ToSet(d) = {}
        /\ ToSet(i) \cap ToSet(d) = {}
        /\ ToSet(a) \cup ToSet(i) \cup ToSet(d) = open
    BY DEF Apart
  <2>4. e \in Endpoints
    BY <2>2 DEF ToSet
  <2>5. /\ u \in Seq(Endpoints) /\ ToSet(u) = ToSet(a) \ {e} /\ IsInjective(u)
    BY <2>2, <2>3, UnlinkIs
  <2> HIDE DEF u
  <2>6. /\ b \in Seq(Endpoints) /\ ToSet(b) = ToSet(u) \cup {e}
        /\ IsInjective(u) /\ e \notin ToSet(u) => IsInjective(b)
    BY <2>4, <2>5, LinkIs
  <2> HIDE DEF b
  <2>7. /\ lists.active' = b /\ lists.inactive' = i /\ lists.disabled' = d
        /\ lists' = [active |-> b, inactive |-> i, disabled |-> d]
    BY <2>1, <2>2
  <2>8. ToSet(b) = ToSet(a) /\ IsInjective(b)
    BY <2>5, <2>6
  <2> HIDE DEF a, i, d
  <2>9. Apart(lists', open)
    BY <2>2, <2>3, <2>6, <2>7, <2>8 DEF Apart
  <2> QED
    BY <2>1, <2>7, <2>8, <2>9 DEF a, d
<1> QED
  BY <1>1, <1>2

(* An endpoint that is taken off belongs to no list any more.                *)
LEMMA UnlinkedKeeps ==
  ASSUME NEW l, Apart(l, open), NEW e \in ToSet(l.active), schedule \in BOOLEAN,
         Unlinked(l, e)
  PROVE  /\ Apart(lists', open \ {e})
         /\ ToSet(lists.active)' = ToSet(l.active) \ {e}
         /\ lists.inactive' = l.inactive /\ lists.disabled' = l.disabled
         /\ schedule' \in BOOLEAN
         /\ schedule /\ ToSet(l.active) # {e} => schedule'
<1> DEFINE a == l.active
           i == l.inactive
           d == l.disabled
           u == unlinkAsyncEndpoint(a, e)
<1>1. lists' = [l EXCEPT !.active = u] /\ schedule' = (schedule /\ Len(a) > 1)
  BY DEF Unlinked
<1>2. /\ a \in Seq(Endpoints) /\ i \in Seq(Endpoints) /\ d \in Seq(Endpoints)
      /\ l = [active |-> a, inactive |-> i, disabled |-> d]
  BY DEF Apart
<1>3. /\ IsInjective(a) /\ IsInjective(i) /\ IsInjective(d)
      /\ ToSet(a) \cap ToSet(i) = {} /\ ToSet(a) \cap ToSet(d) = {}
      /\ ToSet(i) \cap ToSet(d) = {}
      /\ ToSet(a) \cup ToSet(i) \cup ToSet(d) = open
  BY DEF Apart
<1>4. /\ u \in Seq(Endpoints) /\ ToSet(u) = ToSet(a) \ {e} /\ IsInjective(u)
  BY <1>2, <1>3, UnlinkIs
<1>5. ToSet(a) # {e} => Len(a) > 1
  <2>1. Len(a) \in Nat /\ DOMAIN a = 1 .. Len(a)
    BY <1>2
  <2>2. ASSUME ~(Len(a) > 1) PROVE \A x \in ToSet(a) : x = a[1]
    BY <2>1, <2>2 DEF ToSet
  <2>3. e \in ToSet(a)
    OBVIOUS
  <2> QED
    BY <2>2, <2>3
<1> HIDE DEF u
<1>6. /\ lists.active' = u /\ lists.inactive' = i /\ lists.disabled' = d
      /\ lists' = [active |-> u, inactive |-> i, disabled |-> d]
  BY <1>1, <1>2
<1>7. e \in ToSet(a)
  OBVIOUS
<1> HIDE DEF a, i, d
<1>8. Apart(lists', open \ {e})
  <2>1. ToSet(u) \cup ToSet(i) \cup ToSet(d) = open \ {e}
    BY <1>3, <1>4, <1>7
  <2>2. ToSet(u) \cap ToSet(i) = {} /\ ToSet(u) \cap ToSet(d) = {}
    BY <1>3, <1>4
  <2> QED
    BY <1>2, <1>3, <1>4, <1>6, <2>1, <2>2 DEF Apart
<1> QED
  BY <1>1, <1>4, <1>5, <1>6, <1>8 DEF a, i, d

-----------------------------------------------------------------------------
(* The done queues.                                                          *)

(* The results of transfers are as many as these, of the same requests.      *)
LEMMA DoneIs ==
  ASSUME NEW ts \in Seq(Transfer), NEW s \in {"hardware", "returned", "timeout"},
         NEW R
  PROVE  /\ Done(ts, s) \in Seq(Result) /\ Amount(Done(ts, s), R) = Amount(ts, R)
         /\ ts # <<>> <=> Done(ts, s) # <<>>
<1> DEFINE ds == Done(ts, s)
           n == Len(ts)
<1>1. n \in Nat /\ DOMAIN ts = 1 .. n /\ \A i \in 1 .. n : ts[i] \in Transfer
  OBVIOUS
<1>2. \A i \in 1 .. n : ts[i].req \in Requests
  BY <1>1 DEF Transfer
<1>3. ds = [i \in 1 .. n |-> [req |-> ts[i].req, status |->
               IF s # "hardware" THEN s
               ELSE IF ts[i].hw = "halted" THEN "stall" ELSE "success"]]
  BY <1>1 DEF Done
<1> HIDE DEF n, ds
<1>4. /\ DOMAIN ds = 1 .. n
      /\ \A i \in 1 .. n : ds[i] \in Result /\ ds[i].req = ts[i].req
  BY <1>2, <1>3 DEF Result, Errors
<1>5. ds \in Seq(Result) /\ Len(ds) = n
  <2>1. ds \in [1 .. n -> Result]
    BY <1>3, <1>4
  <2> QED
    BY <1>1, <2>1
<1>6. Amount(ds, R) = Amount(ts, R)
  BY <1>1, <1>4, AmountOfSame
<1>7. ts # <<>> <=> ds # <<>>
  BY <1>1, <1>5 DEF n
<1> QED
  BY <1>5, <1>6, <1>7 DEF ds

(* EHCIUIMDoDoneQueueProcessing takes the list over, whichever way it goes.  *)
LEMMA DoneQueueTakes ==
  ASSUME NEW fs, Nested(fs, slots, nextDoneQueue), NEW list \in Seq(Result),
         NEW then \in Clients, EHCIUIMDoDoneQueueProcessing(fs, list, then)
  PROVE  /\ Nested(frames, slots, nextDoneQueue)' /\ Calls(frames') = Calls(fs)
         /\ \A R : InGate(frames', slots', R)
                       = InGate(fs, slots, R) + Amount(list, R)
<1> DEFINE n == nextDoneQueue
           m == nextDoneQueue'
           ss == slots
           f == [list |-> list, calling |-> FALSE, then |-> then]
<1>1. /\ fs \in Seq(Frames) /\ ss \in Seq(Seq(Result)) /\ n \in 0 .. Slots
      /\ fs = <<>> => n = 0 /\ ss = <<>>
      /\ fs # <<>> => Len(ss) < n
      /\ Slots \in Nat \ {0} /\ Len(ss) \in Nat
  BY EHCIAssumption DEF Nested
<1>2. \A R : /\ InFrames(fs, R) \in Nat /\ InSlots(ss, R) \in Nat
             /\ Amount(list, R) \in Nat
  BY <1>1, FramesAreWeight, SlotsAreWeight, AmountIsWeight
<1>3. CASE list = <<>> /\ frames' = fs /\ UNCHANGED <<slots, nextDoneQueue>>
  <2>1. \A R : Amount(list, R) = 0
    BY <1>3, AmountOfNone
  <2>2. \A R : InGate(frames', slots', R) = InGate(fs, slots, R)
    BY <1>3
  <2>3. \A R : InGate(fs, slots, R) \in Nat
    BY <1>2 DEF InGate
  <2> QED
    BY <1>3, <2>1, <2>2, <2>3
<1>4. CASE /\ Deferred /\ frames' = fs /\ slots' = Append(slots, list)
           /\ nextDoneQueue' = nextDoneQueue + 1
  <2> DEFINE more == Append(ss, list)
  <2>1. /\ n \in 1 .. Slots - 1 /\ m = n + 1 /\ fs # <<>>
    BY <1>1, <1>4 DEF Deferred
  <2>2. /\ more \in Seq(Seq(Result)) /\ Len(more) = Len(ss) + 1
        /\ \A R : InSlots(more, R) = InSlots(ss, R) + Amount(list, R)
    BY <1>1, SlotsMore
  <2>3. frames' = fs /\ slots' = more
    BY <1>4
  <2> HIDE DEF n, m, more, ss
  <2>4. m \in 0 .. Slots /\ Len(more) < m
    BY <1>1, <2>1, <2>2
  <2>5. Nested(frames, slots, nextDoneQueue)'
    BY <1>1, <2>1, <2>2, <2>3, <2>4 DEF Nested, m
  <2>6. ASSUME NEW R
        PROVE  InGate(frames', slots', R) = InGate(fs, slots, R) + Amount(list, R)
    <3> DEFINE x == InFrames(fs, R)
               y == InSlots(ss, R)
               z == Amount(list, R)
               v == InSlots(more, R)
    <3>1. x \in Nat /\ y \in Nat /\ z \in Nat /\ v = y + z
      BY <1>2, <2>2
    <3>2. InGate(frames', slots', R) = x + v /\ InGate(fs, slots, R) = x + y
      BY <2>3 DEF InGate, ss
    <3> HIDE DEF x, y, z, v
    <3>3. x + v = (x + y) + z
      BY <3>1
    <3> QED
      BY <3>2, <3>3 DEF z
  <2> QED
    BY <2>3, <2>5, <2>6
<1>5. CASE /\ list # <<>> /\ ~Deferred /\ frames' = <<f>> \o fs /\ slots' = slots
           /\ nextDoneQueue' = IF nextDoneQueue = 0 THEN 1 ELSE nextDoneQueue
  <2>1. f \in Frames /\ Waiting(f) = list /\ ~f.calling
    BY DEF Frames, Call, Waiting
  <2> HIDE DEF f
  <2>2. /\ <<f>> \o fs \in Seq(Frames)
        /\ Calls(<<f>> \o fs) = 0 + Calls(fs)
        /\ \A R : InFrames(<<f>> \o fs, R) = Amount(list, R) + InFrames(fs, R)
    BY <1>1, <2>1, FramesMore
  <2>3. Calls(<<f>> \o fs) = Calls(fs)
    BY <1>1, <2>2, FramesAreWeight
  <2>4. <<f>> \o fs # <<>>
    BY <1>1
  <2> DEFINE more == <<f>> \o fs
  <2>5. frames' = more /\ slots' = ss
    BY <1>5
  <2>6. m \in 0 .. Slots /\ Len(ss) < m
    <3>1. CASE n = 0
      <4>1. m = 1 /\ fs = <<>> /\ ss = <<>>
        BY <1>1, <1>5, <3>1
      <4> QED
        BY <1>1, <4>1
    <3>2. CASE n # 0
      BY <1>1, <1>5, <3>2
    <3> QED
      BY <3>1, <3>2
  <2> HIDE DEF more, m, ss
  <2>7. Nested(frames, slots, nextDoneQueue)'
    BY <1>1, <2>2, <2>4, <2>5, <2>6 DEF Nested, m, more
  <2>8. ASSUME NEW R
        PROVE  InGate(frames', slots', R) = InGate(fs, slots, R) + Amount(list, R)
    <3> DEFINE x == InFrames(fs, R)
               y == InSlots(ss, R)
               z == Amount(list, R)
               v == InFrames(more, R)
    <3>1. x \in Nat /\ y \in Nat /\ z \in Nat /\ v = z + x
      BY <1>2, <2>2 DEF more
    <3>2. InGate(frames', slots', R) = v + y /\ InGate(fs, slots, R) = x + y
      BY <2>5 DEF InGate, ss
    <3> HIDE DEF x, y, z, v
    <3>3. v + y = (x + y) + z
      BY <3>1
    <3> QED
      BY <3>2, <3>3 DEF z
  <2> QED
    BY <2>3, <2>5, <2>7, <2>8 DEF more
<1> QED
  BY <1>3, <1>4, <1>5 DEF EHCIUIMDoDoneQueueProcessing

(* What is left of a queue whose first n transfers are taken.                *)
LEMMA RestOfQueue ==
  ASSUME NEW ts \in Seq(Transfer), FollowedIn(ts), NEW n \in 0 .. Len(ts)
  PROVE  /\ FollowedIn(SubSeq(ts, n + 1, Len(ts)))
         /\ Active(SubSeq(ts, n + 1, Len(ts))) => Active(ts)
         /\ n = Len(ts) => ~Active(SubSeq(ts, n + 1, Len(ts)))
<1> DEFINE m == Len(ts)
           u == SubSeq(ts, n + 1, m)
<1>1. m \in Nat /\ n \in Nat /\ n <= m /\ DOMAIN ts = 1 .. m
  OBVIOUS
<1>2. /\ u \in Seq(Transfer) /\ Len(u) = m - n /\ DOMAIN u = 1 .. m - n
      /\ \A i \in 1 .. m - n : u[i] = ts[n + i]
  <2> HIDE DEF m
  <2>1. /\ u \in Seq(Transfer) /\ Len(u) = m - n
        /\ \A i \in 1 .. m - n : u[i] = ts[n + i]
    BY <1>1 DEF m
  <2> HIDE DEF u
  <2> QED
    BY <2>1
<1> HIDE DEF m, u
<1>3. \A i \in 1 .. m - n : n + i \in 1 .. m /\ (n + i) + 1 = n + (i + 1)
  BY <1>1
<1>4. \A i \in 1 .. m - n : n + (i + 1) \in 1 .. m => i + 1 \in 1 .. m - n
  BY <1>1
<1>5. FollowedIn(u)
  <2>1. ASSUME NEW i \in 1 .. m - n, u[i].stage = "setup"
        PROVE  i + 1 \in 1 .. m - n
    <3>1. ts[n + i].stage = "setup" /\ n + i \in 1 .. m
      BY <1>2, <1>3, <2>1
    <3>2. (n + i) + 1 \in 1 .. m
      BY <3>1 DEF FollowedIn, m
    <3> QED
      BY <1>3, <1>4, <3>2
  <2> QED
    BY <1>2, <2>1 DEF FollowedIn
<1>6. Active(u) => Active(ts)
  BY <1>1, <1>2, <1>3 DEF Active
<1>7. n = m => ~Active(u)
  BY <1>1, <1>2 DEF Active
<1> QED
  BY <1>5, <1>6, <1>7 DEF m, u

(* Clearing the Halted bit of the first transfer leaves whose it is, and no  *)
(* transfer becomes active.                                                  *)
LEMMA UnhaltedIs ==
  ASSUME NEW ts \in Seq(Transfer)
  PROVE  /\ Unhalted(ts) \in Seq(Transfer) /\ DOMAIN Unhalted(ts) = DOMAIN ts
         /\ \A R : Amount(Unhalted(ts), R) = Amount(ts, R)
         /\ FollowedIn(ts) => FollowedIn(Unhalted(ts))
         /\ Active(Unhalted(ts)) <=> Active(ts)
         /\ \A i \in DOMAIN ts : Unhalted(ts)[i].hw = "halted" =>
               i # 1 /\ Unhalted(ts)[i] = ts[i]
<1> DEFINE u == Unhalted(ts)
           m == Len(ts)
<1>1. m \in Nat /\ DOMAIN ts = 1 .. m /\ \A i \in 1 .. m : ts[i] \in Transfer
  OBVIOUS
<1>2. u = [i \in 1 .. m |->
         IF i = 1 /\ ts[i].hw = "halted" THEN [ts[i] EXCEPT !.hw = "done"] ELSE ts[i]]
  BY <1>1 DEF Unhalted
<1> HIDE DEF u, m
<1>3. \A i \in 1 .. m :
         /\ u[i] \in Transfer /\ u[i].req = ts[i].req /\ u[i].stage = ts[i].stage
         /\ u[i].hw = "active" <=> ts[i].hw = "active"
         /\ u[i].hw = "halted" => i # 1 /\ u[i] = ts[i]
  BY <1>1, <1>2 DEF Transfer, Hws
<1>4. u \in Seq(Transfer) /\ Len(u) = m /\ DOMAIN u = 1 .. m
  BY <1>1, <1>2, <1>3
<1>5. ASSUME NEW R PROVE Amount(u, R) = Amount(ts, R)
  BY <1>1, <1>3, <1>4, AmountOfSame
<1>6. FollowedIn(ts) => FollowedIn(u)
  BY <1>3, <1>4 DEF FollowedIn, m
<1>7. Active(u) <=> Active(ts)
  BY <1>1, <1>3, <1>4 DEF Active
<1> QED
  BY <1>1, <1>3, <1>4, <1>5, <1>6, <1>7 DEF u

(* The overlay moves with the transfers.                                     *)
LEMMA ShiftedIs ==
  ASSUME overlay \in [Endpoints -> Overlays], NEW e \in Endpoints, NEW n \in Nat
  PROVE  /\ Shifted(e, n) \in Overlays
         /\ \A s \in {"clear", "active", "halted", "stale"} :
               [Shifted(e, n) EXCEPT !.status = s] \in Overlays
<1>1. overlay[e] \in Overlays
  OBVIOUS
<1>2. overlay[e].current \in Nat
  BY <1>1 DEF Overlays
<1>3. (IF overlay[e].current > n THEN overlay[e].current - n ELSE 0) \in Nat
  BY <1>2
<1>4. Shifted(e, n) \in Overlays
  BY <1>1, <1>3 DEF Shifted, Overlays
<1> QED
  BY <1>4 DEF Overlays

(* The transfers of one queue go to the gate, and nowhere else.              *)
LEMMA ReturnsKeep ==
  ASSUME NEW fs, Nested(fs, slots, nextDoneQueue), queue \in Queues, Followed,
         overlay \in [Endpoints -> Overlays],
         NEW e \in Endpoints, NEW n \in 0 .. Len(queue[e]),
         NEW error \in {"returned", "timeout"}, NEW then \in Clients,
         returnTransactions(e, n, error, fs, then)
  PROVE  /\ Nested(frames, slots, nextDoneQueue)' /\ Calls(frames') = Calls(fs)
         /\ queue' \in Queues /\ overlay' \in [Endpoints -> Overlays] /\ Followed'
         /\ \A R : Around(queue', frames', slots', R) = Around(queue, fs, slots, R)
         /\ \A d \in Endpoints : Active(queue'[d]) => Active(queue[d])
         /\ n = Len(queue[e]) => ~Active(queue'[e])
<1> DEFINE ts == queue[e]
           a == SubSeq(ts, 1, n)
           b == SubSeq(ts, n + 1, Len(ts))
           c == Unhalted(b)
           ds == Done(a, error)
<1>1. /\ queue' = [queue EXCEPT ![e] = c]
      /\ \E s \in {"clear", "stale"} :
            overlay' = [overlay EXCEPT ![e] = [Shifted(e, n) EXCEPT !.status = s]]
      /\ EHCIUIMDoDoneQueueProcessing(fs, ds, then)
  BY DEF returnTransactions
<1>2. ts \in Seq(Transfer) /\ FollowedIn(ts)
  BY DEF Queues, Followed
<1>3. n \in 0 .. Len(ts)
  OBVIOUS
<1> HIDE DEF ts
<1>4. /\ a \in Seq(Transfer) /\ b \in Seq(Transfer)
      /\ \A R : Amount(ts, R) = Amount(a, R) + Amount(b, R)
  BY <1>2, <1>3, AmountOfParts
<1>5. /\ FollowedIn(b) /\ (Active(b) => Active(ts)) /\ (n = Len(ts) => ~Active(b))
  BY <1>2, <1>3, RestOfQueue
<1> HIDE DEF a, b
<1>13. /\ c \in Seq(Transfer) /\ FollowedIn(c)
       /\ (Active(c) => Active(ts)) /\ (n = Len(ts) => ~Active(c))
       /\ \A R : Amount(c, R) = Amount(b, R)
  BY <1>4, <1>5, UnhaltedIs
<1> HIDE DEF c
<1>6. ds \in Seq(Result) /\ \A R : Amount(ds, R) = Amount(a, R)
  BY <1>4, DoneIs
<1> HIDE DEF ds
<1>7. /\ Nested(frames, slots, nextDoneQueue)' /\ Calls(frames') = Calls(fs)
      /\ \A R : InGate(frames', slots', R) = InGate(fs, slots, R) + Amount(ds, R)
  BY <1>1, <1>6, DoneQueueTakes
<1>8. /\ queue' \in Queues /\ queue'[e] = c
      /\ \A d \in Endpoints : d # e => queue'[d] = queue[d]
  BY <1>1, <1>13 DEF Queues
<1>9. overlay' \in [Endpoints -> Overlays]
  <2>1. n \in Nat
    BY <1>2, <1>3
  <2>2. PICK s \in {"clear", "stale"} :
           overlay' = [overlay EXCEPT ![e] = [Shifted(e, n) EXCEPT !.status = s]]
    BY <1>1
  <2>3. [Shifted(e, n) EXCEPT !.status = s] \in Overlays
    BY <2>1, ShiftedIs
  <2> QED
    BY <2>2, <2>3
<1>10. Followed'
  BY <1>13, <1>8 DEF Followed
<1>11. ASSUME NEW R
       PROVE  Around(queue', frames', slots', R) = Around(queue, fs, slots, R)
  <2> DEFINE x == InQueues(queue, R)
             y == InQueues(queue', R)
             g == InGate(fs, slots, R)
             h == InGate(frames', slots', R)
             u == Amount(a, R)
             v == Amount(b, R)
  <2>1. InQueues(queue', R) + Amount(queue[e], R)
            = InQueues(queue, R) + Amount(queue'[e], R)
    BY <1>8, QueueChanges
  <2>2. y + (u + v) = x + v /\ h = g + u
    BY <1>4, <1>6, <1>7, <1>8, <1>13, <2>1 DEF ts
  <2>3. u \in Nat /\ v \in Nat /\ x \in Nat /\ y \in Nat
    BY <1>4, <1>8, AmountIsWeight, QueuesAreWeight
  <2>4. g \in Nat
    <3>1. fs \in Seq(Frames) /\ slots \in Seq(Seq(Result))
      BY DEF Nested
    <3> QED
      BY <3>1, FramesAreWeight, SlotsAreWeight DEF InGate
  <2>5. Around(queue', frames', slots', R) = y + h
        /\ Around(queue, fs, slots, R) = x + g
    BY DEF Around
  <2> HIDE DEF x, y, g, h, u, v
  <2>6. y + h = x + g
    BY <2>2, <2>3, <2>4
  <2> QED
    BY <2>5, <2>6
<1> QED
  BY <1>7, <1>8, <1>9, <1>10, <1>11, <1>13 DEF ts

(* UIMAbortEndpoint and UIMClearEndpointStall, called from fs.               *)
LEMMA AbortKeeps ==
  ASSUME NEW fs, Standing(fs), NEW e \in Endpoints, HandleEndpointAbort(e, fs),
         Watch, open' = open
  PROVE  /\ Standing(frames)' /\ Calls(frames') = Calls(fs)
         /\ \A R : Around(queue', frames', slots', R) = Around(queue, fs, slots, R)
<1> DEFINE l == FindControlBulkEndpoint(e)
           on == schedule \/ relinked
<1>1. /\ Apart(l, open) /\ ToSet(lists.active) \subseteq ToSet(l.active)
      /\ l.disabled = lists.disabled /\ (Found(e) => e \in ToSet(l.active))
  BY FindKeeps DEF Standing
<1>2. /\ QueueTypes /\ schedule \in BOOLEAN /\ relinked \in BOOLEAN /\ Followed
      /\ Nested(fs, slots, nextDoneQueue) /\ Reached(queue, lists, on)
  BY DEF Standing
<1>3. relinked' = (relinked /\ ~schedule')
  BY DEF Watch
<1>4. CASE /\ lists' = l /\ frames' = fs
           /\ UNCHANGED <<queue, overlay, aborting, schedule, slots, nextDoneQueue>>
  <2> HIDE DEF l
  <2>1. Reached(queue', lists', (schedule \/ relinked)')
    BY <1>1, <1>2, <1>3, <1>4 DEF Reached
  <2>2. QueueTypes' /\ Followed' /\ relinked' \in BOOLEAN
    BY <1>2, <1>3, <1>4 DEF QueueTypes, Followed
  <2>3. Nested(frames, slots, nextDoneQueue)'
    BY <1>2, <1>4
  <2>4. Apart(lists, open)'
    BY <1>1, <1>4
  <2> QED
    BY <1>2, <1>4, <2>1, <2>2, <2>3, <2>4 DEF Standing
<1>5. CASE /\ Found(e) /\ HaltAsyncEndpoint(l, e)
           /\ returnTransactions(e, Len(queue[e]), "returned", fs, e)
           /\ aborting' = [aborting EXCEPT ![e] = queue[e] # <<>> /\ ~Deferred]
  <2> HIDE DEF l
  <2>1. /\ Apart(lists', open) /\ ToSet(lists.active)' = ToSet(l.active)
        /\ lists.disabled' = l.disabled
        /\ schedule' \in BOOLEAN /\ (schedule => schedule')
    BY <1>1, <1>2, <1>5, HaltKeeps
  <2>2. /\ queue \in Queues /\ overlay \in [Endpoints -> Overlays]
        /\ aborting \in [Endpoints -> BOOLEAN]
    BY <1>2 DEF QueueTypes
  <2>3. Len(queue[e]) \in 0 .. Len(queue[e])
    BY <2>2 DEF Queues
  <2>4. e \in Clients /\ "returned" \in {"returned", "timeout"}
    BY DEF Clients
  <2>5. /\ Nested(frames, slots, nextDoneQueue)' /\ Calls(frames') = Calls(fs)
        /\ queue' \in Queues /\ overlay' \in [Endpoints -> Overlays] /\ Followed'
        /\ \A R : Around(queue', frames', slots', R) = Around(queue, fs, slots, R)
        /\ \A d \in Endpoints : Active(queue'[d]) => Active(queue[d])
    BY <1>2, <1>5, <2>2, <2>3, <2>4, ReturnsKeep
  <2>6. aborting' \in [Endpoints -> BOOLEAN]
    BY <1>5, <2>2
  <2>7. Reached(queue', lists', (schedule \/ relinked)')
    BY <1>1, <1>2, <1>3, <2>1, <2>5 DEF Reached
  <2>8. QueueTypes' /\ relinked' \in BOOLEAN /\ Apart(lists, open)'
    BY <1>2, <1>3, <2>1, <2>5, <2>6 DEF QueueTypes
  <2> QED
    BY <2>1, <2>5, <2>7, <2>8 DEF Standing
<1> QED
  BY <1>4, <1>5 DEF HandleEndpointAbort

-----------------------------------------------------------------------------
(* The stages of a command.                                                  *)

(* A request has a stage of each of its kinds, and a setup stage is not the *)
(* last.                                                                    *)
LEMMA StagesAre ==
  ASSUME NEW r \in Requests
  PROVE  /\ Stages(r) \in Seq(StageNames) /\ ToSet(Stages(r)) \subseteq StageNames
         /\ Stages(r) # <<>>
         /\ \A i \in 1 .. Len(Stages(r)) :
               Stages(r)[i] = "setup" => i + 1 \in 1 .. Len(Stages(r))
         /\ Cardinality(ToSet(Stages(r))) = Len(Stages(r))
         /\ ToSet(Stages(r)) = IF Target[r] \notin Control THEN {"bulk"}
                               ELSE IF r \in HasData
                               THEN {"setup", "data", "status"}
                               ELSE {"setup", "status"}
<1>1. CASE Target[r] \notin Control
  <2>1. Stages(r) = <<"bulk">> /\ ToSet(Stages(r)) = {"bulk"}
    BY <1>1 DEF Stages, ToSet
  <2>2. Cardinality({"bulk"}) = 1
    BY FS_Singleton
  <2> QED
    BY <1>1, <2>1, <2>2 DEF StageNames
<1>2. CASE Target[r] \in Control /\ r \in HasData
  <2>1. /\ Stages(r) = <<"setup", "data", "status">>
        /\ ToSet(Stages(r)) = {"setup", "data", "status"}
    BY <1>2 DEF Stages, ToSet
  <2>2. IsFiniteSet({"setup"}) /\ Cardinality({"setup"}) = 1
    BY FS_Singleton
  <2>3. /\ IsFiniteSet({"setup"} \cup {"data"})
        /\ Cardinality({"setup"} \cup {"data"}) = 2
    BY <2>2, FS_AddElement
  <2>4. Cardinality(({"setup"} \cup {"data"}) \cup {"status"}) = 3
    BY SMTT(30), <2>3, FS_AddElement
  <2>5. ({"setup"} \cup {"data"}) \cup {"status"} = {"setup", "data", "status"}
    OBVIOUS
  <2> QED
    BY <1>2, <2>1, <2>4, <2>5 DEF StageNames
<1>3. CASE Target[r] \in Control /\ r \notin HasData
  <2>1. /\ Stages(r) = <<"setup", "status">>
        /\ ToSet(Stages(r)) = {"setup", "status"}
    BY <1>3 DEF Stages, ToSet
  <2>2. IsFiniteSet({"setup"}) /\ Cardinality({"setup"}) = 1
    BY FS_Singleton
  <2>3. Cardinality({"setup"} \cup {"status"}) = 2
    BY <2>2, FS_AddElement
  <2>4. {"setup"} \cup {"status"} = {"setup", "status"}
    OBVIOUS
  <2> QED
    BY <1>3, <2>1, <2>3, <2>4 DEF StageNames
<1> QED
  BY <1>1, <1>2, <1>3

(* Stages can be counted.                                                   *)
LEMMA StagesAreFinite == ASSUME NEW S \in SUBSET StageNames PROVE IsFiniteSet(S)
<1>1. IsFiniteSet({"setup"})
  BY FS_Singleton
<1>2. IsFiniteSet({"setup"} \cup {"data"})
  BY <1>1, FS_AddElement
<1>3. IsFiniteSet(({"setup"} \cup {"data"}) \cup {"status"})
  BY <1>2, FS_AddElement
<1>4. IsFiniteSet((({"setup"} \cup {"data"}) \cup {"status"}) \cup {"bulk"})
  BY <1>3, FS_AddElement
<1>5. StageNames = (({"setup"} \cup {"data"}) \cup {"status"}) \cup {"bulk"}
  BY DEF StageNames
<1> QED
  BY <1>4, <1>5, FS_Subset

(* One stage comes back.                                                     *)
LEMMA OneIsBack ==
  ASSUME CommandTypes, Told, NEW r \in Requests, sent[r] \ back[r] # {}
  PROVE  /\ \E x \in sent[r] \ back[r] : NextBack(r) = {x}
         /\ Target[r] \notin Control => sent[r] \ back[r] = {"bulk"}
<1> DEFINE todo == sent[r] \ back[r]
<1>1. sent[r] = ToSet(Stages(r))
  BY DEF Told
<1>2. CASE Target[r] \notin Control
  <2>1. todo = {"bulk"}
    BY <1>1, <1>2, StagesAre
  <2> QED
    BY <1>2, <2>1 DEF NextBack
<1>3. CASE Target[r] \in Control
  <2>1. todo \subseteq {"setup", "data", "status"}
    BY <1>1, <1>3, StagesAre
  <2>2. "setup" \notin todo /\ "data" \notin todo => todo = {"status"}
    BY <2>1
  <2>3. NextBack(r) = IF "setup" \in todo THEN {"setup"}
                      ELSE IF "data" \in todo THEN {"data"} ELSE todo
    BY DEF NextBack
  <2> HIDE DEF todo
  <2>4. \E x \in todo : NextBack(r) = {x}
    BY <2>2, <2>3
  <2> QED
    BY <1>3, <2>4 DEF todo
<1> QED
  BY <1>2, <1>3

(* What a command is told of one stage: one of its stages is back, and a     *)
(* bad status of one that goes on is that of a control request.              *)
LEMMA CommandIsTold ==
  ASSUME CommandTypes, Told, NEW r \in Requests, NEW s \in Errors, NEW fs,
         sent[r] \ back[r] # {},
         IF Target[r] \in Control THEN ControlPacketHandler(r, s, fs)
         ELSE BulkPacketHandler(r, s, fs),
         sent' = sent, timed' = timed
  PROVE  /\ CommandTypes' /\ Told'
         /\ Cardinality(sent[r] \ back[r]) \in Nat
         /\ Cardinality(sent'[r] \ back'[r]) = Cardinality(sent[r] \ back[r]) - 1
         /\ \A d \in Requests : d # r => sent'[d] \ back'[d] = sent[d] \ back[d]
<1> DEFINE todo == sent[r] \ back[r]
<1>1. /\ sent[r] = ToSet(Stages(r)) /\ back[r] \subseteq sent[r]
      /\ sent[r] \in SUBSET StageNames /\ back[r] \in SUBSET StageNames
  BY DEF Told, CommandTypes, Out
<1>2. PICK x \in todo : NextBack(r) = {x}
  BY OneIsBack
<1>3. /\ back' \in [Requests -> SUBSET StageNames]
      /\ back'[r] \subseteq sent[r] /\ todo \ {x} = sent[r] \ back'[r]
      /\ \A d \in Requests : d # r => back'[d] = back[d]
      /\ Target[r] \notin Control => back'[r] = sent[r]
  <2>1. CASE Target[r] \in Control
    <3>1. back' = [back EXCEPT ![r] = @ \cup {x}]
      BY <1>2, <2>1 DEF ControlPacketHandler
    <3>2. back'[r] = back[r] \cup {x}
      BY <3>1 DEF CommandTypes
    <3>3. back' \in [Requests -> SUBSET StageNames]
      BY <1>1, <1>2, <3>1 DEF CommandTypes
    <3> QED
      BY <1>1, <1>2, <2>1, <3>1, <3>2, <3>3 DEF CommandTypes
  <2>2. CASE Target[r] \notin Control
    <3>1. back' = [back EXCEPT ![r] = sent[r]]
      BY <2>2 DEF BulkPacketHandler
    <3>2. back'[r] = sent[r] /\ back' \in [Requests -> SUBSET StageNames]
      BY <1>1, <3>1 DEF CommandTypes
    <3>3. todo = {"bulk"} /\ todo \ {x} = {}
      BY <1>2, <2>2, OneIsBack
    <3> QED
      BY <1>1, <3>1, <3>2, <3>3 DEF CommandTypes
  <2> QED
    BY <2>1, <2>2
<1>5. /\ status' \in [Requests -> {"success", "stall", "aborted", "timeout"}]
      /\ \A d \in Requests : d # r => status'[d] = status[d]
  <2>1. CASE Target[r] \in Control
    <3> DEFINE new == IF Hard(s) THEN s
                      ELSE IF s # "success" /\ status[r] = "success"
                      THEN Softened(s) ELSE status[r]
    <3>1. status' = [status EXCEPT ![r] = new]
      BY <2>1 DEF ControlPacketHandler, CommandTypes
    <3>2. new \in {"success", "stall", "aborted", "timeout"}
      BY DEF Hard, Softened, Errors, CommandTypes
    <3> HIDE DEF new
    <3> QED
      BY <3>1, <3>2 DEF CommandTypes
  <2>2. CASE Target[r] \notin Control
    <3> DEFINE new == Softened(s)
    <3>1. status' = [status EXCEPT ![r] = new]
      BY <2>2 DEF BulkPacketHandler
    <3>2. new \in {"success", "stall", "aborted", "timeout"}
      BY DEF Softened, Errors
    <3> HIDE DEF new
    <3> QED
      BY <3>1, <3>2 DEF CommandTypes
  <2> QED
    BY <2>1, <2>2
<1>6. CommandTypes'
  BY <1>3, <1>5 DEF CommandTypes
<1>7. Told'
  <2>1. ASSUME NEW d \in Requests, d # r
        PROVE  /\ sent'[d] = {} \/ sent'[d] = ToSet(Stages(d))
               /\ back'[d] \subseteq sent'[d]
               /\ status'[d] # "success" /\ Out(d)' => Target[d] \in Control
    BY <1>3, <1>5, <2>1 DEF Told, Out
  <2>2. /\ sent'[r] = {} \/ sent'[r] = ToSet(Stages(r))
        /\ back'[r] \subseteq sent'[r]
        /\ status'[r] # "success" /\ Out(r)' => Target[r] \in Control
    BY <1>1, <1>3, <1>5 DEF Out
  <2>3. ASSUME NEW d \in Requests
        PROVE  /\ sent'[d] = {} \/ sent'[d] = ToSet(Stages(d))
               /\ back'[d] \subseteq sent'[d]
               /\ status'[d] # "success" /\ Out(d)' => Target[d] \in Control
    BY <2>1, <2>2
  <2> QED
    BY <2>3 DEF Told, Stages
<1>8. Cardinality(todo) \in Nat /\ Cardinality(todo \ {x}) = Cardinality(todo) - 1
  <2>1. IsFiniteSet(todo)
    BY <1>1, StagesAreFinite
  <2> HIDE DEF todo
  <2> QED
    BY <1>2, <2>1, FS_CardinalityType, FS_RemoveElement
<1> QED
  BY <1>3, <1>6, <1>7, <1>8

-----------------------------------------------------------------------------
(* The steps of the completions.                                             *)

(* Around is a number, whatever the calls are that it counts.                *)
LEMMA AroundIsNat ==
  ASSUME NEW q \in Queues, NEW fs \in Seq(Frames), NEW ss \in Seq(Seq(Result)),
         NEW R
  PROVE  /\ InQueues(q, R) \in Nat /\ InFrames(fs, R) \in Nat
         /\ InSlots(ss, R) \in Nat
         /\ InGate(fs, ss, R) \in Nat /\ Around(q, fs, ss, R) \in Nat
         /\ Calls(fs) \in Nat
<1>1. /\ InQueues(q, R) \in Nat /\ InFrames(fs, R) \in Nat
      /\ InSlots(ss, R) \in Nat /\ Calls(fs) \in Nat
  BY QueuesAreWeight, FramesAreWeight, SlotsAreWeight
<1> QED
  BY <1>1 DEF InGate, Around

(* The innermost call becomes another.                                       *)
Replaced(fs, g) == [fs EXCEPT ![1] = g]

(* What the calls hold then.                                                *)
LEMMA FirstChanges ==
  ASSUME NEW fs \in Seq(Frames), fs # <<>>, NEW g \in Frames
  PROVE  /\ Replaced(fs, g) \in Seq(Frames) /\ Replaced(fs, g) # <<>>
         /\ Len(Replaced(fs, g)) = Len(fs) /\ Replaced(fs, g)[1] = g
         /\ \A R : InFrames(Replaced(fs, g), R)
                       = Amount(Waiting(g), R) + InFrames(Tail(fs), R)
         /\ Calls(Replaced(fs, g)) = (IF g.calling THEN 1 ELSE 0) + Calls(Tail(fs))
<1> DEFINE hs == Replaced(fs, g)
<1>1. 1 \in 1 .. Len(fs) /\ Tail(fs) \in Seq(Frames) /\ Len(fs) \in Nat
  OBVIOUS
<1>2. /\ hs \in Seq(Frames) /\ Len(hs) = Len(fs) /\ hs[1] = g
      /\ \A i \in 1 .. Len(fs) : i # 1 => hs[i] = fs[i]
  BY <1>1, ExceptSeq DEF Replaced
<1> HIDE DEF hs
<1>3. hs # <<>>
  BY <1>1, <1>2
<1>4. Tail(hs) = Tail(fs)
  <2>1. Tail(hs) \in Seq(Frames) /\ Len(Tail(hs)) = Len(Tail(fs))
    BY <1>1, <1>2, <1>3
  <2>2. \A i \in 1 .. Len(Tail(hs)) : Tail(hs)[i] = Tail(fs)[i]
    BY <1>1, <1>2, <1>3
  <2> QED
    BY <1>1, <2>1, <2>2, SeqEqual
<1> QED
  BY <1>2, <1>3, <1>4, FramesFirst DEF hs

(* The completion of the first transfer of a list begins.                    *)
LEMMA CallBegins ==
  ASSUME Standing(frames), frames # <<>>, frames[1].list # <<>>,
         ~frames[1].calling, NEW fs, fs = [frames EXCEPT ![1].calling = TRUE]
  PROVE  /\ Standing(fs) /\ Calls(fs) = Calls(frames) + 1
         /\ First.req \in Requests /\ First.status \in Errors
         /\ \A R : Around(queue, frames, slots, R)
                       = Around(queue, fs, slots, R)
                             + (IF First.req \in R THEN 1 ELSE 0)
<1> DEFINE f == frames[1]
           g == [f EXCEPT !.calling = TRUE]
           t == Tail(f.list)
           rest == Tail(frames)
<1>1. /\ frames \in Seq(Frames) /\ slots \in Seq(Seq(Result)) /\ queue \in Queues
      /\ Nested(frames, slots, nextDoneQueue)
  BY DEF Standing, Nested, QueueTypes
<1>2. f \in Frames /\ rest \in Seq(Frames)
  BY <1>1
<1>3. f \in Call /\ f.list \in Seq(Result) /\ f.list # <<>>
  BY <1>2 DEF Frames, Call
<1>4. First = f.list[1] /\ First \in Result /\ t \in Seq(Result)
  BY <1>3 DEF First
<1>5. g \in Frames /\ g.calling /\ Waiting(g) = t /\ Waiting(f) = f.list
  BY <1>3 DEF Frames, Call, Waiting
<1>6. fs = Replaced(frames, g)
  BY DEF Replaced
<1>7. \A R : Amount(f.list, R) = (IF First.req \in R THEN 1 ELSE 0) + Amount(t, R)
  BY <1>3, <1>4, AmountOfTail
<1> HIDE DEF g, t, rest
<1>8. /\ fs \in Seq(Frames) /\ fs # <<>>
      /\ \A R : InFrames(fs, R) = Amount(t, R) + InFrames(rest, R)
      /\ Calls(fs) = 1 + Calls(rest)
  <2>1. /\ fs \in Seq(Frames) /\ fs # <<>>
        /\ \A R : InFrames(fs, R) = Amount(Waiting(g), R) + InFrames(Tail(frames), R)
        /\ Calls(fs) = (IF g.calling THEN 1 ELSE 0) + Calls(Tail(frames))
    <3>1. frames \in Seq(Frames) /\ frames # <<>> /\ g \in Frames
      BY <1>1, <1>5
    <3>2. /\ Replaced(frames, g) \in Seq(Frames) /\ Replaced(frames, g) # <<>>
          /\ \A R : InFrames(Replaced(frames, g), R)
                        = Amount(Waiting(g), R) + InFrames(Tail(frames), R)
          /\ Calls(Replaced(frames, g))
                 = (IF g.calling THEN 1 ELSE 0) + Calls(Tail(frames))
      BY <3>1, FirstChanges
    <3> QED
      BY <1>6, <3>2
  <2> QED
    BY <1>5, <2>1 DEF rest
<1>9. /\ \A R : InFrames(frames, R) = Amount(f.list, R) + InFrames(rest, R)
      /\ Calls(frames) = 0 + Calls(rest)
  BY <1>1, <1>5, FramesFirst DEF rest
<1>10. Standing(fs)
  BY <1>8, <1>1 DEF Standing, Nested
<1>11. Calls(fs) = Calls(frames) + 1
  <2>1. Calls(rest) \in Nat
    BY <1>2, FramesAreWeight
  <2> QED
    BY <1>8, <1>9, <2>1
<1>12. ASSUME NEW R
       PROVE  Around(queue, frames, slots, R) = Around(queue, fs, slots, R)
                  + (IF First.req \in R THEN 1 ELSE 0)
  <2> DEFINE x == InQueues(queue, R)
             y == InSlots(slots, R)
             u == InFrames(rest, R)
             v == Amount(t, R)
             a == InFrames(frames, R)
             b == InFrames(fs, R)
             one == IF First.req \in R THEN 1 ELSE 0
  <2>1. x \in Nat /\ y \in Nat /\ u \in Nat
    BY <1>1, <1>2, AroundIsNat
  <2>2. v \in Nat /\ one \in Nat
    BY <1>4, AmountIsWeight
  <2>3. a = (one + v) + u /\ b = v + u
    BY <1>7, <1>8, <1>9
  <2>4. /\ Around(queue, frames, slots, R) = x + (a + y)
        /\ Around(queue, fs, slots, R) = x + (b + y)
    BY DEF Around, InGate
  <2> HIDE DEF x, y, u, v, a, b, one
  <2>5. x + (a + y) = (x + (b + y)) + one
    BY <2>1, <2>2, <2>3
  <2> QED
    BY <2>4, <2>5 DEF one
<1>13. First.req \in Requests /\ First.status \in Errors
  BY <1>4 DEF Result
<1> QED
  BY <1>10, <1>11, <1>12, <1>13

(* The number of transfers and what the commands say of them stay in step.   *)
LEMMA CompleteKeeps == ASSUME IInv, Complete PROVE IInv'
<1> DEFINE r == First.req
           s == First.status
           fs == [frames EXCEPT ![1].calling = TRUE]
<1>1. /\ frames # <<>> /\ frames[1].list # <<>> /\ ~frames[1].calling
      /\ IF Target[r] \in Control THEN ControlPacketHandler(r, s, fs)
         ELSE BulkPacketHandler(r, s, fs)
      /\ Watch /\ transactionsOut' = transactionsOut /\ sent' = sent
      /\ timed' = timed /\ open' = open
  BY DEF Complete
<1>2. Standing(frames) /\ CommandTypes /\ Told /\ Counted /\ Accounted
  BY DEF IInv
<1>3. /\ Standing(fs) /\ Calls(fs) = Calls(frames) + 1
      /\ r \in Requests /\ s \in Errors
      /\ \A R : Around(queue, frames, slots, R)
                    = Around(queue, fs, slots, R) + (IF r \in R THEN 1 ELSE 0)
  BY <1>1, <1>2, CallBegins
<1> HIDE DEF r, s, fs
<1>4. /\ Standing(frames)' /\ Calls(frames') = Calls(fs)
      /\ \A R : Around(queue', frames', slots', R) = Around(queue, fs, slots, R)
  <2>1. CASE HandleEndpointAbort(Target[r], fs)
    <3>1. Target[r] \in Endpoints
      BY <1>3, EHCIAssumption
    <3> QED
      BY <1>1, <1>3, <2>1, <3>1, AbortKeeps
  <2>2. CASE /\ frames' = fs
             /\ UNCHANGED <<lists, queue, overlay, aborting, schedule, slots,
                            nextDoneQueue>>
    <3>1. (schedule \/ relinked)' <=> schedule \/ relinked
      BY <1>1, <1>3, <2>2 DEF Watch, Standing
    <3>2. Standing(frames)'
      <4>1. QueueTypes' /\ Followed' /\ Apart(lists, open)'
        BY <1>1, <1>3, <2>2 DEF Standing, QueueTypes, Followed
      <4>2. (schedule \in BOOLEAN)' /\ (relinked \in BOOLEAN)'
        BY <1>1, <1>3, <2>2 DEF Standing, Watch
      <4>3. Nested(frames, slots, nextDoneQueue)'
        BY <1>3, <2>2 DEF Standing
      <4>4. Reached(queue, lists, schedule \/ relinked)'
        BY <1>3, <2>2, <3>1 DEF Standing, Reached
      <4> QED
        BY <4>1, <4>2, <4>3, <4>4 DEF Standing
    <3> QED
      BY <2>2, <3>2
  <2> QED
    BY <1>1, <2>1, <2>2 DEF ControlPacketHandler, BulkPacketHandler
<1>5. /\ frames \in Seq(Frames) /\ slots \in Seq(Seq(Result)) /\ queue \in Queues
      /\ fs \in Seq(Frames)
  BY <1>2, <1>3 DEF Standing, Nested, QueueTypes
<1>6. \A R : Around(queue, frames, slots, R) \in Nat
             /\ Around(queue, fs, slots, R) \in Nat
             /\ Calls(frames) \in Nat
  BY <1>5, AroundIsNat
<1>7. sent[r] \ back[r] # {}
  <2>1. Around(queue, frames, slots, {r}) = Cardinality(sent[r] \ back[r])
    BY <1>2, <1>3 DEF Accounted
  <2>2. Around(queue, frames, slots, {r}) = Around(queue, fs, slots, {r}) + 1
    BY <1>3
  <2>3. Cardinality(sent[r] \ back[r]) # 0
    BY <1>6, <2>1, <2>2
  <2> QED
    BY <2>3, FS_EmptySet
<1>8. /\ CommandTypes' /\ Told'
      /\ Cardinality(sent[r] \ back[r]) \in Nat
      /\ Cardinality(sent'[r] \ back'[r]) = Cardinality(sent[r] \ back[r]) - 1
      /\ \A d \in Requests : d # r => sent'[d] \ back'[d] = sent[d] \ back[d]
  BY <1>1, <1>2, <1>3, <1>7, CommandIsTold
<1>9. Accounted'
  <2>1. ASSUME NEW d \in Requests
        PROVE  Around(queue', frames', slots', {d}) = Cardinality(sent'[d] \ back'[d])
    <3>1. /\ Around(queue', frames', slots', {d}) = Around(queue, fs, slots, {d})
          /\ Around(queue, frames, slots, {d}) = Cardinality(sent[d] \ back[d])
          /\ Around(queue, frames, slots, {d})
                 = Around(queue, fs, slots, {d}) + (IF r = d THEN 1 ELSE 0)
          /\ Around(queue, fs, slots, {d}) \in Nat
      BY <1>2, <1>3, <1>4, <1>6 DEF Accounted
    <3>2. CASE d = r
      <4> DEFINE a == Around(queue, frames, slots, {d})
                 b == Around(queue, fs, slots, {d})
                 c == Cardinality(sent'[d] \ back'[d])
      <4>1. a = b + 1 /\ b \in Nat /\ c = a - 1
        BY <1>8, <3>1, <3>2
      <4> HIDE DEF a, b, c
      <4>2. b = c
        BY <4>1
      <4> QED
        BY <3>1, <4>2 DEF b, c
    <3>3. CASE d # r
      <4> DEFINE a == Around(queue, frames, slots, {d})
                 b == Around(queue, fs, slots, {d})
      <4>1. a = b + 0 /\ b \in Nat
        BY <3>1, <3>3
      <4> HIDE DEF a, b
      <4>2. a = b
        BY <4>1
      <4> QED
        BY <1>8, <3>1, <3>3, <4>2 DEF a, b
    <3> QED
      BY <3>2, <3>3
  <2> QED
    BY <2>1 DEF Accounted
<1>10. Counted'
  <2> DEFINE x == Around(queue, frames, slots, Requests)
             y == Around(queue, fs, slots, Requests)
             z == Around(queue', frames', slots', Requests)
             a == Calls(frames)
             b == Calls(frames')
  <2>1. x = y + 1 /\ z = y /\ b = a + 1 /\ y \in Nat /\ a \in Nat
    BY <1>3, <1>4, <1>6
  <2>2. transactionsOut \in Nat /\ transactionsOut = x + a
    BY <1>2 DEF Counted
  <2> HIDE DEF x, y, z, a, b
  <2>3. transactionsOut = z + b
    BY <2>1, <2>2
  <2> QED
    BY <1>1, <2>2, <2>3 DEF Counted, z, b
<1> QED
  BY <1>4, <1>8, <1>9, <1>10 DEF IInv

(* With no transfer in the queues the hardware has nothing to do.            *)
LEMMA NoneIsActive ==
  ASSUME NEW q \in Queues, InQueues(q, Requests) = 0, NEW e \in Endpoints
  PROVE  ~Active(q[e])
<1> DEFINE ts == q[e]
<1>1. ts \in Seq(Transfer) /\ Amount(ts, Requests) <= 0
  BY QueueIsPart DEF Queues
<1> HIDE DEF ts
<1>2. ASSUME ts # <<>> PROVE FALSE
  <2>1. ts[1] \in Transfer /\ Tail(ts) \in Seq(Transfer)
    BY <1>1, <1>2
  <2>2. ts[1].req \in Requests
    BY <2>1 DEF Transfer
  <2>3. Amount(ts, Requests) = 1 + Amount(Tail(ts), Requests)
    BY <1>1, <1>2, <2>2, AmountOfTail
  <2>4. Amount(Tail(ts), Requests) \in Nat
    BY <2>1, AmountIsWeight
  <2> QED
    BY <1>1, <2>3, <2>4
<1>3. ~Active(ts)
  BY <1>2 DEF Active
<1> QED
  BY <1>3 DEF ts

(* A command whose request has ended goes to the pool, or nothing changes.   *)
LEMMA PoolKeeps ==
  ASSUME CommandTypes, Told, NEW r \in Requests,
         IF Out(r) THEN UNCHANGED <<sent, back, status, timed, failed, cleared>>
         ELSE Pool(r)
  PROVE  /\ CommandTypes' /\ Told'
         /\ \A d \in Requests : sent'[d] \ back'[d] = sent[d] \ back[d]
<1>1. CASE UNCHANGED <<sent, back, status, timed>>
  BY <1>1 DEF CommandTypes, Told, Out, Stages
<1>2. CASE ~Out(r) /\ Pool(r)
  <2>1. /\ sent' = [sent EXCEPT ![r] = {}] /\ back' = [back EXCEPT ![r] = {}]
        /\ status' = [status EXCEPT ![r] = "success"]
        /\ timed' = [timed EXCEPT ![r] = TRUE] /\ sent[r] = back[r]
    BY <1>2 DEF Pool, Out
  <2>2. CommandTypes'
    BY <2>1 DEF CommandTypes
  <2>3. /\ sent'[r] = {} /\ back'[r] = {}
        /\ \A d \in Requests : d # r =>
              /\ sent'[d] = sent[d] /\ back'[d] = back[d]
              /\ status'[d] = status[d]
    BY <2>1 DEF CommandTypes
  <2>4. Told'
    <3>1. ASSUME NEW d \in Requests
          PROVE  /\ sent'[d] = {} \/ sent'[d] = ToSet(Stages(d))
                 /\ back'[d] \subseteq sent'[d]
                 /\ status'[d] # "success" /\ Out(d)' => Target[d] \in Control
      BY <2>3 DEF Told, Out
    <3> QED
      BY <3>1 DEF Told, Stages
  <2> QED
    BY <2>1, <2>2, <2>3, <2>4
<1> QED
  BY <1>1, <1>2

(* The counter goes down with the call that is over.                         *)
LEMMA CompletedKeeps == ASSUME IInv, Completed PROVE IInv'
<1> DEFINE f == frames[1]
           t == Tail(f.list)
           g == [f EXCEPT !.list = t, !.calling = FALSE]
           rest == Tail(frames)
<1>1. /\ frames # <<>> /\ f.calling
      /\ frames' = [frames EXCEPT ![1].list = Tail(@), ![1].calling = FALSE]
      /\ transactionsOut' = IF transactionsOut = 0 THEN 0 ELSE transactionsOut - 1
      /\ schedule' = (schedule /\ transactionsOut # 1)
      /\ IF Out(First.req)
         THEN UNCHANGED <<sent, back, status, timed, failed, cleared>>
         ELSE Pool(First.req)
      /\ Watch
      /\ UNCHANGED <<lists, queue, overlay, aborting, slots, nextDoneQueue, open>>
  BY DEF Completed
<1>2. Standing(frames) /\ CommandTypes /\ Told /\ Counted /\ Accounted
  BY DEF IInv
<1>3. /\ frames \in Seq(Frames) /\ slots \in Seq(Seq(Result)) /\ queue \in Queues
      /\ Nested(frames, slots, nextDoneQueue)
  BY <1>2 DEF Standing, Nested, QueueTypes
<1>4. f \in Frames /\ rest \in Seq(Frames)
  BY <1>1, <1>3
<1>5. f \in Call /\ f.list \in Seq(Result) /\ f.list # <<>>
  BY <1>1, <1>4 DEF Frames, Call
<1>6. First.req \in Requests /\ t \in Seq(Result)
  <2>1. First = f.list[1] /\ f.list[1] \in Result
    BY <1>5 DEF First
  <2> QED
    BY <1>5, <2>1 DEF Result
<1>7. g \in Frames /\ ~g.calling /\ Waiting(g) = t /\ Waiting(f) = t
  BY <1>1, <1>5, <1>6 DEF Frames, Call, Waiting
<1>8. frames' = Replaced(frames, g)
  BY <1>1 DEF Replaced
<1> HIDE DEF g, t, rest
<1>9. /\ frames' \in Seq(Frames) /\ frames' # <<>>
      /\ \A R : InFrames(frames', R) = Amount(t, R) + InFrames(rest, R)
      /\ Calls(frames') = 0 + Calls(rest)
  <2>1. frames \in Seq(Frames) /\ frames # <<>> /\ g \in Frames
    BY <1>1, <1>3, <1>7
  <2>2. /\ Replaced(frames, g) \in Seq(Frames) /\ Replaced(frames, g) # <<>>
        /\ \A R : InFrames(Replaced(frames, g), R)
                      = Amount(Waiting(g), R) + InFrames(Tail(frames), R)
        /\ Calls(Replaced(frames, g))
               = (IF g.calling THEN 1 ELSE 0) + Calls(Tail(frames))
    BY <2>1, FirstChanges
  <2> QED
    BY <1>7, <1>8, <2>2 DEF rest
<1>10. /\ \A R : InFrames(frames, R) = Amount(t, R) + InFrames(rest, R)
       /\ Calls(frames) = 1 + Calls(rest)
  BY <1>1, <1>3, <1>7, FramesFirst DEF rest
<1>11. Calls(rest) \in Nat
  BY <1>4, FramesAreWeight
<1>12. \A R : Around(queue', frames', slots', R) = Around(queue, frames, slots, R)
  <2>1. \A R : InFrames(frames', R) = InFrames(frames, R)
    BY <1>9, <1>10
  <2>2. queue' = queue /\ slots' = slots
    BY <1>1
  <2> QED
    BY <2>1, <2>2 DEF Around, InGate
<1>13. /\ InQueues(queue, Requests) \in Nat
       /\ InGate(frames, slots, Requests) \in Nat
  BY <1>3, AroundIsNat
<1>14. transactionsOut = 1 => InQueues(queue, Requests) = 0
  <2> DEFINE x == InQueues(queue, Requests)
             y == InGate(frames, slots, Requests)
             z == Calls(rest)
  <2>1. transactionsOut = (x + y) + (1 + z)
    BY <1>2, <1>10 DEF Counted, Around
  <2>2. x \in Nat /\ y \in Nat /\ z \in Nat
    BY <1>11, <1>13
  <2> HIDE DEF x, y, z
  <2>3. transactionsOut = 1 => x = 0
    BY <2>1, <2>2
  <2> QED
    BY <2>3 DEF x
<1>15. Counted'
  <2> DEFINE x == Around(queue, frames, slots, Requests)
             y == Around(queue', frames', slots', Requests)
             z == Calls(rest)
             a == Calls(frames')
  <2>1. x \in Nat /\ y = x /\ z \in Nat /\ a = 0 + z
    BY <1>3, <1>9, <1>11, <1>12, AroundIsNat
  <2>2. transactionsOut \in Nat /\ transactionsOut = x + (1 + z)
    BY <1>2, <1>10 DEF Counted
  <2> HIDE DEF x, y, z, a
  <2>3. transactionsOut' = y + a /\ transactionsOut' \in Nat
    BY <1>1, <2>1, <2>2
  <2> QED
    BY <2>3 DEF Counted, y, a
<1>16. /\ CommandTypes' /\ Told'
       /\ \A d \in Requests : sent'[d] \ back'[d] = sent[d] \ back[d]
  BY <1>1, <1>2, <1>6, PoolKeeps
<1>17. Accounted'
  BY <1>2, <1>12, <1>16 DEF Accounted
<1>18. Standing(frames)'
  <2>1. QueueTypes' /\ Followed' /\ Apart(lists, open)'
    BY <1>1, <1>2 DEF Standing, QueueTypes, Followed
  <2>2. (schedule \in BOOLEAN)' /\ (relinked \in BOOLEAN)'
    BY <1>1, <1>2 DEF Standing, Watch
  <2>3. Nested(frames, slots, nextDoneQueue)'
    BY <1>1, <1>3, <1>9 DEF Nested
  <2>4. Reached(queue, lists, schedule \/ relinked)'
    <3>1. CASE transactionsOut = 1
      <4>1. \A e \in Endpoints : ~Active(queue[e])
        BY <1>3, <1>14, <3>1, NoneIsActive
      <4> QED
        BY <1>1, <4>1 DEF Reached
    <3>2. CASE transactionsOut # 1
      <4>1. (schedule \/ relinked)' <=> schedule \/ relinked
        BY <1>1, <1>2, <3>2 DEF Watch, Standing
      <4> QED
        BY <1>1, <1>2, <4>1 DEF Standing, Reached
    <3> QED
      BY <3>1, <3>2
  <2> QED
    BY <2>1, <2>2, <2>3, <2>4 DEF Standing
<1> QED
  BY <1>15, <1>16, <1>17, <1>18 DEF IInv

(* A step that only moves transfers leaves the counts and the commands.      *)
LEMMA CountsStay ==
  ASSUME IInv, UNCHANGED <<sent, back, status, timed, transactionsOut>>,
         Calls(frames') = Calls(frames),
         \A R : Around(queue', frames', slots', R) = Around(queue, frames, slots, R)
  PROVE  CommandTypes' /\ Told' /\ Counted' /\ Accounted'
<1>1. CommandTypes' /\ Told'
  BY DEF IInv, CommandTypes, Told, Out, Stages
<1>2. Counted'
  BY DEF IInv, Counted
<1>3. Accounted'
  BY DEF IInv, Accounted
<1> QED
  BY <1>1, <1>2, <1>3

(* The next list is taken from its slot.                                     *)
LEMMA NextDoneQueueKeeps == ASSUME IInv, NextDoneQueue PROVE IInv'
<1> DEFINE f == frames[1]
           h == Head(slots)
           t == Tail(slots)
           g == [f EXCEPT !.list = h]
           rest == Tail(frames)
<1>1. /\ Len(frames) = 1 /\ f.list = <<>> /\ slots # <<>>
      /\ frames' = [frames EXCEPT ![1].list = Head(slots)] /\ slots' = t
      /\ UNCHANGED <<lists, queue, overlay, aborting, schedule, transactionsOut,
                     nextDoneQueue, open, relinked>>
      /\ UNCHANGED <<sent, back, status, timed>>
  BY DEF NextDoneQueue, command
<1>2. Standing(frames)
  BY DEF IInv
<1>3. /\ frames \in Seq(Frames) /\ slots \in Seq(Seq(Result)) /\ queue \in Queues
      /\ Nested(frames, slots, nextDoneQueue)
  BY <1>2 DEF Standing, Nested, QueueTypes
<1>4. f \in Frames /\ rest \in Seq(Frames) /\ frames # <<>>
  <2>1. frames # <<>>
    BY <1>1
  <2> QED
    BY <1>3, <2>1, FramesFirst
<1>5. f \in Call /\ f.calling = FALSE
  BY <1>1, <1>4 DEF Frames, Call
<1>6. /\ h \in Seq(Result) /\ t \in Seq(Seq(Result)) /\ Len(t) = Len(slots) - 1
      /\ \A R : InSlots(slots, R) = Amount(h, R) + InSlots(t, R)
  BY <1>1, <1>3, SlotsFirst
<1>7. g \in Frames /\ ~g.calling /\ Waiting(g) = h /\ Waiting(f) = <<>>
  BY <1>1, <1>5, <1>6 DEF Frames, Call, Waiting
<1>8. frames' = Replaced(frames, g)
  BY <1>1 DEF Replaced
<1> HIDE DEF g, t, h, rest
<1>9. /\ frames' \in Seq(Frames) /\ frames' # <<>>
      /\ \A R : InFrames(frames', R) = Amount(h, R) + InFrames(rest, R)
      /\ Calls(frames') = 0 + Calls(rest)
  <2>1. /\ Replaced(frames, g) \in Seq(Frames) /\ Replaced(frames, g) # <<>>
        /\ \A R : InFrames(Replaced(frames, g), R)
                      = Amount(Waiting(g), R) + InFrames(Tail(frames), R)
        /\ Calls(Replaced(frames, g))
               = (IF g.calling THEN 1 ELSE 0) + Calls(Tail(frames))
    BY <1>3, <1>4, <1>7, FirstChanges
  <2> QED
    BY <1>7, <1>8, <2>1 DEF rest
<1>10. /\ \A R : InFrames(frames, R) = Amount(<<>>, R) + InFrames(rest, R)
       /\ Calls(frames) = 0 + Calls(rest)
  BY <1>3, <1>4, <1>5, <1>7, FramesFirst DEF rest
<1>11. ASSUME NEW R
       PROVE  Around(queue', frames', slots', R) = Around(queue, frames, slots, R)
  <2> DEFINE x == InFrames(rest, R)
             y == InSlots(t, R)
             z == Amount(h, R)
             none == Amount(<<>>, R)
  <2>1. x \in Nat /\ y \in Nat /\ z \in Nat /\ none = 0
    BY <1>4, <1>6, FramesAreWeight, SlotsAreWeight, AmountIsWeight, AmountOfNone
  <2>2. /\ InGate(frames', slots', R) = (z + x) + y
        /\ InGate(frames, slots, R) = (none + x) + (z + y)
    BY <1>1, <1>6, <1>9, <1>10 DEF InGate
  <2> HIDE DEF x, y, z, none
  <2>3. (z + x) + y = (none + x) + (z + y)
    BY <2>1
  <2> QED
    BY <1>1, <2>2, <2>3 DEF Around
<1>12. Standing(frames)'
  <2>1. QueueTypes' /\ Followed' /\ Apart(lists, open)'
    BY <1>1, <1>2 DEF Standing, QueueTypes, Followed
  <2>2. (schedule \in BOOLEAN)' /\ (relinked \in BOOLEAN)'
    BY <1>1, <1>2 DEF Standing
  <2>3. Nested(frames, slots, nextDoneQueue)'
    <3>1. Len(slots) < nextDoneQueue /\ nextDoneQueue \in 0 .. Slots
      BY <1>3, <1>4 DEF Nested
    <3>2. Len(t) < nextDoneQueue
      <4>1. Len(slots) \in Nat /\ Slots \in Nat
        BY <1>3, EHCIAssumption
      <4> QED
        BY <1>6, <3>1, <4>1
    <3> QED
      BY <1>1, <1>6, <1>9, <3>1, <3>2 DEF Nested
  <2>4. Reached(queue, lists, schedule \/ relinked)'
    BY <1>1, <1>2 DEF Standing, Reached
  <2> QED
    BY <2>1, <2>2, <2>3, <2>4 DEF Standing
<1>13. Calls(frames') = Calls(frames)
  BY <1>9, <1>10
<1> QED
  BY <1>1, <1>11, <1>12, <1>13, CountsStay DEF IInv

(* A call that has nothing left to complete returns.                         *)
LEMMA ReturnKeeps == ASSUME IInv, Return PROVE IInv'
<1> DEFINE f == frames[1]
           rest == Tail(frames)
<1>1. /\ frames # <<>> /\ f.list = <<>> /\ (Len(frames) = 1 => slots = <<>>)
      /\ frames' = rest
      /\ nextDoneQueue' = IF Len(frames) = 1 THEN 0 ELSE nextDoneQueue
      /\ aborting' = [e \in Endpoints |-> aborting[e] /\ frames[1].then # e]
      /\ UNCHANGED <<lists, queue, overlay, schedule, transactionsOut, slots,
                     open, relinked>>
      /\ UNCHANGED <<sent, back, status, timed>>
  BY DEF Return, command
<1>2. Standing(frames)
  BY DEF IInv
<1>3. /\ frames \in Seq(Frames) /\ slots \in Seq(Seq(Result)) /\ queue \in Queues
      /\ Nested(frames, slots, nextDoneQueue)
  BY <1>2 DEF Standing, Nested, QueueTypes
<1>4. f \in Frames /\ rest \in Seq(Frames) /\ (rest = <<>> <=> Len(frames) = 1)
  <2>1. frames # <<>> /\ frames \in Seq(Frames)
    BY <1>1, <1>3
  <2>2. rest \in Seq(Frames) /\ f \in Frames
    BY <2>1, FramesFirst
  <2>3. Len(rest) = Len(frames) - 1 /\ Len(frames) \in Nat
    BY <2>1
  <2> HIDE DEF rest
  <2>4. rest = <<>> <=> Len(rest) = 0
    BY <2>2
  <2> QED
    BY <2>2, <2>3, <2>4
<1>5. f.calling = FALSE /\ Waiting(f) = <<>>
  BY <1>1, <1>4 DEF Frames, Call, Waiting
<1> HIDE DEF rest
<1>6. /\ \A R : InFrames(frames, R) = Amount(<<>>, R) + InFrames(rest, R)
      /\ Calls(frames) = 0 + Calls(rest)
  BY <1>1, <1>3, <1>5, FramesFirst DEF rest
<1>7. Calls(frames') = Calls(frames)
  BY <1>1, <1>4, <1>6, FramesAreWeight
<1>8. ASSUME NEW R
      PROVE  Around(queue', frames', slots', R) = Around(queue, frames, slots, R)
  <2>1. InFrames(rest, R) \in Nat /\ Amount(<<>>, R) = 0
    BY <1>4, FramesAreWeight, AmountOfNone
  <2>2. InFrames(frames, R) = InFrames(rest, R)
    BY <1>6, <2>1
  <2> QED
    BY <1>1, <2>2 DEF Around, InGate
<1>9. Standing(frames)'
  <2>1. aborting' \in [Endpoints -> BOOLEAN]
    BY <1>1
  <2>2. QueueTypes' /\ Followed' /\ Apart(lists, open)'
    BY <1>1, <1>2, <2>1 DEF Standing, QueueTypes, Followed
  <2>3. (schedule \in BOOLEAN)' /\ (relinked \in BOOLEAN)'
    BY <1>1, <1>2 DEF Standing
  <2>4. Nested(frames, slots, nextDoneQueue)'
    <3>1. Len(slots) < nextDoneQueue /\ nextDoneQueue \in 0 .. Slots /\ Slots \in Nat
      BY <1>1, <1>3, EHCIAssumption DEF Nested
    <3> QED
      BY <1>1, <1>3, <1>4, <3>1 DEF Nested
  <2>5. Reached(queue, lists, schedule \/ relinked)'
    BY <1>1, <1>2 DEF Standing, Reached
  <2> QED
    BY <2>2, <2>3, <2>4, <2>5 DEF Standing
<1> QED
  BY <1>1, <1>7, <1>8, <1>9, CountsStay DEF IInv

-----------------------------------------------------------------------------
(* The calls of the clients.                                                 *)

(* A client aborts its pipe or clears its stall.                             *)
LEMMA AbortPipeKeeps ==
  ASSUME IInv, NEW e \in Endpoints, AbortPipe(e)
  PROVE  IInv'
<1>1. /\ HandleEndpointAbort(e, frames) /\ Watch
      /\ UNCHANGED <<sent, back, status, timed, transactionsOut>>
      /\ open' = open
  BY DEF AbortPipe, command
<1>2. /\ Standing(frames)' /\ Calls(frames') = Calls(frames)
      /\ \A R : Around(queue', frames', slots', R) = Around(queue, frames, slots, R)
  BY <1>1, AbortKeeps DEF IInv
<1> QED
  BY <1>1, <1>2, CountsStay DEF IInv

(* An endpoint is deleted with all its transfers.                            *)
LEMMA DeleteKeeps ==
  ASSUME IInv, NEW e \in Endpoints, UIMDeleteEndpoint(e)
  PROVE  IInv'
<1> DEFINE l == FindControlBulkEndpoint(e)
           on == schedule \/ relinked
<1>1. /\ Found(e) /\ Unlinked(l, e)
      /\ returnTransactions(e, Len(queue[e]), "returned", frames, "client")
      /\ aborting' = [aborting EXCEPT ![e] = FALSE]
      /\ open' = open \ {e} /\ Watch
      /\ UNCHANGED <<sent, back, status, timed, transactionsOut>>
  BY DEF UIMDeleteEndpoint, command
<1>2. /\ QueueTypes /\ schedule \in BOOLEAN /\ relinked \in BOOLEAN /\ Followed
      /\ Nested(frames, slots, nextDoneQueue) /\ Reached(queue, lists, on)
      /\ Apart(lists, open)
  BY DEF IInv, Standing
<1>3. /\ Apart(l, open) /\ ToSet(lists.active) \subseteq ToSet(l.active)
      /\ l.disabled = lists.disabled /\ e \in ToSet(l.active)
  BY <1>1, <1>2, FindKeeps
<1> HIDE DEF l
<1>4. /\ Apart(lists', open \ {e}) /\ ToSet(lists.active)' = ToSet(l.active) \ {e}
      /\ lists.disabled' = l.disabled /\ schedule' \in BOOLEAN
      /\ schedule /\ ToSet(l.active) # {e} => schedule'
  BY <1>1, <1>2, <1>3, UnlinkedKeeps
<1>5. /\ queue \in Queues /\ overlay \in [Endpoints -> Overlays]
      /\ aborting \in [Endpoints -> BOOLEAN]
  BY <1>2 DEF QueueTypes
<1>6. Len(queue[e]) \in 0 .. Len(queue[e])
  BY <1>5 DEF Queues
<1>7. "client" \in Clients /\ "returned" \in {"returned", "timeout"}
  BY DEF Clients
<1>8. /\ Nested(frames, slots, nextDoneQueue)' /\ Calls(frames') = Calls(frames)
      /\ queue' \in Queues /\ overlay' \in [Endpoints -> Overlays] /\ Followed'
      /\ \A R : Around(queue', frames', slots', R) = Around(queue, frames, slots, R)
      /\ \A d \in Endpoints : Active(queue'[d]) => Active(queue[d])
      /\ ~Active(queue'[e])
  BY <1>1, <1>2, <1>5, <1>6, <1>7, ReturnsKeep
<1>9. aborting' \in [Endpoints -> BOOLEAN]
  BY <1>1, <1>5
<1>10. Reached(queue', lists', (schedule \/ relinked)')
  <2>1. ASSUME NEW d \in Endpoints, Active(queue'[d])
        PROVE  \/ d \in ToSet(lists.active)' /\ (schedule \/ relinked)'
               \/ d \in ToSet(lists.disabled)'
    <3>1. d # e /\ Active(queue[d])
      BY <1>8, <2>1
    <3>2. (d \in ToSet(lists.active) /\ on) \/ d \in ToSet(lists.disabled)
      BY <1>2, <3>1 DEF Reached
    <3>3. CASE d \in ToSet(lists.disabled)
      BY <1>3, <1>4, <3>3
    <3>4. CASE d \in ToSet(lists.active) /\ on
      <4>1. d \in ToSet(lists.active)' /\ ToSet(l.active) # {e}
        BY <1>3, <1>4, <3>1, <3>4
      <4>2. (schedule \/ relinked)'
        BY <1>1, <1>2, <1>4, <3>4, <4>1 DEF Watch
      <4> QED
        BY <4>1, <4>2
    <3> QED
      BY <3>2, <3>3, <3>4
  <2> QED
    BY <2>1 DEF Reached
<1>11. Standing(frames)'
  <2>1. QueueTypes' /\ (relinked \in BOOLEAN)' /\ Apart(lists, open)'
    BY <1>1, <1>2, <1>4, <1>8, <1>9 DEF QueueTypes, Watch
  <2> QED
    BY <1>4, <1>8, <1>10, <2>1 DEF Standing
<1> QED
  BY <1>1, <1>8, <1>11, CountsStay DEF IInv

(* An endpoint that was not there is linked.                                 *)
LEMMA AddKeeps ==
  ASSUME IInv, NEW e \in Endpoints, AddEmptyCBEndPoint(e)
  PROVE  IInv'
<1> DEFINE a == lists.active
           i == lists.inactive
           d == lists.disabled
           b == linkAsyncEndpoint(a, e)
<1>1. /\ e \notin open /\ lists' = [lists EXCEPT !.active = b]
      /\ open' = open \cup {e}
      /\ UNCHANGED <<queue, overlay, aborting, schedule, relinked>>
      /\ frames' = frames /\ slots' = slots /\ nextDoneQueue' = nextDoneQueue
      /\ UNCHANGED <<sent, back, status, timed, transactionsOut>>
  BY DEF AddEmptyCBEndPoint, command, gate
<1>2. Standing(frames) /\ Apart(lists, open)
  BY DEF IInv, Standing
<1>3. /\ a \in Seq(Endpoints) /\ i \in Seq(Endpoints) /\ d \in Seq(Endpoints)
      /\ lists = [active |-> a, inactive |-> i, disabled |-> d]
  BY <1>2 DEF Apart
<1>4. /\ IsInjective(a) /\ IsInjective(i) /\ IsInjective(d)
      /\ ToSet(a) \cap ToSet(i) = {} /\ ToSet(a) \cap ToSet(d) = {}
      /\ ToSet(i) \cap ToSet(d) = {}
      /\ ToSet(a) \cup ToSet(i) \cup ToSet(d) = open
  BY <1>2 DEF Apart
<1>5. /\ b \in Seq(Endpoints) /\ ToSet(b) = ToSet(a) \cup {e}
      /\ IsInjective(a) /\ e \notin ToSet(a) => IsInjective(b)
  BY <1>3, LinkIs
<1> HIDE DEF b
<1>6. /\ lists.active' = b /\ lists.inactive' = i /\ lists.disabled' = d
      /\ lists' = [active |-> b, inactive |-> i, disabled |-> d]
  BY <1>1, <1>3
<1> HIDE DEF a, i, d
<1>7. Apart(lists, open)'
  <2>1. /\ IsInjective(b) /\ ToSet(b) \cap ToSet(i) = {}
        /\ ToSet(b) \cap ToSet(d) = {}
        /\ ToSet(b) \cup ToSet(i) \cup ToSet(d) = open \cup {e}
    BY <1>1, <1>4, <1>5
  <2> QED
    BY <1>1, <1>3, <1>4, <1>5, <1>6, <2>1 DEF Apart
<1>8. Standing(frames)'
  <2>1. QueueTypes' /\ Followed'
    BY <1>1, <1>2 DEF Standing, QueueTypes, Followed
  <2>2. (schedule \in BOOLEAN)' /\ (relinked \in BOOLEAN)'
        /\ Nested(frames, slots, nextDoneQueue)'
    BY <1>1, <1>2 DEF Standing
  <2>3. Reached(queue, lists, schedule \/ relinked)'
    <3>1. ToSet(a) \subseteq ToSet(lists.active)' /\ lists.disabled' = lists.disabled
      BY <1>5, <1>6 DEF d
    <3> QED
      BY <1>1, <1>2, <3>1 DEF Standing, Reached, a
  <2> QED
    BY <1>7, <2>1, <2>2, <2>3 DEF Standing
<1> QED
  BY <1>1, <1>8, CountsStay DEF IInv

(* The stages of a request are transfers like those that are counted.        *)
LEMMA SubmitKeeps ==
  ASSUME IInv, NEW r \in Requests, Submit(r)
  PROVE  IInv'
<1> DEFINE e == Target[r]
           st == Stages(r)
           n == Len(st)
           new == [i \in DOMAIN st |-> [req |-> r, stage |-> st[i], hw |-> "active"]]
           l == FindControlBulkEndpoint(e)
           ts == queue[e]
<1>1. /\ ~Out(r) /\ Found(e) /\ lists' = l
      /\ queue' = [queue EXCEPT ![e] = ts \o new]
      /\ transactionsOut' = transactionsOut + n
      /\ schedule' = TRUE
      /\ sent' = [sent EXCEPT ![r] = ToSet(st)]
      /\ \E b \in BOOLEAN : timed' = [timed EXCEPT ![r] = b]
      /\ back' = [back EXCEPT ![r] = {}]
      /\ status' = [status EXCEPT ![r] = "success"]
      /\ Watch /\ UNCHANGED <<overlay, aborting, open>>
      /\ frames' = frames /\ slots' = slots /\ nextDoneQueue' = nextDoneQueue
  BY DEF Submit, allocateTDs, gate
<1>2. Standing(frames) /\ CommandTypes /\ Told /\ Counted /\ Accounted
  BY DEF IInv
<1>3. /\ QueueTypes /\ schedule \in BOOLEAN /\ relinked \in BOOLEAN /\ Followed
      /\ Nested(frames, slots, nextDoneQueue) /\ Apart(lists, open)
      /\ Reached(queue, lists, schedule \/ relinked)
      /\ queue \in Queues
  BY <1>2 DEF Standing, QueueTypes
<1>4. e \in Endpoints
  BY EHCIAssumption
<1>5. /\ st \in Seq(StageNames) /\ ToSet(st) \subseteq StageNames /\ n \in Nat
      /\ \A i \in 1 .. n : st[i] = "setup" => i + 1 \in 1 .. n
      /\ Cardinality(ToSet(st)) = n /\ DOMAIN st = 1 .. n
  BY StagesAre
<1> HIDE DEF st, n
<1>6. \A i \in 1 .. n : st[i] \in StageNames
  BY <1>5, ElementOfSeq DEF n
<1>7. /\ new \in Seq(Transfer) /\ Len(new) = n /\ DOMAIN new = 1 .. n
      /\ \A i \in 1 .. n : /\ new[i].req = r /\ new[i].stage = st[i]
                           /\ new[i] \in Transfer
  <2>1. \A i \in 1 .. n : [req |-> r, stage |-> st[i], hw |-> "active"] \in Transfer
    BY <1>6 DEF Transfer, Hws
  <2>2. new \in [1 .. n -> Transfer]
    BY <1>5, <2>1
  <2>3. \A i \in 1 .. n : new[i].req = r /\ new[i].stage = st[i]
    BY <1>5
  <2> HIDE DEF new
  <2>4. new \in Seq(Transfer) /\ Len(new) = n /\ DOMAIN new = 1 .. n
    BY <1>5, <2>2
  <2> QED
    BY <2>2, <2>3, <2>4
<1>8. ts \in Seq(Transfer) /\ FollowedIn(ts)
  BY <1>3, <1>4 DEF Queues, Followed
<1> HIDE DEF new, ts, e, l
<1>9. /\ ts \o new \in Seq(Transfer) /\ Len(ts \o new) = Len(ts) + n
      /\ Len(ts) \in Nat
      /\ \A i \in 1 .. Len(ts) + n :
            (ts \o new)[i] = IF i <= Len(ts) THEN ts[i] ELSE new[i - Len(ts)]
  <2>1. new \in Seq(Transfer) /\ ts \in Seq(Transfer)
    BY <1>7, <1>8
  <2>2. /\ ts \o new \in Seq(Transfer) /\ Len(ts \o new) = Len(ts) + Len(new)
        /\ Len(ts) \in Nat
        /\ \A i \in 1 .. Len(ts) + Len(new) :
              (ts \o new)[i] = IF i <= Len(ts) THEN ts[i] ELSE new[i - Len(ts)]
    BY <2>1
  <2> QED
    BY <1>7, <2>2
<1>10. /\ queue' \in Queues /\ queue'[e] = ts \o new
       /\ \A d \in Endpoints : d # e => queue'[d] = queue[d]
  BY <1>1, <1>3, <1>4, <1>9 DEF Queues
<1>11. FollowedIn(ts \o new)
  <2> DEFINE m == Len(ts)
             u == ts \o new
  <2>1. ASSUME NEW i \in 1 .. m + n, u[i].stage = "setup"
        PROVE  i + 1 \in 1 .. m + n
    <3>1. CASE i <= m
      <4>1. u[i] = ts[i] /\ i \in 1 .. m
        BY <1>9, <3>1
      <4>2. i + 1 \in 1 .. m
        BY <1>8, <2>1, <4>1 DEF FollowedIn
      <4> QED
        BY <1>5, <1>9, <4>2
    <3>2. CASE ~(i <= m)
      <4>1. i - m \in 1 .. n
        BY <1>5, <1>9, <3>2
      <4>2. u[i] = new[i - m]
        BY <1>9, <3>2
      <4>3. (i - m) + 1 \in 1 .. n
        BY <1>5, <1>7, <2>1, <4>1, <4>2
      <4> QED
        BY <1>5, <1>9, <4>3
    <3> QED
      BY <3>1, <3>2
  <2> QED
    BY <1>9, <2>1 DEF FollowedIn
<1>12. \A R : Amount(new, R) = IF r \in R THEN n ELSE 0
  <2>1. \A k \in Seq(Nat) : \A x \in Nat :
           (\A i \in 1 .. Len(k) : x <= k[i] /\ k[i] <= x) =>
               Total(k) = x * Len(k)
    <3>1. ASSUME NEW k \in Seq(Nat), NEW x \in Nat,
                 \A i \in 1 .. Len(k) : x <= k[i] /\ k[i] <= x
          PROVE  Total(k) = x * Len(k)
      <4>1. x * Len(k) <= Total(k) /\ Total(k) <= x * Len(k)
        BY <3>1, TotalBounds
      <4>2. Total(k) \in Nat /\ x * Len(k) \in Nat
        BY SumsStep
      <4> QED
        BY <4>1, <4>2
    <3> QED
      BY <3>1
  <2>2. ASSUME NEW R PROVE Amount(new, R) = IF r \in R THEN n ELSE 0
    <3> DEFINE x == IF r \in R THEN 1 ELSE 0
               k == [i \in DOMAIN new |-> IF new[i].req \in R THEN 1 ELSE 0]
    <3>1. x \in Nat
      OBVIOUS
    <3>2. k = [i \in 1 .. n |-> x]
      BY <1>7
    <3>3. Amount(new, R) = Total(k)
      BY DEF Amount
    <3> HIDE DEF k
    <3>4. k \in [1 .. n -> Nat] /\ \A i \in 1 .. n : k[i] = x
      BY <3>1, <3>2
    <3>5. k \in Seq(Nat) /\ Len(k) = n
      BY <1>5, <3>4
    <3>6. Total(k) = x * Len(k)
      BY <2>1, <3>1, <3>4, <3>5
    <3> QED
      BY <1>5, <3>3, <3>5, <3>6
  <2> QED
    BY <2>2
<1>13. ASSUME NEW R
       PROVE  Around(queue', frames', slots', R)
                  = Around(queue, frames, slots, R) + (IF r \in R THEN n ELSE 0)
  <2> DEFINE x == InQueues(queue, R)
             y == InQueues(queue', R)
             z == Amount(ts, R)
             k == IF r \in R THEN n ELSE 0
             g == InGate(frames, slots, R)
  <2>1. InQueues(queue', R) + Amount(queue[e], R)
            = InQueues(queue, R) + Amount(queue'[e], R)
    BY <1>3, <1>4, <1>10, QueueChanges DEF e
  <2>2. Amount(ts \o new, R) = z + Amount(new, R)
    BY <1>7, <1>8, AmountOfConcat
  <2>3. y + z = x + (z + k)
    BY <1>10, <1>12, <2>1, <2>2 DEF ts
  <2>4. x \in Nat /\ y \in Nat /\ z \in Nat /\ k \in Nat /\ g \in Nat
    <3>1. frames \in Seq(Frames) /\ slots \in Seq(Seq(Result))
      BY <1>3 DEF Nested
    <3>2. x \in Nat /\ y \in Nat /\ g \in Nat
      BY <1>3, <1>10, <3>1, AroundIsNat
    <3> QED
      BY <1>5, <1>8, <3>2, AmountIsWeight
  <2>5. /\ Around(queue', frames', slots', R) = y + g
        /\ Around(queue, frames, slots, R) = x + g
    BY <1>1 DEF Around
  <2> HIDE DEF x, y, z, k, g
  <2>6. y + g = (x + g) + k
    BY <2>3, <2>4
  <2> QED
    BY <2>5, <2>6 DEF k
<1>14. \A R : Around(queue, frames, slots, R) \in Nat /\ Calls(frames) \in Nat
  <2>1. frames \in Seq(Frames) /\ slots \in Seq(Seq(Result))
    BY <1>3 DEF Nested
  <2> QED
    BY <1>3, <2>1, AroundIsNat
<1>15. Counted'
  <2> DEFINE x == Around(queue, frames, slots, Requests)
             y == Around(queue', frames', slots', Requests)
             z == Calls(frames)
  <2>1. y = x + n /\ x \in Nat /\ z \in Nat /\ transactionsOut = x + z
    BY <1>2, <1>13, <1>14 DEF Counted
  <2>2. Calls(frames') = z
    BY <1>1
  <2> HIDE DEF x, y, z
  <2>3. transactionsOut + n = y + z /\ transactionsOut + n \in Nat
    BY <1>5, <2>1
  <2> QED
    BY <1>1, <2>2, <2>3 DEF Counted, y
<1>16. /\ sent'[r] = ToSet(st) /\ back'[r] = {} /\ status'[r] = "success"
       /\ \A d \in Requests : d # r =>
             /\ sent'[d] = sent[d] /\ back'[d] = back[d]
             /\ status'[d] = status[d]
  BY <1>1, <1>2 DEF CommandTypes
<1>17. CommandTypes'
  BY <1>1, <1>2, <1>5 DEF CommandTypes
<1>18. Told'
  <2>1. ASSUME NEW d \in Requests
        PROVE  /\ sent'[d] = {} \/ sent'[d] = ToSet(Stages(d))
               /\ back'[d] \subseteq sent'[d]
               /\ status'[d] # "success" /\ Out(d)' => Target[d] \in Control
    BY <1>2, <1>16 DEF Told, Out, st
  <2> QED
    BY <2>1 DEF Told, Stages
<1>19. Accounted'
  <2>1. ASSUME NEW d \in Requests
        PROVE  Around(queue', frames', slots', {d})
                   = Cardinality(sent'[d] \ back'[d])
    <3> DEFINE x == Around(queue, frames, slots, {d})
    <3>1. /\ x = Cardinality(sent[d] \ back[d]) /\ x \in Nat
          /\ Around(queue', frames', slots', {d}) = x + (IF r = d THEN n ELSE 0)
      BY <1>2, <1>13, <1>14 DEF Accounted
    <3> HIDE DEF x
    <3>2. CASE d = r
      <4>1. sent[d] \ back[d] = {} /\ sent'[d] \ back'[d] = ToSet(st)
        BY <1>1, <1>16, <3>2 DEF Out
      <4>2. x = 0
        BY <3>1, <4>1, FS_EmptySet
      <4>3. Around(queue', frames', slots', {d}) = 0 + n
        BY <3>1, <3>2, <4>2
      <4>4. 0 + n = n /\ Cardinality(sent'[d] \ back'[d]) = n
        <5>1. Cardinality(sent'[d] \ back'[d]) = n
          BY <1>5, <4>1
        <5>2. n \in Nat
          BY <1>5
        <5> QED
          BY <5>1, <5>2
      <4> QED
        BY <4>3, <4>4
    <3>3. CASE d # r
      <4>1. x + 0 = x
        BY <3>1
      <4> QED
        BY <1>16, <3>1, <3>3, <4>1
    <3> QED
      BY <3>2, <3>3
  <2> QED
    BY <2>1 DEF Accounted
<1>20. Standing(frames)'
  <2>1. QueueTypes' /\ Followed'
    BY <1>1, <1>3, <1>10, <1>11 DEF QueueTypes, Followed
  <2>2. (schedule \in BOOLEAN)' /\ (relinked \in BOOLEAN)'
        /\ Nested(frames, slots, nextDoneQueue)'
    BY <1>1, <1>3 DEF Watch
  <2>3. /\ Apart(l, open) /\ ToSet(lists.active) \subseteq ToSet(l.active)
        /\ l.disabled = lists.disabled /\ e \in ToSet(l.active)
    BY <1>1, <1>3, <1>4, FindKeeps DEF l
  <2>4. Reached(queue, lists, schedule \/ relinked)'
    BY <1>1, <1>3, <1>10, <2>3 DEF Reached
  <2> QED
    BY <1>1, <2>1, <2>2, <2>3, <2>4 DEF Standing
<1> QED
  BY <1>15, <1>17, <1>18, <1>19, <1>20 DEF IInv

-----------------------------------------------------------------------------
(* The timer, a hub and the hardware.                                        *)

(* A time-out takes the first transfer, or the setup stage and the next.     *)
LEMMA TimeOutTakes ==
  ASSUME IInv, NEW e \in Endpoints, TimeOut(e)
  PROVE  ReturnOneTransaction(e) \in 0 .. Len(queue[e])
<1> DEFINE n == ReturnOneTransaction(e)
           ts == queue[e]
<1>1. ts \in Seq(Transfer) /\ FollowedIn(ts)
  BY DEF IInv, Standing, QueueTypes, Queues, Followed
<1>2. n = IF ts[1].stage = "setup" THEN 2 ELSE 1
  BY DEF ReturnOneTransaction
<1>3. ts # <<>>
  BY DEF TimeOut, Expired
<1> HIDE DEF ts, n
<1>4. Len(ts) \in Nat \ {0}
  BY <1>1, <1>3
<1>5. ts[1].stage = "setup" => 1 + 1 \in 1 .. Len(ts)
  BY <1>1, <1>4 DEF FollowedIn
<1>6. n \in 0 .. Len(ts)
  BY <1>2, <1>4, <1>5
<1> QED
  BY <1>6 DEF n, ts

(* What it takes goes to the gate, and the endpoint stays where it is.       *)
LEMMA TimeOutKeeps ==
  ASSUME IInv, NEW e \in Endpoints, TimeOut(e)
  PROVE  IInv'
<1> DEFINE on == schedule \/ relinked
           n == ReturnOneTransaction(e)
           ts == queue[e]
<1>1. /\ \/ Contains(lists.active, e) /\ HaltAsyncEndpoint(lists, e)
         \/ UNCHANGED <<lists, schedule>>
      /\ ts # <<>> /\ returnTransactions(e, n, "timeout", frames, "client")
      /\ Watch /\ aborting' = aborting /\ open' = open
      /\ UNCHANGED <<sent, back, status, timed, transactionsOut>>
  BY DEF TimeOut, Expired, command
<1>2. /\ QueueTypes /\ schedule \in BOOLEAN /\ relinked \in BOOLEAN /\ Followed
      /\ Nested(frames, slots, nextDoneQueue) /\ Reached(queue, lists, on)
      /\ Apart(lists, open)
  BY DEF IInv, Standing
<1>3. /\ queue \in Queues /\ overlay \in [Endpoints -> Overlays]
      /\ aborting \in [Endpoints -> BOOLEAN]
  BY <1>2 DEF QueueTypes
<1>4. n \in 0 .. Len(ts)
  BY TimeOutTakes
<1>5. /\ Apart(lists', open) /\ ToSet(lists.active)' = ToSet(lists.active)
      /\ lists.disabled' = lists.disabled
      /\ schedule' \in BOOLEAN /\ (schedule => schedule')
  <2>1. CASE Contains(lists.active, e) /\ HaltAsyncEndpoint(lists, e)
    <3>1. lists.active \in Seq(Endpoints)
      BY <1>2 DEF Apart
    <3>2. e \in ToSet(lists.active)
      BY <2>1, <3>1, ContainsIs
    <3> QED
      BY <1>2, <2>1, <3>2, HaltKeeps
  <2>2. CASE UNCHANGED <<lists, schedule>>
    BY <1>2, <2>2
  <2> QED
    BY <1>1, <2>1, <2>2
<1> HIDE DEF n
<1>6. "client" \in Clients /\ "timeout" \in {"returned", "timeout"}
  BY DEF Clients
<1>7. /\ Nested(frames, slots, nextDoneQueue)' /\ Calls(frames') = Calls(frames)
      /\ queue' \in Queues /\ overlay' \in [Endpoints -> Overlays] /\ Followed'
      /\ \A R : Around(queue', frames', slots', R) = Around(queue, frames, slots, R)
      /\ \A d \in Endpoints : Active(queue'[d]) => Active(queue[d])
  BY <1>1, <1>2, <1>3, <1>4, <1>6, ReturnsKeep
<1>8. (schedule \/ relinked) => (schedule \/ relinked)'
  BY <1>1, <1>5 DEF Watch
<1>9. Reached(queue, lists, schedule \/ relinked)'
  BY <1>2, <1>5, <1>7, <1>8 DEF Reached
<1>10. Standing(frames)'
  <2>1. QueueTypes' /\ (relinked \in BOOLEAN)' /\ Apart(lists, open)'
    BY <1>1, <1>2, <1>3, <1>5, <1>7 DEF QueueTypes, Watch
  <2> QED
    BY <1>5, <1>7, <1>9, <2>1 DEF Standing
<1> QED
  BY <1>1, <1>7, <1>10, CountsStay DEF IInv

(* An idle endpoint has nothing that the hardware could still do.            *)
LEMMA TrimKeeps ==
  ASSUME IInv, NEW e \in Endpoints, Trim(e)
  PROVE  IInv'
<1> DEFINE a == lists.active
           i == lists.inactive
           d == lists.disabled
           b == unlinkAsyncEndpoint(a, e)
           j == <<e>> \o i
<1>1. /\ Contains(a, e) /\ queue[e] = <<>>
      /\ Unlinked([lists EXCEPT !.inactive = j], e)
      /\ Watch /\ open' = open /\ queue' = queue /\ overlay' = overlay
      /\ aborting' = aborting
      /\ frames' = frames /\ slots' = slots /\ nextDoneQueue' = nextDoneQueue
      /\ UNCHANGED <<sent, back, status, timed, transactionsOut>>
  BY DEF Trim, command, gate
<1>2. Standing(frames) /\ Apart(lists, open) /\ schedule \in BOOLEAN
      /\ relinked \in BOOLEAN
  BY DEF IInv, Standing
<1>3. /\ a \in Seq(Endpoints) /\ i \in Seq(Endpoints) /\ d \in Seq(Endpoints)
      /\ lists = [active |-> a, inactive |-> i, disabled |-> d]
  BY <1>2 DEF Apart
<1>4. /\ IsInjective(a) /\ IsInjective(i) /\ IsInjective(d)
      /\ ToSet(a) \cap ToSet(i) = {} /\ ToSet(a) \cap ToSet(d) = {}
      /\ ToSet(i) \cap ToSet(d) = {}
      /\ ToSet(a) \cup ToSet(i) \cup ToSet(d) = open
  BY <1>2 DEF Apart
<1>5. e \in ToSet(a)
  BY <1>1, <1>3, ContainsIs
<1>6. /\ b \in Seq(Endpoints) /\ ToSet(b) = ToSet(a) \ {e}
      /\ IsInjective(a) => IsInjective(b)
  BY <1>3, UnlinkIs
<1>7. j \in Seq(Endpoints) /\ ToSet(j) = ToSet(i) \cup {e} /\ IsInjective(j)
  <2> DEFINE one == <<e>>
  <2>1. one \in Seq(Endpoints) /\ ToSet(one) = {e} /\ IsInjective(one)
    BY SetOfOne
  <2>2. j = one \o i
    OBVIOUS
  <2> HIDE DEF one, i, j
  <2>3. /\ one \o i \in Seq(Endpoints) /\ ToSet(one \o i) = ToSet(one) \cup ToSet(i)
        /\ IsInjective(one) /\ IsInjective(i) /\ ToSet(one) \cap ToSet(i) = {}
               => IsInjective(one \o i)
    BY <1>3, <2>1, SetOfConcat
  <2>4. ToSet(one) \cap ToSet(i) = {}
    BY <1>4, <1>5, <2>1
  <2> QED
    BY <1>4, <2>1, <2>2, <2>3, <2>4
<1> HIDE DEF b, j
<1>8. lists' = [active |-> b, inactive |-> j, disabled |-> d]
      /\ schedule' = (schedule /\ Len(a) > 1)
  BY <1>1, <1>3 DEF Unlinked, b
<1>9. lists.active' = b /\ lists.inactive' = j /\ lists.disabled' = d
  BY <1>8
<1>10. Apart(lists, open)'
  <2> HIDE DEF a, i, d
  <2>1. /\ IsInjective(b) /\ ToSet(b) \cap ToSet(j) = {}
        /\ ToSet(b) \cap ToSet(d) = {} /\ ToSet(j) \cap ToSet(d) = {}
        /\ ToSet(b) \cup ToSet(j) \cup ToSet(d) = open
    BY <1>4, <1>5, <1>6, <1>7
  <2> QED
    BY <1>1, <1>3, <1>4, <1>6, <1>7, <1>8, <1>9, <2>1 DEF Apart
<1>11. Reached(queue, lists, schedule \/ relinked)'
  <2>1. ASSUME NEW c \in Endpoints, Active(queue'[c])
        PROVE  \/ c \in ToSet(lists.active)' /\ (schedule \/ relinked)'
               \/ c \in ToSet(lists.disabled)'
    <3>1. Active(queue[c]) /\ c # e
      BY <1>1, <2>1 DEF Active
    <3>2. (c \in ToSet(a) /\ (schedule \/ relinked)) \/ c \in ToSet(d)
      BY <1>2, <3>1 DEF Standing, Reached
    <3>3. CASE c \in ToSet(a) /\ (schedule \/ relinked)
      <4>1. c \in ToSet(lists.active)'
        BY <1>6, <1>9, <3>1, <3>3
      <4>2. Len(a) > 1
        <5>1. PICK x \in 1 .. Len(a) : a[x] = c
          BY <3>3 DEF ToSet
        <5>2. PICK y \in 1 .. Len(a) : a[y] = e
          BY <1>5 DEF ToSet
        <5>3. x # y /\ Len(a) \in Nat
          BY <1>3, <3>1, <5>1, <5>2
        <5> HIDE DEF a
        <5> QED
          BY <5>1, <5>2, <5>3
      <4>3. (schedule \/ relinked)'
        BY <1>1, <1>8, <3>3, <4>2 DEF Watch
      <4> QED
        BY <4>1, <4>3
    <3>4. CASE c \in ToSet(d)
      BY <1>9, <3>4
    <3> QED
      BY <3>2, <3>3, <3>4
  <2> QED
    BY <2>1 DEF Reached
<1>12. Standing(frames)'
  <2>1. QueueTypes' /\ Followed'
    BY <1>1, <1>2 DEF Standing, QueueTypes, Followed
  <2>2. (schedule \in BOOLEAN)' /\ (relinked \in BOOLEAN)'
        /\ Nested(frames, slots, nextDoneQueue)'
    BY <1>1, <1>2, <1>8 DEF Standing, Watch
  <2> QED
    BY <1>10, <1>11, <2>1, <2>2 DEF Standing
<1> QED
  BY <1>1, <1>12, CountsStay DEF IInv

(* What the walk over the inactive list takes is a part of it.               *)
LEMMA IdleIsPart ==
  ASSUME NEW l, l.inactive \in Seq(Endpoints), IsInjective(l.inactive), NEW a
  PROVE  /\ DisabledInactive(l, a) \in Seq(Endpoints)
         /\ IsInjective(DisabledInactive(l, a))
         /\ ToSet(DisabledInactive(l, a)) \subseteq ToSet(l.inactive)
<1> DEFINE i == l.inactive
<1>1. ASSUME i # <<>>, DisabledInactive(l, a) = <<Head(i)>>
      PROVE  /\ DisabledInactive(l, a) \in Seq(Endpoints)
             /\ IsInjective(DisabledInactive(l, a))
             /\ ToSet(DisabledInactive(l, a)) \subseteq ToSet(i)
  <2>1. Head(i) \in Endpoints /\ ToSet(i) = {Head(i)} \cup ToSet(Tail(i))
    BY <1>1, SetOfTail
  <2> QED
    BY <1>1, <2>1, SetOfOne
<1>2. ASSUME DisabledInactive(l, a) = Taken(i, a)
      PROVE  /\ DisabledInactive(l, a) \in Seq(Endpoints)
             /\ IsInjective(DisabledInactive(l, a))
             /\ ToSet(DisabledInactive(l, a)) \subseteq ToSet(i)
  <2> DEFINE S == {e \in Endpoints : Of(a, e)}
  <2>1. /\ Only(i, S) \in Seq(Endpoints) /\ ToSet(Only(i, S)) = ToSet(i) \cap S
        /\ IsInjective(i) => IsInjective(Only(i, S))
    BY OnlyIs
  <2> QED
    BY <1>2, <2>1 DEF Taken
<1> QED
  BY <1>1, <1>2 DEF DisabledInactive

(* The endpoints of a device are on another list than before.                *)
LEMMA DisableKeeps ==
  ASSUME IInv, NEW addr \in Addresses, DisableAddressEndpoints(addr)
  PROVE  IInv'
<1> DEFINE a == lists.active
           i == lists.inactive
           d == lists.disabled
           idle == DisabledInactive(lists, addr)
           busy == Taken(a, addr)
           kept == Kept(a, addr)
           rest == Only(i, Endpoints \ ToSet(idle))
           moved == Reverse(busy \o idle)
           off == moved \o d
<1>1. /\ lists' = [active |-> kept, inactive |-> rest, disabled |-> off]
      /\ schedule' = (schedule /\ lists'.active # <<>>)
      /\ Watch /\ open' = open /\ queue' = queue /\ overlay' = overlay
      /\ aborting' = aborting
      /\ frames' = frames /\ slots' = slots /\ nextDoneQueue' = nextDoneQueue
      /\ UNCHANGED <<sent, back, status, timed, transactionsOut>>
  BY DEF DisableAddressEndpoints, command, gate
<1>2. Standing(frames) /\ Apart(lists, open) /\ schedule \in BOOLEAN
      /\ relinked \in BOOLEAN
  BY DEF IInv, Standing
<1>3. /\ a \in Seq(Endpoints) /\ i \in Seq(Endpoints) /\ d \in Seq(Endpoints)
  BY <1>2 DEF Apart
<1>4. /\ IsInjective(a) /\ IsInjective(i) /\ IsInjective(d)
      /\ ToSet(a) \cap ToSet(i) = {} /\ ToSet(a) \cap ToSet(d) = {}
      /\ ToSet(i) \cap ToSet(d) = {}
      /\ ToSet(a) \cup ToSet(i) \cup ToSet(d) = open
  BY <1>2 DEF Apart
<1>5. /\ idle \in Seq(Endpoints) /\ IsInjective(idle)
      /\ ToSet(idle) \subseteq ToSet(i)
  BY <1>3, <1>4, IdleIsPart
<1>6. /\ busy \in Seq(Endpoints) /\ IsInjective(busy)
      /\ kept \in Seq(Endpoints) /\ IsInjective(kept)
      /\ ToSet(busy) \cup ToSet(kept) = ToSet(a) /\ ToSet(busy) \cap ToSet(kept) = {}
  <2> DEFINE S == {e \in Endpoints : Of(addr, e)}
             T == {e \in Endpoints : ~Of(addr, e)}
  <2>1. /\ Only(a, S) \in Seq(Endpoints) /\ ToSet(Only(a, S)) = ToSet(a) \cap S
        /\ IsInjective(a) => IsInjective(Only(a, S))
    BY <1>3, OnlyIs
  <2>2. /\ Only(a, T) \in Seq(Endpoints) /\ ToSet(Only(a, T)) = ToSet(a) \cap T
        /\ IsInjective(a) => IsInjective(Only(a, T))
    BY <1>3, OnlyIs
  <2>3. busy = Only(a, S) /\ kept = Only(a, T)
    BY DEF Taken, Kept
  <2>4. ToSet(a) \subseteq Endpoints /\ S \cup T = Endpoints /\ S \cap T = {}
    BY <1>3 DEF ToSet
  <2> HIDE DEF a, busy, kept, S, T
  <2> QED
    BY <1>4, <2>1, <2>2, <2>3, <2>4
<1>7. /\ rest \in Seq(Endpoints) /\ IsInjective(rest)
      /\ ToSet(rest) = ToSet(i) \ ToSet(idle)
  <2> DEFINE S == Endpoints \ ToSet(idle)
  <2>1. /\ Only(i, S) \in Seq(Endpoints) /\ ToSet(Only(i, S)) = ToSet(i) \cap S
        /\ IsInjective(i) => IsInjective(Only(i, S))
    BY <1>3, OnlyIs
  <2>2. ToSet(i) \subseteq Endpoints
    BY <1>3 DEF ToSet
  <2>3. rest = Only(i, S)
    OBVIOUS
  <2> HIDE DEF i, rest, idle
  <2> QED
    BY <1>4, <2>1, <2>2, <2>3
<1> HIDE DEF a, i, d, idle, busy, kept, rest
<1>8. /\ moved \in Seq(Endpoints) /\ IsInjective(moved)
      /\ ToSet(moved) = ToSet(busy) \cup ToSet(idle)
  <2> DEFINE both == busy \o idle
  <2>1. /\ both \in Seq(Endpoints) /\ ToSet(both) = ToSet(busy) \cup ToSet(idle)
        /\ IsInjective(busy) /\ IsInjective(idle) /\ ToSet(busy) \cap ToSet(idle) = {}
               => IsInjective(both)
    BY <1>5, <1>6, SetOfConcat
  <2>2. IsInjective(both)
    BY <1>4, <1>5, <1>6, <2>1
  <2> HIDE DEF both
  <2>3. /\ Reverse(both) \in Seq(Endpoints) /\ ToSet(Reverse(both)) = ToSet(both)
        /\ IsInjective(both) => IsInjective(Reverse(both))
    BY <2>1, SetOfReverse
  <2> QED
    BY <2>1, <2>2, <2>3 DEF both
<1> HIDE DEF moved
<1>9. /\ off \in Seq(Endpoints) /\ IsInjective(off)
      /\ ToSet(off) = ToSet(busy) \cup ToSet(idle) \cup ToSet(d)
  <2>1. /\ off \in Seq(Endpoints) /\ ToSet(off) = ToSet(moved) \cup ToSet(d)
        /\ IsInjective(moved) /\ IsInjective(d) /\ ToSet(moved) \cap ToSet(d) = {}
               => IsInjective(off)
    BY <1>3, <1>8, SetOfConcat
  <2> HIDE DEF off
  <2>2. ToSet(moved) \cap ToSet(d) = {}
    BY <1>4, <1>5, <1>6, <1>8
  <2> QED
    BY <1>4, <1>8, <2>1, <2>2
<1> HIDE DEF off
<1>10. lists.active' = kept /\ lists.inactive' = rest /\ lists.disabled' = off
  BY <1>1
<1>11. Apart(lists, open)'
  <2>1. /\ ToSet(kept) \cap ToSet(rest) = {} /\ ToSet(kept) \cap ToSet(off) = {}
        /\ ToSet(rest) \cap ToSet(off) = {}
        /\ ToSet(kept) \cup ToSet(rest) \cup ToSet(off) = open
    <3> DEFINE sa == ToSet(a)
               si == ToSet(i)
               sd == ToSet(d)
               sx == ToSet(idle)
               sb == ToSet(busy)
               sk == ToSet(kept)
    <3>1. /\ sa \cap si = {} /\ sa \cap sd = {} /\ si \cap sd = {}
          /\ sa \cup si \cup sd = open /\ sx \subseteq si
          /\ sb \cup sk = sa /\ sb \cap sk = {}
      BY <1>4, <1>5, <1>6
    <3>2. ToSet(rest) = si \ sx /\ ToSet(off) = sb \cup sx \cup sd
      BY <1>7, <1>9
    <3> HIDE DEF sa, si, sd, sx, sb
    <3> QED
      BY <3>1, <3>2
  <2> QED
    BY <1>1, <1>6, <1>7, <1>9, <1>10, <2>1 DEF Apart
<1>12. Reached(queue, lists, schedule \/ relinked)'
  <2>1. ASSUME NEW c \in Endpoints, Active(queue'[c])
        PROVE  \/ c \in ToSet(lists.active)' /\ (schedule \/ relinked)'
               \/ c \in ToSet(lists.disabled)'
    <3>1. (c \in ToSet(a) /\ (schedule \/ relinked)) \/ c \in ToSet(d)
      BY <1>1, <1>2, <2>1 DEF Standing, Reached, a, d
    <3>2. CASE c \in ToSet(kept) /\ (schedule \/ relinked)
      <4>1. kept # <<>>
        BY <3>2 DEF ToSet
      <4>2. (schedule \/ relinked)'
        BY <1>1, <1>10, <3>2, <4>1 DEF Watch
      <4> QED
        BY <1>10, <3>2, <4>2
    <3>3. CASE c \in ToSet(busy) \/ c \in ToSet(d)
      BY <1>9, <1>10, <3>3
    <3> QED
      BY <1>6, <3>1, <3>2, <3>3
  <2> QED
    BY <2>1 DEF Reached
<1>13. Standing(frames)'
  <2>1. QueueTypes' /\ Followed'
    BY <1>1, <1>2 DEF Standing, QueueTypes, Followed
  <2>2. (schedule \in BOOLEAN)' /\ (relinked \in BOOLEAN)'
        /\ Nested(frames, slots, nextDoneQueue)'
    BY <1>1, <1>2 DEF Standing, Watch
  <2> QED
    BY <1>11, <1>12, <2>1, <2>2 DEF Standing
<1> QED
  BY <1>1, <1>13, CountsStay DEF IInv

(* They are linked again, with the schedule on or noted as off.              *)
LEMMA EnableKeeps ==
  ASSUME IInv, NEW addr \in Addresses, EnableAddressEndpoints(addr)
  PROVE  IInv'
<1> DEFINE a == lists.active
           i == lists.inactive
           d == lists.disabled
           new == Taken(d, addr)
           off == Kept(d, addr)
           on == LinkedInTurn(a, new)
<1>1. /\ new # <<>>
      /\ lists' = [lists EXCEPT !.active = on, !.disabled = off]
      /\ relinked' = ~schedule /\ schedule' = schedule
      /\ open' = open /\ queue' = queue /\ overlay' = overlay
      /\ aborting' = aborting
      /\ frames' = frames /\ slots' = slots /\ nextDoneQueue' = nextDoneQueue
      /\ UNCHANGED <<sent, back, status, timed, transactionsOut>>
  BY DEF EnableAddressEndpoints, command, gate
<1>2. Standing(frames) /\ Apart(lists, open) /\ schedule \in BOOLEAN
      /\ relinked \in BOOLEAN
  BY DEF IInv, Standing
<1>3. /\ a \in Seq(Endpoints) /\ i \in Seq(Endpoints) /\ d \in Seq(Endpoints)
      /\ lists = [active |-> a, inactive |-> i, disabled |-> d]
  BY <1>2 DEF Apart
<1>4. /\ IsInjective(a) /\ IsInjective(i) /\ IsInjective(d)
      /\ ToSet(a) \cap ToSet(i) = {} /\ ToSet(a) \cap ToSet(d) = {}
      /\ ToSet(i) \cap ToSet(d) = {}
      /\ ToSet(a) \cup ToSet(i) \cup ToSet(d) = open
  BY <1>2 DEF Apart
<1>5. /\ new \in Seq(Endpoints) /\ IsInjective(new)
      /\ off \in Seq(Endpoints) /\ IsInjective(off)
      /\ ToSet(new) \cup ToSet(off) = ToSet(d) /\ ToSet(new) \cap ToSet(off) = {}
  <2> DEFINE S == {e \in Endpoints : Of(addr, e)}
             T == {e \in Endpoints : ~Of(addr, e)}
  <2>1. /\ Only(d, S) \in Seq(Endpoints) /\ ToSet(Only(d, S)) = ToSet(d) \cap S
        /\ IsInjective(d) => IsInjective(Only(d, S))
    BY <1>3, OnlyIs
  <2>2. /\ Only(d, T) \in Seq(Endpoints) /\ ToSet(Only(d, T)) = ToSet(d) \cap T
        /\ IsInjective(d) => IsInjective(Only(d, T))
    BY <1>3, OnlyIs
  <2>3. new = Only(d, S) /\ off = Only(d, T)
    BY DEF Taken, Kept
  <2>4. ToSet(d) \subseteq Endpoints /\ S \cup T = Endpoints /\ S \cap T = {}
    BY <1>3 DEF ToSet
  <2> HIDE DEF d, new, off, S, T
  <2> QED
    BY <1>4, <2>1, <2>2, <2>3, <2>4
<1> HIDE DEF new, off
<1>6. /\ on \in Seq(Endpoints) /\ ToSet(on) = ToSet(a) \cup ToSet(new)
      /\ IsInjective(on)
  <2>1. Unites(on, a, new)
    BY <1>1, <1>3, <1>5, LinkedInTurnIs
  <2>2. ToSet(a) \cap ToSet(new) = {}
    BY <1>4, <1>5
  <2> QED
    BY <1>4, <1>5, <2>1, <2>2 DEF Unites
<1> HIDE DEF on
<1>7. lists' = [active |-> on, inactive |-> i, disabled |-> off]
  BY <1>1, <1>3
<1>8. lists.active' = on /\ lists.inactive' = i /\ lists.disabled' = off
  BY <1>7
<1> HIDE DEF a, i, d
<1>9. Apart(lists, open)'
  <2>1. /\ ToSet(on) \cap ToSet(i) = {} /\ ToSet(on) \cap ToSet(off) = {}
        /\ ToSet(i) \cap ToSet(off) = {}
        /\ ToSet(on) \cup ToSet(i) \cup ToSet(off) = open
    BY <1>4, <1>5, <1>6
  <2> QED
    BY <1>1, <1>3, <1>4, <1>5, <1>6, <1>7, <1>8, <2>1 DEF Apart
<1>10. Reached(queue, lists, schedule \/ relinked)'
  <2>1. ASSUME NEW c \in Endpoints, Active(queue'[c])
        PROVE  \/ c \in ToSet(lists.active)' /\ (schedule \/ relinked)'
               \/ c \in ToSet(lists.disabled)'
    <3>1. c \in ToSet(a) \/ c \in ToSet(d)
      BY <1>1, <1>2, <2>1 DEF Standing, Reached, a, d
    <3>2. (schedule \/ relinked)'
      BY <1>1, <1>2
    <3> QED
      BY <1>5, <1>6, <1>8, <3>1, <3>2
  <2> QED
    BY <2>1 DEF Reached
<1>11. Standing(frames)'
  <2>1. QueueTypes' /\ Followed'
    BY <1>1, <1>2 DEF Standing, QueueTypes, Followed
  <2>2. (schedule \in BOOLEAN)' /\ (relinked \in BOOLEAN)'
        /\ Nested(frames, slots, nextDoneQueue)'
    BY <1>1, <1>2 DEF Standing
  <2> QED
    BY <1>9, <1>10, <2>1, <2>2 DEF Standing
<1> QED
  BY <1>1, <1>11, CountsStay DEF IInv

(* The hardware is done with the transfers before the first that is active.  *)
LEMMA FinishedIs ==
  ASSUME queue \in Queues, NEW e \in Endpoints
  PROVE  /\ Len(Finished(e)) \in 0 .. Len(queue[e])
         /\ Finished(e) \in Seq(Transfer)
         /\ Finished(e) = SubSeq(queue[e], 1, Len(Finished(e)))
         /\ Unfinished(e) # {} => Len(Finished(e)) + 1 \in 1 .. Len(queue[e])
<1> DEFINE ts == queue[e]
           m == Len(ts)
           T == Unfinished(e)
           f == Finished(e)
<1>1. ts \in Seq(Transfer) /\ m \in Nat
  BY DEF Queues
<1>2. T \subseteq 1 .. m
  BY <1>1 DEF Unfinished
<1>3. CASE T = {}
  <2>1. f = ts
    BY <1>3 DEF Finished
  <2> HIDE DEF ts, f
  <2>2. ts = SubSeq(ts, 1, m)
    BY <1>1
  <2> QED
    BY <1>1, <1>3, <2>1, <2>2 DEF f, ts
<1>4. CASE T # {}
  <2> DEFINE x == CHOOSE i \in T : \A j \in T : i <= j
  <2>1. T \subseteq Nat
    BY <1>1, <1>2
  <2>2. \E i \in T : \A j \in T : i <= j
    BY <1>4, <2>1, Smallest
  <2>3. x \in T
    BY <2>2
  <2>4. f = SubSeq(ts, 1, x - 1)
    BY <1>4 DEF Finished
  <2> HIDE DEF x, f, ts, T
  <2>5. x - 1 \in 0 .. m /\ (x - 1) + 1 \in 1 .. m
    BY <1>1, <1>2, <2>3
  <2>6. f \in Seq(Transfer) /\ Len(f) = x - 1
    BY <1>1, <2>4, <2>5
  <2> QED
    BY <2>4, <2>5, <2>6 DEF f, ts
<1> QED
  BY <1>3, <1>4

(* The hardware takes a transfer up: nothing moves.                          *)
LEMMA FetchKeeps ==
  ASSUME IInv, NEW e \in Endpoints, Fetch(e)
  PROVE  IInv'
<1>1. /\ UNCHANGED <<lists, queue, aborting, schedule, open, relinked>>
      /\ overlay' = [overlay EXCEPT ![e] =
             [status |-> "active", current |-> Len(Finished(e)) + 1]]
      /\ frames' = frames /\ slots' = slots /\ nextDoneQueue' = nextDoneQueue
      /\ UNCHANGED <<sent, back, status, timed, transactionsOut>>
  BY DEF Fetch, command, gate
<1>2. Standing(frames)
  BY DEF IInv
<1>3. overlay' \in [Endpoints -> Overlays]
  <2>1. queue \in Queues /\ overlay \in [Endpoints -> Overlays]
    BY <1>2 DEF Standing, QueueTypes
  <2>2. Len(Finished(e)) \in Nat
    BY <2>1, FinishedIs
  <2>3. [status |-> "active", current |-> Len(Finished(e)) + 1] \in Overlays
    BY <2>2 DEF Overlays
  <2> QED
    BY <1>1, <2>1, <2>3
<1>4. Standing(frames)'
  <2>1. QueueTypes' /\ Followed'
    BY <1>1, <1>2, <1>3 DEF Standing, QueueTypes, Followed
  <2>2. (schedule \in BOOLEAN)' /\ (relinked \in BOOLEAN)'
        /\ Nested(frames, slots, nextDoneQueue)' /\ Apart(lists, open)'
    BY <1>1, <1>2 DEF Standing
  <2>3. Reached(queue, lists, schedule \/ relinked)'
    BY <1>1, <1>2 DEF Standing
  <2> QED
    BY <2>1, <2>2, <2>3 DEF Standing
<1>5. /\ Calls(frames') = Calls(frames)
      /\ \A R : Around(queue', frames', slots', R) = Around(queue, frames, slots, R)
  BY <1>1
<1> QED
  BY <1>1, <1>4, <1>5, CountsStay DEF IInv

(* The hardware changes what became of a transfer, not whose it is.          *)
LEMMA HardwareKeeps ==
  ASSUME IInv, NEW e \in Endpoints, Hardware(e)
  PROVE  IInv'
<1> DEFINE i == Len(Finished(e)) + 1
           ts == queue[e]
           us == queue'[e]
<1>1. /\ Unfinished(e) # {}
      /\ \E h \in {"done", "halted"} : queue' = [queue EXCEPT ![e][i].hw = h]
      /\ \E h \in {"clear", "halted"} :
            overlay' = [overlay EXCEPT ![e].status = h]
      /\ UNCHANGED <<lists, aborting, schedule, open, relinked>>
      /\ frames' = frames /\ slots' = slots /\ nextDoneQueue' = nextDoneQueue
      /\ UNCHANGED <<sent, back, status, timed, transactionsOut>>
  <2>1. /\ Unfinished(e) # {}
        /\ UNCHANGED <<lists, aborting, schedule, open, relinked>>
        /\ frames' = frames /\ slots' = slots /\ nextDoneQueue' = nextDoneQueue
        /\ UNCHANGED <<sent, back, status, timed, transactionsOut>>
        /\ \/ /\ queue' = [queue EXCEPT ![e][i].hw = "done"]
              /\ overlay' = [overlay EXCEPT ![e].status = "clear"]
           \/ /\ queue' = [queue EXCEPT ![e][i].hw = "halted"]
              /\ overlay' = [overlay EXCEPT ![e].status = "halted"]
    BY DEF Hardware, Walked, gate
  <2> QED
    BY <2>1
<1>2. Standing(frames)
  BY DEF IInv
<1>3. /\ queue \in Queues /\ overlay \in [Endpoints -> Overlays]
      /\ frames \in Seq(Frames) /\ slots \in Seq(Seq(Result))
      /\ ts \in Seq(Transfer) /\ FollowedIn(ts)
  BY <1>2 DEF Standing, QueueTypes, Nested, Followed, Queues
<1>4. i \in 1 .. Len(ts)
  BY <1>1, <1>3, FinishedIs
<1> HIDE DEF i
<1>5. PICK h \in {"done", "halted"} : queue' = [queue EXCEPT ![e][i].hw = h]
  BY <1>1
<1>6. /\ us = [ts EXCEPT ![i].hw = h]
      /\ \A d \in Endpoints : d # e => queue'[d] = queue[d]
  BY <1>3, <1>5 DEF Queues
<1>7. /\ us \in Seq(Transfer) /\ DOMAIN us = DOMAIN ts /\ Len(us) = Len(ts)
      /\ \A j \in 1 .. Len(ts) : us[j].req = ts[j].req /\ us[j].stage = ts[j].stage
      /\ \A j \in 1 .. Len(ts) : us[j].hw = "active" => ts[j].hw = "active"
  <2> HIDE DEF ts, us
  <2> DEFINE x == [ts[i] EXCEPT !.hw = h]
  <2>1. /\ ts[i] \in Transfer /\ x \in Transfer
        /\ x.req = ts[i].req /\ x.stage = ts[i].stage /\ x.hw # "active"
    <3>1. ts[i] \in Transfer
      BY <1>3, <1>4, ElementOfSeq
    <3> QED
      BY <3>1 DEF Transfer, Hws
  <2>2. us = [ts EXCEPT ![i] = x]
    BY <1>6
  <2> HIDE DEF x
  <2>3. us \in Seq(Transfer) /\ Len(us) = Len(ts) /\ DOMAIN us = DOMAIN ts
    BY <1>3, <1>4, <2>1, <2>2
  <2>4. \A j \in 1 .. Len(ts) : us[j] = IF j = i THEN x ELSE ts[j]
    BY <1>3, <2>2
  <2> QED
    BY <2>1, <2>3, <2>4
<1>8. queue' \in Queues
  BY <1>3, <1>5, <1>6, <1>7 DEF Queues
<1>9. DOMAIN ts = 1 .. Len(ts) /\ DOMAIN us = 1 .. Len(ts)
  BY <1>3, <1>7
<1>10. FollowedIn(us) /\ (Active(us) => Active(ts))
  <2> HIDE DEF us, ts
  <2> QED
    BY <1>3, <1>7, <1>9 DEF FollowedIn, Active
<1>11. ASSUME NEW R
       PROVE  Around(queue', frames', slots', R) = Around(queue, frames, slots, R)
  <2>1. Amount(us, R) = Amount(ts, R)
    BY <1>7, <1>9, AmountOfSame
  <2>2. InQueues(queue', R) + Amount(ts, R) = InQueues(queue, R) + Amount(us, R)
    BY <1>3, <1>6, <1>8, QueueChanges
  <2> DEFINE x == InQueues(queue, R)
             y == InQueues(queue', R)
             z == Amount(ts, R)
  <2>3. x \in Nat /\ y \in Nat /\ z \in Nat /\ y + z = x + z
    BY <1>3, <1>8, <2>1, <2>2, QueuesAreWeight, AmountIsWeight
  <2> HIDE DEF x, y, z
  <2>4. y = x
    BY <2>3
  <2> QED
    BY <1>1, <2>4 DEF Around, x, y
<1>12. \A d \in Endpoints : Active(queue'[d]) => Active(queue[d])
  BY <1>6, <1>10
<1>13. Standing(frames)'
  <2>1. overlay' \in [Endpoints -> Overlays]
    BY <1>1, <1>3 DEF Overlays
  <2>2. QueueTypes' /\ Followed'
    BY <1>1, <1>2, <1>6, <1>8, <1>10, <2>1 DEF Standing, QueueTypes, Followed
  <2>3. (schedule \in BOOLEAN)' /\ (relinked \in BOOLEAN)'
        /\ Nested(frames, slots, nextDoneQueue)' /\ Apart(lists, open)'
    BY <1>1, <1>2 DEF Standing
  <2>4. Reached(queue, lists, schedule \/ relinked)'
    BY <1>1, <1>2, <1>12 DEF Standing, Reached
  <2> QED
    BY <2>2, <2>3, <2>4 DEF Standing
<1>14. Calls(frames') = Calls(frames)
  BY <1>1
<1> QED
  BY <1>1, <1>11, <1>13, <1>14, CountsStay DEF IInv

(* What the hardware is done with goes from the queues to the done queue.    *)
LEMMA VisitKeeps ==
  ASSUME IInv, NEW l \in Seq(Endpoints), IsInjective(l), scavengeAnEndpointQueue(l)
  PROVE  IInv'
<1> DEFINE cut == [e \in Endpoints |-> Done(Finished(e), "hardware")]
           ls == [i \in DOMAIN l |-> cut[l[i]]]
           gone == Flat(ls)
<1>1. /\ queue' = [e \in Endpoints |->
             IF Contains(l, e)
             THEN SubSeq(queue[e], Len(Finished(e)) + 1, Len(queue[e]))
             ELSE queue[e]]
      /\ EHCIUIMDoDoneQueueProcessing(frames, Flat(
             [i \in DOMAIN l |-> Done(Finished(l[i]), "hardware")]), "client")
      /\ overlay' = [e \in Endpoints |->
             IF Contains(l, e) THEN Shifted(e, Len(Finished(e))) ELSE overlay[e]]
      /\ UNCHANGED <<lists, aborting, schedule, open, relinked>>
      /\ UNCHANGED <<sent, back, status, timed, transactionsOut>>
  BY DEF scavengeAnEndpointQueue, command
<1>2. Standing(frames)
  BY DEF IInv
<1>3. /\ queue \in Queues /\ frames \in Seq(Frames) /\ slots \in Seq(Seq(Result))
      /\ Nested(frames, slots, nextDoneQueue) /\ Followed /\ Apart(lists, open)
  BY <1>2 DEF Standing, QueueTypes, Nested
<1>4. l \in Seq(Endpoints) /\ IsInjective(l)
  OBVIOUS
<1>5. \A e \in Endpoints :
         /\ Len(Finished(e)) \in 0 .. Len(queue[e])
         /\ Finished(e) \in Seq(Transfer)
         /\ Finished(e) = SubSeq(queue[e], 1, Len(Finished(e)))
         /\ queue[e] \in Seq(Transfer) /\ FollowedIn(queue[e])
  BY <1>3, FinishedIs DEF Queues, Followed
<1>6. \A e \in Endpoints : \A R :
         cut[e] \in Seq(Result) /\ Amount(cut[e], R) = Amount(Finished(e), R)
  <2>1. "hardware" \in {"hardware", "returned", "timeout"}
    OBVIOUS
  <2> QED
    BY <1>5, <2>1, DoneIs
<1>7. cut \in [Endpoints -> Seq(Result)]
  BY <1>6
<1>8. \A i \in DOMAIN l : l[i] \in Endpoints
  BY <1>4
<1>9. [i \in DOMAIN l |-> Done(Finished(l[i]), "hardware")] = ls
  BY <1>8
<1> HIDE DEF cut
<1>10. ls \in Seq(Seq(Result))
  <2> DEFINE D == Seq(Result)
             n == Len(l)
  <2>1. n \in Nat /\ DOMAIN l = 1 .. n
    BY <1>4
  <2> HIDE DEF D, n
  <2>2. cut \in [Endpoints -> D]
    BY <1>7 DEF D
  <2>3. \A i \in 1 .. n : cut[l[i]] \in D
    BY <1>8, <2>1, <2>2
  <2>4. ls \in [1 .. n -> D]
    BY <2>1, <2>3
  <2> HIDE DEF ls
  <2>5. ls \in Seq(D)
    BY <2>1, <2>4
  <2> QED
    BY <2>5 DEF D
<1> HIDE DEF ls
<1>11. \A e \in Endpoints :
          queue'[e] = IF e \in ToSet(l)
                      THEN SubSeq(queue[e], Len(Finished(e)) + 1, Len(queue[e]))
                      ELSE queue[e]
  BY <1>1, <1>4, ContainsIs
<1>12. ASSUME NEW e \in Endpoints
       PROVE  /\ queue'[e] \in Seq(Transfer) /\ FollowedIn(queue'[e])
              /\ Active(queue'[e]) => Active(queue[e])
  <2> DEFINE n == Len(Finished(e))
             ts == queue[e]
  <2>1. ts \in Seq(Transfer) /\ FollowedIn(ts) /\ n \in 0 .. Len(ts)
    BY <1>5
  <2> HIDE DEF n, ts
  <2>2. /\ FollowedIn(SubSeq(ts, n + 1, Len(ts)))
        /\ Active(SubSeq(ts, n + 1, Len(ts))) => Active(ts)
    BY <2>1, RestOfQueue
  <2>3. SubSeq(ts, n + 1, Len(ts)) \in Seq(Transfer)
    BY <2>1, AmountOfParts
  <2>4. queue'[e] = SubSeq(ts, n + 1, Len(ts)) \/ queue'[e] = ts
    BY <1>11 DEF n, ts
  <2> QED
    BY <2>1, <2>2, <2>3, <2>4 DEF ts
<1>13. queue' \in Queues
  BY <1>1, <1>12 DEF Queues
<1>14. "client" \in Clients
  BY DEF Clients
<1>15. gone \in Seq(Result) /\ \A R : Amount(gone, R) = InSlots(ls, R)
  BY <1>10, AmountOfFlat
<1>16. EHCIUIMDoDoneQueueProcessing(frames, gone, "client")
  BY <1>1, <1>9
<1> HIDE DEF gone
<1>17. /\ Nested(frames, slots, nextDoneQueue)' /\ Calls(frames') = Calls(frames)
       /\ \A R : InGate(frames', slots', R)
                     = InGate(frames, slots, R) + Amount(gone, R)
  BY <1>3, <1>14, <1>15, <1>16, DoneQueueTakes
<1>18. ASSUME NEW R
       PROVE  InQueues(queue, R) = InQueues(queue', R) + InSlots(ls, R)
  <2>1. ASSUME NEW e \in Endpoints
        PROVE  IF e \in ToSet(l)
               THEN Amount(queue[e], R) = Amount(cut[e], R) + Amount(queue'[e], R)
               ELSE queue'[e] = queue[e]
    <3> DEFINE n == Len(Finished(e))
               ts == queue[e]
    <3>1. ts \in Seq(Transfer) /\ n \in 0 .. Len(ts)
      BY <1>5
    <3> HIDE DEF n, ts
    <3>2. Amount(ts, R) = Amount(SubSeq(ts, 1, n), R)
                              + Amount(SubSeq(ts, n + 1, Len(ts)), R)
      BY <3>1, AmountOfParts
    <3> QED
      BY <1>5, <1>6, <1>11, <3>2 DEF n, ts
  <2>2. InQueues(queue, R)
            = InQueues(queue', R) + InSlots([i \in DOMAIN l |-> cut[l[i]]], R)
    <3>1. /\ queue \in Queues /\ queue' \in Queues
          /\ cut \in [Endpoints -> Seq(Result)]
      BY <1>3, <1>7, <1>13
    <3> QED
      BY <2>1, <3>1, QueuesCut
  <2> QED
    BY <2>2 DEF ls
<1>19. ASSUME NEW R
       PROVE  Around(queue', frames', slots', R) = Around(queue, frames, slots, R)
  <2> DEFINE x == InQueues(queue', R)
             y == InSlots(ls, R)
             z == InGate(frames, slots, R)
  <2>1. x \in Nat /\ y \in Nat /\ z \in Nat
    BY <1>3, <1>10, <1>13, AroundIsNat
  <2>2. /\ Around(queue', frames', slots', R) = x + (z + y)
        /\ Around(queue, frames, slots, R) = (x + y) + z
    BY <1>15, <1>17, <1>18 DEF Around
  <2> HIDE DEF x, y, z
  <2>3. x + (z + y) = (x + y) + z
    BY <2>1
  <2> QED
    BY <2>2, <2>3
<1>20. Standing(frames)'
  <2>4. overlay \in [Endpoints -> Overlays]
    BY <1>2 DEF Standing, QueueTypes
  <2>5. overlay' \in [Endpoints -> Overlays]
    <3>1. \A e \in Endpoints :
             Shifted(e, Len(Finished(e))) \in Overlays /\ overlay[e] \in Overlays
      <4>1. \A e \in Endpoints : Len(Finished(e)) \in Nat
        BY <1>5
      <4> QED
        BY <2>4, <4>1, ShiftedIs
    <3> QED
      BY <1>1, <3>1
  <2>1. QueueTypes' /\ Followed'
    BY <1>1, <1>2, <1>12, <1>13, <2>5 DEF Standing, QueueTypes, Followed
  <2>2. (schedule \in BOOLEAN)' /\ (relinked \in BOOLEAN)' /\ Apart(lists, open)'
    BY <1>1, <1>2 DEF Standing
  <2>3. Reached(queue, lists, schedule \/ relinked)'
    BY <1>1, <1>2, <1>12 DEF Standing, Reached
  <2> QED
    BY <1>17, <2>1, <2>2, <2>3 DEF Standing
<1> QED
  BY <1>1, <1>17, <1>19, <1>20, CountsStay DEF IInv

(* The timer visits the active list or that of idle endpoints.              *)
LEMMA ScavengeKeeps ==
  ASSUME IInv, scavengeCompletedTransactions
  PROVE  IInv'
<1>1. /\ lists.active \in Seq(Endpoints) /\ IsInjective(lists.active)
      /\ lists.inactive \in Seq(Endpoints) /\ IsInjective(lists.inactive)
  BY DEF IInv, Standing, Apart
<1> QED
  BY <1>1, VisitKeeps DEF scavengeCompletedTransactions

-----------------------------------------------------------------------------
(* The invariant.                                                            *)

(* At first there are no transfers, and every endpoint is active.            *)
LEMMA InitHolds == Init => IInv
<1> SUFFICES ASSUME Init PROVE IInv
  OBVIOUS
<1>1. /\ lists = [active |-> Order, inactive |-> <<>>, disabled |-> <<>>]
      /\ queue = [e \in Endpoints |-> <<>>]
      /\ overlay = [e \in Endpoints |-> [status |-> "clear", current |-> 0]]
      /\ aborting = [e \in Endpoints |-> FALSE]
      /\ schedule = FALSE /\ transactionsOut = 0 /\ relinked = FALSE
      /\ frames = <<>> /\ slots = <<>> /\ nextDoneQueue = 0
      /\ sent = [r \in Requests |-> {}] /\ back = [r \in Requests |-> {}]
      /\ status = [r \in Requests |-> "success"]
      /\ timed = [r \in Requests |-> TRUE]
      /\ open = Endpoints
  BY DEF Init
<1>2. QueueTypes /\ \A e \in Endpoints : queue[e] = <<>>
  BY <1>1 DEF QueueTypes, Queues, Overlays
<1>3. /\ Order \in Seq(Endpoints) /\ ToSet(Order) = Endpoints
      /\ IsInjective(Order) /\ Slots \in Nat \ {0}
  BY EHCIAssumption
<1>4. Standing(frames)
  <2>1. Followed
    BY <1>2 DEF Followed, FollowedIn
  <2>2. Nested(frames, slots, nextDoneQueue)
    BY <1>1, <1>3 DEF Nested
  <2>3. Apart(lists, open)
    <3>1. ToSet(<<>>) = {} /\ IsInjective(<<>>) /\ <<>> \in Seq(Endpoints)
      BY DEF ToSet, IsInjective
    <3>2. /\ lists.active = Order /\ lists.inactive = <<>> /\ lists.disabled = <<>>
          /\ lists \in [active : Seq(Endpoints), inactive : Seq(Endpoints),
                        disabled : Seq(Endpoints)]
      BY <1>1, <1>3, <3>1
    <3> QED
      BY <1>1, <1>3, <3>1, <3>2 DEF Apart
  <2>4. Reached(queue, lists, schedule \/ relinked)
    BY <1>2 DEF Reached, Active
  <2>5. schedule \in BOOLEAN /\ relinked \in BOOLEAN
    BY <1>1
  <2> QED
    BY <1>2, <2>1, <2>2, <2>3, <2>4, <2>5 DEF Standing
<1>5. CommandTypes
  BY <1>1 DEF CommandTypes
<1>6. Told
  BY <1>1 DEF Told, Out
<1>7. ASSUME NEW R PROVE Around(queue, frames, slots, R) = 0
  <2> DEFINE k == [i \in DOMAIN Order |-> Amount(queue[Order[i]], R)]
             zero == 0
  <2>1. zero \in Nat /\ zero = 0
    OBVIOUS
  <2> HIDE DEF zero
  <2>2. \A i \in DOMAIN Order : Order[i] \in Endpoints
    BY <1>3
  <2>3. \A i \in DOMAIN Order : k[i] = zero
    BY <1>2, <2>1, <2>2, AmountOfNone
  <2>4. DOMAIN k = 1 .. Len(Order) /\ Len(Order) \in Nat
    BY <1>3
  <2>5. InQueues(queue, R) = Total(k)
    BY DEF InQueues
  <2>6. k \in Seq(Nat) /\ Len(k) = Len(Order)
    <3>1. k = [i \in 1 .. Len(Order) |-> k[i]]
      BY <1>3
    <3> HIDE DEF k
    <3>2. \A i \in 1 .. Len(Order) : k[i] \in Nat
      BY <1>3, <2>1, <2>3
    <3> QED
      BY <2>4, <3>1, <3>2
  <2> HIDE DEF k
  <2>7. \A i \in 1 .. Len(k) : zero <= k[i] /\ k[i] <= zero
    BY <1>3, <2>1, <2>3, <2>6
  <2>8. zero * Len(k) <= Total(k) /\ Total(k) <= zero * Len(k)
    BY <2>1, <2>6, <2>7, TotalBounds
  <2>9. Total(k) = 0
    <3>1. zero * Len(k) = 0
      BY <2>1, <2>4, <2>6
    <3>2. Total(k) \in Nat
      BY <2>6, SumsStep
    <3> QED
      BY <2>8, <3>1, <3>2
  <2>10. InFrames(frames, R) = 0
    <3>1. [i \in DOMAIN <<>> |-> Amount(Waiting(<<>>[i]), R)] = <<>>
      OBVIOUS
    <3> QED
      BY <1>1, <3>1, TotalOfNone DEF InFrames
  <2>11. InSlots(slots, R) = 0
    <3>1. [i \in DOMAIN <<>> |-> Amount(<<>>[i], R)] = <<>>
      OBVIOUS
    <3> QED
      BY <1>1, <3>1, TotalOfNone DEF InSlots
  <2> QED
    BY <2>5, <2>9, <2>10, <2>11 DEF Around, InGate
<1>8. Counted
  <2>1. Calls(frames) = 0
    <3>1. [i \in DOMAIN <<>> |-> IF <<>>[i].calling THEN 1 ELSE 0] = <<>>
      OBVIOUS
    <3> QED
      BY <1>1, <3>1, TotalOfNone DEF Calls
  <2> QED
    BY <1>1, <1>7, <2>1 DEF Counted
<1>9. Accounted
  <2>1. \A r \in Requests : sent[r] \ back[r] = {}
    BY <1>1
  <2> QED
    BY <1>7, <2>1, FS_EmptySet DEF Accounted
<1> QED
  BY <1>4, <1>5, <1>6, <1>8, <1>9 DEF IInv

(* Every step keeps it.                                                      *)
LEMMA StepKeeps == IInv /\ [Next]_vars => IInv'
<1> SUFFICES ASSUME IInv, [Next]_vars PROVE IInv'
  OBVIOUS
<1>1. CASE Complete
  BY <1>1, CompleteKeeps
<1>2. CASE Completed
  BY <1>2, CompletedKeeps
<1>3. CASE NextDoneQueue
  BY <1>3, NextDoneQueueKeeps
<1>4. CASE Return
  BY <1>4, ReturnKeeps
<1>5. CASE scavengeCompletedTransactions
  BY <1>5, ScavengeKeeps
<1>6. ASSUME NEW r \in Requests, Submit(r) PROVE IInv'
  BY <1>6, SubmitKeeps
<1>7. ASSUME NEW a \in Addresses, DisableAddressEndpoints(a) PROVE IInv'
  BY <1>7, DisableKeeps
<1>8. ASSUME NEW a \in Addresses, EnableAddressEndpoints(a) PROVE IInv'
  BY <1>8, EnableKeeps
<1>9. ASSUME NEW e \in Endpoints, AbortPipe(e) PROVE IInv'
  BY <1>9, AbortPipeKeeps
<1>10. ASSUME NEW e \in Endpoints, UIMDeleteEndpoint(e) PROVE IInv'
  BY <1>10, DeleteKeeps
<1>11. ASSUME NEW e \in Endpoints, AddEmptyCBEndPoint(e) PROVE IInv'
  BY <1>11, AddKeeps
<1>12. ASSUME NEW e \in Endpoints, TimeOut(e) PROVE IInv'
  BY <1>12, TimeOutKeeps
<1>13. ASSUME NEW e \in Endpoints, Trim(e) PROVE IInv'
  BY <1>13, TrimKeeps
<1>14. ASSUME NEW e \in Endpoints, Hardware(e) PROVE IInv'
  BY <1>14, HardwareKeeps
<1>16. ASSUME NEW e \in Endpoints, Fetch(e) PROVE IInv'
  BY <1>16, FetchKeeps
<1>15. CASE UNCHANGED vars
  <2>1. /\ UNCHANGED <<lists, queue, overlay, aborting, schedule, open, relinked>>
        /\ frames' = frames /\ slots' = slots /\ nextDoneQueue' = nextDoneQueue
        /\ UNCHANGED <<sent, back, status, timed, transactionsOut>>
    BY <1>15 DEF vars, gate, command
  <2>2. Standing(frames)'
    BY <2>1 DEF IInv, Standing, QueueTypes, Followed
  <2>3. Calls(frames') = Calls(frames)
    BY <2>1
  <2>4. \A R : Around(queue', frames', slots', R) = Around(queue, frames, slots, R)
    BY <2>1
  <2> QED
    BY <2>1, <2>2, <2>3, <2>4, CountsStay DEF IInv
<1> QED
  BY <1>1, <1>2, <1>3, <1>4, <1>5, <1>6, <1>7, <1>8, <1>9, <1>10, <1>11, <1>12,
     <1>13, <1>14, <1>15, <1>16 DEF Next, WorkLoop

(* It holds in every state of every behaviour.                               *)
LEMMA Invariance == Spec => []IInv
<1>1. Init => IInv
  BY InitHolds
<1>2. IInv /\ [Next]_vars => IInv'
  BY StepKeeps
<1> QED
  BY <1>1, <1>2, PTL DEF Spec

-----------------------------------------------------------------------------
(* What is known of a failure.                                               *)

Fails(r, ts) == \E x \in ToSet(ts) : x.req = r /\ x.hw = "halted"
Tells(r, l) == \E x \in ToSet(l) : x.req = r /\ x.status # "success"
GateTells(r, fs, ss) ==
    \/ \E j \in DOMAIN fs : Tells(r, Waiting(fs[j]))
    \/ \E j \in DOMAIN ss : Tells(r, ss[j])
Evident(r, q, fs, ss) ==
    (\E e \in Endpoints : Fails(r, q[e])) \/ GateTells(r, fs, ss)

(* A failure that was not cleared is in the status of its command, in the    *)
(* transfer that failed or in a result that is on its way.                   *)
Known ==
    /\ failed \in [Requests -> BOOLEAN] /\ cleared \in [Requests -> BOOLEAN]
    /\ \A r \in Requests : failed[r] /\ ~cleared[r] =>
          status[r] # "success" \/ Evident(r, queue, frames, slots)

(* The result of a transfer that failed is no success.                       *)
LEMMA DoneTells ==
  ASSUME NEW ts \in Seq(Transfer), NEW error \in {"hardware", "returned", "timeout"},
         NEW r, Fails(r, ts)
  PROVE  Tells(r, Done(ts, error))
<1>1. PICK i \in DOMAIN ts : ts[i].req = r /\ ts[i].hw = "halted"
  BY DEF Fails, ToSet
<1>2. /\ i \in DOMAIN Done(ts, error) /\ Done(ts, error)[i].req = r
      /\ Done(ts, error)[i].status # "success"
  BY <1>1 DEF Done
<1> QED
  BY <1>2 DEF Tells, ToSet

(* A piece of a list and the other.                                          *)
LEMMA PartsTell ==
  ASSUME NEW ts \in Seq(Transfer), NEW n \in 0 .. Len(ts), NEW r, Fails(r, ts)
  PROVE  \/ Fails(r, SubSeq(ts, 1, n))
         \/ Fails(r, SubSeq(ts, n + 1, Len(ts)))
<1> DEFINE a == SubSeq(ts, 1, n)
           b == SubSeq(ts, n + 1, Len(ts))
<1>1. PICK i \in 1 .. Len(ts) : ts[i].req = r /\ ts[i].hw = "halted"
  BY DEF Fails, ToSet
<1>2. Len(ts) \in Nat /\ n \in Nat /\ n <= Len(ts)
  OBVIOUS
<1>3. /\ DOMAIN a = 1 .. n /\ \A j \in 1 .. n : a[j] = ts[j]
  BY <1>2
<1>4. /\ DOMAIN b = 1 .. Len(ts) - n /\ \A j \in 1 .. Len(ts) - n : b[j] = ts[n + j]
  BY <1>2
<1> HIDE DEF a, b
<1>5. CASE i <= n
  <2>1. i \in DOMAIN a /\ a[i] = ts[i]
    BY <1>2, <1>3, <1>5
  <2> QED
    BY <1>1, <2>1 DEF Fails, ToSet, a
<1>6. CASE ~(i <= n)
  <2>1. i - n \in 1 .. Len(ts) - n /\ n + (i - n) = i
    BY <1>2, <1>6
  <2>2. i - n \in DOMAIN b /\ b[i - n] = ts[i]
    BY <1>4, <2>1
  <2> QED
    BY <1>1, <2>2 DEF Fails, ToSet, b
<1> QED
  BY <1>5, <1>6

(* What is left shows a failure but that of its first transfer.              *)
LEMMA RestTells ==
  ASSUME NEW ts \in Seq(Transfer), NEW r, Fails(r, ts)
  PROVE  Fails(r, Unhalted(ts)) \/ (ts # <<>> /\ ts[1].req = r /\ ts[1].hw = "halted")
<1>1. PICK i \in DOMAIN ts : ts[i].req = r /\ ts[i].hw = "halted"
  BY DEF Fails, ToSet
<1>2. CASE i = 1
  BY <1>1, <1>2
<1>3. CASE i # 1
  <2>1. i \in DOMAIN Unhalted(ts) /\ Unhalted(ts)[i] = ts[i]
    BY <1>1, <1>3 DEF Unhalted
  <2> QED
    BY <1>1, <2>1 DEF Fails, ToSet
<1> QED
  BY <1>2, <1>3

(* A call takes the results of a list and keeps those there are.             *)
LEMMA GateTakes ==
  ASSUME NEW fs \in Seq(Frames), slots \in Seq(Seq(Result)),
         NEW list \in Seq(Result), NEW then \in Clients, NEW r,
         EHCIUIMDoDoneQueueProcessing(fs, list, then),
         GateTells(r, fs, slots) \/ Tells(r, list)
  PROVE  GateTells(r, frames', slots')
<1>1. CASE list = <<>> /\ frames' = fs /\ slots' = slots
  <2>1. ~Tells(r, <<>>)
    BY DEF Tells, ToSet
  <2> QED
    BY <1>1, <2>1
<1>2. CASE frames' = fs /\ slots' = Append(slots, list)
  <2> DEFINE n == Len(slots)
             ss == slots'
  <2>1. /\ n \in Nat /\ DOMAIN slots = 1 .. n /\ DOMAIN ss = 1 .. n + 1
        /\ \A j \in 1 .. n : ss[j] = slots[j]
        /\ ss[n + 1] = list
    BY <1>2
  <2> HIDE DEF n, ss
  <2>2. \A j \in 1 .. n : j \in 1 .. n + 1
    BY <2>1
  <2>3. n + 1 \in 1 .. n + 1
    BY <2>1
  <2> QED
    BY <1>2, <2>1, <2>2, <2>3 DEF GateTells, ss
<1>3. CASE /\ slots' = slots
           /\ frames' = <<[list |-> list, calling |-> FALSE, then |-> then]>> \o fs
  <2> DEFINE f == [list |-> list, calling |-> FALSE, then |-> then]
             n == Len(fs)
             gs == frames'
  <2>1. Waiting(f) = list
    BY DEF Waiting
  <2>2. f \in Frames
    BY DEF Frames, Call
  <2> HIDE DEF f
  <2>3. /\ n \in Nat /\ DOMAIN fs = 1 .. n /\ DOMAIN gs = 1 .. n + 1
        /\ gs[1] = f /\ \A j \in 1 .. n : gs[j + 1] = fs[j]
    BY <1>3, <2>2 DEF f
  <2> HIDE DEF n, gs
  <2>4. \A j \in 1 .. n : j + 1 \in 1 .. n + 1
    BY <2>3
  <2>5. 1 \in 1 .. n + 1
    BY <2>3
  <2>6. CASE Tells(r, list)
    BY <2>1, <2>3, <2>5, <2>6 DEF GateTells, gs
  <2>7. CASE GateTells(r, fs, slots)
    <3>1. CASE \E j \in DOMAIN slots : Tells(r, slots[j])
      BY <1>3, <3>1 DEF GateTells
    <3>2. CASE \E j \in DOMAIN fs : Tells(r, Waiting(fs[j]))
      <4>1. PICK j \in 1 .. n : Tells(r, Waiting(fs[j]))
        BY <2>3, <3>2
      <4>2. j + 1 \in DOMAIN gs /\ gs[j + 1] = fs[j]
        BY <2>3, <2>4
      <4> QED
        BY <4>1, <4>2 DEF GateTells, gs
    <3> QED
      BY <2>7, <3>1, <3>2 DEF GateTells
  <2> QED
    BY <2>6, <2>7
<1> QED
  BY <1>1, <1>2, <1>3 DEF EHCIUIMDoDoneQueueProcessing

(* Of the transfers of an endpoint that are taken, and of those that are     *)
(* left, only the first one left loses its failure.                          *)
LEMMA ReturnsTell ==
  ASSUME NEW fs, Nested(fs, slots, nextDoneQueue), queue \in Queues,
         NEW e \in Endpoints, NEW n \in 0 .. Len(queue[e]),
         NEW error \in {"returned", "timeout"}, NEW then \in Clients,
         returnTransactions(e, n, error, fs, then),
         NEW r, Evident(r, queue, fs, slots)
  PROVE  \/ Evident(r, queue', frames', slots')
         \/ /\ Len(queue[e]) > n
            /\ queue[e][n + 1].req = r /\ queue[e][n + 1].hw = "halted"
<1> DEFINE ts == queue[e]
           a == SubSeq(ts, 1, n)
           b == SubSeq(ts, n + 1, Len(ts))
           ds == Done(a, error)
<1>1. queue' = [queue EXCEPT ![e] = Unhalted(b)]
      /\ EHCIUIMDoDoneQueueProcessing(fs, ds, then)
  BY DEF returnTransactions
<1>2. ts \in Seq(Transfer) /\ n \in 0 .. Len(ts)
  BY DEF Queues
<1>3. queue'[e] = Unhalted(b) /\ \A d \in Endpoints : d # e => queue'[d] = queue[d]
  BY <1>1 DEF Queues
<1>4. fs \in Seq(Frames) /\ slots \in Seq(Seq(Result))
  BY DEF Nested
<1> HIDE DEF ts
<1>5. a \in Seq(Transfer) /\ b \in Seq(Transfer)
  BY <1>2, AmountOfParts
<1> HIDE DEF a
<1>6. ds \in Seq(Result)
  BY <1>5, DoneIs
<1> HIDE DEF ds, b
<1>7. GateTells(r, fs, slots) \/ Tells(r, ds) => GateTells(r, frames', slots')
  BY <1>1, <1>4, <1>6, GateTakes
<1>8. Fails(r, a) => Tells(r, ds)
  BY <1>5, DoneTells DEF ds
<1>9. Fails(r, ts) => Fails(r, a) \/ Fails(r, b)
  BY <1>2, PartsTell DEF a, b
<1>10. \/ Fails(r, b) => Fails(r, queue'[e])
       \/ b # <<>> /\ b[1].req = r /\ b[1].hw = "halted"
  BY <1>3, <1>5, RestTells
<1>11. b # <<>> => Len(ts) > n /\ b[1] = ts[n + 1]
  <2>1. /\ Len(ts) \in Nat /\ n \in Nat /\ n <= Len(ts)
    BY <1>2
  <2>2. /\ Len(b) = Len(ts) - n
        /\ \A j \in 1 .. Len(ts) - n : b[j] = ts[n + j]
    BY <1>2, <2>1 DEF b
  <2>3. ASSUME b # <<>> PROVE Len(b) > 0
    BY <1>5, <2>3
  <2> QED
    BY <2>1, <2>2, <2>3
<1>12. CASE GateTells(r, fs, slots)
  BY <1>7, <1>12 DEF Evident
<1>13. CASE \E d \in Endpoints : d # e /\ Fails(r, queue[d])
  BY <1>3, <1>13 DEF Evident
<1>14. CASE Fails(r, ts)
  BY <1>7, <1>8, <1>9, <1>10, <1>11, <1>14 DEF Evident, ts
<1> QED
  BY <1>12, <1>13, <1>14 DEF Evident, ts

(* All transfers of an endpoint are taken: nothing is cleared.               *)
LEMMA AllReturnsTell ==
  ASSUME NEW fs, Nested(fs, slots, nextDoneQueue), queue \in Queues,
         NEW e \in Endpoints, NEW then \in Clients,
         returnTransactions(e, Len(queue[e]), "returned", fs, then),
         NEW r, Evident(r, queue, fs, slots)
  PROVE  Evident(r, queue', frames', slots')
<1>1. Len(queue[e]) \in Nat /\ Len(queue[e]) \in 0 .. Len(queue[e])
  BY DEF Queues
<1>2. "returned" \in {"returned", "timeout"} /\ ~(Len(queue[e]) > Len(queue[e]))
  BY <1>1
<1> QED
  BY <1>1, <1>2, ReturnsTell

(* An abort clears nothing.                                                  *)
LEMMA AbortTells ==
  ASSUME NEW fs, Standing(fs), NEW e \in Endpoints, HandleEndpointAbort(e, fs),
         NEW r, Evident(r, queue, fs, slots)
  PROVE  Evident(r, queue', frames', slots')
<1>1. Nested(fs, slots, nextDoneQueue) /\ queue \in Queues /\ e \in Clients
  BY DEF Standing, QueueTypes, Clients
<1>2. CASE frames' = fs /\ queue' = queue /\ slots' = slots
  BY <1>2
<1>3. CASE returnTransactions(e, Len(queue[e]), "returned", fs, e)
  BY <1>1, <1>3, AllReturnsTell
<1> QED
  BY <1>2, <1>3 DEF HandleEndpointAbort

(* Nothing of it changes, or more is to be seen.                             *)
LEMMA KnownStays ==
  ASSUME Known, UNCHANGED <<status, failed, cleared>>,
         \A r \in Requests : Evident(r, queue, frames, slots) =>
             Evident(r, queue', frames', slots')
  PROVE  Known'
BY DEF Known

(* The result that is delivered is the only one that goes.                   *)
LEMMA BeginTells ==
  ASSUME NEW fs \in Seq(Frames), fs # <<>>, fs[1].list # <<>>, ~fs[1].calling,
         NEW gs, gs = [fs EXCEPT ![1].calling = TRUE],
         NEW r, NEW ss, GateTells(r, fs, ss)
  PROVE  \/ GateTells(r, gs, ss)
         \/ r = fs[1].list[1].req /\ fs[1].list[1].status # "success"
<1> DEFINE f == fs[1]
<1>1. /\ f \in Frames /\ DOMAIN gs = DOMAIN fs /\ 1 \in DOMAIN fs
      /\ gs[1] = [f EXCEPT !.calling = TRUE]
      /\ \A j \in DOMAIN fs : j # 1 => gs[j] = fs[j]
  <2>1. f \in Frames /\ DOMAIN fs = 1 .. Len(fs) /\ 1 \in DOMAIN fs
    OBVIOUS
  <2> QED
    BY <2>1
<1>2. f.list \in Seq(Result)
  BY <1>1, WaitingIsList
<1>3. Waiting(f) = f.list /\ Waiting(gs[1]) = Tail(f.list)
  BY <1>1 DEF Waiting, Frames, Call
<1> HIDE DEF f
<1>4. ToSet(f.list) = {f.list[1]} \cup ToSet(Tail(f.list))
  <2>1. f.list # <<>>
    BY DEF f
  <2>2. ToSet(f.list) = {Head(f.list)} \cup ToSet(Tail(f.list))
    BY <1>2, <2>1, SetOfTail
  <2> QED
    BY <1>2, <2>1, <2>2
<1>5. CASE \E j \in DOMAIN ss : Tells(r, ss[j])
  BY <1>5 DEF GateTells
<1>6. CASE \E j \in DOMAIN fs : j # 1 /\ Tells(r, Waiting(fs[j]))
  BY <1>1, <1>6 DEF GateTells
<1>7. CASE Tells(r, f.list)
  <2>1. Tells(r, Tail(f.list)) \/ (r = f.list[1].req /\ f.list[1].status # "success")
    BY <1>4, <1>7 DEF Tells
  <2>2. Tells(r, Tail(f.list)) => GateTells(r, gs, ss)
    BY <1>1, <1>3 DEF GateTells
  <2> QED
    BY <2>1, <2>2 DEF f
<1> QED
  BY <1>3, <1>5, <1>6, <1>7 DEF GateTells, f

(* A failure that is delivered is from then on in the status of its command. *)
LEMMA CompleteTells ==
  ASSUME IInv, Known, Complete
  PROVE  Known'
<1> DEFINE r == First.req
           s == First.status
           fs == [frames EXCEPT ![1].calling = TRUE]
<1>1. /\ frames # <<>> /\ frames[1].list # <<>> /\ ~frames[1].calling
      /\ IF Target[r] \in Control THEN ControlPacketHandler(r, s, fs)
         ELSE BulkPacketHandler(r, s, fs)
      /\ failed' = [failed EXCEPT ![r] = @ \/ s # "success"]
      /\ cleared' = cleared
  BY DEF Complete
<1>2. Standing(frames) /\ CommandTypes /\ Told /\ Accounted
  BY DEF IInv
<1>3. /\ Standing(fs) /\ r \in Requests /\ s \in Errors
      /\ \A R : Around(queue, frames, slots, R)
                    = Around(queue, fs, slots, R) + (IF r \in R THEN 1 ELSE 0)
  BY <1>1, <1>2, CallBegins
<1>4. /\ frames \in Seq(Frames) /\ slots \in Seq(Seq(Result)) /\ queue \in Queues
      /\ fs \in Seq(Frames)
  BY <1>2, <1>3 DEF Standing, Nested, QueueTypes
<1>5. \A d \in Requests : GateTells(d, frames, slots) =>
         GateTells(d, fs, slots) \/ (d = r /\ s # "success")
  BY <1>1, <1>4, BeginTells DEF First
<1> HIDE DEF r, s, fs
<1>6. \A d \in Requests : Evident(d, queue, frames, slots) =>
         Evident(d, queue, fs, slots) \/ (d = r /\ s # "success")
  BY <1>5 DEF Evident
<1>7. \A d \in Requests : Evident(d, queue, fs, slots) =>
         Evident(d, queue', frames', slots')
  <2>1. Target[r] \in Endpoints
    BY <1>3, EHCIAssumption
  <2>2. CASE HandleEndpointAbort(Target[r], fs)
    BY <1>3, <2>1, <2>2, AbortTells
  <2>3. CASE frames' = fs /\ queue' = queue /\ slots' = slots
    BY <2>3
  <2> QED
    BY <1>1, <2>2, <2>3 DEF ControlPacketHandler, BulkPacketHandler
<1>8. Out(r)
  <2>1. Around(queue, frames, slots, {r}) = Cardinality(sent[r] \ back[r])
    BY <1>2, <1>3 DEF Accounted
  <2>2. /\ Around(queue, frames, slots, {r}) = Around(queue, fs, slots, {r}) + 1
        /\ Around(queue, fs, slots, {r}) \in Nat
    BY <1>3, <1>4, AroundIsNat
  <2>3. Cardinality(sent[r] \ back[r]) # 0
    BY <2>1, <2>2
  <2> QED
    BY <2>3, FS_EmptySet DEF Out
<1>9. /\ s # "success" => status'[r] # "success"
      /\ s = "success" /\ status[r] # "success" => status'[r] # "success"
      /\ \A d \in Requests : d # r => status'[d] = status[d]
  <2>1. status \in [Requests -> {"success", "stall", "aborted", "timeout"}]
    BY <1>2 DEF CommandTypes
  <2>2. s # "success" => Softened(s) # "success"
    BY DEF Softened
  <2>3. CASE Target[r] \in Control
    <3>1. status' = [status EXCEPT ![r] =
             IF Hard(s) THEN s
             ELSE IF s # "success" /\ @ = "success" THEN Softened(s) ELSE @]
      BY <1>1, <2>3 DEF ControlPacketHandler
    <3> QED
      BY <1>3, <2>1, <2>2, <3>1 DEF Hard
  <2>4. CASE Target[r] \notin Control
    <3>1. status' = [status EXCEPT ![r] = Softened(s)]
      BY <1>1, <2>4 DEF BulkPacketHandler
    <3>2. status[r] = "success"
      BY <1>2, <1>3, <1>8, <2>4 DEF Told
    <3> QED
      BY <1>3, <2>1, <2>2, <3>1, <3>2
  <2> QED
    BY <2>3, <2>4
<1>10. /\ failed \in [Requests -> BOOLEAN] /\ cleared \in [Requests -> BOOLEAN]
       /\ \A d \in Requests : failed[d] /\ ~cleared[d] =>
             status[d] # "success" \/ Evident(d, queue, frames, slots)
  BY DEF Known
<1>11. /\ failed' \in [Requests -> BOOLEAN]
       /\ failed'[r] = (failed[r] \/ s # "success")
       /\ \A d \in Requests : d # r => failed'[d] = failed[d]
  BY <1>1, <1>3, <1>10
<1>12. ASSUME NEW d \in Requests, failed'[d], ~cleared'[d]
       PROVE  status'[d] # "success" \/ Evident(d, queue', frames', slots')
  <2>1. CASE d = r /\ s # "success"
    BY <1>9, <2>1
  <2>2. CASE ~(d = r /\ s # "success")
    <3>1. failed[d] /\ ~cleared[d]
      BY <1>1, <1>11, <1>12, <2>2
    <3>2. CASE Evident(d, queue, frames, slots)
      BY <1>6, <1>7, <2>2, <3>2
    <3>3. CASE status[d] # "success"
      BY <1>9, <2>2, <3>3
    <3> QED
      BY <1>10, <3>1, <3>2, <3>3
  <2> QED
    BY <2>1, <2>2
<1> QED
  BY <1>1, <1>10, <1>11, <1>12 DEF Known

(* With the client's return nothing is heard of, and the pool forgets.       *)
LEMMA CompletedTells ==
  ASSUME IInv, Known, Completed
  PROVE  Known'
<1> DEFINE r == First.req
           f == frames[1]
<1>1. /\ frames # <<>> /\ f.calling
      /\ frames' = [frames EXCEPT ![1].list = Tail(@), ![1].calling = FALSE]
      /\ IF Out(r) THEN UNCHANGED <<sent, back, status, timed, failed, cleared>>
         ELSE Pool(r)
      /\ UNCHANGED <<queue, slots>>
  BY DEF Completed
<1>2. frames \in Seq(Frames) /\ CommandTypes
  BY DEF IInv, Standing, Nested
<1>3. f \in Frames /\ f.list \in Seq(Result) /\ f.list # <<>>
  <2>1. f \in Frames
    BY <1>1, <1>2
  <2> HIDE DEF f
  <2> QED
    BY <1>1, <2>1, WaitingIsList
<1>4. r \in Requests
  <2>1. f.list[1] \in Result
    BY <1>3
  <2> QED
    BY <2>1 DEF First, Result
<1>5. /\ DOMAIN frames' = DOMAIN frames
      /\ frames'[1] = [f EXCEPT !.list = Tail(f.list), !.calling = FALSE]
      /\ \A j \in DOMAIN frames : j # 1 => frames'[j] = frames[j]
  <2>1. f \in Frames /\ DOMAIN frames = 1 .. Len(frames) /\ 1 \in DOMAIN frames
    BY <1>1, <1>2
  <2>2. frames' = [frames EXCEPT ![1] =
                      [frames[1] EXCEPT !.list = Tail(@), !.calling = FALSE]]
    BY <1>1
  <2> QED
    BY <2>1, <2>2
<1>6. Waiting(frames'[1]) = Waiting(f)
  <2> DEFINE g == [f EXCEPT !.list = Tail(f.list), !.calling = FALSE]
  <2>1. f \in Call
    BY <1>3 DEF Frames
  <2>2. ~g.calling /\ g.list = Tail(f.list)
    BY <2>1 DEF Call
  <2>3. frames'[1] = g
    BY <1>5
  <2> HIDE DEF f, g
  <2> QED
    BY <1>1, <2>2, <2>3 DEF Waiting
<1>7. \A d \in Requests : Evident(d, queue, frames, slots) =>
         Evident(d, queue', frames', slots')
  <2>1. \A j \in DOMAIN frames : Waiting(frames'[j]) = Waiting(frames[j])
    BY <1>5, <1>6
  <2> QED
    BY <1>1, <1>5, <2>1 DEF Evident, GateTells
<1> HIDE DEF r, f
<1>8. CASE UNCHANGED <<status, failed, cleared>>
  BY <1>7, <1>8, KnownStays
<1>9. CASE Pool(r)
  <2>1. /\ status' = [status EXCEPT ![r] = "success"]
        /\ failed' = [failed EXCEPT ![r] = FALSE]
        /\ cleared' = [cleared EXCEPT ![r] = FALSE]
    BY <1>9 DEF Pool
  <2> QED
    BY <1>2, <1>4, <1>7, <2>1 DEF Known, CommandTypes
<1> QED
  BY <1>1, <1>8, <1>9

(* The next list is where it was waited for.                                 *)
LEMMA NextDoneQueueTells ==
  ASSUME IInv, Known, NextDoneQueue
  PROVE  Known'
<1>1. /\ Len(frames) = 1 /\ frames[1].list = <<>> /\ slots # <<>>
      /\ frames' = [frames EXCEPT ![1].list = Head(slots)]
      /\ slots' = Tail(slots) /\ queue' = queue
      /\ UNCHANGED <<status, failed, cleared>>
  BY DEF NextDoneQueue, command
<1>2. frames \in Seq(Frames) /\ slots \in Seq(Seq(Result))
  BY DEF IInv, Standing, Nested
<1>3. /\ frames[1] \in Frames /\ DOMAIN frames = {1} /\ DOMAIN frames' = {1}
      /\ frames'[1] = [frames[1] EXCEPT !.list = Head(slots)]
  <2>3. DOMAIN frames = 1 .. Len(frames) /\ Len(frames) = 1
    BY <1>1, <1>2
  <2>4. frames[1] \in Frames
    <3>1. frames # <<>>
      BY <2>3
    <3> QED
      BY <1>2, <3>1, FramesFirst
  <2>1. frames[1] \in Frames /\ DOMAIN frames = 1 .. 1
    BY <2>3, <2>4
  <2>2. DOMAIN frames = {1}
    BY <2>1
  <2> QED
    BY <1>1, <2>1, <2>2
<1>4. ~frames[1].calling /\ frames[1] \in Call
  BY <1>1, <1>3 DEF Frames
<1>5. Waiting(frames[1]) = <<>> /\ Waiting(frames'[1]) = Head(slots)
  BY <1>1, <1>3, <1>4 DEF Waiting, Call
<1>6. /\ Head(slots) = slots[1] /\ DOMAIN slots' = 1 .. Len(slots) - 1
      /\ DOMAIN slots = 1 .. Len(slots) /\ Len(slots) \in Nat
      /\ \A j \in 1 .. Len(slots) - 1 : slots'[j] = slots[j + 1]
  BY <1>1, <1>2
<1>7. ASSUME NEW d, GateTells(d, frames, slots)
      PROVE  GateTells(d, frames', slots')
  <2>1. ~Tells(d, <<>>)
    BY DEF Tells, ToSet
  <2>2. PICK j \in DOMAIN slots : Tells(d, slots[j])
    BY <1>3, <1>5, <1>7, <2>1 DEF GateTells
  <2>3. CASE j = 1
    BY <1>3, <1>5, <1>6, <2>2, <2>3 DEF GateTells
  <2>4. CASE j # 1
    <3>1. j - 1 \in 1 .. Len(slots) - 1 /\ (j - 1) + 1 = j
      BY <1>6, <2>4
    <3>2. slots'[j - 1] = slots[j]
      BY <1>6, <3>1
    <3> QED
      BY <1>6, <2>2, <3>1, <3>2 DEF GateTells
  <2> QED
    BY <2>3, <2>4
<1> QED
  BY <1>1, <1>7, KnownStays DEF Evident

(* A call that returns has nothing left.                                     *)
LEMMA ReturnTells ==
  ASSUME IInv, Known, Return
  PROVE  Known'
<1>1. /\ frames # <<>> /\ frames[1].list = <<>>
      /\ frames' = Tail(frames) /\ slots' = slots /\ queue' = queue
      /\ UNCHANGED <<status, failed, cleared>>
  BY DEF Return, command
<1>2. frames \in Seq(Frames)
  BY DEF IInv, Standing, Nested
<1>3. frames[1] \in Frames
  BY <1>1, <1>2
<1>4. Waiting(frames[1]) = <<>>
  BY <1>1, <1>3 DEF Waiting, Frames
<1>5. /\ DOMAIN frames' = 1 .. Len(frames) - 1
      /\ DOMAIN frames = 1 .. Len(frames) /\ Len(frames) \in Nat
      /\ \A j \in 1 .. Len(frames) - 1 : frames'[j] = frames[j + 1]
  BY <1>1, <1>2
<1>6. ASSUME NEW d, GateTells(d, frames, slots)
      PROVE  GateTells(d, frames', slots')
  <2>1. ~Tells(d, <<>>)
    BY DEF Tells, ToSet
  <2>2. CASE \E j \in DOMAIN slots : Tells(d, slots[j])
    BY <1>1, <2>2 DEF GateTells
  <2>3. CASE \E j \in DOMAIN frames : Tells(d, Waiting(frames[j]))
    <3>1. PICK j \in DOMAIN frames : Tells(d, Waiting(frames[j]))
      BY <2>3
    <3>2. j # 1
      BY <1>4, <2>1, <3>1
    <3>3. j - 1 \in 1 .. Len(frames) - 1 /\ (j - 1) + 1 = j
      BY <1>5, <3>2
    <3>4. frames'[j - 1] = frames[j]
      BY <1>5, <3>3
    <3> QED
      BY <1>5, <3>1, <3>3, <3>4 DEF GateTells
  <2> QED
    BY <1>6, <2>2, <2>3 DEF GateTells
<1> QED
  BY <1>1, <1>6, KnownStays DEF Evident

(* Every element of a list of lists is in the one list they make.            *)
LEMMA SetOfFlat ==
  ASSUME NEW D, NEW ls \in Seq(Seq(D)), NEW i \in DOMAIN ls
  PROVE  ToSet(ls[i]) \subseteq ToSet(Flat(ls))
<1> DEFINE n == Len(ls)
           p == Joins(ls)
           T == {k \in 0 .. n : \A j \in 1 .. k : ToSet(ls[j]) \subseteq ToSet(p[k])}
<1>1. n \in Nat /\ DOMAIN ls = 1 .. n /\ \A k \in 1 .. n : ls[k] \in Seq(D)
  OBVIOUS
<1> HIDE DEF n
<1>2. /\ \A k \in 0 .. n : p[k] \in Seq(D)
      /\ \A k \in 0 .. n - 1 : p[k + 1] = p[k] \o ls[k + 1]
      /\ Flat(ls) = p[n]
  BY JoinsAre DEF n, Flat
<1> HIDE DEF p
<1>3. 0 \in T
  BY <1>1
<1>4. ASSUME NEW k \in 0 .. n - 1, k \in T
      PROVE  k + 1 \in T
  <2>1. k \in 0 .. n /\ k + 1 \in 0 .. n /\ k + 1 \in 1 .. n
    BY <1>1
  <2>2. p[k] \in Seq(D) /\ ls[k + 1] \in Seq(D)
    BY <1>1, <1>2, <2>1
  <2>3. ToSet(p[k] \o ls[k + 1]) = ToSet(p[k]) \cup ToSet(ls[k + 1])
    BY <2>2, SetOfConcat
  <2>4. ToSet(p[k + 1]) = ToSet(p[k]) \cup ToSet(ls[k + 1])
    BY <1>2, <2>3
  <2>5. \A j \in 1 .. k + 1 : j \in 1 .. k \/ j = k + 1
    BY <2>1
  <2> QED
    BY <1>4, <2>1, <2>4, <2>5
<1> HIDE DEF T
<1>5. \A k \in 0 .. n : k \in T
  BY <1>1, <1>3, <1>4, Induction
<1>6. n \in T
  BY <1>1, <1>5
<1> QED
  BY <1>1, <1>2, <1>6 DEF T

(* A transfer that failed and is taken from its queue gives such a result.   *)
LEMMA VisitTells ==
  ASSUME IInv, Known, NEW l \in Seq(Endpoints), scavengeAnEndpointQueue(l)
  PROVE  Known'
<1> DEFINE ls == [i \in DOMAIN l |-> Done(Finished(l[i]), "hardware")]
           gone == Flat(ls)
<1>1. /\ queue' = [e \in Endpoints |->
             IF Contains(l, e)
             THEN SubSeq(queue[e], Len(Finished(e)) + 1, Len(queue[e]))
             ELSE queue[e]]
      /\ EHCIUIMDoDoneQueueProcessing(frames, gone, "client")
      /\ UNCHANGED <<status, failed, cleared>>
  BY DEF scavengeAnEndpointQueue, command
<1>2. queue \in Queues /\ frames \in Seq(Frames) /\ slots \in Seq(Seq(Result))
  BY DEF IInv, Standing, QueueTypes, Nested
<1>3. "hardware" \in {"hardware", "returned", "timeout"} /\ "client" \in Clients
  BY DEF Clients
<1>4. \A e \in Endpoints :
         /\ Len(Finished(e)) \in 0 .. Len(queue[e])
         /\ Finished(e) \in Seq(Transfer)
         /\ Finished(e) = SubSeq(queue[e], 1, Len(Finished(e)))
         /\ queue[e] \in Seq(Transfer)
  BY <1>2, FinishedIs DEF Queues
<1>5. \A i \in DOMAIN l : l[i] \in Endpoints
  OBVIOUS
<1>6. \A i \in DOMAIN l : ls[i] \in Seq(Result)
  BY <1>3, <1>4, <1>5, DoneIs
<1>7. DOMAIN l = 1 .. Len(l) /\ Len(l) \in Nat /\ DOMAIN ls = DOMAIN l
  OBVIOUS
<1>8. ls \in Seq(Seq(Result))
  <2> DEFINE D == Seq(Result)
             n == Len(l)
  <2>1. ls = [i \in 1 .. n |-> ls[i]] /\ n \in Nat
    BY <1>7
  <2> HIDE DEF ls
  <2>2. \A i \in 1 .. n : ls[i] \in D
    BY <1>6, <1>7
  <2> HIDE DEF D, n
  <2>3. ls \in Seq(D)
    BY <2>1, <2>2
  <2> QED
    BY <2>3 DEF D
<1>9. \A i \in DOMAIN l : ls[i] = Done(Finished(l[i]), "hardware")
  OBVIOUS
<1> HIDE DEF ls
<1>10. gone \in Seq(Result)
  BY <1>8, AmountOfFlat
<1>11. \A i \in DOMAIN l : ToSet(ls[i]) \subseteq ToSet(gone)
  BY <1>7, <1>8, SetOfFlat
<1> HIDE DEF gone
<1>12. ASSUME NEW r \in Requests, Evident(r, queue, frames, slots)
       PROVE  Evident(r, queue', frames', slots')
  <2>1. GateTells(r, frames, slots) \/ Tells(r, gone)
            => GateTells(r, frames', slots')
    BY <1>1, <1>2, <1>3, <1>10, GateTakes
  <2>2. ASSUME NEW e \in Endpoints, Fails(r, queue[e])
        PROVE  Fails(r, queue'[e]) \/ Tells(r, gone)
    <3>1. CASE e \notin ToSet(l)
      <4>1. queue'[e] = queue[e]
        BY <1>1, <3>1, ContainsIs
      <4> QED
        BY <2>2, <4>1
    <3>2. CASE e \in ToSet(l)
      <4> DEFINE n == Len(Finished(e))
                 ts == queue[e]
      <4>1. queue'[e] = SubSeq(ts, n + 1, Len(ts))
        BY <1>1, <3>2, ContainsIs
      <4>2. ts \in Seq(Transfer) /\ n \in 0 .. Len(ts)
        BY <1>4
      <4>3. Finished(e) = SubSeq(ts, 1, n)
        BY <1>4
      <4> HIDE DEF n, ts
      <4>4. Fails(r, SubSeq(ts, 1, n)) \/ Fails(r, SubSeq(ts, n + 1, Len(ts)))
        BY <2>2, <4>2, PartsTell DEF ts
      <4>5. PICK i \in DOMAIN l : l[i] = e
        BY <3>2 DEF ToSet
      <4>6. Fails(r, Finished(e)) => Tells(r, ls[i])
        BY <1>3, <1>4, <1>9, <4>5, DoneTells
      <4>7. Tells(r, ls[i]) => Tells(r, gone)
        BY <1>11, <4>5 DEF Tells
      <4> QED
        BY <4>1, <4>3, <4>4, <4>6, <4>7
    <3> QED
      BY <3>1, <3>2
  <2> QED
    BY <1>12, <2>1, <2>2 DEF Evident
<1> QED
  BY <1>1, <1>12, KnownStays

(* A new request has not failed, and joins the queue behind the others.      *)
LEMMA SubmitTells ==
  ASSUME IInv, Known, NEW r \in Requests, Submit(r)
  PROVE  Known'
<1> DEFINE e == Target[r]
           ts == queue[e]
           new == [i \in DOMAIN Stages(r) |->
                      [req |-> r, stage |-> Stages(r)[i], hw |-> "active"]]
<1>1. /\ queue' = [queue EXCEPT ![e] = ts \o new]
      /\ status' = [status EXCEPT ![r] = "success"]
      /\ failed' = [failed EXCEPT ![r] = FALSE]
      /\ cleared' = [cleared EXCEPT ![r] = FALSE]
      /\ frames' = frames /\ slots' = slots
  BY DEF Submit, allocateTDs, gate
<1>2. queue \in Queues /\ status \in [Requests -> {"success", "stall", "aborted", "timeout"}]
  BY DEF IInv, Standing, QueueTypes, CommandTypes
<1>3. e \in Endpoints
  BY EHCIAssumption
<1>4. ts \in Seq(Transfer) /\ new \in Seq(Transfer)
  <2> DEFINE st == Stages(r)
  <2>1. st \in Seq(StageNames)
    BY StagesAre
  <2>2. DOMAIN st = 1 .. Len(st) /\ Len(st) \in Nat
    BY <2>1
  <2>3. \A i \in 1 .. Len(st) : st[i] \in StageNames
    BY <2>1, ElementOfSeq
  <2> HIDE DEF st
  <2>4. new = [i \in 1 .. Len(st) |-> [req |-> r, stage |-> st[i], hw |-> "active"]]
    BY <2>2 DEF st
  <2>5. \A i \in 1 .. Len(st) :
           [req |-> r, stage |-> st[i], hw |-> "active"] \in Transfer
    BY <2>3 DEF Transfer, Hws
  <2>6. ts \in Seq(Transfer)
    BY <1>2, <1>3 DEF Queues
  <2> HIDE DEF new, ts
  <2>7. new \in Seq(Transfer)
    BY <2>2, <2>4, <2>5
  <2> QED
    BY <2>6, <2>7
<1> HIDE DEF new, ts, e
<1>5. ToSet(ts) \subseteq ToSet(ts \o new)
  BY <1>4, SetOfConcat
<1>6. queue'[e] = ts \o new /\ \A d \in Endpoints : d # e => queue'[d] = queue[d]
  BY <1>1, <1>2, <1>3 DEF Queues
<1>7. ASSUME NEW q \in Requests, Evident(q, queue, frames, slots)
      PROVE  Evident(q, queue', frames', slots')
  <2>1. ASSUME NEW d \in Endpoints, Fails(q, queue[d]) PROVE Fails(q, queue'[d])
    BY <1>5, <1>6, <2>1 DEF Fails, ts
  <2> QED
    BY <1>1, <1>7, <2>1 DEF Evident
<1> QED
  BY <1>1, <1>2, <1>7 DEF Known

(* A time-out that clears a failure is remembered.                           *)
LEMMA TimeOutTells ==
  ASSUME IInv, IInv', Known, NEW e \in Endpoints, TimeOut(e),
         ReturnOneTransaction(e) \in 0 .. Len(queue[e])
  PROVE  Known'
<1> DEFINE n == ReturnOneTransaction(e)
           Lost(r) == /\ Len(queue[e]) > n /\ queue[e][n + 1].req = r
                      /\ queue[e][n + 1].hw = "halted"
<1>1. /\ returnTransactions(e, n, "timeout", frames, "client")
      /\ cleared' = [r \in Requests |-> cleared[r] \/ Lost(r)]
      /\ status' = status /\ failed' = failed
  BY DEF TimeOut
<1>2. Nested(frames, slots, nextDoneQueue) /\ queue \in Queues
  BY DEF IInv, Standing, QueueTypes
<1>3. "client" \in Clients /\ "timeout" \in {"returned", "timeout"}
  BY DEF Clients
<1> HIDE DEF n
<1>4. ASSUME NEW r \in Requests, Evident(r, queue, frames, slots)
      PROVE  Evident(r, queue', frames', slots') \/ Lost(r)
  BY <1>1, <1>2, <1>3, <1>4, ReturnsTell DEF n
<1>5. \A r \in Requests : cleared[r] \in BOOLEAN /\ Lost(r) \in BOOLEAN
  BY DEF Known
<1> HIDE DEF Lost
<1>6. cleared' \in [Requests -> BOOLEAN] /\ failed' \in [Requests -> BOOLEAN]
  <2>1. failed \in [Requests -> BOOLEAN]
    BY DEF Known
  <2> QED
    BY <1>1, <1>5, <2>1
<1>7. ASSUME NEW r \in Requests, failed'[r], ~cleared'[r]
      PROVE  status'[r] # "success" \/ Evident(r, queue', frames', slots')
  <2>1. failed[r] /\ ~cleared[r] /\ ~Lost(r)
    BY <1>1, <1>7
  <2>2. status[r] # "success" \/ Evident(r, queue, frames, slots)
    BY <2>1 DEF Known
  <2> QED
    BY <1>1, <1>4, <2>1, <2>2
<1> QED
  BY <1>6, <1>7 DEF Known

(* A transfer that fails is one that shows it.                               *)
LEMMA HardwareTells ==
  ASSUME IInv, Known, NEW e \in Endpoints, Hardware(e)
  PROVE  Known'
<1> DEFINE i == Len(Finished(e)) + 1
           ts == queue[e]
           us == queue'[e]
           r == ts[i].req
<1>1. /\ Unfinished(e) # {}
      /\ frames' = frames /\ slots' = slots /\ status' = status
      /\ cleared' = cleared
      /\ \/ /\ queue' = [queue EXCEPT ![e][i].hw = "done"]
            /\ failed' = failed
         \/ /\ queue' = [queue EXCEPT ![e][i].hw = "halted"]
            /\ failed' = [failed EXCEPT ![r] = TRUE]
  BY DEF Hardware, Walked, gate
<1>2. queue \in Queues /\ ts \in Seq(Transfer)
  BY DEF IInv, Standing, QueueTypes, Queues
<1>3. i \in 1 .. Len(ts) /\ ts[i].hw = "active"
  <2> DEFINE T == Unfinished(e)
             x == CHOOSE j \in T : \A k \in T : j <= k
  <2>1. T \subseteq 1 .. Len(ts) /\ \A j \in T : ts[j].hw = "active"
    BY <1>2 DEF Unfinished
  <2>2. T \subseteq Nat /\ Len(ts) \in Nat
    BY <1>2, <2>1
  <2>3. \E j \in T : \A k \in T : j <= k
    BY <1>1, <2>2, Smallest
  <2>4. x \in T
    BY <2>3
  <2>5. Finished(e) = SubSeq(ts, 1, x - 1)
    BY <1>1 DEF Finished
  <2> HIDE DEF x, T, ts
  <2>6. x - 1 \in 0 .. Len(ts) /\ x \in 1 .. Len(ts)
    BY <2>1, <2>2, <2>4
  <2>7. Len(SubSeq(ts, 1, x - 1)) = x - 1
    BY <1>2, <2>6, AmountOfParts
  <2>8. i = x
    BY <2>5, <2>6, <2>7
  <2> QED
    BY <2>1, <2>4, <2>6, <2>8
<1> HIDE DEF i
<1>4. ts[i] \in Transfer /\ r \in Requests /\ DOMAIN ts = 1 .. Len(ts)
  <2>1. ts[i] \in Transfer
    BY <1>2, <1>3, ElementOfSeq
  <2> QED
    BY <1>2, <2>1 DEF Transfer
<1>5. /\ DOMAIN us = DOMAIN ts /\ \A j \in DOMAIN ts : j # i => us[j] = ts[j]
      /\ us[i].req = r
      /\ us[i].hw = "halted" \/ failed' = failed
      /\ \A d \in Endpoints : d # e => queue'[d] = queue[d]
  <2>1. PICK h \in {"done", "halted"} :
           /\ queue' = [queue EXCEPT ![e][i].hw = h]
           /\ h = "halted" \/ failed' = failed
    BY <1>1 DEF i
  <2>2. us = [ts EXCEPT ![i].hw = h]
    BY <1>2, <2>1 DEF Queues
  <2>3. \A d \in Endpoints : d # e => queue'[d] = queue[d]
    BY <1>2, <2>1 DEF Queues
  <2>4. us[i] = [ts[i] EXCEPT !.hw = h]
    BY <1>3, <1>4, <2>2
  <2>5. us[i].req = r /\ us[i].hw = h
    BY <1>4, <2>4 DEF Transfer
  <2>6. DOMAIN us = DOMAIN ts /\ \A j \in DOMAIN ts : j # i => us[j] = ts[j]
    BY <1>4, <2>2
  <2> QED
    BY <2>1, <2>3, <2>5, <2>6
<1>6. ASSUME NEW q, Fails(q, ts) PROVE Fails(q, us)
  <2>1. PICK j \in DOMAIN ts : ts[j].req = q /\ ts[j].hw = "halted"
    BY <1>6 DEF Fails, ToSet
  <2>2. j # i
    BY <1>3, <2>1
  <2>3. j \in DOMAIN us /\ us[j] = ts[j]
    BY <1>5, <2>1, <2>2
  <2> QED
    BY <2>1, <2>3 DEF Fails, ToSet
<1>7. \A q \in Requests : Evident(q, queue, frames, slots) =>
         Evident(q, queue', frames', slots')
  BY <1>1, <1>5, <1>6 DEF Evident
<1>8. us[i].hw = "halted" => Fails(r, us)
  BY <1>3, <1>4, <1>5 DEF Fails, ToSet
<1>9. failed' = failed \/ Evident(r, queue', frames', slots')
  BY <1>5, <1>8 DEF Evident
<1>10. /\ failed \in [Requests -> BOOLEAN] /\ failed' \in [Requests -> BOOLEAN]
       /\ \A q \in Requests : q # r => failed'[q] = failed[q]
  BY <1>1, <1>4 DEF Known, i
<1>11. ASSUME NEW q \in Requests, failed'[q], ~cleared'[q]
       PROVE  status'[q] # "success" \/ Evident(q, queue', frames', slots')
  <2>1. CASE q = r /\ failed' # failed
    BY <1>9, <2>1
  <2>2. CASE q # r \/ failed' = failed
    <3>1. failed[q] /\ ~cleared[q]
      BY <1>1, <1>10, <1>11, <2>2
    <3> QED
      BY <1>1, <1>7, <3>1 DEF Known
  <2> QED
    BY <2>1, <2>2
<1> QED
  BY <1>1, <1>10, <1>11 DEF Known

(* Every step keeps what is known.                                           *)
LEMMA StepKnows == IInv /\ Known /\ [Next]_vars => Known'
<1> SUFFICES ASSUME IInv, Known, [Next]_vars PROVE Known'
  OBVIOUS
<1>1. CASE Complete
  BY <1>1, CompleteTells
<1>2. CASE Completed
  BY <1>2, CompletedTells
<1>3. CASE NextDoneQueue
  BY <1>3, NextDoneQueueTells
<1>4. CASE Return
  BY <1>4, ReturnTells
<1>5. CASE scavengeCompletedTransactions
  <2>1. lists.active \in Seq(Endpoints) /\ lists.inactive \in Seq(Endpoints)
    BY DEF IInv, Standing, Apart
  <2> QED
    BY <1>5, <2>1, VisitTells DEF scavengeCompletedTransactions
<1>6. ASSUME NEW r \in Requests, Submit(r) PROVE Known'
  BY <1>6, SubmitTells
<1>7. ASSUME NEW e \in Endpoints, AbortPipe(e) PROVE Known'
  <2>1. HandleEndpointAbort(e, frames) /\ UNCHANGED <<status, failed, cleared>>
    BY <1>7 DEF AbortPipe, command
  <2>2. Standing(frames)
    BY DEF IInv
  <2> QED
    BY <2>1, <2>2, AbortTells, KnownStays
<1>8. ASSUME NEW e \in Endpoints, UIMDeleteEndpoint(e) PROVE Known'
  <2>1. /\ returnTransactions(e, Len(queue[e]), "returned", frames, "client")
        /\ UNCHANGED <<status, failed, cleared>>
    BY <1>8 DEF UIMDeleteEndpoint, command
  <2>2. /\ Nested(frames, slots, nextDoneQueue) /\ queue \in Queues
        /\ "client" \in Clients
    BY DEF IInv, Standing, QueueTypes, Clients
  <2> QED
    BY <2>1, <2>2, AllReturnsTell, KnownStays
<1>9. ASSUME NEW e \in Endpoints, TimeOut(e) PROVE Known'
  <2>1. ReturnOneTransaction(e) \in 0 .. Len(queue[e])
    BY <1>9, TimeOutTakes
  <2>2. IInv'
    BY <1>9, TimeOutKeeps
  <2> QED
    BY <1>9, <2>1, <2>2, TimeOutTells
<1>10. ASSUME NEW e \in Endpoints, Hardware(e) PROVE Known'
  BY <1>10, HardwareTells
<1>11. CASE UNCHANGED <<queue, frames, slots, status, failed, cleared>>
  BY <1>11, KnownStays
<1>12. ASSUME NEW a \in Addresses,
              DisableAddressEndpoints(a) \/ EnableAddressEndpoints(a)
       PROVE  Known'
  BY <1>11, <1>12 DEF DisableAddressEndpoints, EnableAddressEndpoints, gate, command
<1>13. ASSUME NEW e \in Endpoints, AddEmptyCBEndPoint(e) \/ Trim(e) \/ Fetch(e)
       PROVE  Known'
  BY <1>11, <1>13 DEF AddEmptyCBEndPoint, Trim, Fetch, gate, command
<1>14. CASE UNCHANGED vars
  BY <1>11, <1>14 DEF vars, gate, command
<1> QED
  BY <1>1, <1>2, <1>3, <1>4, <1>5, <1>6, <1>7, <1>8, <1>9, <1>10, <1>12, <1>13,
     <1>14 DEF Next, WorkLoop

(* It is known in every state of every behaviour.                            *)
LEMMA Knowledge == Spec => []Known
<1>1. Init => Known
  BY DEF Init, Known
<1>2. IInv /\ Known /\ [Next]_vars => Known'
  BY StepKnows
<1> QED
  BY <1>1, <1>2, Invariance, PTL DEF Spec

(* What tells of a request counts as one of its transfers.                   *)
LEMMA EvidenceCounts ==
  ASSUME IInv, NEW r \in Requests, Evident(r, queue, frames, slots)
  PROVE  Out(r)
<1> DEFINE x == InQueues(queue, {r})
           y == InFrames(frames, {r})
           z == InSlots(slots, {r})
<1>1. /\ queue \in Queues /\ frames \in Seq(Frames) /\ slots \in Seq(Seq(Result))
  BY DEF IInv, Standing, QueueTypes, Nested
<1>2. x \in Nat /\ y \in Nat /\ z \in Nat
  BY <1>1, AroundIsNat
<1>3. ASSUME NEW D, NEW l \in Seq(D), NEW u \in ToSet(l), u.req = r
      PROVE  Amount(l, {r}) >= 1
  <2> DEFINE w == Mine(D, {r})
  <2>1. w \in [D -> Nat] /\ Amount(l, {r}) = Weighed(l, w)
    BY AmountIsWeight
  <2>2. PICK j \in 1 .. Len(l) : l[j] = u
    BY DEF ToSet
  <2>3. l[j] \in D
    BY <2>2, ElementOfSeq
  <2>4. w[l[j]] = 1
    BY <1>3, <2>2, <2>3 DEF Mine
  <2> HIDE DEF w
  <2>5. w[l[j]] <= Weighed(l, w) /\ Weighed(l, w) \in Nat
    BY <2>1, <2>2, WeightOfPart, WeightsOf
  <2> QED
    BY <2>1, <2>4, <2>5
<1>4. ASSUME NEW e \in Endpoints, Fails(r, queue[e]) PROVE x >= 1
  <2>1. queue[e] \in Seq(Transfer)
    BY <1>1 DEF Queues
  <2>2. Amount(queue[e], {r}) >= 1 /\ Amount(queue[e], {r}) \in Nat
    BY <1>3, <1>4, <2>1, AmountIsWeight DEF Fails
  <2>3. Amount(queue[e], {r}) <= InQueues(queue, {r})
    BY <1>1, QueueIsPart
  <2> QED
    BY <1>2, <2>2, <2>3
<1>5. ASSUME NEW j \in DOMAIN frames, Tells(r, Waiting(frames[j])) PROVE y >= 1
  <2> DEFINE w == FrameWeights({r})
  <2>1. frames[j] \in Frames /\ j \in 1 .. Len(frames)
    BY <1>1
  <2>2. Waiting(frames[j]) \in Seq(Result) /\ w[frames[j]] = Amount(Waiting(frames[j]), {r})
    BY <2>1, WaitingIsList DEF FrameWeights
  <2>3. w[frames[j]] >= 1
    BY <1>3, <1>5, <2>2 DEF Tells
  <2>4. w \in [Frames -> Nat] /\ InFrames(frames, {r}) = Weighed(frames, w)
    BY <1>1, FramesAreWeight
  <2> HIDE DEF w
  <2>5. w[frames[j]] <= Weighed(frames, w) /\ w[frames[j]] \in Nat
    BY <1>1, <2>1, <2>4, WeightOfPart
  <2> QED
    BY <1>2, <2>3, <2>4, <2>5
<1>6. ASSUME NEW j \in DOMAIN slots, Tells(r, slots[j]) PROVE z >= 1
  <2> DEFINE w == ListWeights({r})
  <2>1. slots[j] \in Seq(Result) /\ j \in 1 .. Len(slots)
    BY <1>1
  <2>2. w[slots[j]] = Amount(slots[j], {r})
    BY <2>1 DEF ListWeights
  <2>3. w[slots[j]] >= 1
    BY <1>3, <1>6, <2>1, <2>2 DEF Tells
  <2>4. w \in [Seq(Result) -> Nat] /\ InSlots(slots, {r}) = Weighed(slots, w)
    BY <1>1, SlotsAreWeight
  <2> HIDE DEF w
  <2>5. w[slots[j]] <= Weighed(slots, w) /\ w[slots[j]] \in Nat
    BY <1>1, <2>1, <2>4, WeightOfPart
  <2> QED
    BY <1>2, <2>3, <2>4, <2>5
<1>7. x >= 1 \/ y >= 1 \/ z >= 1
  BY <1>4, <1>5, <1>6 DEF Evident, GateTells
<1>8. Around(queue, frames, slots, {r}) = x + (y + z)
  BY DEF Around, InGate
<1> HIDE DEF x, y, z
<1>9. x + (y + z) # 0
  BY <1>2, <1>7
<1>10. Cardinality(sent[r] \ back[r]) # 0
  BY <1>8, <1>9 DEF IInv, Accounted
<1> QED
  BY <1>10, FS_EmptySet DEF Out

-----------------------------------------------------------------------------
(* The theorems.                                                             *)

(* Every variable has a value of its kind, no slot is used beyond those      *)
(* there are and the counter of transfers does not wrap, whatever clients    *)
(* call from their completions.                                              *)
THEOREM TypeCorrect == Spec => []TypeOK
<1>1. IInv /\ Known => TypeOK
  <2> SUFFICES ASSUME IInv, Known PROVE TypeOK
    OBVIOUS
  <2>1. /\ QueueTypes /\ schedule \in BOOLEAN /\ relinked \in BOOLEAN
        /\ Nested(frames, slots, nextDoneQueue) /\ Apart(lists, open)
        /\ CommandTypes /\ transactionsOut \in Nat
    BY DEF IInv, Standing, Counted
  <2>2. /\ ToSet(lists.active) \subseteq Endpoints
        /\ ToSet(lists.inactive) \subseteq Endpoints
        /\ ToSet(lists.disabled) \subseteq Endpoints /\ open \subseteq Endpoints
    <3>1. /\ lists.active \in Seq(Endpoints) /\ lists.inactive \in Seq(Endpoints)
          /\ lists.disabled \in Seq(Endpoints)
          /\ ToSet(lists.active) \cup ToSet(lists.inactive)
                 \cup ToSet(lists.disabled) = open
      BY <2>1 DEF Apart
    <3>2. \A s \in Seq(Endpoints) : ToSet(s) \subseteq Endpoints
      BY DEF ToSet
    <3> QED
      BY <3>1, <3>2
  <2>3. nextDoneQueue \in 0 .. Slots /\ Len(slots) < Slots
    <3>1. Slots \in Nat \ {0}
      BY EHCIAssumption
    <3>2. CASE frames = <<>>
      <4>1. slots = <<>> /\ nextDoneQueue \in 0 .. Slots
        BY <2>1, <3>2 DEF Nested
      <4> QED
        BY <3>1, <4>1
    <3>3. CASE frames # <<>>
      <4>1. /\ Len(slots) < nextDoneQueue /\ nextDoneQueue \in 0 .. Slots
            /\ slots \in Seq(Seq(Result))
        BY <2>1, <3>3 DEF Nested
      <4>2. Len(slots) \in Nat
        BY <4>1
      <4> QED
        BY <3>1, <4>1, <4>2
    <3> QED
      BY <3>2, <3>3
  <2> QED
    BY <2>1, <2>2, <2>3 DEF TypeOK, QueueTypes, CommandTypes, Known
<1> QED
  BY <1>1, Invariance, Knowledge, PTL

(* Every stage of every request is queued, or in a list that is processed or *)
(* waits, and that once, until it is back: however aborts, time-outs, the    *)
(* hardware and nested completions interleave, the client is called once.    *)
THEOREM TransfersConserved == Spec => []Conserved
<1>1. IInv => Conserved
  <2> SUFFICES ASSUME IInv, NEW r \in Requests
               PROVE  Pending({r}) = Cardinality(sent[r] \ back[r])
    BY DEF Conserved
  <2> DEFINE x == InQueues(queue, {r})
             y == InFrames(frames, {r})
             z == InSlots(slots, {r})
  <2>1. Pending({r}) = (x + y) + z
    BY DEF Pending, InQueues, InFrames, InSlots
  <2>2. Around(queue, frames, slots, {r}) = x + (y + z)
    BY DEF Around, InGate
  <2>3. x \in Nat /\ y \in Nat /\ z \in Nat
    <3>1. /\ queue \in Queues /\ frames \in Seq(Frames)
          /\ slots \in Seq(Seq(Result))
      BY DEF IInv, Standing, QueueTypes, Nested
    <3> QED
      BY <3>1, AroundIsNat
  <2>4. Around(queue, frames, slots, {r}) = Cardinality(sent[r] \ back[r])
    BY DEF IInv, Accounted
  <2> HIDE DEF x, y, z
  <2>5. (x + y) + z = x + (y + z)
    BY <2>3
  <2> QED
    BY <2>1, <2>2, <2>4, <2>5
<1> QED
  BY <1>1, Invariance, PTL

(* An endpoint that was created is on exactly one of the lists and on it     *)
(* once, whatever walks over them.                                           *)
THEOREM OneListHolds == Spec => []OneList
<1>1. IInv => OneList
  <2> SUFFICES ASSUME IInv PROVE OneList
    OBVIOUS
  <2> DEFINE a == lists.active
             i == lists.inactive
             d == lists.disabled
             both == a \o i
             all == both \o d
  <2>1. /\ a \in Seq(Endpoints) /\ i \in Seq(Endpoints) /\ d \in Seq(Endpoints)
        /\ IsInjective(a) /\ IsInjective(i) /\ IsInjective(d)
        /\ ToSet(a) \cap ToSet(i) = {} /\ ToSet(a) \cap ToSet(d) = {}
        /\ ToSet(i) \cap ToSet(d) = {}
        /\ ToSet(a) \cup ToSet(i) \cup ToSet(d) = open
    BY DEF IInv, Standing, Apart
  <2>2. /\ both \in Seq(Endpoints) /\ ToSet(both) = ToSet(a) \cup ToSet(i)
        /\ IsInjective(both)
    BY <2>1, SetOfConcat
  <2> HIDE DEF both
  <2>3. /\ ToSet(all) = ToSet(both) \cup ToSet(d)
        /\ ToSet(both) \cap ToSet(d) = {} => IsInjective(all)
    BY <2>1, <2>2, SetOfConcat
  <2>4. ToSet(both) \cap ToSet(d) = {}
    BY <2>1, <2>2
  <2>5. ToSet(all) = open /\ IsInjective(all)
    BY <2>1, <2>2, <2>3, <2>4
  <2> QED
    BY <2>5 DEF OneList, both
<1> QED
  BY <1>1, Invariance, PTL

(* A transfer that is not finished is where the hardware comes to it, unless *)
(* its endpoint is disabled or nobody has started the schedule since it was  *)
(* enabled: no call leaves one behind on the list of idle endpoints, or on   *)
(* the active list with the schedule off.                                    *)
THEOREM HardwareReachesAll == Spec => []HardwareReaches
<1>1. IInv => HardwareReaches
  <2> SUFFICES ASSUME IInv, NEW e \in Endpoints, Unfinished(e) # {}
               PROVE  \/ Contains(lists.active, e) /\ (schedule \/ relinked)
                      \/ Contains(lists.disabled, e)
    BY DEF HardwareReaches
  <2>1. Active(queue[e])
    BY DEF Unfinished, Active
  <2>2. \/ e \in ToSet(lists.active) /\ (schedule \/ relinked)
        \/ e \in ToSet(lists.disabled)
    BY <2>1 DEF IInv, Standing, Reached
  <2>3. lists.active \in Seq(Endpoints) /\ lists.disabled \in Seq(Endpoints)
    BY DEF IInv, Standing, Apart
  <2> QED
    BY <2>2, <2>3, ContainsIs
<1> QED
  BY <1>1, Invariance, PTL

(* A request that ends successfully had no stage that failed, whichever of   *)
(* its stages failed and whatever its others said after that, unless the     *)
(* time-out of the stage before it cleared the failure.                      *)
THEOREM StatusIsHonest == Spec => []HonestStatus
<1>1. IInv /\ Known => HonestStatus
  <2> SUFFICES ASSUME IInv, Known, NEW r \in Requests, ~Out(r),
                      status[r] = "success", failed[r], ~cleared[r]
               PROVE  FALSE
    BY DEF HonestStatus
  <2>1. Evident(r, queue, frames, slots)
    BY DEF Known
  <2> QED
    BY <2>1, EvidenceCounts
<1> QED
  BY <1>1, Invariance, Knowledge, PTL

=============================================================================
