---------------------------- MODULE Lists_proofs ----------------------------
(* What the sums of lists are: for a piece of a list, for two lists one      *)
(* after the other, and for one that differs in one place; the elements of a *)
(* list, of its part in a set and of the lists it joins; and what a list     *)
(* weighs whose elements have weights.                                       *)

EXTENDS Lists, SequencesExt, TLAPS, SequenceTheorems, WellFoundedInduction

-----------------------------------------------------------------------------
(* Induction.                                                                *)

(* A set of natural numbers that is not empty has a smallest element.        *)
LEMMA Smallest ==
  ASSUME NEW T \in SUBSET Nat, T # {}
  PROVE  \E x \in T : \A y \in T : x <= y
<1>1. PICK x \in T : \A y \in T : ~ (<<y, x>> \in OpToRel(<, Nat))
  BY NatLessThanWellFounded, WFMin
<1>2. ASSUME NEW y \in T, ~(x <= y)
      PROVE  FALSE
  <2>1. y \in Nat /\ x \in Nat /\ y < x
    BY <1>2
  <2>2. <<y, x>> \in OpToRel(<, Nat)
    BY <2>1 DEF OpToRel
  <2> QED
    BY <2>2, <1>1
<1> QED
  BY <1>2

(* A set that holds zero and, below n, with each number the next holds all   *)
(* numbers up to n.                                                          *)
LEMMA Induction ==
  ASSUME NEW n \in Nat, NEW T, 0 \in T,
         \A k \in 0 .. n - 1 : k \in T => k + 1 \in T
  PROVE  \A k \in 0 .. n : k \in T
<1> DEFINE B == {k \in 0 .. n : k \notin T}
<1> SUFFICES ASSUME B # {}
             PROVE  FALSE
  OBVIOUS
<1>1. B \in SUBSET Nat
  OBVIOUS
<1>2. PICK x \in B : \A y \in B : x <= y
  BY <1>1, Smallest
<1>3. x \in 1 .. n
  OBVIOUS
<1>4. x - 1 \in 0 .. n - 1 /\ x - 1 \notin B
  BY <1>2, <1>3
<1>5. x - 1 \in T
  BY <1>3, <1>4
<1>6. (x - 1) + 1 \in T
  BY <1>4, <1>5
<1> QED
  BY <1>6, <1>3

(* A set of numbers up to n that is not empty has a largest element.         *)
LEMMA Largest ==
  ASSUME NEW n \in Nat, NEW T \in SUBSET (0 .. n), T # {}
  PROVE  \E x \in T : \A y \in T : y <= x
<1> DEFINE U == {k \in 0 .. n : n - k \in T}
<1>1. U \in SUBSET Nat
  OBVIOUS
<1>2. U # {}
  <2>1. PICK x \in T : TRUE
    OBVIOUS
  <2>2. n - x \in 0 .. n /\ n - (n - x) = x
    OBVIOUS
  <2> QED
    BY <2>1, <2>2
<1>3. PICK u \in U : \A v \in U : u <= v
  BY <1>1, <1>2, Smallest
<1>4. ASSUME NEW y \in T
      PROVE  y <= n - u
  <2>1. n - y \in 0 .. n /\ n - (n - y) = y
    OBVIOUS
  <2>2. n - y \in U
    BY <2>1
  <2>3. u <= n - y
    BY <2>2, <1>3
  <2> QED
    BY <2>3
<1> QED
  BY <1>3, <1>4

-----------------------------------------------------------------------------
(* Recursion.                                                                *)

(* A function that is defined by its value at zero and by how each value     *)
(* follows from the one before.                                              *)
Follows(f, n, a, F) ==
    \A k \in 0 .. n : f[k] = IF k = 0 THEN a ELSE F[k][f[k - 1]]

(* It exists: one more value at a time.                                      *)
LEMMA Recursion ==
  ASSUME NEW n \in Nat, NEW D, NEW a \in D, NEW F \in [1 .. n -> [D -> D]]
  PROVE  \E f \in [0 .. n -> D] : Follows(f, n, a, F)
<1> DEFINE Solves(f, m) ==
       \A k \in 0 .. m : f[k] = IF k = 0 THEN a ELSE F[k][f[k - 1]]
           T == {m \in 0 .. n : \E f \in [0 .. m -> D] : Solves(f, m)}
<1>1. 0 \in T
  <2> DEFINE f == [k \in 0 .. 0 |-> a]
  <2>1. f \in [0 .. 0 -> D] /\ Solves(f, 0)
    OBVIOUS
  <2> HIDE DEF f
  <2> QED
    BY <2>1
<1>2. ASSUME NEW m \in 0 .. n - 1, m \in T
      PROVE  m + 1 \in T
  <2>1. PICK f \in [0 .. m -> D] : Solves(f, m)
    BY <1>2
  <2>2. m \in Nat /\ m + 1 \in 1 .. n /\ m \in 0 .. m /\ f[m] \in D
    OBVIOUS
  <2> DEFINE x == F[m + 1][f[m]]
             g == [k \in 0 .. m + 1 |-> IF k = m + 1 THEN x ELSE f[k]]
  <2>3. x \in D
    BY <2>2
  <2>4. \A k \in 0 .. m : g[k] = f[k]
    BY <2>2
  <2>5. g[m + 1] = x
    BY <2>2
  <2>6. g \in [0 .. m + 1 -> D]
    BY <2>2, <2>3
  <2> HIDE DEF x, g
  <2>7. ASSUME NEW k \in 0 .. m + 1
        PROVE  g[k] = IF k = 0 THEN a ELSE F[k][g[k - 1]]
    <3>1. CASE k = m + 1
      <4>1. k # 0 /\ k - 1 = m
        BY <2>2, <3>1
      <4>2. g[k - 1] = f[m]
        BY <2>2, <2>4, <4>1
      <4> QED
        BY <2>5, <3>1, <4>1, <4>2 DEF x
    <3>2. CASE k # m + 1
      <4>1. k \in 0 .. m /\ (k # 0 => k - 1 \in 0 .. m)
        BY <2>2, <3>2
      <4>2. f[k] = IF k = 0 THEN a ELSE F[k][f[k - 1]]
        BY <2>1, <4>1
      <4> QED
        BY <2>4, <4>1, <4>2
    <3> QED
      BY <3>1, <3>2
  <2>8. Solves(g, m + 1)
    BY <2>7
  <2> HIDE DEF Solves
  <2>9. m + 1 \in 0 .. n
    BY <2>2
  <2> QED
    BY <2>6, <2>8, <2>9
<1> HIDE DEF T
<1>3. \A m \in 0 .. n : m \in T
  BY <1>1, <1>2, Induction
<1>4. n \in T
  BY <1>3
<1>5. \E f \in [0 .. n -> D] : Solves(f, n)
  BY <1>4 DEF T
<1> QED
  BY <1>5 DEF Follows

-----------------------------------------------------------------------------
(* Sums.                                                                     *)

(* The recursion has a solution.                                             *)
LEMMA SumsExist ==
  ASSUME NEW s \in Seq(Nat)
  PROVE  \E f : f = [k \in 0 .. Len(s) |-> IF k = 0 THEN 0 ELSE f[k - 1] + s[k]]
<1> DEFINE n == Len(s)
           F == [k \in 1 .. n |-> [x \in Nat |-> x + s[k]]]
           zero == 0
<1>1. n \in Nat /\ zero \in Nat /\ \A k \in 1 .. n : s[k] \in Nat
  OBVIOUS
<1>2. F \in [1 .. n -> [Nat -> Nat]]
  BY <1>1
<1>3. \A k \in 1 .. n, x \in Nat : F[k][x] = x + s[k]
  OBVIOUS
<1> HIDE DEF F, n, zero
<1>4. PICK f \in [0 .. n -> Nat] : Follows(f, n, zero, F)
  BY <1>1, <1>2, Recursion
<1>5. ASSUME NEW k \in 0 .. n
      PROVE  f[k] = IF k = 0 THEN 0 ELSE f[k - 1] + s[k]
  <2>1. CASE k = 0
    BY <1>4, <2>1 DEF zero, Follows
  <2>2. CASE k # 0
    <3>1. k \in 1 .. n /\ k - 1 \in 0 .. n
      BY <1>1, <2>2
    <3>2. f[k] = F[k][f[k - 1]] /\ f[k - 1] \in Nat
      BY <1>4, <2>2, <3>1 DEF Follows
    <3> QED
      BY <1>3, <2>2, <3>1, <3>2
  <2> QED
    BY <2>1, <2>2
<1>6. f = [k \in 0 .. n |-> IF k = 0 THEN 0 ELSE f[k - 1] + s[k]]
  BY <1>5
<1> QED
  BY <1>6 DEF n

(* Sums is one.                                                              *)
LEMMA SumsAre ==
  ASSUME NEW s \in Seq(Nat)
  PROVE  Sums(s) = [k \in 0 .. Len(s) |->
                        IF k = 0 THEN 0 ELSE Sums(s)[k - 1] + s[k]]
<1> DEFINE Solves(f) ==
       f = [k \in 0 .. Len(s) |-> IF k = 0 THEN 0 ELSE f[k - 1] + s[k]]
<1>1. \E f : Solves(f)
  BY SumsExist
<1>2. Solves(CHOOSE f : Solves(f))
  BY <1>1
<1>3. Sums(s) = CHOOSE f : Solves(f)
  BY DEF Sums
<1> QED
  BY <1>2, <1>3

(* Sums are natural numbers, and each adds an element to the one before.     *)
LEMMA SumsStep ==
  ASSUME NEW s \in Seq(Nat)
  PROVE  /\ Sums(s)[0] = 0
         /\ \A k \in 0 .. Len(s) : Sums(s)[k] \in Nat
         /\ \A k \in 0 .. Len(s) - 1 : Sums(s)[k + 1] = Sums(s)[k] + s[k + 1]
         /\ Total(s) \in Nat
<1>0. Len(s) \in Nat /\ \A k \in 1 .. Len(s) : s[k] \in Nat
  OBVIOUS
<1>1. Sums(s)[0] = 0
  BY SumsAre, <1>0
<1>2. ASSUME NEW k \in 0 .. Len(s) - 1
      PROVE  Sums(s)[k + 1] = Sums(s)[k] + s[k + 1]
  <2>1. k + 1 \in 0 .. Len(s) /\ k + 1 # 0 /\ (k + 1) - 1 = k
    BY <1>0
  <2> QED
    BY <2>1, SumsAre
<1> DEFINE T == {k \in 0 .. Len(s) : Sums(s)[k] \in Nat}
<1>3. 0 \in T
  BY <1>0, <1>1
<1>4. ASSUME NEW k \in 0 .. Len(s) - 1, k \in T
      PROVE  k + 1 \in T
  BY <1>0, <1>2, <1>4
<1> HIDE DEF T
<1>5. \A k \in 0 .. Len(s) : k \in T
  BY <1>0, <1>3, <1>4, Induction
<1>6. \A k \in 0 .. Len(s) : Sums(s)[k] \in Nat
  BY <1>5 DEF T
<1>7. Total(s) \in Nat
  BY <1>0, <1>6 DEF Total
<1> QED
  BY <1>1, <1>2, <1>6, <1>7

(* Where in a list of n the numbers from j to j + m are.                     *)
LEMMA Places ==
  ASSUME NEW n \in Nat, NEW j \in Nat, NEW m \in Nat, j + m <= n,
         NEW i \in 0 .. m - 1
  PROVE  /\ j + i \in 0 .. n - 1 /\ (j + i) + 1 = j + (i + 1)
         /\ j \in 0 .. n /\ j + i \in 0 .. n
OBVIOUS

(* Where t is a piece of s, the sums of s grow by those of t.                *)
LEMMA SumsOfAPiece ==
  ASSUME NEW s \in Seq(Nat), NEW t \in Seq(Nat), NEW j \in Nat, NEW m \in Nat,
         j + m <= Len(s), m <= Len(t), \A i \in 1 .. m : t[i] = s[j + i]
  PROVE  \A i \in 0 .. m : Sums(s)[j + i] = Sums(s)[j] + Sums(t)[i]
<1> DEFINE T == {i \in 0 .. m : Sums(s)[j + i] = Sums(s)[j] + Sums(t)[i]}
<1>0. Len(s) \in Nat /\ Len(t) \in Nat
  OBVIOUS
<1>1. 0 \in T
  <2>1. Sums(s)[j] \in Nat /\ Sums(t)[0] = 0 /\ j + 0 = j
    BY <1>0, SumsStep
  <2> QED
    BY <2>1
<1>2. ASSUME NEW i \in 0 .. m - 1, i \in T
      PROVE  i + 1 \in T
  <2>1. Sums(t)[i + 1] = Sums(t)[i] + t[i + 1] /\ Sums(t)[i] \in Nat
    BY <1>0, SumsStep
  <2>2. /\ j + i \in 0 .. Len(s) - 1 /\ (j + i) + 1 = j + (i + 1)
        /\ j \in 0 .. Len(s) /\ j + i \in 0 .. Len(s)
    <3> DEFINE n == Len(s)
    <3>1. n \in Nat /\ j + m <= n
      BY <1>0
    <3> HIDE DEF n
    <3>2. /\ j + i \in 0 .. n - 1 /\ (j + i) + 1 = j + (i + 1)
          /\ j \in 0 .. n /\ j + i \in 0 .. n
      BY <3>1, Places
    <3> QED
      BY <3>2 DEF n
  <2>3. Sums(s)[(j + i) + 1] = Sums(s)[j + i] + s[(j + i) + 1]
    BY <2>2, SumsStep
  <2>4. t[i + 1] = s[j + (i + 1)] /\ s[j + (i + 1)] \in Nat
    BY <1>0
  <2>5. Sums(s)[j] \in Nat
    BY <2>2, SumsStep
  <2>6. Sums(s)[j + i] = Sums(s)[j] + Sums(t)[i]
    BY <1>2
  <2>7. Sums(s)[j + (i + 1)] = Sums(s)[j + i] + t[i + 1]
    BY <2>2, <2>3, <2>4
  <2>8. t[i + 1] \in Nat
    BY <2>4
  <2>9. \A a, b, c \in Nat : (a + b) + c = a + (b + c)
    OBVIOUS
  <2>10. (Sums(s)[j] + Sums(t)[i]) + t[i + 1] = Sums(s)[j] + (Sums(t)[i] + t[i + 1])
    BY <2>1, <2>5, <2>8, <2>9
  <2>11. Sums(s)[j + (i + 1)] = Sums(s)[j] + Sums(t)[i + 1]
    BY <2>1, <2>6, <2>7, <2>10
  <2>12. i + 1 \in 0 .. m
    OBVIOUS
  <2> QED
    BY <2>11, <2>12
<1> HIDE DEF T
<1>3. \A i \in 0 .. m : i \in T
  BY <1>1, <1>2, Induction
<1> QED
  BY <1>3 DEF T

-----------------------------------------------------------------------------
(* Totals.                                                                   *)

(* Sums of no, of one, and of more numbers.                                  *)
LEMMA TotalOfNone == Total(<<>>) = 0
<1>1. <<>> \in Seq(Nat) /\ Len(<<>>) = 0
  OBVIOUS
<1> QED
  BY <1>1, SumsStep DEF Total

(* The total of two lists, one after the other, is that of both.             *)
LEMMA TotalOfConcat ==
  ASSUME NEW s \in Seq(Nat), NEW t \in Seq(Nat)
  PROVE  Total(s \o t) = Total(s) + Total(t)
<1> DEFINE w == s \o t
<1>1. /\ w \in Seq(Nat) /\ Len(w) = Len(s) + Len(t)
      /\ Len(s) \in Nat /\ Len(t) \in Nat
      /\ \A i \in 1 .. Len(s) : s[i] = w[0 + i]
      /\ \A i \in 1 .. Len(t) : t[i] = w[Len(s) + i]
  OBVIOUS
<1> HIDE DEF w
<1>2. /\ 0 \in Nat /\ 0 + Len(s) <= Len(w) /\ Len(s) <= Len(s)
      /\ Len(s) + Len(t) <= Len(w) /\ Len(t) <= Len(t)
  BY <1>1
<1>3. \A i \in 0 .. Len(s) : Sums(w)[0 + i] = Sums(w)[0] + Sums(s)[i]
  BY ZenonT(30), <1>1, <1>2, SumsOfAPiece
<1>4. \A i \in 0 .. Len(t) : Sums(w)[Len(s) + i] = Sums(w)[Len(s)] + Sums(t)[i]
  <2> DEFINE m == Len(s)
             n == Len(t)
  <2>1. /\ w \in Seq(Nat) /\ m \in Nat /\ n \in Nat /\ m + n <= Len(w) /\ n <= Len(t)
        /\ \A i \in 1 .. n : t[i] = w[m + i]
    BY <1>1, <1>2
  <2> HIDE DEF m, n
  <2>2. \A i \in 0 .. n : Sums(w)[m + i] = Sums(w)[m] + Sums(t)[i]
    BY ZenonT(30), <2>1, SumsOfAPiece
  <2> QED
    BY <2>2 DEF m, n
<1>5. Sums(w)[0] = 0 /\ Sums(s)[Len(s)] \in Nat
  BY <1>1, SumsStep
<1>6. Sums(w)[Len(s)] = Sums(s)[Len(s)]
  <2>1. Len(s) \in 0 .. Len(s) /\ 0 + Len(s) = Len(s)
    BY <1>1
  <2> QED
    BY <2>1, <1>3, <1>5
<1>7. Len(t) \in 0 .. Len(t)
  BY <1>1
<1>8. Sums(w)[Len(w)] = Sums(s)[Len(s)] + Sums(t)[Len(t)]
  BY <1>1, <1>4, <1>6, <1>7
<1> QED
  BY <1>8 DEF w, Total

(* The total of one number is that number.                                   *)
LEMMA TotalOfOne ==
  ASSUME NEW x \in Nat
  PROVE  Total(<<x>>) = x
<1>1. /\ <<x>> \in Seq(Nat) /\ Len(<<x>>) = 1 /\ <<x>>[1] = x
      /\ 0 \in 0 .. 1 - 1 /\ 0 + 1 = 1
  OBVIOUS
<1>2. Sums(<<x>>)[0] = 0 /\ Sums(<<x>>)[0 + 1] = Sums(<<x>>)[0] + <<x>>[0 + 1]
  BY <1>1, SumsStep
<1> QED
  BY <1>1, <1>2 DEF Total

(* Numbers between lo and hi add up to as many times that.                   *)
LEMMA TotalBounds ==
  ASSUME NEW s \in Seq(Nat), NEW lo \in Nat, NEW hi \in Nat,
         \A i \in 1 .. Len(s) : lo <= s[i] /\ s[i] <= hi
  PROVE  lo * Len(s) <= Total(s) /\ Total(s) <= hi * Len(s)
<1> DEFINE T == {k \in 0 .. Len(s) : lo * k <= Sums(s)[k] /\ Sums(s)[k] <= hi * k}
<1>0. Len(s) \in Nat
  OBVIOUS
<1>1. 0 \in T
  <2>1. Sums(s)[0] = 0 /\ lo * 0 = 0 /\ hi * 0 = 0
    BY SumsStep
  <2> QED
    BY <2>1, <1>0
<1>2. ASSUME NEW k \in 0 .. Len(s) - 1, k \in T
      PROVE  k + 1 \in T
  <2>1. /\ Sums(s)[k + 1] = Sums(s)[k] + s[k + 1]
        /\ Sums(s)[k] \in Nat
    BY <1>0, SumsStep
  <2>2. k + 1 \in 1 .. Len(s) /\ k \in Nat /\ s[k + 1] \in Nat
    BY <1>0
  <2>3. lo <= s[k + 1] /\ s[k + 1] <= hi
    BY <2>2
  <2>4. lo * k <= Sums(s)[k] /\ Sums(s)[k] <= hi * k
    BY <1>2
  <2>5. lo * (k + 1) = lo * k + lo /\ hi * (k + 1) = hi * k + hi
    BY <2>2
  <2>6. lo * k \in Nat /\ hi * k \in Nat
    BY <2>2
  <2>7. ASSUME NEW a \in Nat, NEW b \in Nat, NEW x \in Nat, NEW y \in Nat,
               NEW c \in Nat, NEW d \in Nat, a <= x, x <= b, c <= y, y <= d
        PROVE  a + c <= x + y /\ x + y <= b + d
    BY <2>7
  <2>8. /\ lo * k + lo <= Sums(s)[k] + s[k + 1]
        /\ Sums(s)[k] + s[k + 1] <= hi * k + hi
    BY <2>1, <2>2, <2>3, <2>4, <2>6, <2>7
  <2>9. lo * (k + 1) <= Sums(s)[k + 1] /\ Sums(s)[k + 1] <= hi * (k + 1)
    BY <2>1, <2>5, <2>8
  <2>10. k + 1 \in 0 .. Len(s)
    BY <2>2
  <2> QED
    BY <2>9, <2>10
<1> HIDE DEF T
<1>3. \A k \in 0 .. Len(s) : k \in T
  BY <1>0, <1>1, <1>2, Induction
<1>4. Len(s) \in T
  BY <1>0, <1>3
<1> QED
  BY <1>4 DEF T, Total

(* The total of a list is its first number and the total of the others.      *)
LEMMA TotalOfTail ==
  ASSUME NEW s \in Seq(Nat), s # <<>>
  PROVE  Total(s) = s[1] + Total(Tail(s))
<1>1. s = <<s[1]>> \o Tail(s) /\ s[1] \in Nat /\ Tail(s) \in Seq(Nat)
  OBVIOUS
<1>2. <<s[1]>> \in Seq(Nat)
  BY <1>1
<1>3. Total(<<s[1]>> \o Tail(s)) = Total(<<s[1]>>) + Total(Tail(s))
  BY <1>1, <1>2, TotalOfConcat
<1>4. Total(<<s[1]>>) = s[1]
  BY <1>1, TotalOfOne
<1> QED
  BY <1>1, <1>3, <1>4

(* A list that differs in one place has a total that differs by that.        *)
LEMMA TotalOfChange ==
  ASSUME NEW s \in Seq(Nat), NEW t \in Seq(Nat), Len(t) = Len(s),
         NEW j \in 1 .. Len(s), \A i \in 1 .. Len(s) : i # j => t[i] = s[i]
  PROVE  Total(t) + s[j] = Total(s) + t[j]
<1> DEFINE n == Len(s)
           T == {k \in 0 .. n : Sums(t)[k] + (IF j <= k THEN s[j] ELSE 0)
                                    = Sums(s)[k] + (IF j <= k THEN t[j] ELSE 0)}
<1>0. /\ n \in Nat /\ Len(s) = n /\ Len(t) = n /\ j \in 1 .. n
      /\ s[j] \in Nat /\ t[j] \in Nat
      /\ \A i \in 1 .. n : s[i] \in Nat /\ t[i] \in Nat
  BY SMTT(30), ElementOfSeq
<1>1. /\ Sums(s)[0] = 0 /\ Sums(t)[0] = 0
      /\ \A k \in 0 .. n : Sums(s)[k] \in Nat /\ Sums(t)[k] \in Nat
      /\ \A k \in 0 .. n - 1 : Sums(s)[k + 1] = Sums(s)[k] + s[k + 1]
      /\ \A k \in 0 .. n - 1 : Sums(t)[k + 1] = Sums(t)[k] + t[k + 1]
  BY <1>0, SumsStep
<1>2. \A i \in 1 .. n : i # j => t[i] = s[i]
  OBVIOUS
<1> HIDE DEF n
<1>3. 0 \in T
  <2>1. ~(j <= 0) /\ 0 \in 0 .. n
    BY <1>0
  <2>2. Sums(t)[0] + 0 = Sums(s)[0] + 0
    BY <1>1
  <2> QED
    BY <2>1, <2>2
<1>4. ASSUME NEW k \in 0 .. n - 1, k \in T
      PROVE  k + 1 \in T
  <2>1. /\ k \in 0 .. n /\ k + 1 \in 0 .. n /\ k + 1 \in 1 .. n /\ k \in Nat
        /\ j \in Nat /\ k + 1 \in Nat
    BY <1>0
  <2> DEFINE a == Sums(t)[k]
             b == Sums(s)[k]
             c == t[k + 1]
             d == s[k + 1]
  <2>2. /\ a \in Nat /\ b \in Nat /\ c \in Nat /\ d \in Nat
        /\ Sums(t)[k + 1] = a + c /\ Sums(s)[k + 1] = b + d
    BY <1>0, <1>1, <2>1
  <2>3. a + (IF j <= k THEN s[j] ELSE 0) = b + (IF j <= k THEN t[j] ELSE 0)
    BY <1>4
  <2>4. k + 1 # j => c = d
    BY <1>2, <2>1
  <2>5. k + 1 = j => c = t[j] /\ d = s[j]
    OBVIOUS
  <2> HIDE DEF a, b, c, d
  <2>6. (a + c) + (IF j <= k + 1 THEN s[j] ELSE 0)
            = (b + d) + (IF j <= k + 1 THEN t[j] ELSE 0)
    <3>1. CASE j <= k
      <4>1. j <= k + 1 /\ k + 1 # j
        BY <2>1, <3>1
      <4>2. a + s[j] = b + t[j] /\ c = d
        BY <2>3, <2>4, <3>1, <4>1
      <4> DEFINE x == s[j]
                 y == t[j]
      <4>3. x \in Nat /\ y \in Nat /\ a + x = b + y
        BY <1>0, <4>2
      <4> HIDE DEF x, y
      <4>4. (a + c) + x = (b + c) + y
        BY <2>2, <4>3
      <4>5. (a + c) + s[j] = (b + d) + t[j]
        BY <4>2, <4>4 DEF x, y
      <4> QED
        BY <4>1, <4>5
    <3>2. CASE j = k + 1
      <4>1. ~(j <= k) /\ j <= k + 1
        BY <2>1, <3>2
      <4>2. a + 0 = b + 0
        BY <2>3, <4>1
      <4>3. a = b
        BY <2>2, <4>2
      <4>4. (a + t[j]) + s[j] = (b + s[j]) + t[j]
        BY <1>0, <2>2, <4>3
      <4> QED
        BY <2>5, <3>2, <4>1, <4>4
    <3>3. CASE ~(j <= k) /\ j # k + 1
      <4>1. ~(j <= k + 1)
        BY <2>1, <3>3
      <4>2. a + 0 = b + 0 /\ c = d
        BY <2>3, <2>4, <3>3
      <4>3. (a + c) + 0 = (b + d) + 0
        BY <2>2, <4>2
      <4> QED
        BY <4>1, <4>3
    <3> QED
      BY <3>1, <3>2, <3>3
  <2> QED
    BY <2>1, <2>2, <2>6
<1> HIDE DEF T
<1>5. \A k \in 0 .. n : k \in T
  BY <1>0, <1>3, <1>4, Induction
<1>6. n \in T /\ j <= n
  BY <1>0, <1>5
<1> QED
  BY <1>0, <1>6 DEF T, Total

-----------------------------------------------------------------------------
(* The elements of a list.                                                   *)

(* Lists one after the other, when no element is in both.                    *)
LEMMA SetOfConcat ==
  ASSUME NEW D, NEW s \in Seq(D), NEW t \in Seq(D)
  PROVE  /\ ToSet(s \o t) = ToSet(s) \cup ToSet(t)
         /\ IsInjective(s) /\ IsInjective(t) /\ ToSet(s) \cap ToSet(t) = {}
                => IsInjective(s \o t)
<1> DEFINE m == Len(s)
           n == Len(t)
           w == s \o t
<1>1. /\ m \in Nat /\ n \in Nat
      /\ DOMAIN s = 1 .. m /\ DOMAIN t = 1 .. n /\ DOMAIN w = 1 .. m + n
      /\ \A i \in 1 .. m : w[i] = s[i]
      /\ \A i \in 1 .. n : w[m + i] = t[i]
  OBVIOUS
<1> HIDE DEF m, n, w
<1>2. \A i \in 1 .. m + n : i \in 1 .. m \/ (i - m \in 1 .. n /\ m + (i - m) = i)
  BY <1>1
<1>3. \A i \in 1 .. m : i \in 1 .. m + n
  BY <1>1
<1>4. \A i \in 1 .. n : m + i \in 1 .. m + n
  BY <1>1
<1>5. ToSet(w) = ToSet(s) \cup ToSet(t)
  <2>1. ASSUME NEW x \in ToSet(w)
        PROVE  x \in ToSet(s) \cup ToSet(t)
    <3>1. PICK i \in 1 .. m + n : x = w[i]
      BY <1>1, <2>1 DEF ToSet
    <3>2. CASE i \in 1 .. m
      BY <1>1, <3>1, <3>2 DEF ToSet
    <3>3. CASE i - m \in 1 .. n /\ m + (i - m) = i
      <4>1. w[i] = t[i - m]
        BY <1>1, <3>3
      <4> QED
        BY <1>1, <3>1, <3>3, <4>1 DEF ToSet
    <3> QED
      BY <1>2, <3>1, <3>2, <3>3
  <2>2. ASSUME NEW i \in 1 .. m
        PROVE  s[i] \in ToSet(w)
    BY <1>1, <1>3 DEF ToSet
  <2>3. ASSUME NEW i \in 1 .. n
        PROVE  t[i] \in ToSet(w)
    BY <1>1, <1>4 DEF ToSet
  <2>4. ToSet(s) \subseteq ToSet(w)
    BY <1>1, <2>2 DEF ToSet
  <2>5. ToSet(t) \subseteq ToSet(w)
    BY <1>1, <2>3 DEF ToSet
  <2> QED
    BY <2>1, <2>4, <2>5
<1>6. ASSUME IsInjective(s), IsInjective(t), ToSet(s) \cap ToSet(t) = {},
             NEW i \in 1 .. m + n, NEW j \in 1 .. m + n, w[i] = w[j]
      PROVE  i = j
  <2>1. \A a \in 1 .. m, b \in 1 .. n : s[a] # t[b]
    BY <1>1, <1>6 DEF ToSet
  <2>2. \A a, b \in 1 .. m : s[a] = s[b] => a = b
    BY <1>1, <1>6 DEF IsInjective
  <2>3. \A a, b \in 1 .. n : t[a] = t[b] => a = b
    BY <1>1, <1>6 DEF IsInjective
  <2>4. i \in 1 .. m => w[i] = s[i]
    BY <1>1
  <2>5. j \in 1 .. m => w[j] = s[j]
    BY <1>1
  <2>6. i \notin 1 .. m => i - m \in 1 .. n /\ w[i] = t[i - m]
    BY <1>1, <1>2
  <2>7. j \notin 1 .. m => j - m \in 1 .. n /\ w[j] = t[j - m]
    BY <1>1, <1>2
  <2>8. i - m = j - m => i = j
    BY <1>1
  <2> QED
    BY <1>6, <2>1, <2>2, <2>3, <2>4, <2>5, <2>6, <2>7, <2>8
<1>7. IsInjective(s) /\ IsInjective(t) /\ ToSet(s) \cap ToSet(t) = {}
          => IsInjective(w)
  BY <1>1, <1>6 DEF IsInjective
<1> QED
  BY <1>5, <1>7 DEF w

(* A list of one element.                                                    *)
LEMMA SetOfOne ==
  ASSUME NEW D, NEW x \in D
  PROVE  <<x>> \in Seq(D) /\ ToSet(<<x>>) = {x} /\ IsInjective(<<x>>)
BY DEF ToSet, IsInjective

(* A list with one element more.                                             *)
LEMMA SetOfAppend ==
  ASSUME NEW D, NEW s \in Seq(D), NEW x \in D
  PROVE  /\ Append(s, x) \in Seq(D) /\ ToSet(Append(s, x)) = ToSet(s) \cup {x}
         /\ IsInjective(s) /\ x \notin ToSet(s) => IsInjective(Append(s, x))
<1> DEFINE t == <<x>>
<1>1. Append(s, x) = s \o t
  OBVIOUS
<1>2. t \in Seq(D) /\ ToSet(t) = {x} /\ IsInjective(t)
  BY SetOfOne
<1> HIDE DEF t
<1>3. /\ s \o t \in Seq(D) /\ ToSet(s \o t) = ToSet(s) \cup ToSet(t)
      /\ IsInjective(s) /\ IsInjective(t) /\ ToSet(s) \cap ToSet(t) = {}
             => IsInjective(s \o t)
  BY <1>2, SetOfConcat
<1>4. x \notin ToSet(s) => ToSet(s) \cap {x} = {}
  OBVIOUS
<1> QED
  BY <1>1, <1>2, <1>3, <1>4

(* A list is its head and its tail.                                          *)
LEMMA SetOfTail ==
  ASSUME NEW D, NEW s \in Seq(D), s # <<>>
  PROVE  /\ Head(s) \in D /\ Tail(s) \in Seq(D)
         /\ ToSet(s) = {Head(s)} \cup ToSet(Tail(s))
         /\ IsInjective(s) => IsInjective(Tail(s)) /\ Head(s) \notin ToSet(Tail(s))
<1> DEFINE n == Len(s)
           t == Tail(s)
<1>1. /\ n \in Nat /\ 1 <= n /\ DOMAIN s = 1 .. n /\ DOMAIN t = 1 .. n - 1
      /\ Head(s) = s[1] /\ t \in Seq(D) /\ s[1] \in D
      /\ \A i \in 1 .. n - 1 : t[i] = s[i + 1]
  OBVIOUS
<1> HIDE DEF n, t
<1>2. \A i \in 1 .. n : i = 1 \/ (i - 1 \in 1 .. n - 1 /\ (i - 1) + 1 = i)
  BY <1>1
<1>3. \A i \in 1 .. n - 1 : i + 1 \in 1 .. n /\ i + 1 # 1
  BY <1>1
<1>4. 1 \in 1 .. n
  BY <1>1
<1>5. ToSet(s) = {Head(s)} \cup ToSet(t)
  <2>1. ASSUME NEW i \in 1 .. n
        PROVE  s[i] = s[1] \/ s[i] \in ToSet(t)
    BY ZenonT(30), <1>1, <1>2 DEF ToSet
  <2>2. ASSUME NEW i \in 1 .. n - 1
        PROVE  t[i] \in ToSet(s)
    BY <1>1, <1>3 DEF ToSet
  <2>3. ToSet(s) \subseteq {Head(s)} \cup ToSet(t)
    BY <1>1, <2>1 DEF ToSet
  <2>4. ToSet(t) \subseteq ToSet(s)
    BY <1>1, <2>2 DEF ToSet
  <2>5. s[1] \in ToSet(s)
    BY <1>1, <1>4 DEF ToSet
  <2> QED
    BY <1>1, <2>3, <2>4, <2>5
<1>6. ASSUME IsInjective(s)
      PROVE  IsInjective(t) /\ Head(s) \notin ToSet(t)
  <2>1. \A a, b \in 1 .. n : s[a] = s[b] => a = b
    BY <1>1, <1>6 DEF IsInjective
  <2>2. ASSUME NEW i \in 1 .. n - 1, NEW j \in 1 .. n - 1, t[i] = t[j]
        PROVE  i = j
    <3>1. s[i + 1] = s[j + 1]
      BY <1>1, <2>2
    <3>2. i + 1 = j + 1
      BY <1>3, <2>1, <3>1
    <3> QED
      BY <3>2
  <2>3. ASSUME NEW i \in 1 .. n - 1
        PROVE  t[i] # s[1]
    BY <1>1, <1>3, <1>4, <2>1
  <2>4. IsInjective(t)
    BY <1>1, <2>2 DEF IsInjective
  <2> QED
    BY <1>1, <2>3, <2>4 DEF ToSet
<1> QED
  BY <1>1, <1>5, <1>6 DEF t

(* A list and the same backwards.                                            *)
LEMMA SetOfReverse ==
  ASSUME NEW D, NEW s \in Seq(D)
  PROVE  /\ Reverse(s) \in Seq(D) /\ ToSet(Reverse(s)) = ToSet(s)
         /\ IsInjective(s) => IsInjective(Reverse(s))
<1> DEFINE n == Len(s)
           t == [i \in 1 .. n |-> s[(n - i) + 1]]
<1>1. n \in Nat /\ DOMAIN s = 1 .. n /\ Reverse(s) = t
  BY DEF Reverse
<1>2. \A i \in 1 .. n : (n - i) + 1 \in 1 .. n /\ (n - ((n - i) + 1)) + 1 = i
  BY <1>1
<1>3. DOMAIN t = 1 .. n /\ \A i \in 1 .. n : t[i] = s[(n - i) + 1]
  OBVIOUS
<1>4. t \in Seq(D)
  <2>1. \A i \in 1 .. n : s[(n - i) + 1] \in D
    BY <1>1, <1>2
  <2> QED
    BY <1>1, <2>1, IsASeq
<1> HIDE DEF n, t
<1>5. ToSet(t) = ToSet(s)
  <2>1. ASSUME NEW i \in 1 .. n
        PROVE  t[i] \in ToSet(s)
    BY <1>1, <1>2, <1>3 DEF ToSet
  <2>2. ASSUME NEW i \in 1 .. n
        PROVE  s[i] \in ToSet(t)
    <3>1. s[i] = t[(n - i) + 1]
      BY <1>2, <1>3
    <3> QED
      BY <1>2, <1>3, <3>1 DEF ToSet
  <2>3. ToSet(t) \subseteq ToSet(s)
    BY <1>3, <2>1 DEF ToSet
  <2>4. ToSet(s) \subseteq ToSet(t)
    BY <1>1, <2>2 DEF ToSet
  <2> QED
    BY <2>3, <2>4
<1>6. ASSUME IsInjective(s), NEW i \in 1 .. n, NEW j \in 1 .. n, t[i] = t[j]
      PROVE  i = j
  <2>1. \A a, b \in 1 .. n : s[a] = s[b] => a = b
    BY <1>1, <1>6 DEF IsInjective
  <2>2. (n - i) + 1 = (n - j) + 1
    BY <1>2, <1>3, <1>6, <2>1
  <2> QED
    BY <1>1, <2>2
<1>7. IsInjective(s) => IsInjective(t)
  BY <1>3, <1>6 DEF IsInjective
<1> QED
  BY <1>1, <1>4, <1>5, <1>7

(* What the list holds.                                                      *)
LEMMA ContainsIs ==
  ASSUME NEW D, NEW s \in Seq(D), NEW x
  PROVE  Contains(s, x) <=> x \in ToSet(s)
BY DEF Contains, ToSet

-----------------------------------------------------------------------------
(* The part of a list that is in a set.                                      *)

(* The recursion has a solution.                                             *)
LEMMA PicksExist ==
  ASSUME NEW D, NEW l \in Seq(D), NEW S
  PROVE  \E f : f = [k \in 0 .. Len(l) |->
                        IF k = 0 THEN <<>>
                        ELSE IF l[k] \in S THEN Append(f[k - 1], l[k]) ELSE f[k - 1]]
<1> DEFINE n == Len(l)
           F == [k \in 1 .. n |-> [x \in Seq(D) |->
                    IF l[k] \in S THEN Append(x, l[k]) ELSE x]]
           none == <<>>
<1>1. n \in Nat /\ none \in Seq(D) /\ \A k \in 1 .. n : l[k] \in D
  OBVIOUS
<1>2. \A k \in 1 .. n, x \in Seq(D) :
          F[k][x] = IF l[k] \in S THEN Append(x, l[k]) ELSE x
  OBVIOUS
<1>3. \A k \in 1 .. n, x \in Seq(D) : Append(x, l[k]) \in Seq(D)
  BY <1>1, AppendProperties
<1>4. F \in [1 .. n -> [Seq(D) -> Seq(D)]]
  BY <1>1, <1>3
<1> HIDE DEF F, n, none
<1>5. PICK f \in [0 .. n -> Seq(D)] : Follows(f, n, none, F)
  BY <1>1, <1>4, Recursion
<1>6. ASSUME NEW k \in 0 .. n
      PROVE  f[k] = IF k = 0 THEN <<>>
                    ELSE IF l[k] \in S THEN Append(f[k - 1], l[k]) ELSE f[k - 1]
  <2>1. CASE k = 0
    BY <1>5, <2>1 DEF none, Follows
  <2>2. CASE k # 0
    <3>1. k \in 1 .. n /\ k - 1 \in 0 .. n
      BY <1>1, <2>2
    <3>2. f[k] = F[k][f[k - 1]] /\ f[k - 1] \in Seq(D)
      BY <1>5, <2>2, <3>1 DEF Follows
    <3> QED
      BY <1>2, <2>2, <3>1, <3>2
  <2> QED
    BY <2>1, <2>2
<1>7. f = [k \in 0 .. n |-> IF k = 0 THEN <<>>
                            ELSE IF l[k] \in S THEN Append(f[k - 1], l[k])
                            ELSE f[k - 1]]
  BY <1>6
<1> QED
  BY <1>7 DEF n

(* Picks is one.                                                             *)
LEMMA PicksAre ==
  ASSUME NEW D, NEW l \in Seq(D), NEW S
  PROVE  /\ Picks(l, S)[0] = <<>>
         /\ \A k \in 0 .. Len(l) - 1 :
               Picks(l, S)[k + 1] = IF l[k + 1] \in S
                                    THEN Append(Picks(l, S)[k], l[k + 1])
                                    ELSE Picks(l, S)[k]
<1> DEFINE Solves(f) ==
       f = [k \in 0 .. Len(l) |->
               IF k = 0 THEN <<>>
               ELSE IF l[k] \in S THEN Append(f[k - 1], l[k]) ELSE f[k - 1]]
           p == Picks(l, S)
<1>1. \E f : Solves(f)
  BY ZenonT(30), PicksExist
<1>2. Solves(CHOOSE f : Solves(f))
  BY <1>1
<1>3. p = CHOOSE f : Solves(f)
  BY DEF Picks
<1>4. Solves(p)
  BY <1>2, <1>3
<1>5. Len(l) \in Nat
  OBVIOUS
<1> HIDE DEF p
<1>6. p[0] = <<>>
  BY <1>4, <1>5
<1>7. ASSUME NEW k \in 0 .. Len(l) - 1
      PROVE  p[k + 1] = IF l[k + 1] \in S THEN Append(p[k], l[k + 1]) ELSE p[k]
  <2>1. k + 1 \in 0 .. Len(l) /\ k + 1 # 0 /\ (k + 1) - 1 = k
    BY <1>5
  <2> QED
    BY <1>4, <2>1
<1> QED
  BY <1>6, <1>7 DEF p

(* Only(l, S) holds the elements of l that are in S, none more often than l. *)
LEMMA OnlyIs ==
  ASSUME NEW D, NEW l \in Seq(D), NEW S
  PROVE  /\ Only(l, S) \in Seq(D) /\ ToSet(Only(l, S)) = ToSet(l) \cap S
         /\ IsInjective(l) => IsInjective(Only(l, S))
<1> DEFINE n == Len(l)
           p == Picks(l, S)
           Upto(k) == {l[i] : i \in 1 .. k}
           T == {k \in 0 .. n :
                    /\ p[k] \in Seq(D) /\ ToSet(p[k]) = Upto(k) \cap S
                    /\ IsInjective(l) => IsInjective(p[k])}
<1>1. /\ n \in Nat /\ DOMAIN l = 1 .. n /\ \A k \in 1 .. n : l[k] \in D
      /\ Only(l, S) = p[n]
  BY DEF Only
<1>2. /\ p[0] = <<>>
      /\ \A k \in 0 .. n - 1 :
            p[k + 1] = IF l[k + 1] \in S THEN Append(p[k], l[k + 1]) ELSE p[k]
  BY PicksAre
<1> HIDE DEF n, p
<1>3. 0 \in T
  <2>1. <<>> \in Seq(D) /\ ToSet(<<>>) = {} /\ IsInjective(<<>>)
    BY DEF ToSet, IsInjective
  <2>2. Upto(0) = {} /\ 0 \in 0 .. n
    BY <1>1
  <2> QED
    BY <1>2, <2>1, <2>2
<1>4. ASSUME NEW k \in 0 .. n - 1, k \in T
      PROVE  k + 1 \in T
  <2> DEFINE x == l[k + 1]
  <2>1. k + 1 \in 0 .. n /\ k + 1 \in 1 .. n /\ x \in D
    BY <1>1
  <2>2. /\ p[k] \in Seq(D) /\ ToSet(p[k]) = Upto(k) \cap S
        /\ IsInjective(l) => IsInjective(p[k])
    BY <1>4
  <2>3. p[k + 1] = IF x \in S THEN Append(p[k], x) ELSE p[k]
    BY <1>2
  <2>4. Upto(k + 1) = Upto(k) \cup {x}
    <3>1. 1 .. k + 1 = (1 .. k) \cup {k + 1}
      OBVIOUS
    <3> QED
      BY <3>1
  <2>5. IsInjective(l) => x \notin Upto(k)
    <3>1. \A i \in 1 .. k : i \in 1 .. n /\ i # k + 1
      BY <1>1
    <3> QED
      BY <1>1, <2>1, <3>1 DEF IsInjective
  <2> HIDE DEF x, Upto
  <2>6. CASE x \in S
    <3>1. /\ Append(p[k], x) \in Seq(D)
          /\ ToSet(Append(p[k], x)) = ToSet(p[k]) \cup {x}
          /\ IsInjective(p[k]) /\ x \notin ToSet(p[k])
                => IsInjective(Append(p[k], x))
      BY <2>1, <2>2, SetOfAppend
    <3>2. ToSet(p[k + 1]) = Upto(k + 1) \cap S
      BY <2>2, <2>3, <2>4, <2>6, <3>1
    <3>3. IsInjective(l) => IsInjective(p[k + 1])
      BY <2>2, <2>3, <2>5, <2>6, <3>1
    <3> QED
      BY <2>1, <2>3, <2>6, <3>1, <3>2, <3>3
  <2>7. CASE x \notin S
    BY <2>1, <2>2, <2>3, <2>4, <2>7
  <2> QED
    BY <2>6, <2>7
<1> HIDE DEF T
<1>5. \A k \in 0 .. n : k \in T
  BY <1>1, <1>3, <1>4, Induction
<1>6. n \in T
  BY <1>1, <1>5
<1>7. Upto(n) = ToSet(l)
  BY <1>1 DEF ToSet
<1> QED
  BY <1>1, <1>6, <1>7 DEF T

-----------------------------------------------------------------------------
(* Lists one after the other.                                                *)

(* The recursion has a solution.                                             *)
LEMMA JoinsExist ==
  ASSUME NEW D, NEW ls \in Seq(Seq(D))
  PROVE  \E f : f = [k \in 0 .. Len(ls) |->
                        IF k = 0 THEN <<>> ELSE f[k - 1] \o ls[k]]
<1> DEFINE n == Len(ls)
           F == [k \in 1 .. n |-> [x \in Seq(D) |-> x \o ls[k]]]
           none == <<>>
<1>1. n \in Nat /\ none \in Seq(D) /\ \A k \in 1 .. n : ls[k] \in Seq(D)
  OBVIOUS
<1>2. \A k \in 1 .. n, x \in Seq(D) : F[k][x] = x \o ls[k]
  OBVIOUS
<1>3. \A k \in 1 .. n, x \in Seq(D) : x \o ls[k] \in Seq(D)
  BY <1>1, ConcatProperties
<1>4. F \in [1 .. n -> [Seq(D) -> Seq(D)]]
  BY <1>1, <1>3
<1> HIDE DEF F, n, none
<1>5. PICK f \in [0 .. n -> Seq(D)] : Follows(f, n, none, F)
  BY <1>1, <1>4, Recursion
<1>6. ASSUME NEW k \in 0 .. n
      PROVE  f[k] = IF k = 0 THEN <<>> ELSE f[k - 1] \o ls[k]
  <2>1. CASE k = 0
    BY <1>5, <2>1 DEF none, Follows
  <2>2. CASE k # 0
    <3>1. k \in 1 .. n /\ k - 1 \in 0 .. n
      BY <1>1, <2>2
    <3>2. f[k] = F[k][f[k - 1]] /\ f[k - 1] \in Seq(D)
      BY <1>5, <2>2, <3>1 DEF Follows
    <3> QED
      BY <1>2, <2>2, <3>1, <3>2
  <2> QED
    BY <2>1, <2>2
<1>7. f = [k \in 0 .. n |-> IF k = 0 THEN <<>> ELSE f[k - 1] \o ls[k]]
  BY <1>6
<1> QED
  BY <1>7 DEF n

(* Joins is one, and joins lists to lists.                                   *)
LEMMA JoinsAre ==
  ASSUME NEW D, NEW ls \in Seq(Seq(D))
  PROVE  /\ Joins(ls)[0] = <<>>
         /\ \A k \in 0 .. Len(ls) : Joins(ls)[k] \in Seq(D)
         /\ \A k \in 0 .. Len(ls) - 1 :
               Joins(ls)[k + 1] = Joins(ls)[k] \o ls[k + 1]
         /\ Flat(ls) \in Seq(D)
<1> DEFINE Solves(f) ==
       f = [k \in 0 .. Len(ls) |-> IF k = 0 THEN <<>> ELSE f[k - 1] \o ls[k]]
           n == Len(ls)
           p == Joins(ls)
           T == {k \in 0 .. n : p[k] \in Seq(D)}
<1>1. \E f : Solves(f)
  BY JoinsExist
<1>2. Solves(CHOOSE f : Solves(f))
  BY <1>1
<1>3. p = CHOOSE f : Solves(f)
  BY DEF Joins
<1>4. Solves(p)
  BY <1>2, <1>3
<1>5. n \in Nat /\ \A k \in 1 .. n : ls[k] \in Seq(D)
  OBVIOUS
<1> HIDE DEF p
<1>6. p[0] = <<>>
  BY <1>4, <1>5
<1>7. ASSUME NEW k \in 0 .. n - 1
      PROVE  p[k + 1] = p[k] \o ls[k + 1]
  <2>1. k + 1 \in 0 .. n /\ k + 1 # 0 /\ (k + 1) - 1 = k
    BY <1>5
  <2> QED
    BY <1>4, <2>1
<1> HIDE DEF n, Solves
<1>8. 0 \in T
  <2>1. p[0] \in Seq(D)
    BY <1>6
  <2>2. 0 \in 0 .. n
    BY <1>5
  <2> HIDE DEF p
  <2> QED
    BY <2>1, <2>2
<1>9. ASSUME NEW k \in 0 .. n - 1, k \in T
      PROVE  k + 1 \in T
  <2>1. k + 1 \in 0 .. n /\ k + 1 \in 1 .. n
    BY <1>5
  <2>2. p[k] \in Seq(D) /\ ls[k + 1] \in Seq(D)
    BY <1>5, <1>9, <2>1
  <2>3. p[k] \o ls[k + 1] \in Seq(D)
    BY <2>2, ConcatProperties
  <2> QED
    BY <1>7, <2>1, <2>3
<1> HIDE DEF T
<1>10. \A k \in 0 .. n : k \in T
  BY <1>5, <1>8, <1>9, Induction
<1>11. \A k \in 0 .. n : p[k] \in Seq(D)
  BY <1>10 DEF T
<1>12. n \in 0 .. n
  BY <1>5
<1> QED
  BY <1>6, <1>7, <1>11, <1>12 DEF n, p, Flat

-----------------------------------------------------------------------------
(* The sum of the weights of the elements of a list.                         *)

Weighed(l, w) == Total([i \in DOMAIN l |-> w[l[i]]])

(* The weights of a list are a list of numbers.                              *)
LEMMA WeightsOf ==
  ASSUME NEW D, NEW w \in [D -> Nat], NEW s \in Seq(D),
         NEW f, f = [i \in DOMAIN s |-> w[s[i]]]
  PROVE  /\ f \in Seq(Nat) /\ Len(f) = Len(s)
         /\ \A i \in 1 .. Len(s) : f[i] = w[s[i]]
         /\ Weighed(s, w) = Total(f) /\ Weighed(s, w) \in Nat
<1> DEFINE n == Len(s)
<1>1. n \in Nat /\ DOMAIN s = 1 .. n /\ \A i \in 1 .. n : s[i] \in D
  OBVIOUS
<1> HIDE DEF n
<1>2. f \in [1 .. n -> Nat]
  BY <1>1
<1>3. f \in Seq(Nat) /\ Len(f) = n
  BY <1>1, <1>2
<1>4. \A i \in 1 .. n : f[i] = w[s[i]]
  BY <1>1
<1>5. Weighed(s, w) = Total(f)
  BY DEF Weighed
<1>6. Total(f) \in Nat
  BY <1>3, SumsStep
<1> QED
  BY <1>3, <1>4, <1>5, <1>6 DEF n

(* Nothing weighs nothing.                                                   *)
LEMMA WeightOfNone == ASSUME NEW w PROVE Weighed(<<>>, w) = 0
<1>1. [i \in DOMAIN <<>> |-> w[<<>>[i]]] = <<>>
  OBVIOUS
<1> QED
  BY <1>1, TotalOfNone DEF Weighed

(* Two lists weigh what each of them weighs.                                 *)
LEMMA WeightOfConcat ==
  ASSUME NEW D, NEW w \in [D -> Nat], NEW s \in Seq(D), NEW t \in Seq(D)
  PROVE  /\ s \o t \in Seq(D)
         /\ Weighed(s \o t, w) = Weighed(s, w) + Weighed(t, w)
<1> DEFINE u == s \o t
           f == [i \in DOMAIN s |-> w[s[i]]]
           g == [i \in DOMAIN t |-> w[t[i]]]
           h == [i \in DOMAIN u |-> w[u[i]]]
<1>1. /\ u \in Seq(D) /\ Len(u) = Len(s) + Len(t)
      /\ Len(s) \in Nat /\ Len(t) \in Nat
      /\ \A i \in 1 .. Len(u) :
            u[i] = IF i <= Len(s) THEN s[i] ELSE t[i - Len(s)]
  OBVIOUS
<1>0. u \in Seq(D)
  BY <1>1
<1> HIDE DEF u, f, g, h
<1>2. /\ f \in Seq(Nat) /\ Len(f) = Len(s) /\ Weighed(s, w) = Total(f)
      /\ \A i \in 1 .. Len(s) : f[i] = w[s[i]]
  BY WeightsOf DEF f
<1>3. /\ g \in Seq(Nat) /\ Len(g) = Len(t) /\ Weighed(t, w) = Total(g)
      /\ \A i \in 1 .. Len(t) : g[i] = w[t[i]]
  BY WeightsOf DEF g
<1>4. /\ h \in Seq(Nat) /\ Len(h) = Len(u) /\ Weighed(u, w) = Total(h)
      /\ \A i \in 1 .. Len(u) : h[i] = w[u[i]]
  BY SMTT(30), <1>0, WeightsOf DEF h
<1>5. h = f \o g
  <2>1. /\ f \o g \in Seq(Nat) /\ Len(f \o g) = Len(f) + Len(g)
        /\ \A i \in 1 .. Len(f) + Len(g) : (f \o g)[i] =
              IF i <= Len(f) THEN f[i] ELSE g[i - Len(f)]
    BY ZenonT(30), <1>2, <1>3, ConcatProperties
  <2>2. ASSUME NEW i \in 1 .. Len(u) PROVE h[i] = (f \o g)[i]
    <3> DEFINE m == Len(s)
               n == Len(t)
               j == i - m
    <3>1. m \in Nat /\ n \in Nat /\ Len(u) = m + n
      BY <1>1
    <3>2. /\ Len(f) = m /\ Len(g) = n
          /\ \A k \in 1 .. m : f[k] = w[s[k]]
          /\ \A k \in 1 .. n : g[k] = w[t[k]]
      BY <1>2, <1>3
    <3>3. h[i] = w[u[i]] /\ u[i] = IF i <= m THEN s[i] ELSE t[j]
      BY <1>1, <1>4
    <3> HIDE DEF m, n
    <3>4. (f \o g)[i] = IF i <= m THEN f[i] ELSE g[j]
      BY <2>1, <3>1, <3>2
    <3>5. IF i <= m THEN i \in 1 .. m ELSE j \in 1 .. n
      BY <3>1
    <3> HIDE DEF j
    <3> QED
      BY <3>2, <3>3, <3>4, <3>5
  <2> QED
    BY <1>1, <1>2, <1>3, <1>4, <2>1, <2>2, SeqEqual
<1>6. Total(h) = Total(f) + Total(g)
  BY <1>2, <1>3, <1>5, TotalOfConcat
<1>7. Weighed(u, w) = Weighed(s, w) + Weighed(t, w)
  BY <1>2, <1>3, <1>4, <1>6
<1> QED
  BY <1>1, <1>7 DEF u

(* One element weighs its weight.                                            *)
LEMMA WeightOfOne ==
  ASSUME NEW D, NEW w \in [D -> Nat], NEW x \in D
  PROVE  <<x>> \in Seq(D) /\ Weighed(<<x>>, w) = w[x]
<1> DEFINE f == [i \in DOMAIN <<x>> |-> w[<<x>>[i]]]
<1>1. w[x] \in Nat
  OBVIOUS
<1>2. f = <<w[x]>>
  OBVIOUS
<1>3. Total(<<w[x]>>) = w[x]
  BY <1>1, TotalOfOne
<1> QED
  BY <1>2, <1>3 DEF Weighed

(* A list weighs what its head and its tail weigh.                           *)
LEMMA WeightOfTail ==
  ASSUME NEW D, NEW w \in [D -> Nat], NEW s \in Seq(D), s # <<>>
  PROVE  Weighed(s, w) = w[s[1]] + Weighed(Tail(s), w)
<1> DEFINE x == s[1]
           t == Tail(s)
<1>1. s = <<x>> \o t /\ x \in D /\ t \in Seq(D) /\ <<x>> \in Seq(D)
  OBVIOUS
<1> HIDE DEF x, t
<1>2. Weighed(<<x>> \o t, w) = Weighed(<<x>>, w) + Weighed(t, w)
  BY <1>1, WeightOfConcat
<1>3. Weighed(<<x>>, w) = w[x]
  BY <1>1, WeightOfOne
<1> QED
  BY <1>1, <1>2, <1>3 DEF x, t

(* An element weighs no more than the list.                                  *)
LEMMA WeightOfPart ==
  ASSUME NEW D, NEW w \in [D -> Nat], NEW s \in Seq(D), NEW j \in 1 .. Len(s)
  PROVE  w[s[j]] <= Weighed(s, w)
<1> DEFINE n == Len(s)
           f == [i \in DOMAIN s |-> w[s[i]]]
           g == [i \in 1 .. n |-> IF i = j THEN 0 ELSE f[i]]
           a == Total(f)
           b == Total(g)
           c == f[j]
           zero == g[j]
<1>0. n \in Nat /\ j \in 1 .. n
  OBVIOUS
<1> HIDE DEF f
<1>1. /\ f \in Seq(Nat) /\ Len(f) = n /\ Weighed(s, w) = Total(f)
      /\ \A i \in 1 .. n : f[i] = w[s[i]]
  BY WeightsOf DEF f, n
<1> HIDE DEF n
<1>2. \A i \in 1 .. n : f[i] \in Nat
  BY <1>0, <1>1, ElementOfSeq
<1>3. g \in [1 .. n -> Nat] /\ zero = 0 /\ \A i \in 1 .. n : i # j => f[i] = g[i]
  BY <1>0, <1>2
<1> HIDE DEF g
<1>4. g \in Seq(Nat) /\ Len(g) = n
  BY <1>0, <1>3
<1>5. b \in Nat /\ a \in Nat /\ c \in Nat
  BY <1>0, <1>1, <1>2, <1>4, SumsStep
<1>6. Total(f) + g[j] = Total(g) + f[j]
  <2>1. /\ f \in Seq(Nat) /\ g \in Seq(Nat) /\ Len(f) = Len(g) /\ j \in 1 .. Len(g)
        /\ \A i \in 1 .. Len(g) : i # j => f[i] = g[i]
    BY <1>0, <1>1, <1>3, <1>4
  <2> QED
    BY <2>1, TotalOfChange
<1>7. a + zero = b + c
  BY <1>6
<1> HIDE DEF a, b, c, zero
<1>8. c <= a
  BY <1>3, <1>5, <1>7
<1> QED
  BY <1>0, <1>1, <1>8 DEF a, c

-----------------------------------------------------------------------------
(* A weight that is partly taken away.                                       *)

(* Weights of the elements of E; o lists every element of E once.            *)
Weights(E) == [E -> Nat]
Enumerates(o, E) == o \in Seq(E) /\ ToSet(o) = E /\ IsInjective(o)

(* The weights x + y, and what is left of them where those in S lose x.      *)
Added(E, x, y, a) == \A e \in E : a[e] = x[e] + y[e]
Leaves(E, S, x, y, z) ==
    \A e \in E : z[e] = IF e \in S THEN y[e] ELSE x[e] + y[e]

(* o lists every element once, l some of them.  Every element has the        *)
(* weight x + y, and those in l lose x.                                      *)
LEMMA WeightOverPart ==
  ASSUME NEW E, NEW o, Enumerates(o, E),
         NEW l \in Seq(E), IsInjective(l),
         NEW x \in Weights(E), NEW y \in Weights(E),
         NEW a \in Weights(E), Added(E, x, y, a),
         NEW z \in Weights(E), Leaves(E, ToSet(l), x, y, z)
  PROVE  Weighed(o, a) = Weighed(o, z) + Weighed(l, x)
<1>0. o \in Seq(E) /\ ToSet(o) = E /\ IsInjective(o)
  BY DEF Enumerates
<1>17. x \in [E -> Nat] /\ y \in [E -> Nat]
  BY DEF Weights
<1> DEFINE m == Len(o)
           n == Len(l)
           Upto(k) == {l[i] : i \in 1 .. k}
           Some(k) == [i \in 1 .. m |-> IF o[i] \in Upto(k) THEN y[o[i]]
                                        ELSE x[o[i]] + y[o[i]]]
           given == [i \in 1 .. n |-> x[l[i]]]
           T == {k \in 0 .. n : Total(Some(0)) = Total(Some(k)) + Sums(given)[k]}
<1>1. /\ m \in Nat /\ n \in Nat /\ DOMAIN o = 1 .. m /\ DOMAIN l = 1 .. n
      /\ \A i \in 1 .. m : o[i] \in E
      /\ \A i \in 1 .. n : l[i] \in E
  BY <1>0, ElementOfSeq
<1>2. \A i, j \in 1 .. m : o[i] = o[j] => i = j
  BY <1>0, <1>1 DEF IsInjective
<1>3. \A i, j \in 1 .. n : l[i] = l[j] => i = j
  BY <1>1 DEF IsInjective
<1>4. \A e \in E : x[e] \in Nat /\ y[e] \in Nat /\ x[e] + y[e] \in Nat
  BY <1>17
<1> HIDE DEF m, n
<1>5. ASSUME NEW k
      PROVE  /\ Some(k) \in Seq(Nat) /\ Len(Some(k)) = m
             /\ \A i \in 1 .. m : Some(k)[i] =
                   IF o[i] \in Upto(k) THEN y[o[i]] ELSE x[o[i]] + y[o[i]]
  <2>1. \A i \in 1 .. m : (IF o[i] \in Upto(k) THEN y[o[i]]
                           ELSE x[o[i]] + y[o[i]]) \in Nat
    BY <1>1, <1>4
  <2> HIDE DEF Upto
  <2>2. Some(k) \in [1 .. m -> Nat]
    BY <2>1
  <2>3. Some(k) \in Seq(Nat) /\ Len(Some(k)) = m
    BY <1>1, <2>2
  <2> QED
    BY <2>3
<1>6. /\ given \in Seq(Nat) /\ Len(given) = n
      /\ \A i \in 1 .. n : given[i] = x[l[i]]
  <2>1. given \in [1 .. n -> Nat]
    BY <1>1, <1>4
  <2>2. given \in Seq(Nat) /\ Len(given) = n
    <3> HIDE DEF given
    <3> QED
      BY <1>1, <2>1
  <2> QED
    BY <2>2
<1> HIDE DEF Some, given
<1>7. /\ Sums(given)[0] = 0
      /\ \A k \in 0 .. n : Sums(given)[k] \in Nat
      /\ \A k \in 0 .. n - 1 : Sums(given)[k + 1] = Sums(given)[k] + given[k + 1]
  BY <1>6, SumsStep
<1>8. \A k \in 0 .. n : Total(Some(k)) \in Nat
  BY <1>5, SumsStep
<1>9. 0 \in T
  <2>1. 0 \in 0 .. n
    BY <1>1
  <2>2. Total(Some(0)) \in Nat
    BY <1>8, <2>1
  <2> QED
    BY <1>7, <2>1, <2>2
<1>10. ASSUME NEW k \in 0 .. n - 1, k \in T
       PROVE  k + 1 \in T
  <2> DEFINE e == l[k + 1]
             all == Total(Some(0))
             b == Total(Some(k))
             c == Total(Some(k + 1))
             d == Sums(given)[k]
  <2>1. /\ k + 1 \in 1 .. n /\ k \in 0 .. n /\ k + 1 \in 0 .. n /\ e \in E
    BY <1>1
  <2>2. PICK j \in 1 .. m : o[j] = e
    <3>1. e \in ToSet(o)
      BY <1>0, <2>1
    <3> QED
      BY <1>1, <3>1 DEF ToSet
  <2>3. Upto(k + 1) = Upto(k) \cup {e} /\ e \notin Upto(k)
    <3>0. k \in Nat
      BY <1>1
    <3>1. \A i : i \in 1 .. k + 1 <=> i \in 1 .. k \/ i = k + 1
      BY <3>0
    <3>2. \A i \in 1 .. k : i \in 1 .. n /\ i # k + 1
      BY <1>1
    <3>3. Upto(k + 1) = Upto(k) \cup {e}
      BY <3>1
    <3>4. \A i \in 1 .. k : l[i] # e
      BY <1>3, <2>1, <3>2
    <3> QED
      BY <3>3, <3>4
  <2> HIDE DEF e, Upto
  <2>4. \A i \in 1 .. m : i # j => Some(k + 1)[i] = Some(k)[i]
    <3>1. \A i \in 1 .. m : i # j => (o[i] \in Upto(k + 1) <=> o[i] \in Upto(k))
      BY <1>2, <2>2, <2>3
    <3>2. \A i \in 1 .. m : Some(k)[i] =
             IF o[i] \in Upto(k) THEN y[o[i]] ELSE x[o[i]] + y[o[i]]
      BY <1>5
    <3>3. \A i \in 1 .. m : Some(k + 1)[i] =
             IF o[i] \in Upto(k + 1) THEN y[o[i]] ELSE x[o[i]] + y[o[i]]
      BY <1>5
    <3> QED
      BY <3>1, <3>2, <3>3
  <2>5. Some(k)[j] = x[e] + y[e] /\ Some(k + 1)[j] = y[e]
    BY <1>5, <2>2, <2>3
  <2>6. c + (x[e] + y[e]) = b + y[e]
    <3> DEFINE s == Some(k)
               t == Some(k + 1)
    <3>1. /\ s \in Seq(Nat) /\ t \in Seq(Nat) /\ Len(s) = m /\ Len(t) = Len(s)
          /\ j \in 1 .. Len(s) /\ \A i \in 1 .. Len(s) : i # j => t[i] = s[i]
          /\ s[j] = x[e] + y[e] /\ t[j] = y[e]
      BY <1>5, <2>4, <2>5
    <3> HIDE DEF s, t
    <3>2. Total(t) + s[j] = Total(s) + t[j]
      BY <3>1, TotalOfChange
    <3> QED
      BY <3>1, <3>2 DEF s, t
  <2>7. /\ all \in Nat /\ b \in Nat /\ c \in Nat /\ d \in Nat
        /\ x[e] \in Nat /\ y[e] \in Nat
    BY <1>4, <1>5, <1>7, <2>1, SumsStep
  <2>8. all = b + d /\ Sums(given)[k + 1] = d + x[e]
    <3>1. given[k + 1] = x[e]
      BY <1>6, <2>1 DEF e
    <3>2. Sums(given)[k + 1] = Sums(given)[k] + given[k + 1]
      BY <1>7
    <3> QED
      BY <1>10, <3>1, <3>2
  <2> HIDE DEF all, b, c, d
  <2>9. all = c + (d + x[e])
    <3> DEFINE u == x[e]
               v == y[e]
    <3>1. u \in Nat /\ v \in Nat /\ c + (u + v) = b + v
      BY <2>6, <2>7
    <3> HIDE DEF u, v
    <3>2. c + u = b
      BY <2>7, <3>1
    <3>3. all = c + (d + u)
      BY <2>7, <2>8, <3>1, <3>2
    <3> QED
      BY <3>3 DEF u
  <2> QED
    BY <2>1, <2>8, <2>9 DEF all, c
<1> HIDE DEF T
<1>11. \A k \in 0 .. n : k \in T
  BY <1>1, <1>9, <1>10, Induction
<1>12. n \in T
  BY <1>1, <1>11
<1>13. Upto(n) = ToSet(l) /\ Upto(0) = {}
  BY <1>1 DEF ToSet
<1> HIDE DEF Upto
<1>14. Some(0) = [i \in DOMAIN o |-> a[o[i]]]
  <2>1. \A i \in 1 .. m : a[o[i]] = IF o[i] \in Upto(0) THEN y[o[i]]
                                    ELSE x[o[i]] + y[o[i]]
    BY <1>1, <1>13 DEF Added
  <2> QED
    BY <1>1, <2>1 DEF Some
<1>15. Some(n) = [i \in DOMAIN o |-> z[o[i]]]
  <2>1. \A i \in 1 .. m : z[o[i]] = IF o[i] \in Upto(n) THEN y[o[i]]
                                    ELSE x[o[i]] + y[o[i]]
    BY <1>1, <1>13 DEF Leaves
  <2> QED
    BY <1>1, <2>1 DEF Some
<1>16. Sums(given)[n] = Total([i \in DOMAIN l |-> x[l[i]]])
  <2>1. given = [i \in DOMAIN l |-> x[l[i]]]
    BY <1>1 DEF given
  <2> QED
    BY <1>6, <2>1 DEF Total
<1> QED
  BY <1>12, <1>14, <1>15, <1>16 DEF T, Weighed

=============================================================================
