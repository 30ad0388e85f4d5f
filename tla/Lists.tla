------------------------------- MODULE Lists --------------------------------
(* Sums of lists of natural numbers, the part of a list and the lists of a *)
(* list, by recursive functions.                                           *)
EXTENDS Naturals, Sequences

(* Sums(l)[k] is the sum of the first k numbers of l.                      *)
Sums(l) ==
    LET sum[k \in 0 .. Len(l)] == IF k = 0 THEN 0 ELSE sum[k - 1] + l[k] IN sum
Total(l) == Sums(l)[Len(l)]

(* Picks(l, S)[k] are those of the first k elements of l that are in S.    *)
Picks(l, S) ==
    LET picked[k \in 0 .. Len(l)] ==
            IF k = 0 THEN <<>>
            ELSE IF l[k] \in S THEN Append(picked[k - 1], l[k])
            ELSE picked[k - 1]
    IN picked
Only(l, S) == Picks(l, S)[Len(l)]

(* Joins(ls)[k] are the first k lists of ls, one after the other.          *)
Joins(ls) ==
    LET joined[k \in 0 .. Len(ls)] ==
            IF k = 0 THEN <<>> ELSE joined[k - 1] \o ls[k]
    IN joined
Flat(ls) == Joins(ls)[Len(ls)]
=============================================================================
