--------------------------- MODULE MCDevZeroUsers ---------------------------
(* TLC instances of DevZeroUsers: with three threads one can hold the lock   *)
(* while two compete for it, and a fourth can overtake the one that is woken. *)

EXTENDS DevZeroUsers

CONSTANTS t1, t2, t3, t4

MCThreads == {t1, t2, t3}
MCFourThreads == {t1, t2, t3, t4}
=============================================================================
