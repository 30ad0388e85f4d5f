----------------------------- MODULE MCBulkOnly -----------------------------
(* Commands that read, that write and that move no data.                     *)
EXTENDS BulkOnly, TLC

CONSTANTS r, w, n

ReadWriteTest == (r :> "in") @@ (w :> "out") @@ (n :> "none")
Read == r :> "in"
=============================================================================
