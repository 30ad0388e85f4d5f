------------------------------ MODULE MCTinyTP ------------------------------
(* One end fills the window of the other, over two connections; or both    *)
(* write, one of them more than one packet, over one.                      *)
EXTENDS TinyTP, TLC

CONSTANTS a, b

LoadsTest == {[bytes |-> (a :> 4) @@ (b :> 0), sessions |-> 2],
              [bytes |-> (a :> 3) @@ (b :> 1), sessions |-> 1]}
=============================================================================
