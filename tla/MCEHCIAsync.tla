---------------------------- MODULE MCEHCIAsync ----------------------------
(* A device with a control and a bulk endpoint, and one with a bulk one.   *)
EXTENDS EHCIAsync

CONSTANTS c, b, d, one, two, p, q, u

OrderTest == <<c, b, d>>
AddressTest == (c :> one) @@ (b :> one) @@ (d :> two)
TargetTest == (p :> c) @@ (q :> b) @@ (u :> b)
=============================================================================
