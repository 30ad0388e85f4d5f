----------------------------- MODULE DeviceZero -----------------------------
(* What AcquireDeviceZero and ReleaseDeviceZero promise: "Get the device zero *)
(* lock - call this before resetting a device, to ensure there's only one     *)
(* device with address 0" (IOUSBController.h:858-867).  Whoever is at address *)
(* zero is there alone.                                                       *)

EXTENDS Naturals, FiniteSets

CONSTANT Users          \* whoever may bring a device to address zero

VARIABLE atZero         \* those that are between Acquire and Release

TypeOK == atZero \subseteq Users

Init == atZero = {}

Arrive(u) == /\ atZero = {}
             /\ atZero' = {u}

Leave(u) == /\ u \in atZero
            /\ atZero' = atZero \ {u}

Next == \E u \in Users : Arrive(u) \/ Leave(u)

Spec == Init /\ [][Next]_atZero

Exclusive == \A u, v \in atZero : u = v
=============================================================================
