----------------------------- MODULE MCHubPort -----------------------------
(* TLC instances of HubPort: two ports that compete for address zero.        *)

EXTENDS HubPort, TLC

CONSTANTS p1, p2

MCPorts == {p1, p2}

Incident(plug, unplug, device, hub, slow, tier, early, pipe) ==
    [plug |-> plug, unplug |-> unplug, device |-> device, hub |-> hub,
     slow |-> slow, tier |-> tier, early |-> early, pipe |-> pipe]

(* Devices that fail as often as it takes to give one up, on a hub and a     *)
(* controller that work.                                                     *)
FlakyDevices == {Incident(2, 0, 3, 0, 0, 0, 0, 0)}

(* A device that is given up while reports come early; one that fails once,  *)
(* with each kind of trouble; and one that is unplugged, by itself, with a   *)
(* failing hub and with an early report.                                     *)
AnyTrouble == {Incident(1, 0, 3, 0, 0, 0, 1, 0),
               Incident(2, 0, 1, 1, 0, 0, 0, 0),
               Incident(2, 0, 1, 0, 1, 0, 0, 0),
               Incident(2, 0, 1, 0, 0, 1, 0, 1),
               Incident(2, 1, 0, 0, 0, 0, 0, 0),
               Incident(1, 1, 1, 1, 0, 0, 0, 0),
               Incident(1, 1, 1, 0, 0, 0, 1, 0)}

(* One request to the hub that fails.                                        *)
FlakyHub == {Incident(2, 0, 0, 1, 0, 0, 0, 0)}

(* A controller that once has no endpoint for address zero.                  *)
FullController == {Incident(1, 0, 0, 0, 0, 0, 0, 1)}
=============================================================================
