------------------------------ MODULE MCHubIO ------------------------------
(* A hub with one port and its initialisation thread, and one client.        *)
EXTENDS HubIO

CONSTANTS p1, i1, c1

(* Two status changes of which one may come while the worker waits to run,   *)
(* and one event of each other kind, of which Total happen in a behaviour.   *)
SomeEvents == [report |-> 2, error |-> 1, fault |-> 1, action |-> 1,
               power |-> 1, end |-> 1]
=============================================================================
