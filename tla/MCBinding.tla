------------------------------- MODULE MCBinding -------------------------------
(* Instances of Binding for TLC. *)
EXTENDS Binding, TLC

CONSTANTS vif, child, gw

\* Two gateways of equal priority and a hypervisor.
EqualPriority == (1 :> 10) @@ (2 :> 10)

\* A virtual machine's port, a container's in it, and the gateway's.
ThreePorts ==
    (vif   :> [type |-> "", parent |-> None, chassis |-> None]) @@
    (child :> [type |-> "", parent |-> vif, chassis |-> None]) @@
    (gw    :> [type |-> "chassisredirect", parent |-> None, chassis |-> None])

OnAt(where) == [c \in Chassis |-> IF c \in where THEN {vif} ELSE {}]
Quiet == [links |-> 0, nodes |-> 0, ifaces_moved |-> 0, requests |-> 0,
          exits |-> 0, crashes |-> 0, fresh |-> FALSE,
          ifaces |-> OnAt({3}), requested |-> [p \in Ports |-> None]]

Startup == [Quiet EXCEPT !.fresh = TRUE]
Partition == [Quiet EXCEPT !.links = 3]
Isolation == [Quiet EXCEPT !.nodes = 3]
Leaving == [Quiet EXCEPT !.exits = 1, !.crashes = 1]
Restarting == [Quiet EXCEPT !.crashes = 2]
Migration == [Quiet EXCEPT !.ifaces = OnAt({1}), !.ifaces_moved = 2]
LiveMigration == [Quiet EXCEPT !.ifaces = OnAt({1, 3}), !.requests = 2,
                               !.requested = [p \in Ports |-> IF p = gw THEN None ELSE 1]]
AllLoads == {Startup, Partition, Isolation, Leaving, Restarting, Migration, LiveMigration}
================================================================================
