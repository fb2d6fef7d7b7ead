------------------------------- MODULE HaChassis -------------------------------
(***************************************************************************)
(* Which gateway of an HA chassis group is the active one, as every        *)
(* hypervisor decides it for itself from its own BFD sessions              *)
(* (controller/ha-chassis.c), and with whom it runs BFD (controller/bfd.c).*)
(* A chassis is a number, which also stands for its name: strcmp orders    *)
(* names as < orders numbers.                                              *)
(***************************************************************************)
EXTENDS Integers, FiniteSets

CONSTANTS Chassis,           \* hypervisors
          Gateways,          \* those in the HA chassis group
          Priority           \* of each of them in the group

ASSUME ChassisAssumption ==
    /\ Chassis \subseteq Nat
    /\ Gateways \subseteq Chassis
    /\ IsFiniteSet(Gateways)
    /\ Priority \in [Gateways -> Int]

\* Mutant: equal priorities leave the order of two gateways open.
before_by_priority(a, b) == Priority[a] >= Priority[b]

\* compare_chassis_prio_: descending priority, then descending name.
compare_chassis_prio_(a, b) ==
    \/ Priority[a] > Priority[b]
    \/ Priority[a] = Priority[b] /\ a > b

\* get_ordered_ha_chassis_list, as a set: the group members 'local' knows to
\* be alive, itself included.  'ha' are the members whose chassis row exists.
Candidates(ha, active_tunnels, local) ==
    {g \in ha : g = local \/ g \in active_tunnels}

\* ha_chassis_group_is_active: 'local' heads the list; it must see some
\* other gateway, or one of the chassis 'ref' that use the gateway.
ha_chassis_group_is_active(ha, ref, active_tunnels, local) ==
    /\ Gateways # {}
    /\ IF Cardinality(Gateways) = 1 THEN local \in ha
       ELSE /\ active_tunnels # {}
            /\ local \in ha
            /\ \A g \in Candidates(ha, active_tunnels, local) \ {local} :
                   compare_chassis_prio_(local, g)
            /\ \/ Candidates(ha, active_tunnels, local) # {local}
               \/ ref \cap active_tunnels # {}

\* Mutant: the members do not talk to each other.
bfd_calculate_chassis_users(ha, ref, our) ==
    IF Cardinality(Gateways) < 2 THEN {}
    ELSE IF our \in ha THEN ref
    ELSE IF our \in ref THEN ha
    ELSE {}

\* bfd_calculate_chassis, for the one group: the members talk to each other
\* and to the chassis that use the gateway, and those talk to the members.
bfd_calculate_chassis(ha, ref, our) ==
    IF Cardinality(Gateways) < 2 THEN {}
    ELSE IF our \in ha THEN ha \cup ref
    ELSE IF our \in ref THEN ha
    ELSE {}

================================================================================
