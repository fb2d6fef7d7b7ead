------------------------------ MODULE MCOfctrl ------------------------------
(***************************************************************************)
(* Instances of Ofctrl for TLC.  The southbound rows are few but have what *)
(* the flow table's update distinguishes: rows that share a key (a logical *)
(* flow replaced by another of the same match), rows that share a group,   *)
(* and a row with a meter.                                                 *)
(***************************************************************************)
EXTENDS Ofctrl

Lf(uuid, key, group, meter) ==
  [uuid |-> uuid, key |-> key, group |-> group, meter |-> meter]

\* A switch that has OVN's option already.
OvnMapped == {[i \in TlvIndexes |-> IF i = 0 THEN "ovn" ELSE "free"]}

Quiet == [flows |-> {}, changes |-> 0, drops |-> 1, assigns |-> 0,
          tlvs |-> OvnMapped, races |-> FALSE, full |-> FALSE]

\* Two load balancers whose rows replace and share each other's groups.
GroupFlows == {Lf(1, "k1", "a", NoName), Lf(2, "k1", "b", NoName),
               Lf(3, "k2", "b", NoName)}
\* A row that logs with a meter.
MeterFlows == {Lf(4, "k3", NoName, "m")}

TableFlows == GroupFlows \union MeterFlows
TableLoads == {[Quiet EXCEPT !.flows = GroupFlows, !.changes = 3],
               [Quiet EXCEPT !.flows = MeterFlows, !.changes = 2]}

\* One row, which is there or not.
OneFlow == {Lf(1, "k1", NoName, NoName)}

\* nb_cfg and the conntrack flushes under drops; the negotiation of the
\* option with any switch, with other controllers or without room.
AckLoads == {[Quiet EXCEPT !.flows = OneFlow, !.changes = 2, !.assigns = 1],
             [Quiet EXCEPT !.tlvs = TlvTable, !.races = TRUE],
             [Quiet EXCEPT !.tlvs = TlvTable, !.full = TRUE]}
=============================================================================
