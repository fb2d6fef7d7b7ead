-------------------------- MODULE OfctrlSyncProofs --------------------------
(***************************************************************************)
(* Proofs that ofctrl.c knows what the switch has.                         *)
(*                                                                         *)
(* ofctrl.c never asks the switch for its flows and groups: it keeps in    *)
(* installed_flows and in the table of groups what the messages it sent    *)
(* must have led to.  The invariant (SyncInv) says that they do: what is   *)
(* under way takes the switch's tables to those that ofctrl.c believes in. *)
(* The switch applies the messages of a batch one at a time and in any     *)
(* order, so what a batch does is stated as a relation that is kept as it  *)
(* shrinks (Leads, Steps), and followed along the queue (Ends).  Each put  *)
(* appends batches that lead from what it found to what it leaves, with no *)
(* flow without its group on the way.                                      *)
(*                                                                         *)
(* An nb_cfg is acknowledged when its barrier's reply comes: UpdatesInv of *)
(* OfctrlProofs has what was sent for it ahead of that barrier.            *)
(***************************************************************************)
EXTENDS OfctrlProofs

(* What ExtendTableProofs shows of a table, for the groups of ofctrl.c.    *)
GroupIds == Groups!TypeOK /\ Groups!OneIdPerName

-----------------------------------------------------------------------------
(* What a batch does to the switch's tables, whatever the order in which   *)
(* its messages are applied. *)

IsFlow(f) == f = [key |-> f.key, cookie |-> f.cookie, group |-> f.group,
                  meter |-> f.meter, lb |-> f.lb]

UniqueKeys(flows) == \A f, g \in flows : f.key = g.key => f = g

(* The group that the flow's actions mean is there.                        *)
Reaches(s, f) == f.group # 0 => [id |-> f.group, name |-> f.lb] \in s.groups

(* Messages that leave the three tables alone.                             *)
LeavesTables(s, ms, t) ==
  /\ \A m \in ms : m.type \in {"flush", "barrier", "tlv_request", "tlv_mod"}
  /\ t = s

ClearsTable(s, ms, t) ==
  \E m : /\ ms = {m} /\ m.type \in {"clear_flows", "clear_groups", "clear_meters"}
         /\ t = Apply(s, m)

AddsGroups(s, ms, t) ==
  /\ \A m \in ms : m.type = "group_add" /\ GroupOf(s, m.id) = {}
  /\ \A m, n \in ms : m.id = n.id => m = n
  /\ t = [flows |-> s.flows, meters |-> s.meters,
          groups |-> s.groups \union {[id |-> m.id, name |-> m.name] : m \in ms}]

AddsMeters(s, ms, t) ==
  /\ \A m \in ms : m.type = "meter_add"
  /\ t = [flows |-> s.flows, groups |-> s.groups,
          meters |-> s.meters \union {m.id : m \in ms}]

ChangesFlows(s, ms, t) ==
  /\ UniqueKeys(s.flows)
  /\ \A m \in ms : \/ m.type = "flow_delete"
                   \/ /\ m.type = "flow_modify"
                      /\ Has(s.flows, m.key) /\ Reaches(s, m.flow)
                      /\ IsFlow(m.flow) /\ m.flow.key = m.key
  /\ \A m, n \in ms : m.key = n.key => m = n
  /\ t = [flows |-> {f \in s.flows : \A m \in ms : f.key # m.key} \union
                    {Modified(s, m) : m \in {n \in ms : n.type = "flow_modify"}},
          groups |-> s.groups, meters |-> s.meters]

AddsFlows(s, ms, t) ==
  /\ \A m \in ms : /\ m.type = "flow_add" /\ Reaches(s, m.flow)
                   /\ m.flow.key = m.key
  /\ \A m, n \in ms : m.key = n.key => m = n
  /\ t = [flows |-> {f \in s.flows : \A m \in ms : f.key # m.key} \union
                    {m.flow : m \in ms},
          groups |-> s.groups, meters |-> s.meters]

DeletesGroups(s, ms, t) ==
  /\ \A m \in ms : m.type = "group_delete"
  /\ t = [flows |-> {f \in s.flows : \A m \in ms : f.group # m.id},
          groups |-> {g \in s.groups : \A m \in ms : g.id # m.id},
          meters |-> s.meters]

DeletesMeters(s, ms, t) ==
  /\ \A m \in ms : m.type = "meter_delete"
  /\ t = [flows |-> s.flows, groups |-> s.groups,
          meters |-> {i \in s.meters : \A m \in ms : i # m.id}]

Leads(s, ms, t) ==
  \/ LeavesTables(s, ms, t) \/ ClearsTable(s, ms, t)
  \/ AddsGroups(s, ms, t) \/ AddsMeters(s, ms, t)
  \/ ChangesFlows(s, ms, t) \/ AddsFlows(s, ms, t)
  \/ DeletesGroups(s, ms, t) \/ DeletesMeters(s, ms, t)

IsTables(s) == s = Tables(s)

AllReach(s) == \A f \in s.flows : Reaches(s, f)

(* One message m of a batch is applied: what is left of the batch leads to *)
(* the same tables, and no flow loses its group.                           *)
Steps(s, ms, m, t) ==
  /\ IsTables(Apply(s, m))
  /\ ms = {m} => Apply(s, m) = t
  /\ ms # {m} => Leads(Apply(s, m), ms \ {m}, t)
  /\ AllReach(s) => AllReach(Apply(s, m))

LEMMA LeavesTablesStep ==
  ASSUME NEW s, NEW ms, NEW t, NEW m \in ms,
         IsTables(s), LeavesTables(s, ms, t)
  PROVE  Steps(s, ms, m, t)
<1>1. Apply(s, m) = s
  BY DEF LeavesTables, Apply
<1>2. LeavesTables(s, ms \ {m}, t) /\ t = s
  BY DEF LeavesTables
<1> QED
  BY <1>1, <1>2 DEF Steps, Leads

LEMMA ClearsTableStep ==
  ASSUME NEW s, NEW ms, NEW t, NEW m \in ms,
         IsTables(s), ClearsTable(s, ms, t)
  PROVE  Steps(s, ms, m, t)
<1>1. ms = {m} /\ t = Apply(s, m)
  BY DEF ClearsTable
<1>2. \/ Apply(s, m) = [Tables(s) EXCEPT !.flows = {}]
      \/ Apply(s, m) = [Tables(s) EXCEPT !.groups = {},
                                         !.flows = {f \in @ : f.group = 0}]
      \/ Apply(s, m) = [Tables(s) EXCEPT !.meters = {}]
  BY Zenon DEF ClearsTable, Apply, IsTables
<1>3. IsTables(Apply(s, m))
  BY <1>2, Zenon DEF IsTables, Tables
<1>4. AllReach(s) => AllReach(Apply(s, m))
  BY <1>2, ZenonT(30) DEF AllReach, Reaches, Tables
<1> QED
  BY <1>1, <1>3, <1>4 DEF Steps

LEMMA AddsGroupsStep ==
  ASSUME NEW s, NEW ms, NEW t, NEW m \in ms,
         IsTables(s), AddsGroups(s, ms, t)
  PROVE  Steps(s, ms, m, t)
<1> DEFINE u == [flows |-> s.flows, meters |-> s.meters,
                 groups |-> s.groups \union {[id |-> m.id, name |-> m.name]}]
<1>1. Apply(s, m) = u
  <2>1. Apply(s, m) = [Tables(s) EXCEPT !.groups =
                         @ \union {[id |-> m.id, name |-> m.name]}]
    BY Zenon DEF AddsGroups, Apply, IsTables
  <2> QED
    BY <2>1 DEF Tables
<1>2. IsTables(u)
  BY DEF IsTables, Tables
<1>3. ms = {m} => u = t
  BY DEF AddsGroups
<1>4. AddsGroups(u, ms \ {m}, t)
  <2>1. \A n \in ms \ {m} : n.type = "group_add" /\ GroupOf(u, n.id) = {}
    BY DEF AddsGroups, GroupOf
  <2>2. u.groups \union {[id |-> n.id, name |-> n.name] : n \in ms \ {m}}
          = s.groups \union {[id |-> n.id, name |-> n.name] : n \in ms}
    OBVIOUS
  <2> QED
    BY <2>1, <2>2, Zenon DEF AddsGroups
<1>5. AllReach(s) => AllReach(u)
  BY DEF AllReach, Reaches
<1> QED
  BY <1>1, <1>2, <1>3, <1>4, <1>5 DEF Steps, Leads

LEMMA AddsMetersStep ==
  ASSUME NEW s, NEW ms, NEW t, NEW m \in ms,
         IsTables(s), AddsMeters(s, ms, t)
  PROVE  Steps(s, ms, m, t)
<1> DEFINE u == [flows |-> s.flows, groups |-> s.groups,
                 meters |-> s.meters \union {m.id}]
<1>1. Apply(s, m) = u
  <2>1. Apply(s, m) = [Tables(s) EXCEPT !.meters = @ \union {m.id}]
    BY Zenon DEF AddsMeters, Apply, IsTables
  <2> QED
    BY <2>1 DEF Tables
<1>2. IsTables(u)
  BY DEF IsTables, Tables
<1>3. ms = {m} => u = t
  BY DEF AddsMeters
<1>4. AddsMeters(u, ms \ {m}, t)
  BY Zenon DEF AddsMeters
<1>5. AllReach(s) => AllReach(u)
  BY DEF AllReach, Reaches
<1> QED
  BY <1>1, <1>2, <1>3, <1>4, <1>5 DEF Steps, Leads

LEMMA DeletesGroupsStep ==
  ASSUME NEW s, NEW ms, NEW t, NEW m \in ms,
         IsTables(s), DeletesGroups(s, ms, t)
  PROVE  Steps(s, ms, m, t)
<1> DEFINE u == [flows |-> {f \in s.flows : f.group # m.id},
                 groups |-> s.groups \ GroupOf(s, m.id), meters |-> s.meters]
<1>1. Apply(s, m) = u
  <2>1. Apply(s, m) = [Tables(s) EXCEPT !.groups = @ \ GroupOf(s, m.id),
                         !.flows = {f \in @ : f.group # m.id}]
    BY Zenon DEF DeletesGroups, Apply, IsTables
  <2> QED
    BY <2>1, Zenon DEF Tables
<1>2. IsTables(u)
  BY DEF IsTables, Tables
<1>3. ms = {m} => u = t
  BY Zenon DEF DeletesGroups, GroupOf
<1>4. DeletesGroups(u, ms \ {m}, t)
  <2>1. {f \in u.flows : \A n \in ms \ {m} : f.group # n.id}
          = {f \in s.flows : \A n \in ms : f.group # n.id}
    OBVIOUS
  <2>2. {g \in u.groups : \A n \in ms \ {m} : g.id # n.id}
          = {g \in s.groups : \A n \in ms : g.id # n.id}
    BY DEF GroupOf
  <2> QED
    BY <2>1, <2>2, Zenon DEF DeletesGroups
<1>5. AllReach(s) => AllReach(u)
  BY DEF AllReach, Reaches, GroupOf
<1> QED
  BY <1>1, <1>2, <1>3, <1>4, <1>5 DEF Steps, Leads

LEMMA DeletesMetersStep ==
  ASSUME NEW s, NEW ms, NEW t, NEW m \in ms,
         IsTables(s), DeletesMeters(s, ms, t)
  PROVE  Steps(s, ms, m, t)
<1> DEFINE u == [flows |-> s.flows, groups |-> s.groups,
                 meters |-> s.meters \ {m.id}]
<1>1. Apply(s, m) = u
  <2>1. Apply(s, m) = [Tables(s) EXCEPT !.meters = @ \ {m.id}]
    BY Zenon DEF DeletesMeters, Apply, IsTables
  <2> QED
    BY <2>1 DEF Tables
<1>2. IsTables(u)
  BY DEF IsTables, Tables
<1>3. ms = {m} => u = t
  BY DEF DeletesMeters
<1>4. DeletesMeters(u, ms \ {m}, t)
  <2>1. {i \in u.meters : \A n \in ms \ {m} : i # n.id}
          = {i \in s.meters : \A n \in ms : i # n.id}
    OBVIOUS
  <2> QED
    BY <2>1, Zenon DEF DeletesMeters
<1>5. AllReach(s) => AllReach(u)
  BY DEF AllReach, Reaches
<1> QED
  BY <1>1, <1>2, <1>3, <1>4, <1>5 DEF Steps, Leads

(* The switch accepts a flow whose group is there.                         *)
LEMMA ReachesAccepted ==
  ASSUME NEW s, NEW f, Reaches(s, f)
  PROVE  Accepts(s, f)
<1> SUFFICES ASSUME f.group # 0
             PROVE  GroupOf(s, f.group) # {}
  BY DEF Accepts
<1>1. [id |-> f.group, name |-> f.lb] \in s.groups
  BY DEF Reaches
<1>2. [id |-> f.group, name |-> f.lb] \in GroupOf(s, f.group)
  BY <1>1 DEF GroupOf
<1> QED
  BY <1>2

LEMMA AddsFlowsStep ==
  ASSUME NEW s, NEW ms, NEW t, NEW m \in ms,
         IsTables(s), AddsFlows(s, ms, t)
  PROVE  Steps(s, ms, m, t)
<1> DEFINE u == [flows |-> {f \in s.flows : f.key # m.key} \union {m.flow},
                 groups |-> s.groups, meters |-> s.meters]
<1>0. Accepts(s, m.flow)
  BY ReachesAccepted DEF AddsFlows
<1>1. Apply(s, m) = u
  <2>1. Apply(s, m) = [Tables(s) EXCEPT !.flows =
                         {f \in @ : f.key # m.key} \union {m.flow}]
    BY <1>0, Zenon DEF AddsFlows, Apply, IsTables
  <2> QED
    BY <2>1 DEF Tables
<1>2. IsTables(u)
  BY DEF IsTables, Tables
<1>3. ms = {m} => u = t
  <2> SUFFICES ASSUME ms = {m}
               PROVE  u = t
    OBVIOUS
  <2>1. /\ {n.flow : n \in ms} = {m.flow}
        /\ {f \in s.flows : \A n \in ms : f.key # n.key}
             = {f \in s.flows : f.key # m.key}
    OBVIOUS
  <2> QED
    BY <2>1, SMTT(30) DEF AddsFlows
<1>4. AddsFlows(u, ms \ {m}, t)
  <2>1. {f \in u.flows : \A n \in ms \ {m} : f.key # n.key}
           \union {n.flow : n \in ms \ {m}}
          = {f \in s.flows : \A n \in ms : f.key # n.key}
              \union {n.flow : n \in ms}
    BY DEF AddsFlows
  <2> QED
    BY <2>1, Zenon DEF AddsFlows, Reaches
<1>5. AllReach(s) => AllReach(u)
  BY DEF AllReach, Reaches, AddsFlows
<1> QED
  BY <1>1, <1>2, <1>3, <1>4, <1>5 DEF Steps, Leads

LEMMA GetUnique ==
  ASSUME NEW flows, UniqueKeys(flows), NEW f \in flows
  PROVE  Get(flows, f.key) = f
BY DEF Get, UniqueKeys

LEMMA ChangesFlowsDelete ==
  ASSUME NEW s, NEW ms, NEW t, NEW m \in ms,
         IsTables(s), ChangesFlows(s, ms, t), m.type = "flow_delete"
  PROVE  Steps(s, ms, m, t)
<1> DEFINE u == [flows |-> {f \in s.flows : f.key # m.key},
                 groups |-> s.groups, meters |-> s.meters]
<1>1. Apply(s, m) = u
  <2>1. Apply(s, m) = [Tables(s) EXCEPT !.flows = {f \in @ : f.key # m.key}]
    BY DEF Apply, IsTables
  <2> QED
    BY <2>1 DEF Tables
<1>2. IsTables(u)
  BY DEF IsTables, Tables
<1>3. \A n \in ms \ {m} : n.type = "flow_modify" =>
         /\ Has(u.flows, n.key)
         /\ Modified(u, n) = Modified(s, n)
  <2> SUFFICES ASSUME NEW n \in ms \ {m}, n.type = "flow_modify"
               PROVE  Has(u.flows, n.key) /\ Modified(u, n) = Modified(s, n)
    OBVIOUS
  <2>1. n.key # m.key
    BY DEF ChangesFlows
  <2>2. PICK f \in s.flows : f.key = n.key
    BY DEF ChangesFlows, Has
  <2>3. UniqueKeys(s.flows) /\ UniqueKeys(u.flows) /\ f \in u.flows
    BY <2>1, <2>2 DEF ChangesFlows, UniqueKeys
  <2>4. Get(s.flows, n.key) = f /\ Get(u.flows, n.key) = f
    BY <2>2, <2>3, GetUnique
  <2> QED
    BY <2>2, <2>3, <2>4 DEF Has, Modified
<1>4. {Modified(u, n) : n \in {x \in ms \ {m} : x.type = "flow_modify"}}
        = {Modified(s, n) : n \in {x \in ms : x.type = "flow_modify"}}
  BY <1>3, Zenon
<1>5. {f \in u.flows : \A n \in ms \ {m} : f.key # n.key}
        = {f \in s.flows : \A n \in ms : f.key # n.key}
  OBVIOUS
<1>6. ms = {m} => u = t
  BY SMTT(30) DEF ChangesFlows
<1>7. ChangesFlows(u, ms \ {m}, t)
  BY <1>3, <1>4, <1>5, Zenon DEF ChangesFlows, UniqueKeys, Reaches
<1>8. AllReach(s) => AllReach(u)
  BY SMTT(30) DEF AllReach, Reaches
<1> QED
  BY <1>1, <1>2, <1>6, <1>7, <1>8 DEF Steps, Leads

LEMMA ChangesFlowsModify ==
  ASSUME NEW s, NEW ms, NEW t, NEW m \in ms,
         IsTables(s), ChangesFlows(s, ms, t), m.type = "flow_modify"
  PROVE  Steps(s, ms, m, t)
<1> DEFINE u == [flows |-> {f \in s.flows : f.key # m.key}
                             \union {Modified(s, m)},
                 groups |-> s.groups, meters |-> s.meters]
<1>0. /\ Has(s.flows, m.key) /\ Reaches(s, m.flow)
      /\ IsFlow(m.flow) /\ m.flow.key = m.key
  BY DEF ChangesFlows
<1>1. Apply(s, m) = u
  <2>1. Accepts(s, m.flow)
    BY <1>0, ReachesAccepted
  <2>2. Apply(s, m) = [Tables(s) EXCEPT !.flows =
                         {f \in @ : f.key # m.key} \union {Modified(s, m)}]
    BY <1>0, <2>1 DEF Apply, IsTables, Modified
  <2> QED
    BY <2>2 DEF Tables
<1>2. IsTables(u)
  BY DEF IsTables, Tables
<1>3. /\ Modified(s, m).key = m.key
      /\ Modified(s, m).group = m.flow.group
      /\ Modified(s, m).lb = m.flow.lb
  BY <1>0 DEF Modified, IsFlow
<1> HIDE DEF Modified
<1>4. UniqueKeys(s.flows) /\ UniqueKeys(u.flows)
  BY <1>3 DEF ChangesFlows, UniqueKeys
<1>5. \A n \in ms \ {m} : n.type = "flow_modify" =>
         /\ Has(u.flows, n.key)
         /\ Modified(u, n) = Modified(s, n)
  <2> SUFFICES ASSUME NEW n \in ms \ {m}, n.type = "flow_modify"
               PROVE  Has(u.flows, n.key) /\ Modified(u, n) = Modified(s, n)
    OBVIOUS
  <2>1. n.key # m.key
    BY DEF ChangesFlows
  <2>2. PICK f \in s.flows : f.key = n.key
    BY DEF ChangesFlows, Has
  <2>3. f \in u.flows
    BY <2>1, <2>2, SMTT(30)
  <2>4. Get(s.flows, n.key) = f /\ Get(u.flows, n.key) = f
    BY <1>4, <2>2, <2>3, GetUnique
  <2> QED
    BY <2>2, <2>3, <2>4 DEF Has, Modified
<1>6. {f \in u.flows : \A n \in ms \ {m} : f.key # n.key}
        \union {Modified(u, n) : n \in {x \in ms \ {m} : x.type = "flow_modify"}}
      = {f \in s.flows : \A n \in ms : f.key # n.key}
          \union {Modified(s, n) : n \in {x \in ms : x.type = "flow_modify"}}
  <2> DEFINE R  == {Modified(u, n) :
                      n \in {x \in ms \ {m} : x.type = "flow_modify"}}
             R0 == {Modified(s, n) :
                      n \in {x \in ms \ {m} : x.type = "flow_modify"}}
  <2>1. R = R0
    BY <1>5, Zenon
  <2>2. {Modified(s, n) : n \in {x \in ms : x.type = "flow_modify"}}
          = R0 \union {Modified(s, m)}
    OBVIOUS
  <2>3. \A n \in ms \ {m} : n.key # m.key
    BY DEF ChangesFlows
  <2>4. {f \in u.flows : \A n \in ms \ {m} : f.key # n.key}
          = {f \in s.flows : \A n \in ms : f.key # n.key}
              \union {Modified(s, m)}
    BY <1>3, <2>3
  <2> HIDE DEF R, R0
  <2> QED
    BY <2>1, <2>2, <2>4, Zenon DEF R
<1>7. ms = {m} => u = t
  <2> SUFFICES ASSUME ms = {m}
               PROVE  u = t
    OBVIOUS
  <2>1. /\ {Modified(s, n) : n \in {x \in ms : x.type = "flow_modify"}}
             = {Modified(s, m)}
        /\ {f \in s.flows : \A n \in ms : f.key # n.key}
             = {f \in s.flows : f.key # m.key}
    OBVIOUS
  <2> QED
    BY <2>1 DEF ChangesFlows
<1>8. ChangesFlows(u, ms \ {m}, t)
  BY <1>4, <1>5, <1>6, Zenon DEF ChangesFlows, Reaches
<1>9. AllReach(s) => AllReach(u)
  BY <1>0, <1>3 DEF AllReach, Reaches
<1> QED
  BY <1>1, <1>2, <1>7, <1>8, <1>9 DEF Steps, Leads

LEMMA BatchStep ==
  ASSUME NEW s, NEW ms, NEW t, NEW m \in ms, IsTables(s), Leads(s, ms, t)
  PROVE  Steps(s, ms, m, t)
<1>1. CASE ChangesFlows(s, ms, t)
  <2>1. m.type = "flow_delete" \/ m.type = "flow_modify"
    BY <1>1 DEF ChangesFlows
  <2> QED
    BY <1>1, <2>1, ChangesFlowsDelete, ChangesFlowsModify
<1> QED
  BY <1>1, LeavesTablesStep, ClearsTableStep, AddsGroupsStep, AddsMetersStep,
     AddsFlowsStep, DeletesGroupsStep, DeletesMetersStep
     DEF Leads

-----------------------------------------------------------------------------
(* What a queue of batches does to the switch's tables: 'st' is the        *)
(* sequence of states between the batches.                                 *)

Path(q, s, t, st) ==
  /\ st[0] = s
  /\ st[Len(q)] = t
  /\ \A i \in 1 .. Len(q) : Leads(st[i - 1], q[i].msgs, st[i])

Ends(q, s, t) == \E st : Path(q, s, t, st)

LEMMA EndsEmpty ==
  ASSUME NEW s, NEW t
  PROVE  Ends(<<>>, s, t) <=> s = t
<1>1. Ends(<<>>, s, t) => s = t
  BY DEF Ends, Path
<1>2. Path(<<>>, s, s, [i \in {0} |-> s])
  BY DEF Path
<1> QED
  BY <1>1, <1>2 DEF Ends

LEMMA EndsSingle ==
  ASSUME NEW s, NEW t, NEW ms, NEW nb \in Nat, Leads(s, ms, t)
  PROVE  Ends(<<Batch(ms, nb)>>, s, t)
<1>1. Path(<<Batch(ms, nb)>>, s, t, [i \in 0 .. 1 |-> IF i = 0 THEN s ELSE t])
  <2> DEFINE q  == <<Batch(ms, nb)>>
             st == [i \in 0 .. 1 |-> IF i = 0 THEN s ELSE t]
  <2>1. Len(q) = 1 /\ q[1].msgs = ms
    BY QueueSingle, Zenon
  <2>2. st[0] = s /\ st[1] = t
    OBVIOUS
  <2> HIDE DEF q, st
  <2>3. \A i \in 1 .. 1 : i = 1 /\ i - 1 = 0
    OBVIOUS
  <2>4. Path(q, s, t, st)
    BY <2>1, <2>2, <2>3 DEF Path
  <2> QED
    BY <2>4 DEF q, st
<1> QED
  BY <1>1 DEF Ends

LEMMA EndsNonEmpty ==
  ASSUME NEW s, NEW t, NEW ms, NEW nb \in Nat, Leads(s, ms, t),
         ms = {} => s = t
  PROVE  Ends(NonEmpty(ms, nb), s, t) /\ IsQueue(NonEmpty(ms, nb))
<1>1. CASE ms = {}
  BY <1>1, EndsEmpty, QueueEmpty DEF NonEmpty
<1>2. CASE ms # {}
  BY <1>2, EndsSingle, QueueSingle DEF NonEmpty
<1> QED
  BY <1>1, <1>2

LEMMA EndsConcat ==
  ASSUME NEW q, NEW r, IsQueue(q), IsQueue(r), NEW s, NEW t, NEW u,
         Ends(q, s, t), Ends(r, t, u)
  PROVE  Ends(q \o r, s, u) /\ IsQueue(q \o r)
<1>1. PICK st : Path(q, s, t, st)
  BY DEF Ends
<1>2. PICK su : Path(r, t, u, su)
  BY DEF Ends
<1> DEFINE sv == [i \in 0 .. Len(q) + Len(r) |->
                    IF i <= Len(q) THEN st[i] ELSE su[i - Len(q)]]
<1>3. /\ IsQueue(q \o r)
      /\ Len(q) \in Nat /\ Len(r) \in Nat
      /\ Len(q \o r) = Len(q) + Len(r)
      /\ \A i \in 1 .. Len(q) : (q \o r)[i] = q[i]
      /\ \A i \in 1 .. Len(r) : (q \o r)[Len(q) + i] = r[i]
  BY QueueConcat, SMTT(30)
<1>4. /\ \A i \in 0 .. Len(q) : sv[i] = st[i]
      /\ \A i \in 0 .. Len(r) : sv[Len(q) + i] = su[i]
  <2>1. \A i \in 0 .. Len(q) : sv[i] = st[i]
    BY <1>3
  <2>2. st[Len(q)] = su[0]
    BY <1>1, <1>2, SMTT(30) DEF Path
  <2>3. ASSUME NEW i \in 0 .. Len(r)
        PROVE  sv[Len(q) + i] = su[i]
    <3>1. CASE i = 0
      BY <1>3, <2>2, <3>1
    <3>2. CASE i > 0
      <4>1. /\ Len(q) + i \in 0 .. Len(q) + Len(r)
            /\ ~ (Len(q) + i <= Len(q))
            /\ (Len(q) + i) - Len(q) = i
        BY <1>3, <3>2
      <4> QED
        BY <4>1
    <3> QED
      BY <3>1, <3>2, SMTT(30)
  <2> QED
    BY <2>1, <2>3, SMTT(30)
<1> HIDE DEF sv
<1>5. sv[0] = s /\ sv[Len(q) + Len(r)] = u
  BY <1>1, <1>2, <1>3, <1>4 DEF Path
<1>6. ASSUME NEW i \in 1 .. Len(q) + Len(r)
      PROVE  Leads(sv[i - 1], (q \o r)[i].msgs, sv[i])
  <2>1. CASE i <= Len(q)
    <3>1. i \in 1 .. Len(q) /\ i \in 0 .. Len(q) /\ i - 1 \in 0 .. Len(q)
      BY <1>3, <2>1, SMTT(30)
    <3> QED
      BY <1>1, <1>3, <1>4, <3>1 DEF Path
  <2>2. CASE ~ (i <= Len(q))
    <3> DEFINE j == i - Len(q)
    <3>1. /\ j \in 1 .. Len(r) /\ j \in 0 .. Len(r) /\ j - 1 \in 0 .. Len(r)
          /\ i = Len(q) + j /\ i - 1 = Len(q) + (j - 1)
      BY <1>3, <2>2, SMTT(30)
    <3> HIDE DEF j
    <3>2. /\ sv[i] = su[j] /\ sv[i - 1] = su[j - 1] /\ (q \o r)[i] = r[j]
      BY <1>3, <1>4, <3>1
    <3>3. Leads(su[j - 1], r[j].msgs, su[j])
      BY <1>2, <3>1, SMTT(30) DEF Path
    <3> QED
      BY <3>2, <3>3
  <2> QED
    BY <2>1, <2>2, SMTT(30)
<1>7. Path(q \o r, s, u, sv)
  BY <1>3, <1>5, <1>6, SMTT(30) DEF Path
<1> QED
  BY <1>3, <1>7 DEF Ends

(* The switch applies a message.                                           *)
LEMMA EndsTaken ==
  ASSUME NEW q, IsQueue(q), q # <<>>, NEW m \in Head(q).msgs,
         NEW s, IsTables(s), NEW t, Ends(q, s, t)
  PROVE  /\ Ends(Taken(q, m), Apply(s, m), t)
         /\ IsTables(Apply(s, m))
         /\ AllReach(s) => AllReach(Apply(s, m))
<1>1. PICK st : Path(q, s, t, st)
  BY DEF Ends
<1> DEFINE r == Taken(q, m)
<1>2. /\ IsQueue(r)
      /\ Len(q) \in Nat /\ Len(q) >= 1 /\ Head(q) = q[1]
      /\ Head(q).msgs = {m} =>
           /\ Len(r) = Len(q) - 1
           /\ \A i \in 1 .. Len(q) - 1 : r[i] = q[i + 1]
      /\ Head(q).msgs # {m} =>
           /\ Len(r) = Len(q)
           /\ r[1].msgs = q[1].msgs \ {m}
           /\ r[1].nb = q[1].nb
           /\ \A i \in 2 .. Len(q) : r[i] = q[i]
  BY QueueTaken, ZenonT(30)
<1> HIDE DEF r
<1>3. Leads(s, q[1].msgs, st[1])
  BY <1>1, <1>2, SMTT(30) DEF Path
<1>4. Steps(s, q[1].msgs, m, st[1])
  BY <1>2, <1>3, BatchStep, SMTT(30)
<1>5. CASE Head(q).msgs = {m}
  <2> DEFINE su == [i \in 0 .. Len(q) - 1 |-> st[i + 1]]
  <2>1. \A i \in 0 .. Len(q) - 1 : su[i] = st[i + 1]
    BY SMTT(30)
  <2> HIDE DEF su
  <2>2. su[0] = Apply(s, m)
    BY <1>2, <1>4, <1>5, <2>1 DEF Steps
  <2>3. su[Len(r)] = t
    BY <1>1, <1>2, <1>5, <2>1 DEF Path
  <2>4. ASSUME NEW i \in 1 .. Len(r)
        PROVE  Leads(su[i - 1], r[i].msgs, su[i])
    <3>1. /\ i \in 0 .. Len(q) - 1 /\ i - 1 \in 0 .. Len(q) - 1
          /\ i + 1 \in 1 .. Len(q) /\ (i + 1) - 1 = i /\ (i - 1) + 1 = i
      BY <1>2, <1>5, SMTT(30)
    <3>2. Leads(st[(i + 1) - 1], q[i + 1].msgs, st[i + 1])
      BY <1>1, <3>1, SMTT(30) DEF Path
    <3>3. su[i - 1] = st[i] /\ su[i] = st[i + 1] /\ r[i] = q[i + 1]
      BY <1>2, <1>5, <2>1, <3>1
    <3> QED
      BY <3>1, <3>2, <3>3
  <2>5. Path(r, Apply(s, m), t, su)
    BY <2>2, <2>3, <2>4 DEF Path
  <2> QED
    BY <1>4, <2>5 DEF Ends, Steps, r
<1>6. CASE Head(q).msgs # {m}
  <2> DEFINE su == [i \in 0 .. Len(q) |-> IF i = 0 THEN Apply(s, m) ELSE st[i]]
  <2>1. su[0] = Apply(s, m) /\ \A i \in 1 .. Len(q) : su[i] = st[i]
    BY <1>2, SMTT(30)
  <2> HIDE DEF su
  <2>2. su[Len(r)] = t
    BY <1>1, <1>2, <1>6, <2>1, SMTT(30) DEF Path
  <2>3. ASSUME NEW i \in 1 .. Len(r)
        PROVE  Leads(su[i - 1], r[i].msgs, su[i])
    <3>1. CASE i = 1
      <4>1. Leads(Apply(s, m), q[1].msgs \ {m}, st[1])
        BY <1>2, <1>4, <1>6, SMTT(30) DEF Steps
      <4>2. su[i - 1] = Apply(s, m) /\ su[i] = st[1]
        BY <1>2, <2>1, <3>1
      <4> QED
        BY <1>2, <1>6, <3>1, <4>1, <4>2, Zenon
    <3>2. CASE i # 1
      <4>1. i \in 2 .. Len(q) /\ i \in 1 .. Len(q) /\ i - 1 \in 1 .. Len(q)
        BY <1>2, <1>6, <3>2
      <4> QED
        BY <1>1, <1>2, <1>6, <2>1, <4>1 DEF Path
    <3> QED
      BY <3>1, <3>2
  <2>4. Path(r, Apply(s, m), t, su)
    BY <2>1, <2>2, <2>3 DEF Path
  <2> QED
    BY <1>4, <2>4 DEF Ends, Steps, r
<1> QED
  BY <1>5, <1>6, SMTT(30)

-----------------------------------------------------------------------------
(* ofctrl_put() *)

(* The two loops over the flows: the installed flows that go or change,    *)
(* and the desired flows that are new.                                     *)
LEMMA PutFlows ==
  ASSUME NEW s, IsTables(s), s.flows = installed_flows,
         UniqueKeys(installed_flows),
         NEW D, UniqueKeys(D), \A d \in D : IsFlow(d) /\ Reaches(s, d)
  PROVE  \E u, v :
           /\ ChangesFlows(s, FlowChanges(D), u)
           /\ FlowChanges(D) = {} => s = u
           /\ AddsFlows(u, FlowAdds(D), v)
           /\ FlowAdds(D) = {} => u = v
           /\ v = [flows |-> {Install(d) : d \in D},
                   groups |-> s.groups, meters |-> s.meters]
<1> DEFINE FC == FlowChanges(D)
           FA == FlowAdds(D)
           u == [flows |-> {f \in s.flows : \A m \in FC : f.key # m.key} \union
                    {Modified(s, m) : m \in {n \in FC : n.type = "flow_modify"}},
                 groups |-> s.groups, meters |-> s.meters]
           v == [flows |-> {f \in u.flows : \A m \in FA : f.key # m.key} \union
                    {m.flow : m \in FA},
                 groups |-> s.groups, meters |-> s.meters]
<1>1. \A m \in FC :
        \/ /\ m.type = "flow_delete"
           /\ m = [type |-> "flow_delete", key |-> m.key]
           /\ ~ Has(D, m.key)
        \/ /\ m.type = "flow_modify"
           /\ m = [type |-> "flow_modify", key |-> m.key, flow |-> m.flow]
           /\ m.flow \in D /\ m.flow.key = m.key
           /\ Has(installed_flows, m.key)
           /\ ~ SameActions(m.flow, Get(installed_flows, m.key))
  BY DEF FlowChanges
<1>2. \A m \in FA : /\ m.type = "flow_add"
                    /\ m = [type |-> "flow_add", key |-> m.key, flow |-> m.flow]
                    /\ m.flow \in D /\ m.flow.key = m.key
                    /\ ~ Has(installed_flows, m.key)
  BY DEF FlowAdds
<1>3. \A d \in D : ~ Has(installed_flows, d.key) =>
                      [type |-> "flow_add", key |-> d.key, flow |-> d] \in FA
  BY SMTT(30) DEF FlowAdds
<1>4. \A i \in installed_flows : ~ Has(D, i.key) =>
                      [type |-> "flow_delete", key |-> i.key] \in FC
  BY SMTT(30) DEF FlowChanges
<1>5. \A d \in D : /\ Has(installed_flows, d.key)
                   /\ ~ SameActions(d, Get(installed_flows, d.key))
                   => [type |-> "flow_modify", key |-> d.key, flow |-> d] \in FC
  BY SMTT(30) DEF FlowChanges
<1> HIDE DEF FC, FA
<1>6. \A m, n \in FC : m.key = n.key => m = n
  BY <1>1 DEF Has, UniqueKeys
<1>7. \A m, n \in FA : m.key = n.key => m = n
  BY <1>2 DEF UniqueKeys
<1>8. ChangesFlows(s, FC, u)
  BY <1>1, <1>6 DEF ChangesFlows
<1>9. FC = {} => s = u
  BY DEF IsTables, Tables
<1>10. AddsFlows(u, FA, v)
  BY <1>2, <1>7 DEF AddsFlows, Reaches
<1>11. FA = {} => u = v
  BY Zenon
<1>12. \A d \in D : Has(installed_flows, d.key) =>
         /\ Get(installed_flows, d.key) \in installed_flows
         /\ Get(installed_flows, d.key).key = d.key
  BY DEF Has, Get
<1>13. ASSUME NEW f \in v.flows
       PROVE  f \in {Install(d) : d \in D}
  <2>1. CASE f \in s.flows /\ \A m \in FC : f.key # m.key
    <3>1. PICK d \in D : d.key = f.key
      BY <1>4, <2>1, Zenon DEF Has
    <3>2. Has(installed_flows, d.key) /\ Get(installed_flows, d.key) = f
      BY <2>1, <3>1, GetUnique DEF Has
    <3>3. SameActions(f, d)
      BY <1>5, <2>1, <3>1, <3>2, Zenon DEF SameActions
    <3>4. Install(d) = f
      BY <3>2, <3>3, SMTT(30) DEF Install
    <3> QED
      BY <3>4
  <2>2. ASSUME NEW m \in FC, m.type = "flow_modify", f = Modified(s, m)
        PROVE  f \in {Install(d) : d \in D}
    <3>1. /\ m.flow \in D /\ m.flow.key = m.key
          /\ Has(installed_flows, m.key)
          /\ ~ SameActions(m.flow, Get(installed_flows, m.key))
      BY <1>1, <2>2, SMTT(30)
    <3>2. Install(m.flow) = f
      BY <2>2, <3>1, SMTT(30) DEF Install, SameActions, Modified
    <3> QED
      BY <3>1, <3>2, SMTT(30)
  <2>3. ASSUME NEW m \in FA, f = m.flow
        PROVE  f \in {Install(d) : d \in D}
    <3>1. m.flow \in D /\ Install(m.flow) = f
      BY <1>2, <2>3, SMTT(30) DEF Install
    <3> QED
      BY <3>1
  <2> QED
    BY <2>1, <2>2, <2>3
<1>14. ASSUME NEW d \in D
       PROVE  Install(d) \in v.flows
  <2>1. CASE ~ Has(installed_flows, d.key)
    <3> DEFINE m == [type |-> "flow_add", key |-> d.key, flow |-> d]
    <3>1. m \in FA /\ m.flow = d /\ Install(d) = d
      BY <1>3, <2>1, SMTT(30) DEF Install
    <3> QED
      BY <3>1
  <2>2. CASE Has(installed_flows, d.key)
    <3> DEFINE i == Get(installed_flows, d.key)
    <3>1. i \in s.flows /\ i.key = d.key
      BY <1>12, <2>2
    <3> HIDE DEF i
    <3>2. \A m \in FA : m.key # d.key
      BY <1>2, <2>2, SMTT(30)
    <3>3. CASE SameActions(i, d)
      <4>1. \A m \in FC : m.key # d.key
        <5> SUFFICES ASSUME NEW m \in FC, m.key = d.key
                     PROVE  FALSE
          OBVIOUS
        <5>1. Has(D, m.key)
          BY DEF Has
        <5>2. m.flow \in D /\ m.flow.key = d.key /\ ~ SameActions(m.flow, i)
          BY <1>1, <5>1 DEF i
        <5>3. m.flow = d
          BY <5>2 DEF UniqueKeys
        <5> QED
          BY <3>3, <5>2, <5>3 DEF SameActions
      <4>2. Install(d) = i
        BY <2>2, <3>3, SMTT(30) DEF Install, i
      <4>3. i \in u.flows
        BY <3>1, <4>1
      <4> QED
        BY <3>1, <3>2, <4>2, <4>3
    <3>4. CASE ~ SameActions(i, d)
      <4> DEFINE m == [type |-> "flow_modify", key |-> d.key, flow |-> d]
      <4>1. m \in FC /\ m.type = "flow_modify" /\ m.key = d.key /\ m.flow = d
        BY <1>5, <2>2, <3>4 DEF i, SameActions
      <4> HIDE DEF m
      <4>2. Install(d) = Modified(s, m)
        BY <2>2, <3>4, <4>1 DEF Install, Modified, i
      <4>3. Modified(s, m).key = d.key
        BY <4>1 DEF Modified, IsFlow
      <4>4. Modified(s, m) \in u.flows
        BY <4>1
      <4> QED
        BY <3>2, <4>2, <4>3, <4>4
    <3> QED
      BY <3>3, <3>4, SMTT(30)
  <2> QED
    BY <2>1, <2>2, SMTT(30)
<1>15. v.flows = {Install(d) : d \in D}
  BY <1>13, <1>14
<1>16. v = [flows |-> {Install(d) : d \in D},
            groups |-> s.groups, meters |-> s.meters]
  BY <1>15, Zenon
<1> HIDE DEF u, v
<1> QED
  BY <1>8, <1>9, <1>10, <1>11, <1>16, Zenon DEF FC, FA

(* The entries of the tables after a put.                                  *)
LEMMA ExistingAfterPut ==
  ASSUME Fields(groups), Fields(meters)
  PROVE  /\ GroupsAfterPut.existing
              = (groups.existing \ Groups!Unwanted(groups))
                  \union Groups!Uninstalled(groups)
         /\ MetersAfterPut.existing
              = (meters.existing \ Meters!Unwanted(meters))
                  \union Meters!Uninstalled(meters)
<1>1. GroupsAfterPut.existing
        = (groups.existing \ Groups!Unwanted(groups))
            \union {e \in groups.desired :
                      ~ Groups!Lookup(groups.existing \ Groups!Unwanted(groups), e)}
  BY DEF GroupsAfterPut, Groups!Move, Groups!RemoveUnwanted,
         Groups!Uninstalled, Fields
<1>2. MetersAfterPut.existing
        = (meters.existing \ Meters!Unwanted(meters))
            \union {e \in meters.desired :
                      ~ Meters!Lookup(meters.existing \ Meters!Unwanted(meters), e)}
  BY DEF MetersAfterPut, Meters!Move, Meters!RemoveUnwanted,
         Meters!Uninstalled, Fields
<1>3. \A e \in groups.desired :
        Groups!Lookup(groups.existing \ Groups!Unwanted(groups), e)
          <=> Groups!Lookup(groups.existing, e)
  BY DEF Groups!Unwanted, Groups!Lookup
<1>4. \A e \in meters.desired :
        Meters!Lookup(meters.existing \ Meters!Unwanted(meters), e)
          <=> Meters!Lookup(meters.existing, e)
  BY DEF Meters!Unwanted, Meters!Lookup
<1> QED
  BY <1>1, <1>2, <1>3, <1>4, Zenon DEF Groups!Uninstalled, Meters!Uninstalled

(* The groups that a switch has for a set of entries.                      *)
GroupImage(es) == {[id |-> e.table_id, name |-> e.name] : e \in es}

(* EXTEND_TABLE_FOR_EACH_UNINSTALLED: no id that is added is in use.       *)
LEMMA PutGroupAdds ==
  ASSUME GroupIds, NEW s, IsTables(s),
         s.groups = GroupImage(groups.existing)
  PROVE  \E u : /\ AddsGroups(s, GroupAdds, u)
                /\ GroupAdds = {} => s = u
                /\ u = [flows |-> s.flows, meters |-> s.meters,
                        groups |-> GroupImage(groups.existing \union
                                              Groups!Uninstalled(groups))]
<1> DEFINE ms == GroupAdds
           u == [flows |-> s.flows, meters |-> s.meters,
                 groups |-> s.groups \union
                              {[id |-> m.id, name |-> m.name] : m \in ms}]
<1>1. \A m \in ms : \E e \in Groups!Uninstalled(groups) :
         m = [type |-> "group_add", id |-> e.table_id, name |-> e.name]
  BY DEF GroupAdds
<1>2. {[id |-> m.id, name |-> m.name] : m \in ms}
        = GroupImage(Groups!Uninstalled(groups))
  <2>1. ASSUME NEW e \in Groups!Uninstalled(groups)
        PROVE  \E m \in ms : m.id = e.table_id /\ m.name = e.name
    <3> DEFINE m == [type |-> "group_add", id |-> e.table_id, name |-> e.name]
    <3>1. m \in ms
      BY DEF GroupAdds
    <3> QED
      BY <3>1, SMTT(30)
  <2> HIDE DEF ms
  <2>2. \A m \in ms : \E e \in Groups!Uninstalled(groups) :
           m.id = e.table_id /\ m.name = e.name
    BY <1>1
  <2> QED
    BY <2>1, <2>2 DEF GroupImage
<1>3. ms = {} => Groups!Uninstalled(groups) = {}
  BY Zenon DEF GroupAdds
<1> HIDE DEF ms
<1>4. ASSUME NEW m \in ms
      PROVE  m.type = "group_add" /\ GroupOf(s, m.id) = {}
  <2>1. PICK e \in Groups!Uninstalled(groups) :
           m = [type |-> "group_add", id |-> e.table_id, name |-> e.name]
    BY <1>1, SMTT(30)
  <2>2. \A f \in groups.existing : f.table_id # e.table_id
    BY DEF GroupIds, Groups!OneIdPerName, Groups!Uninstalled, Groups!Lookup
  <2> QED
    BY <2>1, <2>2 DEF GroupOf, GroupImage
<1>5. ASSUME NEW m \in ms, NEW n \in ms, m.id = n.id
      PROVE  m = n
  BY <1>1, <1>5, SMTT(30) DEF GroupIds, Groups!OneIdPerName, Groups!Uninstalled
<1>6. AddsGroups(s, ms, u)
  BY <1>4, <1>5, SMTT(30) DEF AddsGroups
<1>7. u.groups = GroupImage(groups.existing \union Groups!Uninstalled(groups))
  BY <1>2 DEF GroupImage
<1>8. ms = {} => s = u
  BY DEF IsTables, Tables
<1> QED
  BY <1>6, <1>7, <1>8, Zenon DEF ms

(* EXTEND_TABLE_FOR_EACH_INSTALLED: no id that is deleted is that of a     *)
(* desired group, so that no desired flow is deleted with it.              *)
LEMMA PutGroupDeletes ==
  ASSUME GroupIds, Fields(groups), Fields(meters), NEW s, IsTables(s),
         s.groups = GroupImage(groups.existing \union
                               Groups!Uninstalled(groups)),
         \A f \in s.flows : f.group # 0 =>
            \E e \in groups.desired : e.table_id = f.group
  PROVE  \E u : /\ DeletesGroups(s, GroupDeletes, u)
                /\ GroupDeletes = {} => s = u
                /\ u = [flows |-> s.flows, meters |-> s.meters,
                        groups |-> GroupImage(GroupsAfterPut.existing)]
<1> DEFINE ms == GroupDeletes
           u == [flows |-> {f \in s.flows : \A m \in ms : f.group # m.id},
                 groups |-> {g \in s.groups : \A m \in ms : g.id # m.id},
                 meters |-> s.meters]
<1>1. \A m \in ms : /\ m.type = "group_delete"
                    /\ \E e \in Groups!Unwanted(groups) : e.table_id = m.id
  BY DEF GroupDeletes
<1>2. \A e \in Groups!Unwanted(groups) :
         [type |-> "group_delete", id |-> e.table_id] \in ms
  BY SMTT(30) DEF GroupDeletes
<1>3. \A m \in ms : m.id # 0
  BY <1>1, SMTT(30) DEF GroupIds, Groups!TypeOK, Groups!Table, Groups!Info,
              Groups!TableIds, Groups!Unwanted
<1>4. \A m \in ms, e \in groups.desired : m.id # e.table_id
  BY <1>1, SMTT(30) DEF GroupIds, Groups!OneIdPerName, Groups!Unwanted,
     Groups!Lookup
<1>5. \A e \in groups.existing :
         (\A m \in ms : m.id # e.table_id) <=> e \notin Groups!Unwanted(groups)
  <2> SUFFICES ASSUME NEW e \in groups.existing
               PROVE  (\A m \in ms : m.id # e.table_id)
                         <=> e \notin Groups!Unwanted(groups)
    OBVIOUS
  <2>1. e \in Groups!Unwanted(groups) => \E m \in ms : m.id = e.table_id
    <3> DEFINE m == [type |-> "group_delete", id |-> e.table_id]
    <3>1. m.id = e.table_id
      OBVIOUS
    <3> QED
      BY <1>2, <3>1, Zenon
  <2>2. ASSUME e \notin Groups!Unwanted(groups), NEW m \in ms
        PROVE  m.id # e.table_id
    <3>1. PICK d \in groups.desired : d.table_id = e.table_id
      BY <2>2, SMTT(30) DEF Groups!Unwanted, Groups!Lookup
    <3> QED
      BY <1>4, <3>1, SMTT(30)
  <2> QED
    BY <2>1, <2>2
<1> HIDE DEF ms
<1>6. u.flows = s.flows
  BY <1>3, <1>4, SMTT(30)
<1>7. u.groups = GroupImage(GroupsAfterPut.existing)
  <2>1. \A e \in Groups!Uninstalled(groups), m \in ms : m.id # e.table_id
    BY <1>4, SMTT(30) DEF Groups!Uninstalled
  <2>2. GroupsAfterPut.existing
          = (groups.existing \ Groups!Unwanted(groups))
              \union Groups!Uninstalled(groups)
    BY ExistingAfterPut, SMTT(30)
  <2> QED
    BY <1>5, <2>1, <2>2 DEF GroupImage
<1>8. DeletesGroups(s, ms, u)
  BY <1>1 DEF DeletesGroups
<1>9. ms = {} => s = u
  BY DEF IsTables, Tables
<1> QED
  BY <1>6, <1>7, <1>8, <1>9, Zenon DEF ms

MeterIds(es) == {e.table_id : e \in es}

LEMMA PutMeterAdds ==
  ASSUME NEW s, IsTables(s), s.meters \subseteq MeterIds(meters.existing)
  PROVE  \E u : /\ AddsMeters(s, MeterAdds, u)
                /\ MeterAdds = {} => s = u
                /\ u = [flows |-> s.flows, groups |-> s.groups,
                        meters |-> u.meters]
                /\ u.meters \subseteq MeterIds(meters.existing \union
                                               Meters!Uninstalled(meters))
<1> DEFINE ms == MeterAdds
           u == [flows |-> s.flows, groups |-> s.groups,
                 meters |-> s.meters \union {m.id : m \in ms}]
<1>1. \A m \in ms : /\ m.type = "meter_add"
                    /\ \E e \in Meters!Uninstalled(meters) : m.id = e.table_id
  BY DEF MeterAdds
<1> HIDE DEF ms
<1>2. AddsMeters(s, ms, u) /\ (ms = {} => s = u)
  BY <1>1 DEF AddsMeters, IsTables, Tables
<1>3. u.meters \subseteq MeterIds(meters.existing \union
                                  Meters!Uninstalled(meters))
  BY <1>1 DEF MeterIds
<1> QED
  BY <1>2, <1>3, Zenon DEF ms

LEMMA PutMeterDeletes ==
  ASSUME Fields(groups), Fields(meters), NEW s, IsTables(s),
         s.meters \subseteq MeterIds(meters.existing \union
                                     Meters!Uninstalled(meters))
  PROVE  \E u : /\ DeletesMeters(s, MeterDeletes, u)
                /\ MeterDeletes = {} => s = u
                /\ u = [flows |-> s.flows, groups |-> s.groups,
                        meters |-> u.meters]
                /\ u.meters \subseteq MeterIds(MetersAfterPut.existing)
<1> DEFINE ms == MeterDeletes
           u == [flows |-> s.flows, groups |-> s.groups,
                 meters |-> {i \in s.meters : \A m \in ms : i # m.id}]
<1>1. \A m \in ms : m.type = "meter_delete"
  BY DEF MeterDeletes
<1>2. ASSUME NEW e \in Meters!Unwanted(meters)
      PROVE  \E m \in ms : m.id = e.table_id
  <2> DEFINE m == [type |-> "meter_delete", id |-> e.table_id]
  <2>1. m \in ms
    BY DEF MeterDeletes
  <2> QED
    BY <2>1
<1> HIDE DEF ms
<1>3. DeletesMeters(s, ms, u) /\ (ms = {} => s = u)
  BY <1>1, SMTT(30) DEF DeletesMeters, IsTables, Tables
<1>4. u.meters \subseteq MeterIds(MetersAfterPut.existing)
  BY <1>2, ExistingAfterPut, SMTT(30) DEF MeterIds
<1> QED
  BY <1>3, <1>4, SMTT(30) DEF ms

(* What the loops of lflow_run() leave to ofctrl_put().                    *)
FlowInv ==
  /\ Fields(meters)
  /\ \A f \in flow_table : IsFlow(f) /\ f.key # BaseKey
  /\ UniqueKeys(flow_table) /\ UniqueKeys(installed_flows)
  /\ pc = "lflow_run" =>
       \A f \in flow_table : f.group # 0 =>
          \E e \in groups.desired : e.table_id = f.group /\ e.name = f.lb

(* The switch's tables are what ofctrl.c believes.                         *)
Matches(s) ==
  /\ s.flows = installed_flows
  /\ s.groups = GroupImage(groups.existing)
  /\ s.meters \subseteq MeterIds(meters.existing)

LEMMA DesiredFlows ==
  ASSUME FlowInv, pc = "lflow_run"
  PROVE  /\ UniqueKeys(Desired)
         /\ \A d \in Desired :
              /\ IsFlow(d)
              /\ d.group # 0 =>
                   \E e \in groups.desired : /\ e.table_id = d.group
                                             /\ e.name = d.lb
<1>1. IsFlow(BaseFlow) /\ BaseFlow.group = 0 /\ BaseFlow.key = BaseKey
  BY DEF BaseFlow, IsFlow
<1> QED
  BY <1>1 DEF FlowInv, Desired, UniqueKeys

(* The messages of a put turn tables that are what ofctrl.c believes into  *)
(* tables that are what ofctrl.c then believes.                            *)
LEMMA PutEnds ==
  ASSUME GroupIds, Fields(groups), FlowInv, pc = "lflow_run",
         NEW nb \in Nat, NEW s, IsTables(s), Matches(s)
  PROVE  /\ IsQueue(PutMessages(Desired, nb))
         /\ \E u : /\ Ends(PutMessages(Desired, nb), s, u)
                   /\ IsTables(u)
                   /\ u.flows = {Install(d) : d \in Desired}
                   /\ u.groups = GroupImage(GroupsAfterPut.existing)
                   /\ u.meters \subseteq MeterIds(MetersAfterPut.existing)
<1> USE DEF Leads
<1>1. /\ Ends(NonEmpty(FlushMessages, nb), s, s)
      /\ IsQueue(NonEmpty(FlushMessages, nb))
  <2>1. LeavesTables(s, FlushMessages, s)
    BY DEF LeavesTables, FlushMessages
  <2> QED
    BY <2>1, EndsNonEmpty, SMTT(30)
<1>2. PICK s2 : /\ AddsGroups(s, GroupAdds, s2)
                /\ GroupAdds = {} => s = s2
                /\ s2 = [flows |-> s.flows, meters |-> s.meters,
                         groups |-> GroupImage(groups.existing \union
                                               Groups!Uninstalled(groups))]
  BY PutGroupAdds, SMTT(30) DEF Matches
<1>3. IsTables(s2)
  BY <1>2 DEF IsTables, Tables
<1>4. PICK s3 : /\ AddsMeters(s2, MeterAdds, s3)
                /\ MeterAdds = {} => s2 = s3
                /\ s3 = [flows |-> s2.flows, groups |-> s2.groups,
                         meters |-> s3.meters]
                /\ s3.meters \subseteq MeterIds(meters.existing \union
                                                Meters!Uninstalled(meters))
  BY <1>2, <1>3, PutMeterAdds, Zenon DEF Matches
<1>5. /\ IsTables(s3) /\ s3.flows = installed_flows
      /\ s3.groups = GroupImage(groups.existing \union
                                Groups!Uninstalled(groups))
  BY <1>2, <1>4, SMTT(30) DEF IsTables, Tables, Matches
<1>6. \A d \in Desired : IsFlow(d) /\ Reaches(s3, d)
  <2> SUFFICES ASSUME NEW d \in Desired, d.group # 0
               PROVE  [id |-> d.group, name |-> d.lb] \in s3.groups
    BY DesiredFlows, Zenon DEF Reaches
  <2>1. PICK e \in groups.desired : e.table_id = d.group /\ e.name = d.lb
    BY DesiredFlows, SMTT(30)
  <2>2. PICK f \in groups.existing \union Groups!Uninstalled(groups) :
           f.name = e.name /\ f.table_id = e.table_id
    BY SMTT(30) DEF Groups!Uninstalled, Groups!Lookup
  <2> QED
    BY <1>5, <2>1, <2>2 DEF GroupImage
<1>7. PICK s4, s5 :
        /\ ChangesFlows(s3, FlowChanges(Desired), s4)
        /\ FlowChanges(Desired) = {} => s3 = s4
        /\ AddsFlows(s4, FlowAdds(Desired), s5)
        /\ FlowAdds(Desired) = {} => s4 = s5
        /\ s5 = [flows |-> {Install(d) : d \in Desired},
                 groups |-> s3.groups, meters |-> s3.meters]
  <2>1. UniqueKeys(Desired) /\ UniqueKeys(installed_flows)
    BY DesiredFlows, SMTT(30) DEF FlowInv
  <2> QED
    BY <1>5, <1>6, <2>1, PutFlows, SMTT(30)
<1>8. IsTables(s5)
  BY <1>7, SMTT(30) DEF IsTables, Tables
<1>9. \A f \in s5.flows : f.group # 0 =>
         \E e \in groups.desired : e.table_id = f.group
  <2>1. \A d \in Desired : Install(d).group = d.group
    BY DesiredFlows DEF Install, SameActions, IsFlow
  <2> QED
    BY <1>7, <2>1, DesiredFlows
<1>10. PICK s6 : /\ DeletesGroups(s5, GroupDeletes, s6)
                 /\ GroupDeletes = {} => s5 = s6
                 /\ s6 = [flows |-> s5.flows, meters |-> s5.meters,
                          groups |-> GroupImage(GroupsAfterPut.existing)]
  BY <1>5, <1>7, <1>8, <1>9, PutGroupDeletes, Zenon DEF FlowInv
<1>11. IsTables(s6) /\ s6.meters = s3.meters
  BY <1>7, <1>10, SMTT(30) DEF IsTables, Tables
<1>12. PICK s7 : /\ DeletesMeters(s6, MeterDeletes, s7)
                 /\ MeterDeletes = {} => s6 = s7
                 /\ s7 = [flows |-> s6.flows, groups |-> s6.groups,
                          meters |-> s7.meters]
                 /\ s7.meters \subseteq MeterIds(MetersAfterPut.existing)
  BY <1>4, <1>11, PutMeterDeletes, SMTT(30) DEF FlowInv
<1>13. /\ IsTables(s7)
       /\ s7.flows = {Install(d) : d \in Desired}
       /\ s7.groups = GroupImage(GroupsAfterPut.existing)
  BY <1>7, <1>10, <1>12 DEF IsTables, Tables
<1>14. /\ Ends(NonEmpty(GroupAdds, nb), s, s2)
       /\ IsQueue(NonEmpty(GroupAdds, nb))
  BY <1>2, EndsNonEmpty, SMTT(30)
<1>15. /\ Ends(NonEmpty(MeterAdds, nb), s2, s3)
       /\ IsQueue(NonEmpty(MeterAdds, nb))
  BY <1>4, EndsNonEmpty, SMTT(30)
<1>16. /\ Ends(NonEmpty(FlowChanges(Desired), nb), s3, s4)
       /\ IsQueue(NonEmpty(FlowChanges(Desired), nb))
  BY <1>7, EndsNonEmpty, SMTT(30)
<1>17. /\ Ends(NonEmpty(FlowAdds(Desired), nb), s4, s5)
       /\ IsQueue(NonEmpty(FlowAdds(Desired), nb))
  BY <1>7, EndsNonEmpty, SMTT(30)
<1>18. /\ Ends(NonEmpty(GroupDeletes, nb), s5, s6)
       /\ IsQueue(NonEmpty(GroupDeletes, nb))
  BY <1>10, EndsNonEmpty, SMTT(30)
<1>19. /\ Ends(NonEmpty(MeterDeletes, nb), s6, s7)
       /\ IsQueue(NonEmpty(MeterDeletes, nb))
  BY <1>12, EndsNonEmpty
<1> DEFINE q1 == NonEmpty(FlushMessages, nb)
           q2 == q1 \o NonEmpty(GroupAdds, nb)
           q3 == q2 \o NonEmpty(MeterAdds, nb)
           q4 == q3 \o NonEmpty(FlowChanges(Desired), nb)
           q5 == q4 \o NonEmpty(FlowAdds(Desired), nb)
           q6 == q5 \o NonEmpty(GroupDeletes, nb)
           q7 == q6 \o NonEmpty(MeterDeletes, nb)
<1>20. Ends(q2, s, s2) /\ IsQueue(q2)
  BY <1>1, <1>14, EndsConcat
<1> HIDE DEF q2
<1>21. Ends(q3, s, s3) /\ IsQueue(q3)
  BY <1>15, <1>20, EndsConcat
<1> HIDE DEF q3
<1>22. Ends(q4, s, s4) /\ IsQueue(q4)
  BY <1>16, <1>21, EndsConcat
<1> HIDE DEF q4
<1>23. Ends(q5, s, s5) /\ IsQueue(q5)
  BY <1>17, <1>22, EndsConcat
<1> HIDE DEF q5
<1>24. Ends(q6, s, s6) /\ IsQueue(q6)
  BY <1>18, <1>23, EndsConcat
<1> HIDE DEF q6
<1>25. Ends(q7, s, s7) /\ IsQueue(q7)
  BY <1>19, <1>24, EndsConcat
<1>26. PutMessages(Desired, nb) = q7
  BY DEF PutMessages, q2, q3, q4, q5, q6
<1> HIDE DEF q7
<1> QED
  BY <1>12, <1>13, <1>25, <1>26

-----------------------------------------------------------------------------
(* The invariant. *)

(* What is under way leads from the switch's tables to those that ofctrl.c *)
(* believes in.                                                            *)
Target(t) ==
  /\ IsTables(t)
  /\ Ends(toSwitch, Tables(sw), t)
  /\ link /\ state = "S_UPDATE_FLOWS" => Matches(t)

SyncInv ==
  /\ GroupsInv /\ ChannelInv /\ FlowInv
  /\ AllReach(Tables(sw))
  /\ \E t : Target(t)

LEMMA InitSync == Init => SyncInv
<1> SUFFICES ASSUME Init
             PROVE  SyncInv
  OBVIOUS
<1>1. GroupsInv
  BY InitGroupsInv, SMTT(30)
<1>2. /\ sw = [flows |-> {}, groups |-> {}, meters |-> {}, tlv |-> sw.tlv]
      /\ toSwitch = <<>> /\ toCtl = <<>> /\ ~ link
      /\ sb.nb_cfg = 0 /\ next_xid = 1
  BY DEF Init
<1>3. ChannelInv
  BY InitChannel, SMTT(30)
<1>4. FlowInv
  BY DEF Init, FlowInv, Fields, UniqueKeys, Meters!ovn_extend_table_init
<1>5. AllReach(Tables(sw))
  BY <1>2, SMTT(30) DEF AllReach, Tables
<1>6. Target(Tables(sw))
  BY <1>2, EndsEmpty DEF Target, IsTables, Tables
<1> QED
  BY <1>1, <1>3, <1>4, <1>5, <1>6 DEF SyncInv

LEMMA SendEnds ==
  ASSUME IsQueue(toSwitch), NEW bs, IsQueue(bs), Send(bs), link,
         NEW s, NEW t, NEW u, Ends(toSwitch, s, t), Ends(bs, t, u)
  PROVE  Ends(toSwitch', s, u)
BY EndsConcat, Zenon DEF Send

(* Messages of the negotiation.                                            *)
LEMMA SendQuiet ==
  ASSUME IsQueue(toSwitch), NEW bs, IsQueue(bs), Send(bs),
         \A i \in 1 .. Len(bs) : \A m \in bs[i].msgs :
            m.type \in {"tlv_request", "tlv_mod", "barrier"},
         NEW s, NEW t, Ends(toSwitch, s, t)
  PROVE  Ends(toSwitch', s, t)
<1>1. CASE ~ link
  BY <1>1, SMTT(30) DEF Send
<1>2. CASE link
  <2>1. Path(bs, t, t, [i \in 0 .. Len(bs) |-> t])
    <3>1. Len(bs) \in Nat
      BY QueueConcat, SMTT(30)
    <3>2. \A i \in 1 .. Len(bs) : LeavesTables(t, bs[i].msgs, t)
      BY DEF LeavesTables
    <3>3. \A i \in 1 .. Len(bs) : i - 1 \in 0 .. Len(bs) /\ i \in 0 .. Len(bs)
      BY <3>1, SMTT(30)
    <3>4. \A i \in 1 .. Len(bs) : Leads(t, bs[i].msgs, t)
      BY <3>2, Zenon DEF Leads
    <3> QED
      BY <3>1, <3>3, <3>4 DEF Path
  <2> QED
    BY <1>2, <2>1, SendEnds DEF Ends
<1> QED
  BY <1>1, <1>2, SMTT(30)

(* run_S_CLEAR_FLOWS(): the switch's tables will be empty.                 *)
LEMMA ClearEnds ==
  ASSUME NEW t, IsTables(t)
  PROVE  Ends(ClearMessages, t, [flows |-> {}, groups |-> {}, meters |-> {}])
<1> DEFINE m1 == [type |-> "clear_flows"]
           m2 == [type |-> "clear_groups"]
           m3 == [type |-> "clear_meters"]
           t1 == [flows |-> {}, groups |-> t.groups, meters |-> t.meters]
           t2 == [flows |-> {}, groups |-> {}, meters |-> t.meters]
           t3 == [flows |-> {}, groups |-> {}, meters |-> {}]
<1>1. t1 = Apply(t, m1)
  BY DEF Apply, IsTables, Tables
<1>2. t2 = Apply(t1, m2)
  BY Zenon DEF Apply
<1>3. t3 = Apply(t2, m3)
  BY DEF Apply
<1>4. /\ m1.type = "clear_flows" /\ m2.type = "clear_groups"
      /\ m3.type = "clear_meters"
  OBVIOUS
<1> DEFINE st == [i \in 0 .. 3 |-> CASE i = 0 -> t [] i = 1 -> t1
                                     [] i = 2 -> t2 [] OTHER -> t3]
<1>5. st[0] = t /\ st[1] = t1 /\ st[2] = t2 /\ st[3] = t3
  BY SMTT(30)
<1> HIDE DEF st, t1, t2, t3, m1, m2, m3
<1>6. Leads(t, {m1}, t1) /\ Leads(t1, {m2}, t2) /\ Leads(t2, {m3}, t3)
  BY <1>1, <1>2, <1>3, <1>4 DEF Leads, ClearsTable
<1>7. \A i \in 1 .. 3 : \/ i = 1 /\ i - 1 = 0
                        \/ i = 2 /\ i - 1 = 1
                        \/ i = 3 /\ i - 1 = 2
  OBVIOUS
<1>8. Path(ClearMessages, t, t3, st)
  BY <1>5, <1>6, <1>7, ClearQueue, ZenonT(30) DEF Path, m1, m2, m3
<1> QED
  BY <1>8, Zenon DEF Ends, t3

(* The translation gives a flow the id of the group that it names.         *)
LEMMA TranslationFlow ==
  ASSUME SyncInv, consider_logical_flow
  PROVE  FlowInv'
<1>0. FlowInv /\ Fields(groups) /\ todo \subseteq LogicalFlows
  BY SMTT(30) DEF SyncInv, GroupsInv
<1>1. pc = "lflow_run" /\ pc' = pc /\ installed_flows' = installed_flows
  BY DEF consider_logical_flow
<1> DEFINE gid(lf) == IF lf.group = NoName THEN 0
                      ELSE Groups!AssignedId(groups, lf.group)
           flow(lf, mid) ==
             [key |-> lf.key, cookie |-> lf.uuid, group |-> gid(lf),
              meter |-> mid, lb |-> IF gid(lf) = 0 THEN NoName ELSE lf.group]
<1>2. PICK lf \in todo :
         /\ groups' = IF lf.group = NoName THEN groups
                      ELSE Groups!AssignId(groups, lf.group)
         /\ meters' = IF lf.meter = NoName THEN meters
                      ELSE Meters!AssignId(meters, lf.meter)
         /\ \E mid : flow_table' = IF Has(flow_table, lf.key) THEN flow_table
                                   ELSE flow_table \union {flow(lf, mid)}
  BY Zenon DEF consider_logical_flow
<1>3. PICK mid : flow_table' = IF Has(flow_table, lf.key) THEN flow_table
                               ELSE flow_table \union {flow(lf, mid)}
  BY <1>2, Zenon
<1>4. Fields(meters')
  BY <1>0, <1>2, Zenon DEF FlowInv, Fields, Meters!AssignId
<1>5. groups.desired \subseteq groups'.desired
  BY <1>0, <1>2 DEF Fields, Groups!AssignId
<1>6. gid(lf) # 0 => \E e \in groups'.desired : /\ e.table_id = gid(lf)
                                                /\ e.name = lf.group
  <2> SUFFICES ASSUME gid(lf) # 0
               PROVE  \E e \in groups'.desired : /\ e.table_id = gid(lf)
                                                 /\ e.name = lf.group
    OBVIOUS
  <2>1. lf.group # NoName /\ gid(lf) = Groups!AssignedId(groups, lf.group)
    OBVIOUS
  <2>2. CASE Groups!Named(groups.desired, lf.group) # {}
    <3> DEFINE e == CHOOSE x \in Groups!Named(groups.desired, lf.group) : TRUE
    <3>1. e \in Groups!Named(groups.desired, lf.group)
      BY <2>2, SMTT(30)
    <3>2. gid(lf) = e.table_id
      BY <2>1, <2>2, SMTT(30) DEF Groups!AssignedId
    <3> HIDE DEF e
    <3> QED
      BY <1>5, <3>1, <3>2 DEF Groups!Named
  <2>3. CASE Groups!Named(groups.desired, lf.group) = {}
    <3> DEFINE c == Groups!Candidate(groups, lf.group)
               e == [name |-> lf.group, table_id |-> c,
                     new_table_id |->
                       Groups!Named(groups.existing, lf.group) = {}]
    <3>1. c # MAX_EXT_TABLE_ID + 1 /\ gid(lf) = c
      BY <2>1, <2>3 DEF Groups!AssignedId, Groups!EXT_TABLE_ID_INVALID
    <3>2. e \in groups'.desired
      BY <1>0, <1>2, <2>1, <2>3, <3>1 DEF Fields, Groups!AssignId
    <3>3. e.table_id = gid(lf) /\ e.name = lf.group
      BY <3>1, SMTT(30)
    <3> HIDE DEF e
    <3> QED
      BY <3>2, <3>3, SMTT(30)
  <2> QED
    BY <2>2, <2>3, Zenon
<1>7. lf.key # BaseKey
  BY <1>0, BoundsAssumption
<1>8. /\ IsFlow(flow(lf, mid)) /\ flow(lf, mid).key = lf.key
      /\ flow(lf, mid).group = gid(lf)
      /\ gid(lf) # 0 => flow(lf, mid).lb = lf.group
  BY DEF IsFlow
<1> HIDE DEF flow, gid
<1>9. \A f \in flow_table' : IsFlow(f) /\ f.key # BaseKey
  BY <1>0, <1>3, <1>7, <1>8, Zenon DEF FlowInv
<1>10. UniqueKeys(flow_table')
  <2>1. CASE Has(flow_table, lf.key)
    BY <1>0, <1>3, <2>1 DEF FlowInv
  <2>2. CASE ~ Has(flow_table, lf.key)
    <3>1. \A f \in flow_table : f.key # lf.key
      BY <2>2, Zenon DEF Has
    <3>2. \A f \in flow_table' : f \in flow_table \/ f = flow(lf, mid)
      BY <1>3
    <3> QED
      BY <1>0, <1>8, <3>1, <3>2, Zenon DEF FlowInv, UniqueKeys
  <2> QED
    BY <2>1, <2>2, SMTT(30)
<1>11. \A f \in flow_table' : f.group # 0 =>
          \E e \in groups'.desired : e.table_id = f.group /\ e.name = f.lb
  BY <1>0, <1>1, <1>3, <1>5, <1>6, <1>8, Zenon DEF FlowInv
<1> QED
  BY <1>0, <1>1, <1>4, <1>9, <1>10, <1>11, Zenon DEF FlowInv

LEMMA NextFlow ==
  ASSUME SyncInv, GroupIds, [Next]_vars
  PROVE  FlowInv'
<1> USE DEF loopVars, flowVars
<1>0. FlowInv
  BY DEF SyncInv
<1>1. CASE /\ UNCHANGED <<flow_table, installed_flows, groups, meters>>
           /\ pc' = "lflow_run" => pc = "lflow_run"
  BY <1>0, <1>1 DEF FlowInv, Fields
<1>2. CASE run_S_CLEAR_FLOWS
  <2>1. /\ UNCHANGED <<pc, flow_table>> /\ pc = "run" /\ installed_flows' = {}
        /\ meters' = Meters!ClearExisting(meters)
    BY <1>2, SMTT(30) DEF run_S_CLEAR_FLOWS
  <2> QED
    BY <1>0, <2>1, Zenon DEF FlowInv, Fields, UniqueKeys, Meters!ClearExisting
<1>3. CASE body_lflow_run
  <2>1. /\ flow_table' = {} /\ UNCHANGED <<installed_flows, meters>>
    BY <1>3 DEF body_lflow_run
  <2> QED
    BY <1>0, <2>1, SMTT(30) DEF FlowInv, Fields, UniqueKeys
<1>4. CASE consider_logical_flow
  BY <1>4, TranslationFlow, SMTT(30)
<1>5. CASE ofctrl_put
  <2>1. /\ flow_table' = {} /\ pc = "lflow_run" /\ pc' = "idle"
        /\ installed_flows' = {Install(d) : d \in Desired}
        /\ meters' = MetersAfterPut
    BY <1>5 DEF ofctrl_put, Desired
  <2>2. \A d \in Desired : Install(d).key = d.key
    BY <1>0, <2>1, DesiredFlows, SMTT(30) DEF Install, IsFlow, Has, Get
  <2>3. UniqueKeys(installed_flows')
    BY <1>0, <2>1, <2>2, DesiredFlows DEF UniqueKeys
  <2>4. Fields(meters')
    BY <1>0, <2>1, Zenon
       DEF FlowInv, Fields, MetersAfterPut, Meters!Move, Meters!RemoveUnwanted
  <2> QED
    BY <2>1, <2>3, <2>4 DEF FlowInv, UniqueKeys
<1>6. CASE \/ ofctrl_run_connected \/ ofctrl_run_unconnected
           \/ ofctrl_run_reconnected \/ run_S_NEW
           \/ recv_S_TLV_TABLE_REQUESTED \/ recv_S_TLV_TABLE_MOD_SENT
           \/ recv_S_UPDATE_FLOWS \/ ofctrl_run_done
  BY <1>1, <1>6, Zenon
     DEF ofctrl_run_connected, ofctrl_run_unconnected, ofctrl_run_reconnected,
         run_S_NEW, recv_S_TLV_TABLE_REQUESTED, recv_S_TLV_TABLE_MOD_SENT,
         recv_S_UPDATE_FLOWS, ofctrl_run_done
<1>7. CASE \/ body_skip \/ SbChange \/ update_ct_zones \/ Drain
           \/ Disconnect \/ SwitchStep \/ OtherController \/ UNCHANGED vars
  BY <1>1, <1>7, SMTT(30)
     DEF body_skip, SbChange, update_ct_zones, Drain, Disconnect, SwitchStep,
         OtherController, vars
<1> QED
  BY <1>2, <1>3, <1>4, <1>5, <1>6, <1>7 DEF Next, Loop, Run

(* A step that sends nothing and leaves what ofctrl.c believes alone.      *)
LEMMA SameTarget ==
  ASSUME SyncInv, UNCHANGED <<toSwitch, sw, installed_flows>>,
         groups'.existing = groups.existing,
         meters'.existing = meters.existing,
         link' /\ state' = "S_UPDATE_FLOWS"
            => link /\ state = "S_UPDATE_FLOWS"
  PROVE  AllReach(Tables(sw))' /\ \E t : Target(t)'
<1>1. PICK t : Target(t)
  BY SMTT(30) DEF SyncInv
<1>2. Matches(t) <=> Matches(t)'
  BY SMTT(30) DEF Matches
<1>3. Target(t)'
  BY <1>1, <1>2, SMTT(30) DEF Target
<1> QED
  BY <1>3, SMTT(30) DEF SyncInv

(* A message of the negotiation is sent.                                   *)
LEMMA QuietTarget ==
  ASSUME SyncInv, UNCHANGED sw, NEW bs, IsQueue(bs), Send(bs),
         \A i \in 1 .. Len(bs) : \A m \in bs[i].msgs :
            m.type \in {"tlv_request", "tlv_mod", "barrier"},
         state' # "S_UPDATE_FLOWS"
  PROVE  AllReach(Tables(sw))' /\ \E t : Target(t)'
<1>1. PICK t : Target(t)
  BY DEF SyncInv
<1>2. IsQueue(toSwitch)
  BY SMTT(30) DEF SyncInv, ChannelInv
<1>3. Ends(toSwitch', Tables(sw), t)
  BY <1>1, <1>2, SendQuiet DEF Target
<1>4. Target(t)'
  BY <1>1, <1>3, Zenon DEF Target
<1> QED
  BY <1>4, SMTT(30) DEF SyncInv

LEMMA PutTarget ==
  ASSUME SyncInv, GroupIds, ofctrl_put
  PROVE  AllReach(Tables(sw))' /\ \E t : Target(t)'
<1> DEFINE nb == sb.nb_cfg
           bs == PutMessages(Desired, nb)
           b  == <<Batch({[type |-> "barrier", xid |-> next_xid]}, nb)>>
<1>0. /\ GroupsInv /\ ChannelInv /\ FlowInv /\ Fields(groups) /\ nb \in Nat
      /\ IsQueue(toSwitch)
  BY DEF SyncInv, GroupsInv, ChannelInv
<1>1. /\ pc = "lflow_run" /\ state = "S_UPDATE_FLOWS"
      /\ UNCHANGED <<sw, state, link>>
      /\ installed_flows' = {Install(d) : d \in Desired}
      /\ groups' = GroupsAfterPut /\ meters' = MetersAfterPut
      /\ \/ Send(bs \o b)
         \/ bs = <<>> /\ UNCHANGED toSwitch
  BY DEF ofctrl_put, ofctrl_can_put, Desired, tlvVars, connVars, swVars, netVars
<1>2. AllReach(Tables(sw))'
  BY <1>1 DEF SyncInv
<1>3. PICK t : Target(t)
  BY DEF SyncInv
<1>4. CASE ~ link
  <2>1. toSwitch' = toSwitch
    BY <1>1, <1>4, SMTT(30) DEF Send
  <2>2. Target(t)'
    BY <1>1, <1>3, <1>4, <2>1 DEF Target
  <2> QED
    BY <1>2, <2>2, SMTT(30)
<1>5. CASE link
  <2>1. IsTables(t) /\ Matches(t) /\ Ends(toSwitch, Tables(sw), t)
    BY <1>1, <1>3, <1>5 DEF Target
  <2>2. /\ IsQueue(bs)
        /\ \E u : /\ Ends(bs, t, u)
                  /\ IsTables(u)
                  /\ u.flows = {Install(d) : d \in Desired}
                  /\ u.groups = GroupImage(GroupsAfterPut.existing)
                  /\ u.meters \subseteq MeterIds(MetersAfterPut.existing)
    BY <1>0, <1>1, <2>1, PutEnds, Zenon
  <2>3. PICK u : /\ Ends(bs, t, u)
                 /\ IsTables(u)
                 /\ u.flows = {Install(d) : d \in Desired}
                 /\ u.groups = GroupImage(GroupsAfterPut.existing)
                 /\ u.meters \subseteq MeterIds(MetersAfterPut.existing)
    BY <2>2, Zenon
  <2>4. Matches(u)'
    BY <1>1, <2>3 DEF Matches
  <2>5. CASE Send(bs \o b)
    <3>1. LeavesTables(u, {[type |-> "barrier", xid |-> next_xid]}, u)
      BY DEF LeavesTables
    <3>2. Ends(b, u, u) /\ IsQueue(b)
      BY <1>0, <3>1, EndsSingle, QueueSingle, Zenon DEF Leads
    <3> HIDE DEF bs, b
    <3>3. Ends(bs \o b, t, u) /\ IsQueue(bs \o b)
      BY <2>2, <2>3, <3>2, EndsConcat, Zenon
    <3>4. Ends(toSwitch', Tables(sw), u)
      BY <1>0, <1>5, <2>1, <2>5, <3>3, SendEnds
    <3>5. Target(u)'
      BY <1>1, <2>3, <2>4, <3>4 DEF Target
    <3> QED
      BY <1>2, <3>5, SMTT(30)
  <2>6. CASE bs = <<>> /\ UNCHANGED toSwitch
    <3>1. u = t
      BY <2>3, <2>6, EndsEmpty, SMTT(30)
    <3>2. Target(u)'
      BY <1>1, <2>1, <2>4, <2>6, <3>1 DEF Target
    <3> QED
      BY <1>2, <3>2, SMTT(30)
  <2> QED
    BY <1>1, <2>5, <2>6
<1> QED
  BY <1>4, <1>5, SMTT(30)

LEMMA NextTarget ==
  ASSUME SyncInv, GroupIds, [Next]_vars
  PROVE  AllReach(Tables(sw))' /\ \E t : Target(t)'
<1> USE DEF loopVars, tlvVars, flowVars, connVars, netVars, swVars
<1>0. GroupsInv /\ ChannelInv /\ FlowInv
  BY SMTT(30) DEF SyncInv
<1>1. CASE \/ ofctrl_run_connected \/ ofctrl_run_unconnected
           \/ ofctrl_run_reconnected
  BY <1>1, SameTarget DEF ofctrl_run_connected, ofctrl_run_unconnected,
                          ofctrl_run_reconnected
<1>2. CASE run_S_NEW
  <2> DEFINE bs == <<Batch({[type |-> "tlv_request", xid |-> next_xid]}, 0)>>
  <2>1. /\ IsQueue(bs)
        /\ Len(bs) = 1 /\ bs[1].msgs = {[type |-> "tlv_request",
                                         xid |-> next_xid]}
    BY QueueSingle, ZenonT(30)
  <2>2. Send(bs) /\ UNCHANGED sw /\ state' # "S_UPDATE_FLOWS"
    BY <1>2, SMTT(30) DEF run_S_NEW
  <2> HIDE DEF bs
  <2>3. \A i \in 1 .. Len(bs) : \A m \in bs[i].msgs :
           m.type \in {"tlv_request", "tlv_mod", "barrier"}
    <3>1. \A i \in 1 .. 1 : i = 1
      OBVIOUS
    <3> QED
      BY <2>1, <3>1
  <2> QED
    BY <2>1, <2>2, <2>3, QuietTarget, Zenon
<1>3. CASE run_S_CLEAR_FLOWS
  <2>1. /\ Send(ClearMessages) /\ UNCHANGED <<sw, link>>
        /\ installed_flows' = {}
        /\ groups' = Groups!ClearExisting(groups)
        /\ meters' = Meters!ClearExisting(meters)
    BY <1>3 DEF run_S_CLEAR_FLOWS
  <2>2. PICK t : Target(t)
    BY DEF SyncInv
  <2> DEFINE u == [flows |-> {}, groups |-> {}, meters |-> {}]
  <2>3. groups'.existing = {} /\ meters'.existing = {}
    BY <1>0, <2>1 DEF GroupsInv, FlowInv, Fields, Groups!ClearExisting,
                      Meters!ClearExisting
  <2>4. Matches(u)' /\ IsTables(u)
    BY <2>1, <2>3, Zenon DEF Matches, GroupImage, MeterIds, IsTables, Tables
  <2>5. CASE link
    <3>1. Ends(toSwitch', Tables(sw), u)
      BY <1>0, <2>1, <2>2, <2>5, ClearQueue, ClearEnds, SendEnds, Zenon
         DEF ChannelInv, Target
    <3> HIDE DEF u
    <3>2. Target(u)'
      BY <2>1, <2>4, <3>1 DEF Target
    <3> QED
      BY <2>1, <3>2 DEF SyncInv
  <2>6. CASE ~ link
    <3>1. Target(t)'
      BY <2>1, <2>2, <2>6 DEF Target, Send
    <3> QED
      BY <2>1, <3>1, SMTT(30) DEF SyncInv
  <2> QED
    BY <2>5, <2>6, SMTT(30)
<1>4. CASE recv_S_TLV_TABLE_REQUESTED
  <2> DEFINE bs(index) ==
               <<Batch({[type |-> "tlv_mod", xid |-> next_xid,
                         index |-> index]}, 0),
                 Batch({[type |-> "barrier", xid |-> next_xid + 1]}, 0)>>
  <2>1. /\ UNCHANGED <<sw, flowVars, link>> /\ state' # "S_UPDATE_FLOWS"
        /\ \/ UNCHANGED toSwitch
           \/ \E index : Send(bs(index))
    BY <1>4, Zenon DEF recv_S_TLV_TABLE_REQUESTED, Received, Ignored,
       RequestFailed,
                GeneveOption
  <2>2. CASE UNCHANGED toSwitch
    BY <2>1, <2>2, SameTarget, Zenon
  <2>3. ASSUME NEW index, Send(bs(index))
        PROVE  AllReach(Tables(sw))' /\ \E t : Target(t)'
    <3> DEFINE m1 == [type |-> "tlv_mod", xid |-> next_xid, index |-> index]
               m2 == [type |-> "barrier", xid |-> next_xid + 1]
               q == bs(index)
    <3>1. /\ IsQueue(q) /\ Len(q) = 2
          /\ q[1].msgs = {m1} /\ q[2].msgs = {m2}
      BY QueuePair, ZenonT(30)
    <3>2. m1.type = "tlv_mod" /\ m2.type = "barrier" /\ Send(q)
      BY <2>3
    <3> HIDE DEF m1, m2, q
    <3>3. \A i \in 1 .. 2 : i = 1 \/ i = 2
      OBVIOUS
    <3>4. \A i \in 1 .. Len(q) : \A m \in q[i].msgs :
             m.type \in {"tlv_request", "tlv_mod", "barrier"}
      BY <3>1, <3>2, <3>3
    <3> QED
      BY <2>1, <3>1, <3>2, <3>4, QuietTarget, Zenon
  <2> QED
    BY <2>1, <2>2, <2>3, Zenon
<1>5. CASE recv_S_TLV_TABLE_MOD_SENT \/ recv_S_UPDATE_FLOWS
  <2>1. /\ UNCHANGED <<toSwitch, sw, flowVars, link>>
        /\ state' = "S_UPDATE_FLOWS" => state = "S_UPDATE_FLOWS"
    BY <1>5, SMTT(30) DEF recv_S_TLV_TABLE_MOD_SENT, AfterModError,
       recv_S_UPDATE_FLOWS,
                Received, Ignored
  <2> QED
    BY <2>1, SameTarget, SMTT(30)
<1>6. CASE consider_logical_flow
  <2>1. /\ UNCHANGED <<toSwitch, sw, installed_flows, link, state>>
        /\ \/ groups' = groups
           \/ \E name : groups' = Groups!AssignId(groups, name)
        /\ \/ meters' = meters
           \/ \E name : meters' = Meters!AssignId(meters, name)
    BY <1>6, Zenon DEF consider_logical_flow
  <2>2. /\ groups'.existing = groups.existing
        /\ meters'.existing = meters.existing
    BY <1>0, <2>1, Zenon DEF GroupsInv, FlowInv, Fields, Groups!AssignId,
                      Meters!AssignId
  <2> QED
    BY <2>1, <2>2, SameTarget
<1>7. CASE ofctrl_put
  BY <1>7, PutTarget, SMTT(30)
<1>8. CASE \/ ofctrl_run_done \/ body_skip \/ body_lflow_run \/ SbChange
           \/ update_ct_zones \/ Drain
  BY <1>8, SameTarget DEF ofctrl_run_done, body_skip, body_lflow_run, SbChange,
                          update_ct_zones, Drain
<1>9. CASE Disconnect
  <2>1. toSwitch' = <<>> /\ ~ link' /\ UNCHANGED sw
    BY <1>9, SMTT(30) DEF Disconnect
  <2>2. Target(Tables(sw))'
    BY <2>1, EndsEmpty DEF Target, IsTables, Tables
  <2> QED
    BY <2>1, <2>2 DEF SyncInv
<1>10. CASE SwitchStep
  <2>1. PICK m \in Head(toSwitch).msgs :
          /\ toSwitch' = Taken(toSwitch, m)
          /\ \E a \in Answers(m) : sw' = [Apply(sw, m) EXCEPT !.tlv = a[2]]
    BY <1>10, Zenon DEF SwitchStep, Taken
  <2>2. toSwitch # <<>> /\ UNCHANGED <<link, state, flowVars>>
    BY <1>10 DEF SwitchStep
  <2>3. PICK tlv : sw' = [Apply(sw, m) EXCEPT !.tlv = tlv]
    BY <2>1, Zenon
  <2>4. Tables(sw') = Apply(Tables(sw), m)
    BY <1>0, <2>3, ApplyTables, Zenon DEF ChannelInv
  <2>5. PICK t : Target(t)
    BY SMTT(30) DEF SyncInv
  <2>6. IsTables(Tables(sw))
    BY DEF IsTables, Tables
  <2>7. /\ Ends(Taken(toSwitch, m), Apply(Tables(sw), m), t)
        /\ AllReach(Tables(sw)) => AllReach(Apply(Tables(sw), m))
    BY <1>0, <2>2, <2>5, <2>6, EndsTaken, Zenon DEF ChannelInv, Target
  <2>8. Ends(toSwitch', Tables(sw'), t) /\ AllReach(Tables(sw'))
    BY <2>1, <2>4, <2>7, SMTT(30) DEF SyncInv
  <2>9. Matches(t) <=> Matches(t)'
    BY <2>2 DEF Matches
  <2>10. Target(t)'
    BY <2>2, <2>5, <2>8, <2>9, Zenon DEF Target
  <2> QED
    BY <2>8, <2>10, Zenon
<1>11. CASE OtherController
  <2>1. /\ UNCHANGED <<toSwitch, link, state, flowVars>>
        /\ \E i, owner : sw' = [sw EXCEPT !.tlv[i] = owner]
    BY <1>11, Zenon DEF OtherController
  <2>2. Tables(sw') = Tables(sw)
    BY <1>0, <2>1 DEF ChannelInv, IsSwitch, Tables
  <2>3. PICK t : Target(t)
    BY DEF SyncInv
  <2>4. Matches(t) <=> Matches(t)'
    BY <2>1 DEF Matches
  <2>5. Target(t)'
    BY <2>1, <2>2, <2>3, <2>4 DEF Target
  <2> QED
    BY <2>2, <2>5 DEF SyncInv
<1>12. CASE UNCHANGED vars
  BY <1>12, SameTarget DEF vars
<1> QED
  BY <1>1, <1>2, <1>3, <1>4, <1>5, <1>6, <1>7, <1>8, <1>9, <1>10, <1>11,
     <1>12 DEF Next, Loop, Run

LEMMA SyncInvariant == Spec /\ []GroupIds => []SyncInv
<1>1. SyncInv /\ GroupIds /\ [Next]_vars => SyncInv'
  BY NextGroups, NextChannel, NextFlow, NextTarget DEF SyncInv
<1> QED
  BY <1>1, InitSync, PTL DEF Spec

LEMMA SyncInSync == SyncInv => SwitchInSync
<1> SUFFICES ASSUME SyncInv, CaughtUp
             PROVE  /\ sw.flows = installed_flows
                    /\ sw.groups = GroupImage(groups.existing)
                    /\ sw.meters \subseteq MeterIds(meters.existing)
  BY DEF SwitchInSync, GroupImage, MeterIds
<1>1. PICK t : Target(t)
  BY DEF SyncInv
<1>2. t = Tables(sw) /\ Matches(t)
  BY <1>1, EndsEmpty, SMTT(30) DEF Target, CaughtUp
<1> QED
  BY <1>2, SMTT(30) DEF Matches, Tables

LEMMA SyncReaches == SyncInv => FlowsReachTheirGroup
BY SMTT(30) DEF SyncInv, AllReach, Reaches, Tables, FlowsReachTheirGroup

-----------------------------------------------------------------------------
(* The acknowledgement of a configuration. *)

(* ofctrl_put() sends nothing only if the flows are installed already.     *)
LEMMA NothingToPut ==
  ASSUME SyncInv, GroupIds, pc = "lflow_run",
         PutMessages(Desired, sb.nb_cfg) = <<>>
  PROVE  /\ {Install(d) : d \in Desired} = installed_flows
         /\ installed_flows # {}
<1> DEFINE s == [flows |-> installed_flows,
                 groups |-> GroupImage(groups.existing), meters |-> {}]
<1>1. GroupsInv /\ FlowInv /\ sb.nb_cfg \in Nat
  BY SMTT(30) DEF SyncInv, ChannelInv
<1>2. IsTables(s) /\ Matches(s)
  BY Zenon DEF IsTables, Tables, Matches
<1>3. s.flows = installed_flows
  OBVIOUS
<1> HIDE DEF s
<1>4. PICK u : /\ Ends(PutMessages(Desired, sb.nb_cfg), s, u)
               /\ u.flows = {Install(d) : d \in Desired}
  BY <1>1, <1>2, PutEnds, Zenon DEF GroupsInv
<1>5. s = u
  BY <1>4, EndsEmpty, Zenon
<1>6. {Install(d) : d \in Desired} = installed_flows
  BY <1>3, <1>4, <1>5, Zenon
<1>7. BaseFlow \in Desired
  BY DEF Desired
<1>8. Install(BaseFlow) \in {Install(d) : d \in Desired}
  BY <1>7, Zenon
<1> QED
  BY <1>6, <1>8

(* The first update is confirmed, and it is the last one.                  *)
LEMMA ConfirmedInSync ==
  ASSUME SyncInv, XidInv, UpdatesInv, state = "S_UPDATE_FLOWS", FirstConfirmed
  PROVE  /\ \A i \in 1 .. Len(toSwitch) :
               toSwitch[i].nb > Head(flow_updates).nb_cfg
         /\ toSwitch = <<>> => sw.flows = installed_flows
         /\ Tail(flow_updates) = <<>> => toSwitch = <<>>
<1>1. /\ \A i \in 1 .. Len(toSwitch) :
            toSwitch[i].nb > Head(flow_updates).nb_cfg
      /\ Tail(flow_updates) = <<>> => toSwitch = <<>>
      /\ link
  BY ConfirmedIsDone, Zenon DEF SyncInv, UpdatesInv
<1>2. toSwitch = <<>> => sw.flows = installed_flows
  BY <1>1, SyncInSync, Zenon DEF SwitchInSync, CaughtUp
<1> QED
  BY <1>1, <1>2, Zenon

LEMMA NextSettled ==
  ASSUME SyncInv, GroupIds, XidInv, UpdatesInv, [Next]_vars
  PROVE  Settled'
<1> USE DEF loopVars, tlvVars, flowVars, cfgVars, connVars, netVars, swVars
<1>0. ChannelInv /\ Settled /\ Ordered(flow_updates, sb.nb_cfg) /\ Awaited
  BY Zenon DEF SyncInv, UpdatesInv
<1>1. CASE run_S_NEW \/ recv_S_TLV_TABLE_REQUESTED \/ ofctrl_run_reconnected
  <2>1. state' # "S_UPDATE_FLOWS"
    BY <1>1, Zenon DEF run_S_NEW, recv_S_TLV_TABLE_REQUESTED, Received,
       Ignored, RequestFailed, GeneveOption, ofctrl_run_reconnected
  <2> QED
    BY <2>1 DEF Settled
<1>2. CASE run_S_CLEAR_FLOWS
  BY <1>2, Zenon DEF run_S_CLEAR_FLOWS, Settled
<1>3. CASE recv_S_UPDATE_FLOWS
  <2>1. /\ state = "S_UPDATE_FLOWS"
        /\ UNCHANGED <<toSwitch, sw, state, installed_flows>>
        /\ \/ UNCHANGED flow_updates
           \/ FirstConfirmed /\ flow_updates' = Tail(flow_updates)
    BY <1>3, UpdateReceived, Zenon
  <2>2. CASE UNCHANGED flow_updates
    BY <1>0, <2>1, <2>2 DEF Settled
  <2>3. CASE FirstConfirmed /\ flow_updates' = Tail(flow_updates)
    BY <2>1, <2>3, ConfirmedInSync, Zenon DEF Settled
  <2> QED
    BY <2>1, <2>2, <2>3
<1>4. CASE ofctrl_put
  <2> SUFFICES ASSUME flow_updates' = <<>>
               PROVE  toSwitch' = <<>> /\ sw'.flows = installed_flows'
    BY DEF Settled
  <2>1. PutNothing /\ flow_updates = <<>>
    BY <1>0, <1>4, PutOrdered, Zenon
  <2>2. /\ state = "S_UPDATE_FLOWS" /\ pc = "lflow_run" /\ UNCHANGED sw
        /\ installed_flows' = {Install(d) : d \in Desired}
    BY <1>4, PutForms, Zenon
  <2>3. /\ {Install(d) : d \in Desired} = installed_flows
        /\ installed_flows # {}
    BY <2>1, <2>2, NothingToPut, Zenon DEF PutNothing
  <2> QED
    BY <1>0, <2>1, <2>2, <2>3, Zenon DEF Settled, PutNothing
<1>5. CASE SwitchStep
  <2>1. /\ toSwitch # <<>>
        /\ UNCHANGED <<state, installed_flows, flow_updates>>
    BY <1>5, SMTT(30) DEF SwitchStep
  <2> QED
    BY <1>0, <2>1 DEF Settled
<1>6. CASE Disconnect
  <2>1. /\ toSwitch' = <<>>
        /\ UNCHANGED <<state, installed_flows, flow_updates, sw>>
    BY <1>6 DEF Disconnect
  <2> QED
    BY <1>0, <2>1 DEF Settled
<1>7. CASE OtherController
  <2>1. /\ UNCHANGED <<state, installed_flows, flow_updates, toSwitch>>
        /\ \E i, owner : sw' = [sw EXCEPT !.tlv[i] = owner]
    BY <1>7, Zenon DEF OtherController
  <2>2. sw'.flows = sw.flows
    BY <1>0, <2>1 DEF ChannelInv, IsSwitch
  <2> QED
    BY <1>0, <2>1, <2>2 DEF Settled
<1>8. CASE \/ ofctrl_run_connected \/ ofctrl_run_unconnected
           \/ recv_S_TLV_TABLE_MOD_SENT \/ ofctrl_run_done \/ body_skip
           \/ body_lflow_run \/ consider_logical_flow \/ update_ct_zones
           \/ Drain \/ UNCHANGED vars
  <2>1. /\ UNCHANGED <<installed_flows, flow_updates, toSwitch, sw>>
        /\ state' = "S_UPDATE_FLOWS" => state = "S_UPDATE_FLOWS"
    BY <1>8, Zenon
       DEF ofctrl_run_connected, ofctrl_run_unconnected,
           recv_S_TLV_TABLE_MOD_SENT, AfterModError, ofctrl_run_done,
           body_skip, body_lflow_run, consider_logical_flow,
           update_ct_zones, Drain, vars
  <2> QED
    BY <1>0, <2>1, SMTT(30) DEF Settled
<1>9. CASE SbChange
  <2>1. UNCHANGED <<installed_flows, flow_updates, toSwitch, sw, state>>
    BY <1>9, Zenon DEF SbChange
  <2> QED
    BY <1>0, <2>1 DEF Settled
<1> QED
  BY <1>1, <1>2, <1>3, <1>4, <1>5, <1>6, <1>7, <1>8, <1>9
     DEF Next, Loop, Run

(* cur_cfg changes when an update is confirmed, or when there was nothing  *)
(* to do.                                                                  *)
CfgStep ==
  cur_cfg' # cur_cfg =>
    /\ \A i \in DOMAIN toSwitch : toSwitch[i].nb > cur_cfg'
    /\ toSwitch = <<>> => sw.flows = installed_flows'

LEMMA NextCfg ==
  ASSUME SyncInv, GroupIds, XidInv, UpdatesInv, [Next]_vars
  PROVE  CfgStep
<1> USE DEF cfgVars
<1> SUFFICES ASSUME cur_cfg' # cur_cfg
             PROVE  /\ \A i \in DOMAIN toSwitch : toSwitch[i].nb > cur_cfg'
                    /\ toSwitch = <<>> => sw.flows = installed_flows'
  BY DEF CfgStep
<1>0. /\ IsQueue(toSwitch) /\ Settled
      /\ DOMAIN toSwitch = 1 .. Len(toSwitch)
  BY QueueNb, Zenon DEF SyncInv, ChannelInv, UpdatesInv
<1>1. CASE recv_S_UPDATE_FLOWS
  <2>1. /\ state = "S_UPDATE_FLOWS" /\ UNCHANGED installed_flows
        /\ FirstConfirmed /\ cur_cfg' = Head(flow_updates).nb_cfg
    BY <1>1, UpdateReceived, Zenon
  <2> QED
    BY <1>0, <2>1, ConfirmedInSync, Zenon
<1>2. CASE ofctrl_put
  <2>1. /\ state = "S_UPDATE_FLOWS" /\ pc = "lflow_run"
        /\ installed_flows' = {Install(d) : d \in Desired}
        /\ PutNothing /\ flow_updates = <<>>
    BY <1>2, PutForms, Zenon DEF PutNothing
  <2>2. /\ {Install(d) : d \in Desired} = installed_flows
        /\ installed_flows # {}
    BY <2>1, NothingToPut, Zenon DEF PutNothing
  <2>3. toSwitch = <<>> /\ sw.flows = installed_flows
    BY <1>0, <2>1, <2>2, Zenon DEF Settled
  <2>4. \A i \in DOMAIN toSwitch : FALSE
    BY <1>0, <2>3, QueueEmpty
  <2> QED
    BY <2>1, <2>2, <2>3, <2>4, Zenon
<1>3. CASE ~ recv_S_UPDATE_FLOWS /\ ~ ofctrl_put
  <2>1. UNCHANGED cur_cfg
    BY <1>3, Zenon
       DEF Next, Loop, Run, ofctrl_run_connected, ofctrl_run_unconnected,
           ofctrl_run_reconnected, run_S_NEW, run_S_CLEAR_FLOWS,
           recv_S_TLV_TABLE_REQUESTED, Ignored, recv_S_TLV_TABLE_MOD_SENT,
           ofctrl_run_done, body_skip, consider_logical_flow, body_lflow_run,
           SbChange, update_ct_zones, Drain, Disconnect, SwitchStep,
           OtherController, vars
  <2> QED
    BY <2>1, SMTT(30)
<1> QED
  BY <1>1, <1>2, <1>3

LEMMA CfgSteps == Spec /\ []GroupIds => [][CfgStep]_vars
<1>1. Init => UpdatesInv
  <2>1. ASSUME Init
        PROVE  flow_updates = <<>> /\ toSwitch = <<>> /\ installed_flows = {}
    BY <2>1 DEF Init
  <2>2. Len(<<>>) = 0 /\ \A k \in 1 .. 0 : FALSE
    BY QueueEmpty
  <2>3. ASSUME Init PROVE Ordered(flow_updates, sb.nb_cfg)
    <3>1. <<>> \in Seq([xid : Nat, nb_cfg : Nat])
      OBVIOUS
    <3> QED
      BY <2>1, <2>2, <2>3, <3>1, Zenon DEF Ordered
  <2>4. ASSUME Init PROVE Awaited
    BY <2>1, <2>2, <2>4, Zenon DEF Awaited
  <2>5. ASSUME Init PROVE Settled
    BY <2>1, <2>5, Zenon DEF Settled
  <2> QED
    BY <2>3, <2>4, <2>5, Zenon DEF UpdatesInv
<1>2. SyncInv /\ GroupIds /\ XidInv /\ UpdatesInv /\ [Next]_vars => UpdatesInv'
  BY NextAwaited, NextSettled, Zenon DEF SyncInv, UpdatesInv
<1>3. SyncInv /\ GroupIds /\ XidInv /\ UpdatesInv /\ [Next]_vars
        => [CfgStep]_vars
  BY NextCfg, Zenon
<1> QED
  BY <1>1, <1>2, <1>3, SyncInvariant, XidInvariant, PTL DEF Spec

-----------------------------------------------------------------------------
(* The ids of the groups. *)

GroupTable == INSTANCE ExtendTableProofs WITH table <- groups,
                                              Names <- GroupNames

(* The two instances of ExtendTable, in Ofctrl and in the proofs about     *)
(* ExtendTable, are the same table.                                        *)
LEMMA SameTable ==
  /\ Groups!Init <=> GroupTable!Init
  /\ Groups!Next <=> GroupTable!Next
  /\ Groups!OneIdPerName <=> GroupTable!OneIdPerName
  /\ Groups!TypeOK <=> GroupTable!TypeOK
<1> USE DEF Groups!EXT_TABLE_ID_INVALID, GroupTable!EXT_TABLE_ID_INVALID
<1>1. Groups!Init <=> GroupTable!Init
  BY Zenon DEF Groups!Init, GroupTable!Init, Groups!ovn_extend_table_init,
         GroupTable!ovn_extend_table_init
<1>2. \A t, name : Groups!AssignId(t, name) = GroupTable!AssignId(t, name)
  BY Zenon
     DEF Groups!AssignId, GroupTable!AssignId, Groups!Candidate,
         GroupTable!Candidate, Groups!Named, GroupTable!Named,
         Groups!TableIds, GroupTable!TableIds, Groups!FirstZero,
         GroupTable!FirstZero
<1>3. Groups!Next <=> GroupTable!Next
  BY <1>2, Zenon
     DEF Groups!Next, GroupTable!Next, Groups!Assign, GroupTable!Assign,
         Groups!Put, GroupTable!Put, Groups!Move, GroupTable!Move,
         Groups!RemoveUnwanted, GroupTable!RemoveUnwanted, Groups!Discard,
         GroupTable!Discard, Groups!ClearDesired, GroupTable!ClearDesired,
         Groups!Reset, GroupTable!Reset, Groups!ClearExisting,
         GroupTable!ClearExisting, Groups!Ids, GroupTable!Ids,
         Groups!Unwanted, GroupTable!Unwanted, Groups!Uninstalled,
         GroupTable!Uninstalled, Groups!Lookup, GroupTable!Lookup
<1>4. Groups!TypeOK <=> GroupTable!TypeOK
  BY DEF Groups!TypeOK, GroupTable!TypeOK, Groups!Table, GroupTable!Table,
         Groups!Info, GroupTable!Info, Groups!TableIds, GroupTable!TableIds
<1> QED
  BY <1>1, <1>3, <1>4 DEF Groups!OneIdPerName, GroupTable!OneIdPerName

LEMMA GroupIdsConsistent == Spec => []GroupIds
<1>1. GroupTable!Spec => []GroupTable!OneIdPerName
  BY GroupTable!IdsConsistent, BoundsAssumption
<1>2. GroupTable!Spec => []GroupTable!TypeOK
  BY GroupTable!TypeCorrect, BoundsAssumption
<1>3. GroupTable!TypeOK /\ GroupTable!OneIdPerName => GroupIds
  BY SameTable DEF GroupIds
<1> QED
  BY <1>1, <1>2, <1>3, SameTable, GroupsImplementTable, PTL
     DEF GroupTableSpec, Groups!Spec, GroupTable!Spec

-----------------------------------------------------------------------------
(* Whatever the logical flows, the drops, the reconnections and the order  *)
(* in which the switch applies the messages of a batch: once the switch    *)
(* has processed what ofctrl.c sent, it has the flows and the groups that  *)
(* ofctrl.c believes installed, and no meter that ofctrl.c forgot.         *)
THEOREM SwitchStaysInSync == Spec => []SwitchInSync
BY GroupIdsConsistent, SyncInvariant, SyncInSync, PTL

(* At every moment, between any two messages of a put and after a drop in  *)
(* its middle, a flow of the switch reaches the very group that its        *)
(* logical flow named: no flow is ever sent before its group, no group is  *)
(* deleted under a flow, and no id is reused while a flow still means its  *)
(* old group.                                                              *)
THEOREM GroupsAreThere == Spec => []FlowsReachTheirGroup
BY GroupIdsConsistent, SyncInvariant, SyncReaches, PTL

(* ofctrl.c reports an nb_cfg only when the switch has it all: when        *)
(* cur_cfg becomes n, whatever drops, reconnections and late replies came  *)
(* before, nothing that ofctrl_put() sent for n or an earlier nb_cfg is    *)
(* still under way, and if nothing at all is, the switch has the flows     *)
(* that ofctrl.c believes installed.                                       *)
THEOREM CfgAcksAreTrue == Spec => UpToDateIsTrue
<1>1. CfgStep => (cur_cfg' # cur_cfg =>
        /\ \A i \in DOMAIN toSwitch : toSwitch[i].nb > cur_cfg'
        /\ toSwitch = <<>> => sw.flows = installed_flows')
  BY DEF CfgStep
<1> QED
  BY <1>1, GroupIdsConsistent, CfgSteps, PTL DEF UpToDateIsTrue
=============================================================================
