---------------------------- MODULE OfctrlProofs ----------------------------
(***************************************************************************)
(* Ofctrl uses its table of groups as ExtendTable says that a table is     *)
(* used: each step of the main loop, the connection and the switch is a    *)
(* step of ExtendTable on 'groups' or leaves 'groups' alone.  So what      *)
(* ExtendTableProofs shows of a table holds of this one, for any logical   *)
(* flows and any number of ids.                                            *)
(*                                                                         *)
(* Reset is the step that needs an invariant: run_S_CLEAR_FLOWS() clears   *)
(* 'existing' only, which is right because 'desired' is empty everywhere   *)
(* but between the translation of the first logical flow and ofctrl_put(). *)
(*                                                                         *)
(* The second half has what OfctrlSyncProofs and OfctrlAckProofs share: the *)
(* channel (ChannelInv: the shape of the queues and of the switch; a lost   *)
(* connection has nothing under way), the xids (XidInv: those under way are *)
(* older than next_xid and no two barriers share one, so that a reply is to *)
(* the barrier it is taken for) and the updates that wait for their barrier *)
(* (UpdatesInv).                                                           *)
(***************************************************************************)
EXTENDS Ofctrl, TLAPS

-----------------------------------------------------------------------------
(* The load, and the table of groups between the passes. *)

Fields(t) ==
  t = [table_ids |-> t.table_ids, desired |-> t.desired, existing |-> t.existing]

GroupsInv ==
  /\ left \in Load
  /\ sb.flows \subseteq LogicalFlows
  /\ todo \subseteq LogicalFlows
  /\ Fields(groups)
  /\ pc # "lflow_run" => groups.desired = {}

LEMMA InitGroupsInv == Init => GroupsInv /\ Groups!Init
BY LoadsAssumption
   DEF Init, GroupsInv, Fields, Groups!Init, Groups!ovn_extend_table_init

(* A step that leaves the groups, the loop's flows and the load alone, and *)
(* does not leave the translation.                                         *)
LEMMA OtherSteps ==
  ASSUME GroupsInv, UNCHANGED <<groups, todo, sb>>, left' \in Load,
         pc' = "lflow_run" \/ pc # "lflow_run"
  PROVE  GroupsInv' /\ [Groups!Next]_groups
BY DEF GroupsInv, Fields

(* What the environment uses up of its load leaves a load.                 *)
LEMMA LoadLeft ==
  ASSUME left \in Load
  PROVE  /\ left.changes > 0 => [left EXCEPT !.changes = @ - 1] \in Load
         /\ left.drops > 0 => [left EXCEPT !.drops = @ - 1] \in Load
         /\ left.assigns > 0 => [left EXCEPT !.assigns = @ - 1] \in Load
BY DEF Load

LEMMA SbChangeGroups ==
  ASSUME GroupsInv, SbChange
  PROVE  GroupsInv' /\ [Groups!Next]_groups
<1>1. /\ left.changes > 0 /\ left' = [left EXCEPT !.changes = @ - 1]
      /\ UNCHANGED <<groups, todo, pc>>
  BY DEF SbChange, flowVars
<1>2. left' \in Load
  BY <1>1, LoadLeft DEF GroupsInv
<1>3. sb'.flows \subseteq LogicalFlows
  BY DEF SbChange, GroupsInv, Load
<1> QED
  BY <1>1, <1>2, <1>3 DEF GroupsInv, Fields

(* encode_CT_LB() assigns an id to the group that the flow names, if any.  *)
LEMMA TranslationGroups ==
  ASSUME GroupsInv, consider_logical_flow
  PROVE  GroupsInv' /\ [Groups!Next]_groups
<1>1. PICK lf \in todo :
         /\ todo' = todo \ {lf}
         /\ groups' = IF lf.group = NoName THEN groups
                      ELSE Groups!AssignId(groups, lf.group)
  BY DEF consider_logical_flow
<1>2. pc = "lflow_run" /\ UNCHANGED <<pc, sb, left>>
  BY DEF consider_logical_flow
<1>3. lf.group = NoName \/ lf.group \in GroupNames
  BY <1>1, BoundsAssumption DEF GroupsInv
<1>4. [Groups!Next]_groups
  BY <1>1, <1>3 DEF Groups!Next, Groups!Assign
<1>5. Fields(groups')
  BY <1>1, Zenon DEF GroupsInv, Fields, Groups!AssignId
<1> QED
  BY <1>1, <1>2, <1>4, <1>5 DEF GroupsInv, Fields

(* ofctrl_put() deletes what is unwanted and moves what is desired.        *)
LEMMA PutGroups ==
  ASSUME GroupsInv, ofctrl_put
  PROVE  GroupsInv' /\ [Groups!Next]_groups
<1>1. groups' = Groups!Move(Groups!RemoveUnwanted(groups))
  BY DEF ofctrl_put, GroupsAfterPut
<1>2. UNCHANGED <<todo, sb, left>>
  BY DEF ofctrl_put
<1>3. Fields(groups') /\ groups'.desired = {}
  BY <1>1, Zenon DEF GroupsInv, Fields, Groups!Move, Groups!RemoveUnwanted
<1>4. [Groups!Next]_groups
  BY <1>1 DEF Groups!Next, Groups!Put
<1> QED
  BY <1>2, <1>3, <1>4 DEF GroupsInv, Fields

(* run_S_CLEAR_FLOWS() runs before the translation of a pass.              *)
LEMMA ClearGroups ==
  ASSUME GroupsInv, run_S_CLEAR_FLOWS
  PROVE  GroupsInv' /\ [Groups!Next]_groups
<1>1. groups' = Groups!ClearExisting(groups) /\ groups.desired = {}
  BY DEF run_S_CLEAR_FLOWS, GroupsInv
<1>2. UNCHANGED <<pc, todo, sb, left>>
  BY DEF run_S_CLEAR_FLOWS, loopVars
<1>3. Fields(groups') /\ groups'.desired = {}
  BY <1>1, Zenon DEF GroupsInv, Fields, Groups!ClearExisting
<1>4. [Groups!Next]_groups
  BY <1>1 DEF Groups!Next, Groups!Reset
<1> QED
  BY <1>2, <1>3, <1>4 DEF GroupsInv, Fields

LEMMA NextGroups ==
  ASSUME GroupsInv, [Next]_vars
  PROVE  GroupsInv' /\ [Groups!Next]_groups
<1> USE DEF loopVars, flowVars, cfgVars
<1>0. left \in Load
  BY DEF GroupsInv
<1>1. CASE ofctrl_run_connected \/ ofctrl_run_unconnected
           \/ ofctrl_run_reconnected \/ run_S_NEW
  BY <1>0, <1>1, OtherSteps
     DEF ofctrl_run_connected, ofctrl_run_unconnected, ofctrl_run_reconnected,
         run_S_NEW
<1>2. CASE run_S_CLEAR_FLOWS
  BY <1>2, ClearGroups
<1>3. CASE \/ recv_S_TLV_TABLE_REQUESTED \/ recv_S_TLV_TABLE_MOD_SENT
           \/ recv_S_UPDATE_FLOWS
  <2>1. UNCHANGED <<loopVars, flowVars, left>>
    BY <1>3 DEF recv_S_TLV_TABLE_REQUESTED, recv_S_TLV_TABLE_MOD_SENT,
                recv_S_UPDATE_FLOWS
  <2> QED
    BY <1>0, <2>1, OtherSteps
<1>4. CASE ofctrl_run_done \/ body_skip
  BY <1>0, <1>4, OtherSteps DEF ofctrl_run_done, body_skip
<1>5. CASE body_lflow_run
  BY <1>5 DEF body_lflow_run, GroupsInv, Fields
<1>6. CASE consider_logical_flow
  BY <1>6, TranslationGroups
<1>7. CASE ofctrl_put
  BY <1>7, PutGroups
<1>8. CASE SbChange
  BY <1>8, SbChangeGroups
<1>9. CASE update_ct_zones \/ Disconnect
  BY <1>0, <1>9, LoadLeft, OtherSteps DEF update_ct_zones, Disconnect
<1>10. CASE Drain \/ SwitchStep \/ OtherController
  BY <1>0, <1>10, OtherSteps DEF Drain, SwitchStep, OtherController
<1>11. CASE UNCHANGED vars
  BY <1>0, <1>11, OtherSteps DEF vars
<1> QED
  BY <1>1, <1>2, <1>3, <1>4, <1>5, <1>6, <1>7, <1>8, <1>9, <1>10, <1>11
     DEF Next, Loop, Run

(* ofctrl.c and lflow.c use the table of groups as extend-table.c means it *)
(* to be used, whatever the logical flows, the drops of the connection and *)
(* the answers of the switch.                                              *)
THEOREM GroupsImplementTable == Spec => GroupTableSpec
<1>1. Init => GroupsInv /\ Groups!Init
  BY InitGroupsInv
<1>2. GroupsInv /\ [Next]_vars => GroupsInv' /\ [Groups!Next]_groups
  BY NextGroups
<1> QED
  BY <1>1, <1>2, PTL DEF Spec, GroupTableSpec, Groups!Spec

-----------------------------------------------------------------------------
(* Queues of batches. *)

(* Facts about sequences.                                                  *)
LEMMA SeqMonotonic ==
  ASSUME NEW S, NEW T, NEW q \in Seq(S), S \subseteq T
  PROVE  q \in Seq(T)
OBVIOUS

LEMMA ElementOfSeq ==
  ASSUME NEW S, NEW q \in Seq(S), NEW n \in 1 .. Len(q)
  PROVE  q[n] \in S
OBVIOUS

LEMMA ConcatProperties ==
  ASSUME NEW S, NEW q \in Seq(S), NEW r \in Seq(S)
  PROVE  /\ q \o r \in Seq(S)
         /\ Len(q \o r) = Len(q) + Len(r)
         /\ \A i \in 1 .. Len(q) + Len(r) :
               (q \o r)[i] = IF i <= Len(q) THEN q[i] ELSE r[i - Len(q)]
OBVIOUS

LEMMA HeadTailProperties ==
  ASSUME NEW S, NEW q \in Seq(S), q # <<>>
  PROVE  /\ Head(q) \in S
         /\ Tail(q) \in Seq(S)
         /\ Len(Tail(q)) = Len(q) - 1
         /\ \A i \in 1 .. Len(Tail(q)) : Tail(q)[i] = q[i + 1]
OBVIOUS

LEMMA AppendProperties ==
  ASSUME NEW S, NEW q \in Seq(S), NEW e \in S
  PROVE  /\ Append(q, e) \in Seq(S)
         /\ Append(q, e) # <<>>
         /\ Len(Append(q, e)) = Len(q) + 1
         /\ \A i \in 1 .. Len(q) : Append(q, e)[i] = q[i]
         /\ Append(q, e)[Len(q) + 1] = e
OBVIOUS

IsQueue(q) == \E M : q \in Seq([msgs : SUBSET M, nb : Nat])

LEMMA QueueEmpty == IsQueue(<<>>) /\ Len(<<>>) = 0
BY DEF IsQueue

LEMMA QueueSingle ==
  ASSUME NEW ms, NEW nb \in Nat
  PROVE  /\ IsQueue(<<Batch(ms, nb)>>) /\ Len(<<Batch(ms, nb)>>) = 1
         /\ <<Batch(ms, nb)>>[1].msgs = ms
         /\ <<Batch(ms, nb)>>[1].nb = nb
<1>1. <<Batch(ms, nb)>> \in Seq([msgs : SUBSET ms, nb : Nat])
  BY DEF Batch
<1> QED
  BY <1>1 DEF IsQueue, Batch

LEMMA QueueConcat ==
  ASSUME NEW q, NEW r, IsQueue(q), IsQueue(r)
  PROVE  /\ IsQueue(q \o r)
         /\ Len(q) \in Nat /\ Len(r) \in Nat
         /\ Len(q \o r) = Len(q) + Len(r)
         /\ \A i \in 1 .. Len(q) : (q \o r)[i] = q[i]
         /\ \A i \in 1 .. Len(r) : (q \o r)[Len(q) + i] = r[i]
<1>1. PICK M : q \in Seq([msgs : SUBSET M, nb : Nat])
  BY Zenon DEF IsQueue
<1>2. PICK N : r \in Seq([msgs : SUBSET N, nb : Nat])
  BY Zenon DEF IsQueue
<1> DEFINE B == [msgs : SUBSET (M \union N), nb : Nat]
<1>3. /\ [msgs : SUBSET M, nb : Nat] \subseteq B
      /\ [msgs : SUBSET N, nb : Nat] \subseteq B
  OBVIOUS
<1> HIDE DEF B
<1>4. q \in Seq(B) /\ r \in Seq(B)
  BY <1>1, <1>2, <1>3, SeqMonotonic, Zenon
<1>5. q \o r \in Seq(B)
  BY <1>4
<1>6. IsQueue(q \o r)
  BY <1>5, Zenon DEF IsQueue, B
<1> QED
  BY <1>4, <1>6, ConcatProperties

(* The switch takes one message of the first batch.                        *)
Taken(q, m) == IF Head(q).msgs = {m} THEN Tail(q)
               ELSE [q EXCEPT ![1].msgs = @ \ {m}]

LEMMA QueueTaken ==
  ASSUME NEW q, IsQueue(q), q # <<>>, NEW m \in Head(q).msgs
  PROVE  /\ IsQueue(Taken(q, m))
         /\ Len(q) \in Nat /\ Len(q) >= 1 /\ Head(q) = q[1]
         /\ Head(q).msgs = {m} =>
              /\ Len(Taken(q, m)) = Len(q) - 1
              /\ \A i \in 1 .. Len(q) - 1 : Taken(q, m)[i] = q[i + 1]
         /\ Head(q).msgs # {m} =>
              /\ Len(Taken(q, m)) = Len(q)
              /\ Taken(q, m)[1].msgs = q[1].msgs \ {m}
              /\ Taken(q, m)[1].nb = q[1].nb
              /\ \A i \in 2 .. Len(q) : Taken(q, m)[i] = q[i]
<1>1. PICK M : q \in Seq([msgs : SUBSET M, nb : Nat])
  BY Zenon DEF IsQueue
<1>2. Len(q) \in Nat /\ Len(q) >= 1 /\ Head(q) = q[1]
  BY <1>1
<1>3. CASE Head(q).msgs = {m}
  <2>1. Taken(q, m) = Tail(q)
    BY <1>3 DEF Taken
  <2>2. /\ Tail(q) \in Seq([msgs : SUBSET M, nb : Nat])
        /\ Len(Tail(q)) = Len(q) - 1
        /\ \A i \in 1 .. Len(q) - 1 : Tail(q)[i] = q[i + 1]
    BY <1>1, HeadTailProperties
  <2> QED
    BY <1>2, <1>3, <2>1, <2>2, Zenon DEF IsQueue
<1>4. CASE Head(q).msgs # {m}
  <2> DEFINE b == [q[1] EXCEPT !.msgs = @ \ {m}]
  <2>1. Taken(q, m) = [q EXCEPT ![1] = b]
    BY <1>4, Zenon DEF Taken
  <2>2. q[1] \in [msgs : SUBSET M, nb : Nat]
    <3> DEFINE B == [msgs : SUBSET M, nb : Nat]
    <3>1. q \in Seq(B) /\ 1 \in 1 .. Len(q)
      BY <1>1, <1>2
    <3> HIDE DEF B
    <3>2. q[1] \in B
      BY <3>1, ElementOfSeq
    <3> QED
      BY <3>2 DEF B
  <2>3. /\ b \in [msgs : SUBSET M, nb : Nat]
        /\ b.msgs = q[1].msgs \ {m} /\ b.nb = q[1].nb
    BY <2>2
  <2> HIDE DEF b
  <2>4. /\ [q EXCEPT ![1] = b] \in Seq([msgs : SUBSET M, nb : Nat])
        /\ Len([q EXCEPT ![1] = b]) = Len(q)
        /\ [q EXCEPT ![1] = b][1] = b
        /\ \A i \in 2 .. Len(q) : [q EXCEPT ![1] = b][i] = q[i]
    BY <1>1, <1>2, <2>3
  <2> QED
    BY <1>2, <1>4, <2>1, <2>3, <2>4, Zenon DEF IsQueue
<1> QED
  BY <1>3, <1>4

(* What GeneveOption() sends.                                              *)
LEMMA QueuePair ==
  ASSUME NEW a, NEW b, NEW nb \in Nat, NEW nc \in Nat
  PROVE  /\ IsQueue(<<Batch(a, nb), Batch(b, nc)>>)
         /\ Len(<<Batch(a, nb), Batch(b, nc)>>) = 2
         /\ <<Batch(a, nb), Batch(b, nc)>>[1].msgs = a
         /\ <<Batch(a, nb), Batch(b, nc)>>[2].msgs = b
<1>1. <<Batch(a, nb), Batch(b, nc)>> \in Seq([msgs : SUBSET (a \union b), nb : Nat])
  BY DEF Batch
<1> QED
  BY <1>1, Zenon DEF IsQueue, Batch

-----------------------------------------------------------------------------
(* The switch. *)

Tables(s) == [flows |-> s.flows, groups |-> s.groups, meters |-> s.meters]

Modified(s, m) == [m.flow EXCEPT !.cookie = Get(s.flows, m.key).cookie]

(* A switch's state, with the table of TLV options.                        *)
IsSwitch(s) == s = [flows |-> s.flows, groups |-> s.groups,
                    meters |-> s.meters, tlv |-> s.tlv]

(* A message does to the tables what it does to the switch.                *)
LEMMA ApplyTables ==
  ASSUME NEW s, IsSwitch(s), NEW m, NEW tlv
  PROVE  /\ Tables([Apply(s, m) EXCEPT !.tlv = tlv]) = Apply(Tables(s), m)
         /\ IsSwitch([Apply(s, m) EXCEPT !.tlv = tlv])
         /\ [Apply(s, m) EXCEPT !.tlv = tlv].tlv = tlv
<1> DEFINE T == Tables(s)
           U == Apply(s, m)
           V == Apply(T, m)
<1>1. T.flows = s.flows /\ T.groups = s.groups /\ T.meters = s.meters
  BY DEF Tables
<1>2. GroupOf(T, m.id) = GroupOf(s, m.id)
  BY <1>1 DEF GroupOf
<1>3. Accepts(T, m.flow) <=> Accepts(s, m.flow)
  BY <1>1 DEF Accepts, GroupOf
<1> DEFINE Form(F, G, M) ==
             /\ U = [flows |-> F, groups |-> G, meters |-> M, tlv |-> s.tlv]
             /\ V = [flows |-> F, groups |-> G, meters |-> M]
<1>4. \E F, G, M : Form(F, G, M)
  <2> USE DEF IsSwitch, Tables
  <2>1. CASE m.type = "clear_flows"
    <3>1. Form({}, s.groups, s.meters)
      BY <2>1 DEF Apply
    <3> QED
      BY <3>1, Zenon
  <2>2. CASE m.type = "clear_groups"
    <3>1. Form({f \in s.flows : f.group = 0}, {}, s.meters)
      BY <2>2, Zenon DEF Apply
    <3> QED
      BY <3>1, Zenon
  <2>3. CASE m.type = "clear_meters"
    <3>1. Form(s.flows, s.groups, {})
      BY <2>3 DEF Apply
    <3> QED
      BY <3>1, Zenon
  <2>4. CASE m.type = "flow_delete"
    <3>1. Form({f \in s.flows : f.key # m.key}, s.groups, s.meters)
      BY <2>4, Zenon DEF Apply
    <3> QED
      BY <3>1, Zenon
  <2>5. CASE m.type = "flow_modify" /\ Has(s.flows, m.key) /\ Accepts(s, m.flow)
    <3>1. Form({f \in s.flows : f.key # m.key} \union {Modified(s, m)},
               s.groups, s.meters)
      BY <1>3, <2>5, SMTT(30) DEF Apply, Modified
    <3> QED
      BY <3>1, Zenon
  <2>6. CASE m.type = "flow_add" /\ Accepts(s, m.flow)
    <3>1. Form({f \in s.flows : f.key # m.key} \union {m.flow},
               s.groups, s.meters)
      BY <1>3, <2>6, SMTT(30) DEF Apply
    <3> QED
      BY <3>1, Zenon
  <2>7. CASE m.type = "group_add" /\ GroupOf(s, m.id) = {}
    <3>1. Form(s.flows,
               s.groups \union {[id |-> m.id, name |-> m.name]}, s.meters)
      BY <1>2, <2>7 DEF Apply
    <3> QED
      BY <3>1, Zenon
  <2>8. CASE m.type = "group_delete"
    <3>1. Form({f \in s.flows : f.group # m.id},
               s.groups \ GroupOf(s, m.id), s.meters)
      BY <1>2, <2>8, Zenon DEF Apply
    <3> QED
      BY <3>1, Zenon
  <2>9. CASE m.type = "meter_add"
    <3>1. Form(s.flows, s.groups, s.meters \union {m.id})
      BY <2>9 DEF Apply
    <3> QED
      BY <3>1, Zenon
  <2>10. CASE m.type = "meter_delete"
    <3>1. Form(s.flows, s.groups, s.meters \ {m.id})
      BY <2>10, SMTT(30) DEF Apply
    <3> QED
      BY <3>1, Zenon
  <2>11. CASE /\ m.type \notin {"clear_flows", "clear_groups", "clear_meters",
                              "flow_delete", "group_delete", "meter_add",
                              "meter_delete"}
             /\ ~ (/\ m.type = "flow_modify"
                   /\ Has(s.flows, m.key) /\ Accepts(s, m.flow))
             /\ ~ (m.type = "flow_add" /\ Accepts(s, m.flow))
             /\ ~ (m.type = "group_add" /\ GroupOf(s, m.id) = {})
    <3>1. U = s /\ V = T
      BY <1>1, <1>2, <1>3, <2>11 DEF Apply
    <3>2. Form(s.flows, s.groups, s.meters)
      BY <3>1
    <3> QED
      BY <3>2, Zenon
  <2> QED
    BY <2>1, <2>2, <2>3, <2>4, <2>5, <2>6, <2>7, <2>8, <2>9, <2>10, <2>11,
       Zenon
<1>5. PICK F, G, M : Form(F, G, M)
  BY <1>4, Zenon
<1> HIDE DEF U, V
<1>6. [U EXCEPT !.tlv = tlv]
        = [flows |-> F, groups |-> G, meters |-> M, tlv |-> tlv]
  BY <1>5
<1>7. Tables([U EXCEPT !.tlv = tlv]) = V /\ IsSwitch([U EXCEPT !.tlv = tlv])
  BY <1>5, <1>6 DEF IsSwitch, Tables
<1> QED
  BY <1>6, <1>7 DEF U, V

-----------------------------------------------------------------------------
(* The connection. *)

Desired == flow_table \union {BaseFlow}

ChannelInv ==
  /\ sb.nb_cfg \in Nat
  /\ next_xid \in Nat
  /\ IsQueue(toSwitch)
  /\ \E R : toCtl \in Seq(R)
  /\ ~ link => toSwitch = <<>> /\ toCtl = <<>>
  /\ IsSwitch(sw)

(* queue_msg(): what is sent comes after what is under way.                *)
LEMMA SendQueue ==
  ASSUME IsQueue(toSwitch), NEW bs, IsQueue(bs), Send(bs)
  PROVE  IsQueue(toSwitch')
BY QueueConcat, Zenon DEF Send

LEMMA ClearQueue ==
  /\ IsQueue(ClearMessages) /\ Len(ClearMessages) = 3
  /\ ClearMessages[1].msgs = {[type |-> "clear_flows"]}
  /\ ClearMessages[2].msgs = {[type |-> "clear_groups"]}
  /\ ClearMessages[3].msgs = {[type |-> "clear_meters"]}
<1> DEFINE M == {[type |-> "clear_flows"], [type |-> "clear_groups"],
                 [type |-> "clear_meters"]}
<1>1. ClearMessages \in Seq([msgs : SUBSET M, nb : Nat])
  BY DEF ClearMessages, Batch
<1> QED
  BY <1>1, Zenon DEF ClearMessages, IsQueue, Batch

LEMMA PutQueue ==
  ASSUME NEW D, NEW nb \in Nat
  PROVE  IsQueue(PutMessages(D, nb))
<1>1. \A ms : IsQueue(NonEmpty(ms, nb))
  BY QueueEmpty, QueueSingle DEF NonEmpty
<1>2. \A q, ms : IsQueue(q) => IsQueue(q \o NonEmpty(ms, nb))
  BY <1>1, QueueConcat
<1> QED
  BY <1>1, <1>2, Zenon DEF PutMessages

LEMMA InitChannel == Init => ChannelInv
<1> SUFFICES ASSUME Init
             PROVE  ChannelInv
  OBVIOUS
<1>1. /\ sw = [flows |-> {}, groups |-> {}, meters |-> {}, tlv |-> sw.tlv]
      /\ toSwitch = <<>> /\ toCtl = <<>> /\ ~ link
      /\ sb.nb_cfg = 0 /\ next_xid = 1
  BY SMTT(30) DEF Init
<1> QED
  BY <1>1, QueueEmpty DEF ChannelInv, IsSwitch

LEMMA NextChannel ==
  ASSUME ChannelInv, [Next]_vars
  PROVE  ChannelInv'
<1> USE DEF ChannelInv, loopVars, connVars, netVars, swVars
<1>0. ChannelInv
  OBVIOUS
<1>1. CASE ofctrl_run_connected \/ ofctrl_run_unconnected
           \/ ofctrl_run_reconnected
  BY <1>0, <1>1 DEF ofctrl_run_connected, ofctrl_run_unconnected,
                    ofctrl_run_reconnected
<1>2. CASE run_S_NEW
  <2> DEFINE bs == <<Batch({[type |-> "tlv_request", xid |-> next_xid]}, 0)>>
  <2>1. IsQueue(bs)
    BY QueueSingle
  <2>2. Send(bs) /\ UNCHANGED <<sb, link, toCtl, sw>> /\ next_xid' = next_xid + 1
    BY <1>2 DEF run_S_NEW
  <2> HIDE DEF bs
  <2>3. IsQueue(toSwitch')
    BY <1>0, <2>1, <2>2, SendQueue
  <2> QED
    BY <1>0, <2>2, <2>3, SMTT(30) DEF Send
<1>3. CASE run_S_CLEAR_FLOWS
  <2>1. /\ Send(ClearMessages) /\ UNCHANGED <<sb, link, toCtl, sw, next_xid>>
    BY <1>3 DEF run_S_CLEAR_FLOWS
  <2>2. IsQueue(toSwitch')
    BY <1>0, <2>1, SendQueue, ClearQueue
  <2> QED
    BY <1>0, <2>1, <2>2 DEF Send
<1>4. CASE recv_S_TLV_TABLE_REQUESTED
  <2>1. /\ toCtl # <<>> /\ toCtl' = Tail(toCtl)
        /\ UNCHANGED <<sb, link, sw>>
    BY <1>4 DEF recv_S_TLV_TABLE_REQUESTED, Received
  <2>2. /\ next_xid' \in Nat
        /\ link => IsQueue(toSwitch')
    <3> DEFINE bs(index) ==
                 <<Batch({[type |-> "tlv_mod", xid |-> next_xid,
                           index |-> index]}, 0),
                   Batch({[type |-> "barrier", xid |-> next_xid + 1]}, 0)>>
    <3>1. \/ UNCHANGED netVars
          \/ \E index : Send(bs(index)) /\ next_xid' = next_xid + 2
      BY <1>4, Zenon DEF recv_S_TLV_TABLE_REQUESTED, Ignored, RequestFailed,
                  GeneveOption
    <3>2. \A index : IsQueue(bs(index))
      BY QueuePair
    <3> HIDE DEF bs
    <3> QED
      BY <1>0, <3>1, <3>2, SendQueue
  <2> QED
    BY <1>0, <2>1, <2>2
<1>5. CASE recv_S_TLV_TABLE_MOD_SENT \/ recv_S_UPDATE_FLOWS
  <2>1. /\ toCtl # <<>> /\ toCtl' = Tail(toCtl)
        /\ UNCHANGED <<sb, link, sw, toSwitch, next_xid>>
    BY <1>5, SMTT(30) DEF recv_S_TLV_TABLE_MOD_SENT, recv_S_UPDATE_FLOWS,
       Received,
                Ignored
  <2> QED
    BY <1>0, <2>1
<1>6. CASE ofctrl_run_done \/ body_skip \/ body_lflow_run
           \/ consider_logical_flow
  BY <1>0, <1>6 DEF ofctrl_run_done, body_skip, body_lflow_run,
                    consider_logical_flow
<1>7. CASE ofctrl_put
  <2> DEFINE bs == PutMessages(Desired, sb.nb_cfg)
             b == <<Batch({[type |-> "barrier", xid |-> next_xid]}, sb.nb_cfg)>>
  <2>1. /\ UNCHANGED <<sb, link, sw, toCtl>>
        /\ \/ Send(bs \o b) /\ next_xid' = next_xid + 1
           \/ UNCHANGED netVars
    BY <1>7 DEF ofctrl_put, Desired
  <2>2. IsQueue(bs) /\ IsQueue(b)
    BY <1>0, QueueSingle, PutQueue
  <2> HIDE DEF bs, b
  <2>3. IsQueue(bs \o b)
    BY <2>2, QueueConcat
  <2>4. IsQueue(toSwitch')
    BY <1>0, <2>1, <2>3, SendQueue
  <2> QED
    BY <1>0, <2>1, <2>4 DEF Send
<1>8. CASE SbChange
  BY <1>0, <1>8, BoundsAssumption DEF SbChange
<1>9. CASE update_ct_zones \/ Drain
  BY <1>0, <1>9 DEF update_ct_zones, Drain
<1>10. CASE Disconnect
  BY <1>0, <1>10, QueueEmpty DEF Disconnect
<1>11. CASE SwitchStep
  <2>1. PICK m \in Head(toSwitch).msgs :
          /\ toSwitch' = Taken(toSwitch, m)
          /\ \E a \in Answers(m) :
                /\ toCtl' = IF a[1] = NoReply THEN toCtl ELSE Append(toCtl, a[1])
                /\ sw' = [Apply(sw, m) EXCEPT !.tlv = a[2]]
    BY <1>11, Zenon DEF SwitchStep, Taken
  <2>2. toSwitch # <<>> /\ UNCHANGED <<sb, link, next_xid>>
    BY <1>11 DEF SwitchStep
  <2>3. IsQueue(toSwitch')
    BY <1>0, <2>1, <2>2, QueueTaken
  <2>4. IsSwitch(sw')
    <3>1. PICK tlv : sw' = [Apply(sw, m) EXCEPT !.tlv = tlv]
      BY <2>1, Zenon
    <3>2. IsSwitch([Apply(sw, m) EXCEPT !.tlv = tlv])
      BY <1>0, ApplyTables, Zenon
    <3> QED
      BY <3>1, <3>2
  <2>5. \E R : toCtl' \in Seq(R)
    <3>1. PICK R : toCtl \in Seq(R)
      BY <1>0
    <3>2. PICK a : toCtl' = toCtl \/ toCtl' = Append(toCtl, a)
      BY <2>1
    <3>3. toCtl \in Seq(R \union {a})
      BY <3>1, SeqMonotonic
    <3>4. toCtl' \in Seq(R \union {a})
      BY <3>2, <3>3
    <3> QED
      BY <3>4
  <2> QED
    BY <1>0, <2>2, <2>3, <2>4, <2>5
<1>12. CASE OtherController
  <2>1. /\ UNCHANGED <<sb, link, toCtl, toSwitch, next_xid>>
        /\ \E i, owner : sw' = [sw EXCEPT !.tlv[i] = owner]
    BY <1>12, Zenon DEF OtherController
  <2>2. IsSwitch(sw')
    BY <1>0, <2>1, Zenon DEF IsSwitch
  <2> QED
    BY <1>0, <2>1, <2>2
<1>13. CASE UNCHANGED vars
  BY <1>0, <1>13, SMTT(30) DEF vars
<1> QED
  BY <1>1, <1>2, <1>3, <1>4, <1>5, <1>6, <1>7, <1>8, <1>9, <1>10, <1>11,
     <1>12, <1>13 DEF Next, Loop, Run


XidTypes == {"tlv_request", "tlv_mod", "barrier"}

Barrier(x) == [type |-> "barrier", xid |-> x]

-----------------------------------------------------------------------------
(* How the steps change the two queues. *)

(* What is sent is appended, or lost when the connection is not there.     *)
LEMMA SendShape ==
  ASSUME IsQueue(toSwitch), NEW bs, IsQueue(bs), Send(bs)
  PROVE  /\ Len(toSwitch) \in Nat /\ Len(bs) \in Nat
         /\ Len(toSwitch') \in Nat /\ Len(toSwitch') >= Len(toSwitch)
         /\ \A i \in 1 .. Len(toSwitch) : toSwitch'[i] = toSwitch[i]
         /\ \A i \in 1 .. Len(toSwitch') : i > Len(toSwitch) =>
              /\ link /\ Len(toSwitch') = Len(toSwitch) + Len(bs)
              /\ i - Len(toSwitch) \in 1 .. Len(bs)
              /\ toSwitch'[i] = bs[i - Len(toSwitch)]
<1> DEFINE n == Len(toSwitch)
<1>1. n \in Nat /\ Len(bs) \in Nat
  BY QueueConcat
<1>2. CASE ~ link
  BY <1>1, <1>2, SMTT(30) DEF Send
<1>3. CASE link
  <2>1. toSwitch' = toSwitch \o bs
    BY <1>3, SMTT(30) DEF Send
  <2>2. /\ Len(toSwitch') = n + Len(bs)
        /\ \A i \in 1 .. n : toSwitch'[i] = toSwitch[i]
        /\ \A i \in 1 .. Len(bs) : toSwitch'[n + i] = bs[i]
    BY <2>1, QueueConcat
  <2>3. ASSUME NEW i \in 1 .. Len(toSwitch'), i > n
        PROVE  /\ link /\ i - n \in 1 .. Len(bs)
               /\ toSwitch'[i] = bs[i - n]
    <3>1. i - n \in 1 .. Len(bs) /\ n + (i - n) = i
      BY <1>1, <2>2, <2>3
    <3> QED
      BY <1>3, <2>2, <3>1
  <2> QED
    BY <1>1, <1>3, <2>2, <2>3
<1> QED
  BY <1>2, <1>3

(* The switch takes a message: the positions move by o.                    *)
Shifted(q, r, m, o) ==
  /\ o \in {0, 1}
  /\ o = 0 => q[1].msgs # {m}
  /\ Len(q) \in Nat /\ Len(r) \in Nat /\ Len(r) = Len(q) - o
  /\ 1 \in 1 .. Len(q) /\ m \in q[1].msgs
  /\ \A i \in 1 .. Len(r) : /\ i + o \in 1 .. Len(q)
                            /\ r[i].msgs \subseteq q[i + o].msgs
                            /\ r[i].nb = q[i + o].nb
                            /\ i + o = 1 => m \notin r[i].msgs
  /\ \A j \in 1 .. Len(q) : \A n \in q[j].msgs :
        \/ j = 1 /\ n = m
        \/ j - o \in 1 .. Len(r) /\ n \in r[j - o].msgs

LEMMA TakenShift ==
  ASSUME NEW q, IsQueue(q), q # <<>>, NEW m \in Head(q).msgs
  PROVE  \E o : Shifted(q, Taken(q, m), m, o)
<1> DEFINE r == Taken(q, m)
<1>1. /\ IsQueue(r)
      /\ Len(q) \in Nat /\ Len(q) >= 1 /\ Head(q) = q[1]
      /\ Head(q).msgs = {m} =>
           /\ Len(r) = Len(q) - 1
           /\ \A i \in 1 .. Len(q) - 1 : r[i] = q[i + 1]
      /\ Head(q).msgs # {m} =>
           /\ Len(r) = Len(q)
           /\ r[1].msgs = q[1].msgs \ {m}
           /\ r[1].nb = q[1].nb
           /\ \A i \in 2 .. Len(q) : r[i] = q[i]
  BY QueueTaken, ZenonT(30)
<1> HIDE DEF r
<1>2. CASE Head(q).msgs = {m}
  <2>1. \A j \in 1 .. Len(q) : \A n \in q[j].msgs :
           \/ j = 1 /\ n = m
           \/ j - 1 \in 1 .. Len(r) /\ n \in r[j - 1].msgs
    <3> SUFFICES ASSUME NEW j \in 1 .. Len(q), j # 1
                 PROVE  j - 1 \in 1 .. Len(r) /\ q[j] = r[j - 1]
      BY <1>1, <1>2
    <3>1. j - 1 \in 1 .. Len(q) - 1 /\ (j - 1) + 1 = j
      BY <1>1, SMTT(30)
    <3> QED
      BY <1>1, <1>2, <3>1, SMTT(30)
  <2>2. Shifted(q, r, m, 1)
    BY <1>1, <1>2, <2>1 DEF Shifted
  <2> QED
    BY <2>2 DEF r
<1>3. CASE Head(q).msgs # {m}
  <2>1. \A i \in 1 .. Len(q) : i = 1 \/ i \in 2 .. Len(q)
    BY <1>1
  <2>2. \A i \in 1 .. Len(r) : i + 0 = i /\ i - 0 = i
    BY <1>1, <1>3
  <2>3. Shifted(q, r, m, 0)
    BY <1>1, <1>3, <2>1, <2>2 DEF Shifted
  <2> QED
    BY <2>3 DEF r
<1> QED
  BY <1>2, <1>3

(* Replies: one is appended, or the first is taken.                        *)
LEMMA CtlAppend ==
  ASSUME NEW q, \E R : q \in Seq(R), NEW a
  PROVE  /\ Len(q) \in Nat /\ Len(Append(q, a)) = Len(q) + 1
         /\ \A k \in 1 .. Len(q) : Append(q, a)[k] = q[k]
         /\ Append(q, a)[Len(q) + 1] = a
<1>1. PICK R : q \in Seq(R)
  OBVIOUS
<1>2. q \in Seq(R \union {a})
  BY <1>1, SeqMonotonic
<1> QED
  BY <1>2, AppendProperties

LEMMA CtlTail ==
  ASSUME NEW q, \E R : q \in Seq(R), q # <<>>
  PROVE  /\ Len(q) \in Nat /\ Len(Tail(q)) = Len(q) - 1
         /\ 1 \in 1 .. Len(q) /\ Head(q) = q[1]
         /\ \A k \in 1 .. Len(Tail(q)) : /\ k + 1 \in 1 .. Len(q)
                                         /\ Tail(q)[k] = q[k + 1]
<1>1. PICK R : q \in Seq(R)
  OBVIOUS
<1> QED
  BY <1>1, HeadTailProperties

(* What an answer says, and what it means for the options.                 *)
LEMMA AnswerForms ==
  ASSUME NEW m, NEW a \in Answers(m)
  PROVE  /\ a[1] # NoReply => m.type \in XidTypes /\ a[1].xid = m.xid
         /\ a[1].type = "barrier_reply" => m.type = "barrier"
         /\ a[1].type = "tlv_reply" => a[1].map = sw.tlv
         /\ a[1].type = "error" =>
              /\ m.type \in {"tlv_request", "tlv_mod"}
              /\ m.type = "tlv_mod" /\ ~ left.full
                   => a[1].code \in {"ALREADY_MAPPED", "DUP_ENTRY"}
         /\ a[1].type = "error" => a[1] # NoReply
         /\ \/ a[2] = sw.tlv /\ (m.type = "tlv_mod" => a[1].type = "error")
            \/ /\ m.type = "tlv_mod" /\ sw.tlv[m.index] = "free"
               /\ a[2] = [sw.tlv EXCEPT ![m.index] = "ovn"]
<1> USE DEF Error, NoReply, XidTypes
<1>1. CASE m.type = "tlv_request"
  BY <1>1 DEF Answers
<1>2. CASE m.type = "tlv_mod"
  BY <1>2 DEF Answers
<1>3. CASE m.type = "barrier"
  BY <1>3 DEF Answers
<1>4. CASE m.type \notin XidTypes
  BY <1>4 DEF Answers
<1> QED
  BY <1>1, <1>2, <1>3, <1>4, Zenon

(* The switch takes the message m of the first batch and answers a.        *)
SwitchTakes(m, a, o) ==
  /\ a \in Answers(m)
  /\ Shifted(toSwitch, toSwitch', m, o)
  /\ flushed' = IF m.type = "flush" THEN flushed \union {m.zone} ELSE flushed
  /\ sw' = [Apply(sw, m) EXCEPT !.tlv = a[2]]
  /\ Len(toCtl) \in Nat
  /\ Len(toCtl') = Len(toCtl) + IF a[1] = NoReply THEN 0 ELSE 1
  /\ \A k \in 1 .. Len(toCtl) : toCtl'[k] = toCtl[k]
  /\ a[1] # NoReply => toCtl'[Len(toCtl) + 1] = a[1]
  /\ \A k \in 1 .. Len(toCtl') :
        \/ k \in 1 .. Len(toCtl) /\ toCtl'[k] = toCtl[k]
        \/ k = Len(toCtl) + 1 /\ toCtl'[k] = a[1] /\ a[1] # NoReply

LEMMA SwitchShape ==
  ASSUME ChannelInv, SwitchStep
  PROVE  \E m, a, o : SwitchTakes(m, a, o)
<1>1. PICK m \in Head(toSwitch).msgs :
        /\ toSwitch' = Taken(toSwitch, m)
        /\ flushed' = IF m.type = "flush" THEN flushed \union {m.zone}
                      ELSE flushed
        /\ \E a \in Answers(m) :
              /\ toCtl' = IF a[1] = NoReply THEN toCtl ELSE Append(toCtl, a[1])
              /\ sw' = [Apply(sw, m) EXCEPT !.tlv = a[2]]
  BY Zenon DEF SwitchStep, Taken
<1>2. PICK a \in Answers(m) :
        /\ toCtl' = IF a[1] = NoReply THEN toCtl ELSE Append(toCtl, a[1])
        /\ sw' = [Apply(sw, m) EXCEPT !.tlv = a[2]]
  BY <1>1
<1>3. toSwitch # <<>>
  BY DEF SwitchStep
<1>4. PICK o : Shifted(toSwitch, toSwitch', m, o)
  BY <1>1, <1>3, TakenShift DEF ChannelInv
<1>5. /\ Len(toCtl) \in Nat
      /\ Len(toCtl') = Len(toCtl) + IF a[1] = NoReply THEN 0 ELSE 1
      /\ \A k \in 1 .. Len(toCtl) : toCtl'[k] = toCtl[k]
      /\ a[1] # NoReply => toCtl'[Len(toCtl) + 1] = a[1]
  BY <1>2, CtlAppend DEF ChannelInv
<1>6. \A k \in 1 .. Len(toCtl') :
        \/ k \in 1 .. Len(toCtl) /\ toCtl'[k] = toCtl[k]
        \/ k = Len(toCtl) + 1 /\ toCtl'[k] = a[1] /\ a[1] # NoReply
  BY <1>5
<1> QED
  BY <1>1, <1>2, <1>4, <1>5, <1>6, Zenon DEF SwitchTakes

(* The messages of a put are no requests, and have its nb_cfg.             *)
PutBatches(q, nb) ==
  /\ IsQueue(q)
  /\ \A i \in 1 .. Len(q) : /\ q[i].nb = nb
                            /\ \A m \in q[i].msgs : m.type \notin XidTypes

LEMMA PutBatchesConcat ==
  ASSUME NEW q, NEW r, NEW nb, PutBatches(q, nb), PutBatches(r, nb)
  PROVE  PutBatches(q \o r, nb)
<1>1. /\ IsQueue(q \o r)
      /\ Len(q) \in Nat /\ Len(r) \in Nat
      /\ Len(q \o r) = Len(q) + Len(r)
      /\ \A i \in 1 .. Len(q) : (q \o r)[i] = q[i]
      /\ \A i \in 1 .. Len(r) : (q \o r)[Len(q) + i] = r[i]
  BY QueueConcat DEF PutBatches
<1>2. ASSUME NEW i \in 1 .. Len(q \o r)
      PROVE  \/ \E j \in 1 .. Len(q) : (q \o r)[i] = q[j]
             \/ \E j \in 1 .. Len(r) : (q \o r)[i] = r[j]
  <2>1. CASE i <= Len(q)
    BY <1>1, <2>1
  <2>2. CASE ~ (i <= Len(q))
    <3>1. i - Len(q) \in 1 .. Len(r) /\ Len(q) + (i - Len(q)) = i
      BY <1>1, <2>2
    <3> QED
      BY <1>1, <3>1
  <2> QED
    BY <2>1, <2>2
<1> QED
  BY <1>1, <1>2 DEF PutBatches

LEMMA PutBatchesNonEmpty ==
  ASSUME NEW ms, NEW nb \in Nat, \A m \in ms : m.type \notin XidTypes
  PROVE  PutBatches(NonEmpty(ms, nb), nb)
<1>1. CASE ms = {}
  BY <1>1, QueueEmpty DEF PutBatches, NonEmpty
<1>2. CASE ms # {}
  BY <1>2, QueueSingle DEF PutBatches, NonEmpty
<1> QED
  BY <1>1, <1>2

(* All the messages of F are under way in q.                               *)
Carries(q, F) == \A m \in F : \E i \in 1 .. Len(q) : m \in q[i].msgs

LEMMA CarriesNonEmpty ==
  ASSUME NEW ms, NEW nb \in Nat
  PROVE  /\ Carries(NonEmpty(ms, nb), ms)
         /\ IsQueue(NonEmpty(ms, nb))
<1>1. CASE ms = {}
  BY <1>1, QueueEmpty DEF Carries, NonEmpty
<1>2. CASE ms # {}
  <2>1. NonEmpty(ms, nb) = <<Batch(ms, nb)>>
    BY <1>2 DEF NonEmpty
  <2> QED
    BY <2>1, QueueSingle DEF Carries
<1> QED
  BY <1>1, <1>2

LEMMA CarriesConcat ==
  ASSUME NEW q, NEW r, IsQueue(q), IsQueue(r)
  PROVE  \A F : Carries(q, F) \/ Carries(r, F) => Carries(q \o r, F)
<1> SUFFICES ASSUME NEW F, Carries(q, F) \/ Carries(r, F), NEW m \in F
             PROVE  \E i \in 1 .. Len(q \o r) : m \in (q \o r)[i].msgs
  BY DEF Carries
<1>1. /\ Len(q) \in Nat /\ Len(r) \in Nat
      /\ Len(q \o r) = Len(q) + Len(r)
      /\ \A i \in 1 .. Len(q) : (q \o r)[i] = q[i]
      /\ \A i \in 1 .. Len(r) : (q \o r)[Len(q) + i] = r[i]
  BY QueueConcat
<1>2. CASE Carries(q, F)
  BY <1>1, <1>2 DEF Carries
<1>3. CASE Carries(r, F)
  <2>1. PICK i \in 1 .. Len(r) : m \in r[i].msgs
    BY <1>3 DEF Carries
  <2>2. Len(q) + i \in 1 .. Len(q \o r)
    BY <1>1
  <2> QED
    BY <1>1, <2>1, <2>2
<1> QED
  BY <1>2, <1>3

(* What ofctrl_put() sends, before its barrier.                            *)
LEMMA PutShape ==
  ASSUME NEW D, NEW nb \in Nat
  PROVE  /\ PutBatches(PutMessages(D, nb), nb)
         /\ Carries(PutMessages(D, nb), FlushMessages)
         /\ Carries(PutMessages(D, nb), FlowChanges(D))
         /\ Carries(PutMessages(D, nb), FlowAdds(D))
<1> DEFINE q1 == NonEmpty(FlushMessages, nb)
           q2 == q1 \o NonEmpty(GroupAdds, nb)
           q3 == q2 \o NonEmpty(MeterAdds, nb)
           q4 == q3 \o NonEmpty(FlowChanges(D), nb)
           q5 == q4 \o NonEmpty(FlowAdds(D), nb)
           q6 == q5 \o NonEmpty(GroupDeletes, nb)
           q7 == q6 \o NonEmpty(MeterDeletes, nb)
<1>1. /\ \A m \in FlushMessages : m.type \notin XidTypes
      /\ \A m \in GroupAdds : m.type \notin XidTypes
      /\ \A m \in MeterAdds : m.type \notin XidTypes
      /\ \A m \in FlowChanges(D) : m.type \notin XidTypes
      /\ \A m \in FlowAdds(D) : m.type \notin XidTypes
      /\ \A m \in GroupDeletes : m.type \notin XidTypes
      /\ \A m \in MeterDeletes : m.type \notin XidTypes
  BY DEF XidTypes, FlushMessages, GroupAdds, MeterAdds, FlowChanges, FlowAdds,
         GroupDeletes, MeterDeletes
<1>2. ASSUME NEW q, PutBatches(q, nb), NEW ms,
             \A m \in ms : m.type \notin XidTypes
      PROVE  /\ PutBatches(q \o NonEmpty(ms, nb), nb)
             /\ Carries(q \o NonEmpty(ms, nb), ms)
             /\ \A F : Carries(q, F) => Carries(q \o NonEmpty(ms, nb), F)
  BY <1>2, PutBatchesNonEmpty, PutBatchesConcat, CarriesNonEmpty,
     CarriesConcat, ZenonT(30)
     DEF PutBatches
<1>3. PutBatches(q1, nb) /\ Carries(q1, FlushMessages)
  BY <1>1, PutBatchesNonEmpty, CarriesNonEmpty
<1> HIDE DEF q1
<1>4. PutBatches(q2, nb) /\ Carries(q2, FlushMessages)
  BY <1>1, <1>2, <1>3, SMTT(30)
<1> HIDE DEF q2
<1>5. PutBatches(q3, nb) /\ Carries(q3, FlushMessages)
  BY <1>1, <1>2, <1>4, SMTT(30)
<1> HIDE DEF q3
<1>6. /\ PutBatches(q4, nb) /\ Carries(q4, FlushMessages)
      /\ Carries(q4, FlowChanges(D))
  BY <1>1, <1>2, <1>5, SMTT(30)
<1> HIDE DEF q4
<1>7. /\ PutBatches(q5, nb) /\ Carries(q5, FlushMessages)
      /\ Carries(q5, FlowChanges(D)) /\ Carries(q5, FlowAdds(D))
  BY <1>1, <1>2, <1>6, SMTT(30)
<1> HIDE DEF q5
<1>8. /\ PutBatches(q6, nb) /\ Carries(q6, FlushMessages)
      /\ Carries(q6, FlowChanges(D)) /\ Carries(q6, FlowAdds(D))
  BY <1>1, <1>2, <1>7, SMTT(30)
<1> HIDE DEF q6
<1>9. /\ PutBatches(q7, nb) /\ Carries(q7, FlushMessages)
      /\ Carries(q7, FlowChanges(D)) /\ Carries(q7, FlowAdds(D))
  BY <1>1, <1>2, <1>8
<1>10. PutMessages(D, nb) = q7
  BY DEF PutMessages, q1, q2, q3, q4, q5, q6
<1> QED
  BY <1>9, <1>10, SMTT(30)

(* ... and with the barrier.                                               *)
Barriered(q, x, nb) == q \o <<Batch({Barrier(x)}, nb)>>

LEMMA BarrieredShape ==
  ASSUME NEW q, NEW x, NEW nb \in Nat, PutBatches(q, nb)
  PROVE  /\ IsQueue(Barriered(q, x, nb))
         /\ Len(q) \in Nat /\ Len(Barriered(q, x, nb)) = Len(q) + 1
         /\ \A i \in 1 .. Len(q) : Barriered(q, x, nb)[i] = q[i]
         /\ Barriered(q, x, nb)[Len(q) + 1].msgs = {Barrier(x)}
         /\ \A i \in 1 .. Len(q) + 1 : Barriered(q, x, nb)[i].nb = nb
<1> DEFINE r == <<Batch({Barrier(x)}, nb)>>
<1>0. \A s : IsQueue(s) =>
        /\ IsQueue(q \o s)
        /\ Len(q) \in Nat /\ Len(s) \in Nat
        /\ Len(q \o s) = Len(q) + Len(s)
        /\ \A i \in 1 .. Len(q) : (q \o s)[i] = q[i]
        /\ \A i \in 1 .. Len(s) : (q \o s)[Len(q) + i] = s[i]
  BY QueueConcat DEF PutBatches
<1>1. IsQueue(r) /\ Len(r) = 1 /\ r[1].msgs = {Barrier(x)} /\ r[1].nb = nb
  BY QueueSingle
<1> HIDE DEF r
<1>2. /\ IsQueue(q \o r)
      /\ Len(q) \in Nat /\ Len(r) \in Nat
      /\ Len(q \o r) = Len(q) + Len(r)
      /\ \A i \in 1 .. Len(q) : (q \o r)[i] = q[i]
      /\ \A i \in 1 .. Len(r) : (q \o r)[Len(q) + i] = r[i]
  BY <1>0, <1>1, Zenon
<1>3. (q \o r)[Len(q) + 1] = r[1] /\ Len(q \o r) = Len(q) + 1
  BY <1>1, <1>2
<1>4. \A i \in 1 .. Len(q) + 1 : i \in 1 .. Len(q) \/ i = Len(q) + 1
  BY <1>2
<1> QED
  BY <1>1, <1>2, <1>3, <1>4, Zenon DEF Barriered, r, PutBatches

(* b is q and then a batch that is the barrier x alone, all for nb.        *)
EndsInBarrier(b, q, x, nb) ==
  /\ IsQueue(b) /\ Len(q) \in Nat /\ Len(b) = Len(q) + 1
  /\ b[Len(q) + 1].msgs = {Barrier(x)}
  /\ \A i \in 1 .. Len(q) + 1 : b[i].nb = nb

LEMMA BarrieredEnds ==
  ASSUME NEW q, NEW x, NEW nb \in Nat, PutBatches(q, nb)
  PROVE  EndsInBarrier(Barriered(q, x, nb), q, x, nb)
<1> DEFINE b == Barriered(q, x, nb)
<1>1. /\ IsQueue(b) /\ Len(q) \in Nat /\ Len(b) = Len(q) + 1
      /\ b[Len(q) + 1].msgs = {Barrier(x)}
  BY BarrieredShape, ZenonT(30)
<1>2. ASSUME NEW i \in 1 .. Len(q) + 1
      PROVE  b[i].nb = nb
  BY BarrieredShape, SMTT(30)
<1> QED
  BY <1>1, <1>2, Zenon DEF EndsInBarrier

-----------------------------------------------------------------------------
(* The xids. *)

(* The xids under way have been allocated, and no two barriers share one:  *)
(* a reply whose xid is that of a barrier is the reply to that barrier.    *)
XidInv ==
  /\ \A i \in 1 .. Len(toSwitch) : \A m \in toSwitch[i].msgs :
        m.type \in XidTypes => /\ m.xid \in Nat /\ m.xid < next_xid
                               /\ m.type = "barrier" => m = Barrier(m.xid)
  /\ \A k \in 1 .. Len(toCtl) : toCtl[k].xid \in Nat /\ toCtl[k].xid < next_xid
  /\ \A i, j \in 1 .. Len(toSwitch) : \A m \in toSwitch[i].msgs :
        m.type = "barrier" /\ m \in toSwitch[j].msgs => i = j
  /\ \A i \in 1 .. Len(toSwitch), k \in 1 .. Len(toCtl) :
        toCtl[k].type = "barrier_reply"
          => Barrier(toCtl[k].xid) \notin toSwitch[i].msgs

(* Replies are read, none comes.                                           *)
Fewer(q, r) == \A k \in 1 .. Len(r) : \E l \in 1 .. Len(q) : r[k] = q[l]

LEMMA FewerTail ==
  ASSUME NEW q, \E R : q \in Seq(R)
  PROVE  Fewer(q, q) /\ (q # <<>> => Fewer(q, Tail(q)))
BY CtlTail, SMTT(30) DEF Fewer

(* Requests with new xids, of which none is that of two barriers.          *)
Fresh(bs, x, y) ==
  /\ \A i \in 1 .. Len(bs) : \A m \in bs[i].msgs :
        m.type \in XidTypes => /\ m.xid \in Nat /\ x <= m.xid /\ m.xid < y
                               /\ m.type = "barrier" => m = Barrier(m.xid)
  /\ \A i, j \in 1 .. Len(bs) : \A m \in bs[i].msgs :
        m.type = "barrier" /\ m \in bs[j].msgs => i = j

LEMMA XidSend ==
  ASSUME ChannelInv, XidInv, NEW bs, IsQueue(bs), Send(bs),
         next_xid' \in Nat, next_xid' >= next_xid,
         Fresh(bs, next_xid, next_xid'), Fewer(toCtl, toCtl')
  PROVE  XidInv'
<1> DEFINE n == Len(toSwitch)
           new(i) == /\ i - n \in 1 .. Len(bs)
                     /\ toSwitch'[i] = bs[i - n]
<1>1. /\ n \in Nat /\ Len(bs) \in Nat /\ Len(toSwitch') \in Nat
      /\ \A i \in 1 .. n : toSwitch'[i] = toSwitch[i]
      /\ \A i \in 1 .. Len(toSwitch') : i > n => new(i)
  BY SendShape DEF ChannelInv
<1>2. next_xid \in Nat
  BY DEF ChannelInv
<1>3. \A i \in 1 .. Len(toSwitch') : i \in 1 .. n \/ i > n
  BY <1>1, SMTT(30)
<1> HIDE DEF n
<1>4. ASSUME NEW i \in 1 .. Len(toSwitch'), NEW m \in toSwitch'[i].msgs,
             m.type \in XidTypes
      PROVE  /\ m.xid \in Nat /\ m.xid < next_xid'
             /\ m.type = "barrier" => m = Barrier(m.xid)
             /\ i \in 1 .. n => m \in toSwitch[i].msgs /\ m.xid < next_xid
             /\ i > n => m \in bs[i - n].msgs /\ m.xid >= next_xid
  <2>1. CASE i \in 1 .. n
    BY <1>1, <1>2, <1>4, <2>1, SMTT(30) DEF XidInv, n
  <2>2. CASE i > n
    BY <1>1, <1>2, <1>4, <2>2 DEF Fresh
  <2> QED
    BY <1>3, <2>1, <2>2, SMTT(30)
<1>5. \A k \in 1 .. Len(toCtl') :
         /\ toCtl'[k].xid \in Nat /\ toCtl'[k].xid < next_xid
         /\ \A i \in 1 .. n : toCtl'[k].type = "barrier_reply"
              => Barrier(toCtl'[k].xid) \notin toSwitch[i].msgs
  BY ZenonT(30) DEF XidInv, Fewer, n
<1>6. \A i, j \in 1 .. Len(toSwitch') : \A m \in toSwitch'[i].msgs :
         m.type = "barrier" /\ m \in toSwitch'[j].msgs => i = j
  <2> SUFFICES ASSUME NEW i \in 1 .. Len(toSwitch'),
                      NEW j \in 1 .. Len(toSwitch'),
                      NEW m \in toSwitch'[i].msgs, m.type = "barrier",
                      m \in toSwitch'[j].msgs
               PROVE  i = j
    OBVIOUS
  <2>0. m.type \in XidTypes
    BY SMTT(30) DEF XidTypes
  <2>1. CASE i \in 1 .. n /\ j \in 1 .. n
    BY <1>1, <2>1, SMTT(30) DEF XidInv, n
  <2>2. CASE i > n /\ j > n
    <3>1. \A k, l \in 1 .. Len(bs) : m \in bs[k].msgs /\ m \in bs[l].msgs => k = l
      BY SMTT(30) DEF Fresh
    <3>2. /\ i - n \in 1 .. Len(bs) /\ m \in bs[i - n].msgs
          /\ j - n \in 1 .. Len(bs) /\ m \in bs[j - n].msgs
      BY <1>1, <2>2, SMTT(30)
    <3>3. i - n = j - n
      BY <3>1, <3>2
    <3> QED
      BY <1>1, <3>3, SMTT(30)
  <2>3. CASE i \in 1 .. n /\ j > n
    BY <1>2, <1>4, <2>0, <2>3, SMTT(30)
  <2>4. CASE i > n /\ j \in 1 .. n
    BY <1>2, <1>4, <2>0, <2>4
  <2> QED
    BY <1>3, <2>1, <2>2, <2>3, <2>4
<1>7. ASSUME NEW i \in 1 .. Len(toSwitch'), NEW k \in 1 .. Len(toCtl'),
             toCtl'[k].type = "barrier_reply",
             Barrier(toCtl'[k].xid) \in toSwitch'[i].msgs
      PROVE  FALSE
  <2>1. /\ Barrier(toCtl'[k].xid).type \in XidTypes
        /\ Barrier(toCtl'[k].xid).xid = toCtl'[k].xid
    BY DEF Barrier, XidTypes
  <2>2. i \in 1 .. n
    BY <1>2, <1>3, <1>4, <1>5, <1>7, <2>1
  <2> QED
    BY <1>1, <1>5, <1>7, <2>2, SMTT(30)
<1>8. \A k \in 1 .. Len(toCtl') :
         toCtl'[k].xid \in Nat /\ toCtl'[k].xid < next_xid'
  BY <1>2, <1>5
<1> QED
  BY <1>4, <1>6, <1>7, <1>8, SMTT(30) DEF XidInv

(* Nothing is sent.                                                        *)
LEMMA XidQuiet ==
  ASSUME XidInv, toSwitch' = toSwitch \/ toSwitch' = <<>>,
         UNCHANGED next_xid, Fewer(toCtl, toCtl')
  PROVE  XidInv'
<1>0. ASSUME NEW k \in 1 .. Len(toCtl')
      PROVE  /\ toCtl'[k].xid \in Nat /\ toCtl'[k].xid < next_xid
             /\ toCtl'[k].type = "barrier_reply" =>
                  \A i \in 1 .. Len(toSwitch) :
                     Barrier(toCtl'[k].xid) \notin toSwitch[i].msgs
  <2>1. PICK l \in 1 .. Len(toCtl) : toCtl'[k] = toCtl[l]
    BY SMTT(30) DEF Fewer
  <2> QED
    BY <2>1 DEF XidInv
<1>1. CASE toSwitch' = toSwitch
  BY <1>0, <1>1, SMTT(30) DEF XidInv
<1>2. CASE toSwitch' = <<>>
  <2>1. 1 .. Len(toSwitch') = {}
    BY <1>2, QueueEmpty, SMTT(30)
  <2> QED
    BY <1>0, <2>1 DEF XidInv
<1> QED
  BY <1>1, <1>2, SMTT(30)

(* The switch's answer has the xid of the request that is gone.            *)
LEMMA XidSwitch ==
  ASSUME ChannelInv, XidInv, SwitchStep
  PROVE  XidInv'
<1>1. PICK m, a, o : SwitchTakes(m, a, o)
  BY SwitchShape
<1>2. UNCHANGED next_xid
  BY DEF SwitchStep
<1>3. a \in Answers(m) /\ Shifted(toSwitch, toSwitch', m, o)
  BY <1>1 DEF SwitchTakes
<1>4. /\ a[1] # NoReply => m.type \in XidTypes /\ a[1].xid = m.xid
      /\ a[1].type = "barrier_reply" => m.type = "barrier"
  BY <1>3, AnswerForms, Zenon
<1>5. m.type \in XidTypes => /\ m.xid \in Nat /\ m.xid < next_xid
                             /\ m.type = "barrier" => m = Barrier(m.xid)
  BY <1>3 DEF XidInv, Shifted
<1>6. \A k \in 1 .. Len(toCtl') :
         \/ k \in 1 .. Len(toCtl) /\ toCtl'[k] = toCtl[k]
         \/ toCtl'[k] = a[1] /\ a[1] # NoReply
  BY <1>1, SMTT(30) DEF SwitchTakes
<1>7. \A k \in 1 .. Len(toCtl') :
         toCtl'[k].xid \in Nat /\ toCtl'[k].xid < next_xid
  BY <1>4, <1>5, <1>6, SMTT(30) DEF XidInv
<1>8. \A i \in 1 .. Len(toSwitch') : \A n \in toSwitch'[i].msgs :
         n.type \in XidTypes => /\ n.xid \in Nat /\ n.xid < next_xid
                                /\ n.type = "barrier" => n = Barrier(n.xid)
  BY <1>3 DEF XidInv, Shifted
<1>9. ASSUME NEW i \in 1 .. Len(toSwitch'), NEW j \in 1 .. Len(toSwitch'),
             NEW n \in toSwitch'[i].msgs, n.type = "barrier",
             n \in toSwitch'[j].msgs
      PROVE  i = j
  <2>1. /\ o \in {0, 1}
        /\ i + o \in 1 .. Len(toSwitch) /\ n \in toSwitch[i + o].msgs
        /\ j + o \in 1 .. Len(toSwitch) /\ n \in toSwitch[j + o].msgs
    BY <1>3, <1>9, SMTT(30) DEF Shifted
  <2>2. i + o = j + o
    BY <1>9, <2>1, SMTT(30) DEF XidInv
  <2> QED
    BY <2>1, <2>2, SMTT(30)
<1>10. m.type = "barrier" => \A i \in 1 .. Len(toSwitch') :
                                m \notin toSwitch'[i].msgs
  BY <1>3 DEF XidInv, Shifted
<1>11. ASSUME NEW i \in 1 .. Len(toSwitch'), NEW k \in 1 .. Len(toCtl'),
              toCtl'[k].type = "barrier_reply",
              Barrier(toCtl'[k].xid) \in toSwitch'[i].msgs
       PROVE  FALSE
  <2>1. CASE k \in 1 .. Len(toCtl) /\ toCtl'[k] = toCtl[k]
    <3>1. /\ i + o \in 1 .. Len(toSwitch)
          /\ Barrier(toCtl[k].xid) \in toSwitch[i + o].msgs
      BY <1>3, <1>11, <2>1, SMTT(30) DEF Shifted
    <3> QED
      BY <1>11, <2>1, <3>1, SMTT(30) DEF XidInv
  <2>2. CASE toCtl'[k] = a[1] /\ a[1] # NoReply
    <3>1. m = Barrier(a[1].xid) /\ m.type = "barrier"
      BY <1>4, <1>5, <1>11, <2>2, SMTT(30)
    <3> QED
      BY <1>10, <1>11, <2>2, <3>1
  <2> QED
    BY <1>6, <2>1, <2>2, SMTT(30)
<1> QED
  BY <1>2, <1>7, <1>8, <1>9, <1>11 DEF XidInv

(* What ofctrl.c sends, and that its xids are new.                         *)
TlvRequest == <<Batch({[type |-> "tlv_request", xid |-> next_xid]}, 0)>>
TlvMod(index) ==
  <<Batch({[type |-> "tlv_mod", xid |-> next_xid, index |-> index]}, 0),
    Batch({Barrier(next_xid + 1)}, 0)>>
PutAll == Barriered(PutMessages(Desired, sb.nb_cfg), next_xid, sb.nb_cfg)

LEMMA RequestFresh ==
  ASSUME next_xid \in Nat
  PROVE  IsQueue(TlvRequest) /\ Fresh(TlvRequest, next_xid, next_xid + 1)
<1> DEFINE m == [type |-> "tlv_request", xid |-> next_xid]
<1>1. /\ IsQueue(TlvRequest) /\ Len(TlvRequest) = 1
      /\ TlvRequest[1].msgs = {m}
  BY QueueSingle DEF TlvRequest
<1>2. m.type = "tlv_request" /\ m.xid = next_xid
  OBVIOUS
<1> HIDE DEF m
<1>3. \A i \in 1 .. Len(TlvRequest) : i = 1
  BY <1>1
<1> QED
  BY <1>1, <1>2, <1>3, SMTT(30) DEF Fresh

LEMMA ModFresh ==
  ASSUME next_xid \in Nat, NEW index
  PROVE  IsQueue(TlvMod(index)) /\ Fresh(TlvMod(index), next_xid, next_xid + 2)
<1> DEFINE m == [type |-> "tlv_mod", xid |-> next_xid, index |-> index]
           b == Barrier(next_xid + 1)
           bs == TlvMod(index)
<1>1. IsQueue(bs) /\ Len(bs) = 2 /\ bs[1].msgs = {m} /\ bs[2].msgs = {b}
  BY QueuePair DEF TlvMod
<1>2. /\ m.type = "tlv_mod" /\ m.xid = next_xid
      /\ b.type = "barrier" /\ b.xid = next_xid + 1 /\ b = Barrier(b.xid)
  BY DEF Barrier
<1> HIDE DEF m, b, bs
<1>3. \A i \in 1 .. Len(bs) : i = 1 \/ i = 2
  BY <1>1, SMTT(30)
<1>4. Fresh(bs, next_xid, next_xid + 2)
  BY <1>1, <1>2, <1>3, SMTT(30) DEF Fresh
<1> QED
  BY <1>1, <1>4, SMTT(30) DEF bs

LEMMA ClearFresh ==
  ASSUME NEW x
  PROVE  IsQueue(ClearMessages) /\ Fresh(ClearMessages, x, x)
<1>1. \A i \in 1 .. 3 : i = 1 \/ i = 2 \/ i = 3
  BY SMTT(30)
<1>2. \A i \in 1 .. Len(ClearMessages) : \A m \in ClearMessages[i].msgs :
         m.type \notin XidTypes
  BY <1>1, ClearQueue, SMTT(30) DEF XidTypes
<1> QED
  BY <1>2, ClearQueue DEF Fresh, XidTypes

LEMMA PutFresh ==
  ASSUME next_xid \in Nat, sb.nb_cfg \in Nat
  PROVE  IsQueue(PutAll) /\ Fresh(PutAll, next_xid, next_xid + 1)
<1> DEFINE q == PutMessages(Desired, sb.nb_cfg)
           b == Barrier(next_xid)
<1>1. PutBatches(q, sb.nb_cfg)
  BY PutShape, SMTT(30)
<1> HIDE DEF q
<1>2. /\ IsQueue(PutAll)
      /\ Len(q) \in Nat /\ Len(PutAll) = Len(q) + 1
      /\ \A i \in 1 .. Len(q) : PutAll[i] = q[i]
      /\ PutAll[Len(q) + 1].msgs = {b}
  BY <1>1, BarrieredShape DEF PutAll, q
<1>3. b.type = "barrier" /\ b.xid = next_xid /\ b = Barrier(b.xid)
  BY SMTT(30) DEF Barrier
<1> HIDE DEF b
<1>4. ASSUME NEW i \in 1 .. Len(PutAll), NEW m \in PutAll[i].msgs,
             m.type \in XidTypes
      PROVE  i = Len(q) + 1 /\ m = b
  <2>1. i \in 1 .. Len(q) \/ i = Len(q) + 1
    BY <1>2
  <2> QED
    BY <1>1, <1>2, <1>4, <2>1 DEF PutBatches
<1>5. "barrier" \in XidTypes
  BY DEF XidTypes
<1> QED
  BY <1>2, <1>3, <1>4, <1>5 DEF Fresh

(* How the requests of recv_S_TLV_TABLE_REQUESTED() and ofctrl_put() go    *)
(* out, or nothing.                                                        *)
LEMMA RequestedSends ==
  ASSUME recv_S_TLV_TABLE_REQUESTED
  PROVE  \/ UNCHANGED <<toSwitch, next_xid>>
         \/ \E index : Send(TlvMod(index)) /\ next_xid' = next_xid + 2
BY Zenon DEF recv_S_TLV_TABLE_REQUESTED, Ignored, RequestFailed, GeneveOption,
       netVars, TlvMod, Barrier

LEMMA PutSends ==
  ASSUME ofctrl_put
  PROVE  \/ UNCHANGED <<toSwitch, next_xid>>
         \/ Send(PutAll) /\ next_xid' = next_xid + 1
BY DEF ofctrl_put, Desired, PutAll, Barriered, Barrier, netVars

LEMMA NextXid ==
  ASSUME ChannelInv, XidInv, [Next]_vars
  PROVE  XidInv'
<1> USE DEF loopVars, tlvVars, flowVars, cfgVars, connVars, netVars, swVars
<1>0. next_xid \in Nat /\ sb.nb_cfg \in Nat /\ IsQueue(toSwitch)
      /\ Fewer(toCtl, toCtl) /\ (toCtl # <<>> => Fewer(toCtl, Tail(toCtl)))
  BY FewerTail DEF ChannelInv
<1>1. CASE UNCHANGED <<toSwitch, toCtl, next_xid>>
  BY <1>0, <1>1, XidQuiet, SMTT(30)
<1>2. CASE run_S_NEW
  <2>1. /\ Send(TlvRequest) /\ next_xid' = next_xid + 1 /\ toCtl' = toCtl
    BY <1>2 DEF run_S_NEW, TlvRequest
  <2>2. next_xid' \in Nat /\ next_xid' >= next_xid
    BY <1>0, <2>1
  <2> QED
    BY <1>0, <2>1, <2>2, RequestFresh, XidSend
<1>3. CASE run_S_CLEAR_FLOWS
  <2>1. Send(ClearMessages) /\ UNCHANGED <<next_xid, toCtl>>
    BY <1>3 DEF run_S_CLEAR_FLOWS
  <2>2. next_xid' \in Nat /\ next_xid' >= next_xid
    BY <1>0, <2>1
  <2> QED
    BY <1>0, <2>1, <2>2, ClearFresh, XidSend
<1>4. CASE recv_S_TLV_TABLE_REQUESTED
  <2>1. Fewer(toCtl, toCtl')
    BY <1>0, <1>4 DEF recv_S_TLV_TABLE_REQUESTED, Received
  <2>2. CASE UNCHANGED <<toSwitch, next_xid>>
    BY <2>1, <2>2, XidQuiet
  <2>3. ASSUME NEW index, Send(TlvMod(index)), next_xid' = next_xid + 2
        PROVE  XidInv'
    <3>1. next_xid' \in Nat /\ next_xid' >= next_xid
      BY <1>0, <2>3
    <3> QED
      BY <1>0, <2>1, <2>3, <3>1, ModFresh, XidSend
  <2> QED
    BY <1>4, <2>2, <2>3, RequestedSends, SMTT(30)
<1>5. CASE recv_S_TLV_TABLE_MOD_SENT \/ recv_S_UPDATE_FLOWS
  <2>1. /\ toCtl # <<>> /\ toCtl' = Tail(toCtl)
        /\ UNCHANGED <<toSwitch, next_xid>>
    BY <1>5 DEF recv_S_TLV_TABLE_MOD_SENT, recv_S_UPDATE_FLOWS, Received,
                Ignored
  <2> QED
    BY <1>0, <2>1, XidQuiet, SMTT(30)
<1>6. CASE ofctrl_put
  <2>1. toCtl' = toCtl
    BY <1>6 DEF ofctrl_put
  <2>2. CASE UNCHANGED <<toSwitch, next_xid>>
    BY <1>1, <2>1, <2>2, SMTT(30)
  <2>3. CASE Send(PutAll) /\ next_xid' = next_xid + 1
    <3>1. next_xid' \in Nat /\ next_xid' >= next_xid
      BY <1>0, <2>3
    <3> QED
      BY <1>0, <2>1, <2>3, <3>1, PutFresh, XidSend
  <2> QED
    BY <1>6, <2>2, <2>3, PutSends
<1>7. CASE Disconnect
  <2>1. toSwitch' = <<>> /\ toCtl' = <<>> /\ UNCHANGED next_xid
    BY <1>7 DEF Disconnect
  <2>2. Fewer(toCtl, toCtl')
    BY <2>1, QueueEmpty DEF Fewer
  <2> QED
    BY <2>1, <2>2, XidQuiet
<1>8. CASE SwitchStep
  BY <1>8, XidSwitch
<1>9. CASE \/ ofctrl_run_connected \/ ofctrl_run_unconnected
           \/ ofctrl_run_reconnected \/ ofctrl_run_done \/ body_skip
           \/ body_lflow_run \/ consider_logical_flow \/ SbChange
           \/ update_ct_zones \/ Drain \/ OtherController \/ UNCHANGED vars
  BY <1>1, <1>9, Zenon
     DEF ofctrl_run_connected, ofctrl_run_unconnected, ofctrl_run_reconnected,
         ofctrl_run_done, body_skip, body_lflow_run, consider_logical_flow,
         SbChange, update_ct_zones, Drain, OtherController, vars
<1> QED
  BY <1>2, <1>3, <1>4, <1>5, <1>6, <1>7, <1>8, <1>9 DEF Next, Loop, Run

LEMMA XidInvariant == Spec => [](GroupsInv /\ ChannelInv /\ XidInv)
<1>1. Init => XidInv
  BY QueueEmpty DEF Init, XidInv
<1>2. GroupsInv /\ [Next]_vars => GroupsInv'
  BY NextGroups
<1>3. ChannelInv /\ [Next]_vars => ChannelInv'
  BY NextChannel
<1>4. ChannelInv /\ XidInv /\ [Next]_vars => XidInv'
  BY NextXid
<1> QED
  BY <1>1, <1>2, <1>3, <1>4, InitGroupsInv, InitChannel, PTL DEF Spec

-----------------------------------------------------------------------------
(* The flow updates that wait for their barrier. *)

(* The updates are for nb_cfgs that ascend, up to that of the database.    *)
Ordered(fu, nb) ==
  /\ fu \in Seq([xid : Nat, nb_cfg : Nat])
  /\ \A k \in 1 .. Len(fu) : fu[k].nb_cfg <= nb
  /\ \A k, l \in 1 .. Len(fu) : k < l => fu[k].nb_cfg < fu[l].nb_cfg

(* g is fu with its last update replaced, or with one more: the last       *)
(* update of g is u.                                                       *)
Renewed(fu, g, u) ==
  /\ Len(g) \in Nat /\ Len(g) >= 1
  /\ g[Len(g)] = u
  /\ \A k \in 1 .. Len(g) : k # Len(g) =>
        /\ k \in 1 .. Len(fu) /\ g[k] = fu[k]
        /\ g[k].nb_cfg < u.nb_cfg

LEMMA ReplaceLast ==
  ASSUME NEW nb \in Nat, NEW fu, Ordered(fu, nb), fu # <<>>,
         NEW u \in [xid : Nat, nb_cfg : Nat], u.nb_cfg = nb
  PROVE  LET g == [fu EXCEPT ![Len(fu)] = u]
         IN  Ordered(g, nb) /\ Renewed(fu, g, u) /\ g # <<>>
<1> DEFINE R == [xid : Nat, nb_cfg : Nat]
           g == [fu EXCEPT ![Len(fu)] = u]
           n == Len(fu)
<1>0. fu \in Seq(R) /\ u \in R /\ \A r \in R : r.nb_cfg \in Nat
  BY DEF Ordered
<1> HIDE DEF R
<1>1. n \in Nat /\ n >= 1
  BY <1>0
<1>2. g \in Seq(R) /\ Len(g) = n
  BY <1>0, <1>1
<1>3. g = [fu EXCEPT ![n] = u] /\ fu \in [1 .. n -> R]
  BY <1>0
<1>4. \A k \in 1 .. n : fu[k].nb_cfg \in Nat
  BY <1>0, ElementOfSeq
<1> HIDE DEF g, n
<1>10. n \in 1 .. n /\ \A k \in 1 .. n : k = n \/ k < n
  BY <1>1
<1>11. g[n] = u /\ \A k \in 1 .. n : k # n => g[k] = fu[k]
  BY <1>3, <1>10, SMTT(30)
<1> USE DEF n
<1>5. \A k \in 1 .. n : k # n => g[k].nb_cfg < nb
  <2> SUFFICES ASSUME NEW k \in 1 .. n, k # n
               PROVE  fu[k].nb_cfg < nb
    BY <1>11
  <2>1. n \in 1 .. n /\ k < n
    BY <1>10
  <2>2. fu[k].nb_cfg < fu[n].nb_cfg /\ fu[n].nb_cfg <= nb
    BY <2>1, SMTT(30) DEF Ordered
  <2>3. fu[k].nb_cfg \in Nat /\ fu[n].nb_cfg \in Nat
    BY <1>4, <2>1, SMTT(30)
  <2> QED
    BY <2>2, <2>3, SMTT(30)
<1>6. Renewed(fu, g, u)
  BY <1>1, <1>2, <1>11, <1>5 DEF Renewed
<1>7. ASSUME NEW k \in 1 .. n, NEW l \in 1 .. n, k < l
      PROVE  g[k].nb_cfg < g[l].nb_cfg
  <2>1. k # n
    BY <1>7, <1>10, <1>1, SMTT(30)
  <2>2. CASE l = n
    BY <1>11, <1>5, <2>1, <2>2, SMTT(30)
  <2>3. CASE l # n
    <3>1. fu[k].nb_cfg < fu[l].nb_cfg
      BY <1>7, SMTT(30) DEF Ordered
    <3> QED
      BY <1>11, <2>1, <2>3, <3>1
  <2> QED
    BY <2>2, <2>3
<1>8. \A k \in 1 .. n : g[k].nb_cfg <= nb
  <2> SUFFICES ASSUME NEW k \in 1 .. n
               PROVE  g[k].nb_cfg <= nb
    OBVIOUS
  <2>1. CASE k = n
    BY <1>11, <2>1, SMTT(30)
  <2>2. CASE k # n
    BY <1>11, <2>2 DEF Ordered
  <2> QED
    BY <2>1, <2>2, SMTT(30)
<1>9. g # <<>>
  BY <1>1, <1>2, SMTT(30)
<1> QED
  BY <1>2, <1>6, <1>7, <1>8, <1>9, Zenon DEF Ordered, g, R

LEMMA AppendLast ==
  ASSUME NEW nb \in Nat, NEW fu, Ordered(fu, nb),
         fu # <<>> => fu[Len(fu)].nb_cfg # nb,
         NEW u \in [xid : Nat, nb_cfg : Nat], u.nb_cfg = nb
  PROVE  LET g == Append(fu, u)
         IN  Ordered(g, nb) /\ Renewed(fu, g, u) /\ g # <<>>
<1> DEFINE R == [xid : Nat, nb_cfg : Nat]
           g == Append(fu, u)
           n == Len(fu)
<1>0. fu \in Seq(R) /\ u \in R /\ \A r \in R : r.nb_cfg \in Nat
  BY DEF Ordered
<1> HIDE DEF R
<1>1. n \in Nat
  BY <1>0
<1>2. /\ g \in Seq(R) /\ Len(g) = n + 1
      /\ g[n + 1] = u /\ \A k \in 1 .. n : g[k] = fu[k]
  BY <1>0, AppendProperties
<1>3. \A k \in 1 .. n + 1 : k # n + 1 => k \in 1 .. n
  BY <1>1
<1>4. \A k \in 1 .. n : fu[k].nb_cfg \in Nat
  BY <1>0, ElementOfSeq, SMTT(30)
<1> HIDE DEF g
<1>5. \A k \in 1 .. n : g[k].nb_cfg < nb
  <2> SUFFICES ASSUME NEW k \in 1 .. n
               PROVE  fu[k].nb_cfg < nb
    BY <1>2
  <2>1. n \in 1 .. n /\ (k = n \/ k < n)
    BY <1>1
  <2>4. fu # <<>>
    BY <1>1, <2>1, QueueEmpty, SMTT(30)
  <2>2. fu[n].nb_cfg <= nb /\ fu[n].nb_cfg # nb
    BY <2>1, <2>4, SMTT(30) DEF Ordered
  <2>3. k < n => fu[k].nb_cfg < fu[n].nb_cfg
    BY <2>1, SMTT(30) DEF Ordered
  <2> QED
    BY <1>4, <2>1, <2>2, <2>3
<1>6. Renewed(fu, g, u)
  BY <1>1, <1>2, <1>3, <1>5, SMTT(30) DEF Renewed
<1>7. ASSUME NEW k \in 1 .. n + 1, NEW l \in 1 .. n + 1, k < l
      PROVE  g[k].nb_cfg < g[l].nb_cfg
  <2>1. k \in 1 .. n
    BY <1>1, <1>7, SMTT(30)
  <2>2. CASE l = n + 1
    BY <1>2, <1>5, <2>1, <2>2
  <2>3. CASE l # n + 1
    BY <1>2, <1>3, <1>7, <2>1, <2>3, Zenon DEF Ordered
  <2> QED
    BY <2>2, <2>3
<1>8. \A k \in 1 .. n + 1 : g[k].nb_cfg <= nb
  <2> SUFFICES ASSUME NEW k \in 1 .. n + 1
               PROVE  g[k].nb_cfg <= nb
    OBVIOUS
  <2>1. CASE k = n + 1
    BY <1>2, <2>1
  <2>2. CASE k # n + 1
    BY <1>2, <1>3, <2>2, Zenon DEF Ordered
  <2> QED
    BY <2>1, <2>2
<1>9. g # <<>>
  BY <1>1, <1>2, SMTT(30)
<1> QED
  BY <1>2, <1>6, <1>7, <1>8, <1>9, SMTT(30) DEF Ordered, g, R

(* ofctrl_put() tracks an update: as the nb_cfgs of the database never     *)
(* fall, it drops none that waits.                                         *)
LEMMA TrackRenews ==
  ASSUME NEW nb \in Nat, NEW fu, Ordered(fu, nb), NEW x \in Nat
  PROVE  LET g == Track(fu, x, nb)
             u == [xid |-> x, nb_cfg |-> nb]
         IN  Ordered(g, nb) /\ Renewed(fu, g, u) /\ g # <<>>
<1> DEFINE older == {i \in DOMAIN fu : fu[i].nb_cfg <= nb}
           kept == IF older = {} THEN <<>> ELSE SubSeq(fu, 1, Max(older))
           n == Len(fu)
           u == [xid |-> x, nb_cfg |-> nb]
<1>1. n \in Nat /\ DOMAIN fu = 1 .. n /\ older = 1 .. n
  BY DEF Ordered
<1>2. kept = fu
  <2>1. CASE fu = <<>>
    BY <1>1, <2>1, SMTT(30)
  <2>2. CASE fu # <<>>
    <3>1. n >= 1 /\ n \in 1 .. n /\ \A y \in 1 .. n : n >= y
      BY <1>1, <2>2 DEF Ordered
    <3>2. \A z \in 1 .. n : (\A y \in 1 .. n : z >= y) => z = n
      BY <3>1
    <3>3. Max(1 .. n) = n
      BY <3>1, <3>2 DEF Max
    <3>4. SubSeq(fu, 1, n) = fu
      BY <3>1 DEF Ordered
    <3> QED
      BY <1>1, <3>1, <3>3, <3>4, Zenon
  <2> QED
    BY <2>1, <2>2
<1>3. Track(fu, x, nb) = IF kept # <<>> /\ kept[Len(kept)].nb_cfg = nb
                         THEN [kept EXCEPT ![Len(kept)].xid = x]
                         ELSE Append(kept, u)
  BY DEF Track
<1> HIDE DEF older, kept
<1>4. u \in [xid : Nat, nb_cfg : Nat] /\ u.nb_cfg = nb
  OBVIOUS
<1>5. CASE fu # <<>> /\ fu[n].nb_cfg = nb
  <2>0. n \in 1 .. n
    BY <1>1, <1>5, SMTT(30) DEF Ordered
  <2>1. fu[n] \in [xid : Nat, nb_cfg : Nat]
    BY <2>0, ElementOfSeq, Zenon DEF Ordered
  <2>2. \A r \in [xid : Nat, nb_cfg : Nat] :
           r.nb_cfg = nb => [r EXCEPT !.xid = x] = u
    OBVIOUS
  <2>3. Track(fu, x, nb) = [fu EXCEPT ![n] = [fu[n] EXCEPT !.xid = x]]
    BY <1>2, <1>3, <1>5, Zenon
  <2>4. Track(fu, x, nb) = [fu EXCEPT ![n] = u]
    BY <1>5, <2>1, <2>2, <2>3, Zenon
  <2> DEFINE h == [fu EXCEPT ![n] = u]
  <2>5. Ordered(h, nb) /\ Renewed(fu, h, u) /\ h # <<>>
    BY <1>4, <1>5, ReplaceLast, SMTT(30)
  <2> HIDE DEF h
  <2> QED
    BY <2>4, <2>5, Zenon DEF h
<1>6. CASE ~ (fu # <<>> /\ fu[n].nb_cfg = nb)
  <2>1. Track(fu, x, nb) = Append(fu, u)
    BY <1>2, <1>3, <1>6
  <2> QED
    BY <1>4, <1>6, <2>1, AppendLast
<1> QED
  BY <1>5, <1>6

(* A batch that is the barrier x alone comes at position i or after it.    *)
BarrierBehind(x, i) ==
  \E j \in 1 .. Len(toSwitch) : i <= j /\ toSwitch[j].msgs = {Barrier(x)}

(* What was sent for an nb_cfg is ahead of the barrier that the update for *)
(* it, or for a later nb_cfg, waits for.                                   *)
Awaited ==
  state = "S_UPDATE_FLOWS" =>
    \A i \in 1 .. Len(toSwitch), k \in 1 .. Len(flow_updates) :
       toSwitch[i].nb <= flow_updates[k].nb_cfg \/ k = Len(flow_updates)
         => BarrierBehind(flow_updates[k].xid, i)

(* When no update waits, the switch has it all (but for the clearing of    *)
(* its tables at the start of a connection).                               *)
Settled ==
  state = "S_UPDATE_FLOWS" /\ installed_flows # {} /\ flow_updates = <<>> =>
    toSwitch = <<>> /\ sw.flows = installed_flows

UpdatesInv == Ordered(flow_updates, sb.nb_cfg) /\ Awaited /\ Settled

LEMMA QueueNb ==
  ASSUME NEW q, IsQueue(q)
  PROVE  /\ Len(q) \in Nat /\ DOMAIN q = 1 .. Len(q)
         /\ q = <<>> <=> Len(q) = 0
         /\ \A i \in 1 .. Len(q) : q[i].nb \in Nat
<1>1. PICK M : q \in Seq([msgs : SUBSET M, nb : Nat])
  BY Zenon DEF IsQueue
<1> DEFINE B == [msgs : SUBSET M, nb : Nat]
<1>2. \A b \in B : b.nb \in Nat
  OBVIOUS
<1>3. q \in Seq(B)
  BY <1>1
<1> HIDE DEF B
<1>4. /\ Len(q) \in Nat /\ DOMAIN q = 1 .. Len(q)
      /\ q = <<>> <=> Len(q) = 0
  BY <1>3
<1> QED
  BY <1>2, <1>3, <1>4, ElementOfSeq

(* Nothing is sent and nothing is taken.                                   *)
LEMMA AwaitedQuiet ==
  ASSUME Awaited, UNCHANGED <<toSwitch, flow_updates>>,
         state' = "S_UPDATE_FLOWS" => state = "S_UPDATE_FLOWS"
  PROVE  Awaited'
<1>1. \A x, i : BarrierBehind(x, i)' <=> BarrierBehind(x, i)
  BY DEF BarrierBehind
<1> QED
  BY <1>1, Zenon DEF Awaited

(* ofctrl_put() without a message: the last update is now for the nb_cfg   *)
(* of the database.                                                        *)
LEMMA AwaitedRenewed ==
  ASSUME Awaited, state = "S_UPDATE_FLOWS", NEW u, NEW g,
         Renewed(flow_updates, g, u), flow_updates # <<>>,
         u.xid = flow_updates[Len(flow_updates)].xid,
         Len(g) = Len(flow_updates),
         flow_updates' = g, UNCHANGED toSwitch
  PROVE  Awaited'
<1> DEFINE fu == flow_updates
           n == Len(g)
<1>1. n \in Nat /\ n >= 1 /\ g[n] = u /\ Len(fu) = n
  BY DEF Renewed
<1>2. \A k \in 1 .. n : k # n => g[k] = fu[k]
  BY DEF Renewed
<1>3. n \in 1 .. n
  BY <1>1
<1>4. \A k \in 1 .. n : g[k].xid = fu[k].xid
  BY <1>1, <1>2, SMTT(30)
<1>5. ASSUME NEW i \in 1 .. Len(toSwitch), NEW k \in 1 .. n,
             toSwitch[i].nb <= g[k].nb_cfg \/ k = n
      PROVE  BarrierBehind(g[k].xid, i)
  <2>1. toSwitch[i].nb <= fu[k].nb_cfg \/ k = n
    BY <1>2, <1>5, SMTT(30)
  <2>2. BarrierBehind(fu[k].xid, i)
    BY <1>1, <2>1, SMTT(30) DEF Awaited
  <2> QED
    BY <1>4, <2>2, SMTT(30)
<1> HIDE DEF n
<1>6. \A x, i : BarrierBehind(x, i)' <=> BarrierBehind(x, i)
  BY SMTT(30) DEF BarrierBehind
<1> QED
  BY <1>5, <1>6, Zenon DEF Awaited, n

(* ofctrl_put() sends the messages of the update u and its barrier.        *)
LEMMA AwaitedPut ==
  ASSUME ChannelInv, Awaited, state = "S_UPDATE_FLOWS", NEW g,
         Ordered(flow_updates, sb.nb_cfg),
         Renewed(flow_updates, g, [xid |-> next_xid, nb_cfg |-> sb.nb_cfg]),
         Ordered(g, sb.nb_cfg), flow_updates' = g, Send(PutAll)
  PROVE  Awaited'
<1> DEFINE nb == sb.nb_cfg
           q == PutMessages(Desired, nb)
           n == Len(toSwitch)
           fu == flow_updates
<1>0. nb \in Nat /\ IsQueue(toSwitch)
  BY SMTT(30) DEF ChannelInv
<1>1. PutBatches(q, nb)
  BY <1>0, PutShape, SMTT(30)
<1>2. /\ IsQueue(PutAll) /\ Len(q) \in Nat /\ Len(PutAll) = Len(q) + 1
      /\ PutAll[Len(q) + 1].msgs = {Barrier(next_xid)}
      /\ \A i \in 1 .. Len(q) + 1 : PutAll[i].nb = nb
  <2>1. PutAll = Barriered(q, next_xid, nb)
    BY Zenon DEF PutAll
  <2> HIDE DEF q, nb
  <2>2. EndsInBarrier(Barriered(q, next_xid, nb), q, next_xid, nb)
    BY <1>0, <1>1, BarrieredEnds, Zenon
  <2>3. EndsInBarrier(PutAll, q, next_xid, nb)
    BY <2>1, <2>2, Zenon
  <2> QED
    BY <2>3, Zenon DEF EndsInBarrier
<1> HIDE DEF q
<1>3. /\ n \in Nat /\ Len(PutAll) \in Nat
      /\ Len(toSwitch') \in Nat /\ Len(toSwitch') >= n
      /\ \A i \in 1 .. n : toSwitch'[i] = toSwitch[i]
      /\ \A i \in 1 .. Len(toSwitch') : i > n =>
           /\ link /\ Len(toSwitch') = n + Len(PutAll)
           /\ i - n \in 1 .. Len(PutAll)
           /\ toSwitch'[i] = PutAll[i - n]
  BY <1>0, <1>2, SendShape, Zenon
<1>4. CASE ~ link
  <2>1. toSwitch' = <<>>
    BY <1>4 DEF Send, ChannelInv
  <2>2. Len(toSwitch') = 0
    BY <2>1, QueueEmpty, Zenon
  <2>3. \A i \in 1 .. 0 : FALSE
    OBVIOUS
  <2> QED
    BY <2>2, <2>3, Zenon DEF Awaited
<1>5. CASE link
  <2> DEFINE N == Len(toSwitch')
  <2>1. toSwitch' = toSwitch \o PutAll
    BY <1>5, SMTT(30) DEF Send
  <2>2. N = n + Len(PutAll)
    BY <1>0, <1>2, <2>1, QueueConcat
  <2>3. N \in 1 .. N /\ N > n /\ N - n = Len(q) + 1 /\ N \in Nat
    BY <1>2, <1>3, <2>2, SMTT(30)
  <2>4. toSwitch'[N].msgs = {Barrier(next_xid)}
    BY <1>2, <1>3, <2>3
  <2>5. \A i \in 1 .. N : i > n => toSwitch'[i].nb = nb
    BY <1>2, <1>3, ZenonT(30)
  <2>10. PICK y : y = next_xid
    BY Zenon
  <2>6. \A i \in 1 .. N : BarrierBehind(y, i)'
    <3>1. \A i \in 1 .. N : i <= N
      BY <2>3
    <3> QED
      BY <2>3, <2>4, <2>10, <3>1, Zenon DEF BarrierBehind
  <2>7. ASSUME NEW x, NEW i \in 1 .. n, BarrierBehind(x, i)
        PROVE  BarrierBehind(x, i)'
    <3>1. PICK j \in 1 .. n : i <= j /\ toSwitch[j].msgs = {Barrier(x)}
      BY <2>7, SMTT(30) DEF BarrierBehind
    <3>2. j \in 1 .. N
      BY <1>3, <3>1
    <3> QED
      BY <1>3, <3>1, <3>2, SMTT(30) DEF BarrierBehind
  <2> HIDE DEF N, n
  <2>8. ASSUME NEW i \in 1 .. N, NEW k \in 1 .. Len(g),
               toSwitch'[i].nb <= g[k].nb_cfg, k # Len(g)
        PROVE  BarrierBehind(g[k].xid, i)'
    <3>1. k \in 1 .. Len(fu) /\ g[k] = fu[k] /\ g[k].nb_cfg < nb
      BY <2>8, SMTT(30) DEF Renewed
    <3>2. fu[k].nb_cfg \in Nat
      <4>1. fu[k] \in [xid : Nat, nb_cfg : Nat]
        BY <3>1, ElementOfSeq, Zenon DEF Ordered
      <4>2. \A r \in [xid : Nat, nb_cfg : Nat] : r.nb_cfg \in Nat
        BY SMTT(30)
      <4> QED
        BY <4>1, <4>2, Zenon
    <3>3. ~ i > n
      BY <1>0, <2>5, <2>8, <3>1, <3>2
    <3>4. i \in 1 .. n
      BY <1>3, <2>3, <3>3, SMTT(30)
    <3>5. toSwitch[i].nb <= fu[k].nb_cfg
      BY <1>3, <2>8, <3>1, <3>4
    <3>6. BarrierBehind(fu[k].xid, i)
      BY <3>1, <3>4, <3>5, Zenon DEF Awaited, n
    <3> QED
      BY <2>7, <3>1, <3>4, <3>6, Zenon
  <2>9. g[Len(g)].xid = y
    <3>1. g[Len(g)] = [xid |-> next_xid, nb_cfg |-> sb.nb_cfg]
      BY Zenon DEF Renewed
    <3>2. \A a, b : [xid |-> a, nb_cfg |-> b].xid = a
      OBVIOUS
    <3> QED
      BY <2>10, <3>1, <3>2, Zenon
  <2> QED
    BY <2>6, <2>8, <2>9, Zenon DEF Awaited, N
<1> QED
  BY <1>4, <1>5, SMTT(30)

(* The switch takes a message: what is behind a barrier stays behind it,   *)
(* and a barrier goes only when nothing is ahead of it.                    *)
LEMMA AwaitedSwitch ==
  ASSUME Awaited, UNCHANGED <<state, flow_updates>>,
         NEW m, NEW o, Shifted(toSwitch, toSwitch', m, o)
  PROVE  Awaited'
<1>1. /\ o \in {0, 1} /\ (o = 0 => toSwitch[1].msgs # {m})
      /\ Len(toSwitch) \in Nat /\ Len(toSwitch') \in Nat
      /\ \A i \in 1 .. Len(toSwitch') :
            /\ i + o \in 1 .. Len(toSwitch)
            /\ toSwitch'[i].msgs \subseteq toSwitch[i + o].msgs
            /\ toSwitch'[i].nb = toSwitch[i + o].nb
      /\ \A j \in 1 .. Len(toSwitch) : \A n \in toSwitch[j].msgs :
            \/ j = 1 /\ n = m
            \/ j - o \in 1 .. Len(toSwitch') /\ n \in toSwitch'[j - o].msgs
  BY ZenonT(30) DEF Shifted
<1>2. ASSUME NEW i \in 1 .. Len(toSwitch'), NEW x,
             BarrierBehind(x, i + o)
      PROVE  BarrierBehind(x, i)'
  <2>1. PICK j \in 1 .. Len(toSwitch) :
           i + o <= j /\ toSwitch[j].msgs = {Barrier(x)}
    BY <1>2, SMTT(30) DEF BarrierBehind
  <2>2. ~ (j = 1 /\ Barrier(x) = m)
    <3> SUFFICES ASSUME j = 1, Barrier(x) = m
                 PROVE  FALSE
      BY SMTT(30)
    <3>1. o = 0
      BY <1>1, <2>1, SMTT(30)
    <3> QED
      BY <1>1, <2>1, <3>1
  <2>3. j - o \in 1 .. Len(toSwitch') /\ Barrier(x) \in toSwitch'[j - o].msgs
    BY <1>1, <2>1, <2>2, ZenonT(30)
  <2>4. (j - o) + o = j /\ i <= j - o
    BY <1>1, <2>1, SMTT(30)
  <2>5. toSwitch'[j - o].msgs \subseteq toSwitch[j].msgs
    BY <1>1, <2>3, <2>4, SMTT(30)
  <2>6. toSwitch'[j - o].msgs = {Barrier(x)}
    BY <2>1, <2>3, <2>5
  <2> QED
    BY <2>3, <2>4, <2>6, SMTT(30) DEF BarrierBehind, Barrier
<1>3. ASSUME state = "S_UPDATE_FLOWS", NEW i \in 1 .. Len(toSwitch'),
             NEW k \in 1 .. Len(flow_updates),
             toSwitch'[i].nb <= flow_updates[k].nb_cfg \/ k = Len(flow_updates),
             NEW x, x = flow_updates[k].xid
      PROVE  BarrierBehind(x, i)'
  <2>1. BarrierBehind(x, i + o)
    BY <1>1, <1>3, Zenon DEF Awaited
  <2> QED
    BY <1>2, <2>1
<1>4. UNCHANGED flow_updates
  OBVIOUS
<1> QED
  BY <1>3, <1>4, Zenon DEF Awaited

(* recv_S_UPDATE_FLOWS(): the reply to the first update's barrier, or      *)
(* another message.                                                        *)
FirstConfirmed ==
  /\ flow_updates # <<>> /\ toCtl # <<>>
  /\ Head(toCtl).type = "barrier_reply"
  /\ Head(flow_updates).xid = Head(toCtl).xid

LEMMA UpdateReceived ==
  ASSUME recv_S_UPDATE_FLOWS
  PROVE  /\ state = "S_UPDATE_FLOWS"
         /\ UNCHANGED <<toSwitch, sw, sb, state, installed_flows, link>>
         /\ \/ UNCHANGED <<flow_updates, cur_cfg>>
            \/ /\ FirstConfirmed
               /\ flow_updates' = Tail(flow_updates)
               /\ cur_cfg' = cur_cfg \/ cur_cfg' = Head(flow_updates).nb_cfg
BY Zenon DEF recv_S_UPDATE_FLOWS, Received, Ignored, FirstConfirmed, loopVars,
             tlvVars, flowVars, cfgVars, connVars, netVars, swVars

LEMMA TailOrdered ==
  ASSUME NEW nb \in Nat, NEW fu, Ordered(fu, nb), fu # <<>>
  PROVE  /\ Ordered(Tail(fu), nb)
         /\ Len(fu) \in Nat /\ Len(fu) >= 1 /\ Len(Tail(fu)) = Len(fu) - 1
         /\ Head(fu) = fu[1] /\ fu[1].nb_cfg \in Nat
         /\ \A k \in 1 .. Len(fu) - 1 : Tail(fu)[k] = fu[k + 1]
<1> DEFINE R == [xid : Nat, nb_cfg : Nat]
           g == Tail(fu)
           n == Len(fu)
<1>0. fu \in Seq(R) /\ \A r \in R : r.nb_cfg \in Nat
  BY DEF Ordered
<1> HIDE DEF R
<1>1. /\ n \in Nat /\ n >= 1
      /\ g \in Seq(R) /\ Len(g) = n - 1 /\ Head(fu) = fu[1]
      /\ \A k \in 1 .. n - 1 : g[k] = fu[k + 1]
  BY <1>0, HeadTailProperties
<1>2. \A k \in 1 .. n - 1 : k + 1 \in 1 .. n
  BY <1>1
<1>3. fu[1].nb_cfg \in Nat
  BY <1>0, <1>1, ElementOfSeq, SMTT(30)
<1> HIDE DEF g
<1>4. \A k \in 1 .. n - 1 : g[k].nb_cfg <= nb
  BY <1>1, <1>2, Zenon DEF Ordered
<1>5. \A k, l \in 1 .. n - 1 : k < l => g[k].nb_cfg < g[l].nb_cfg
  <2> SUFFICES ASSUME NEW k \in 1 .. n - 1, NEW l \in 1 .. n - 1, k < l
               PROVE  fu[k + 1].nb_cfg < fu[l + 1].nb_cfg
    BY <1>1, Zenon
  <2>1. k + 1 < l + 1
    OBVIOUS
  <2> QED
    BY <1>2, <2>1, Zenon DEF Ordered
<1>6. Ordered(g, nb)
  BY <1>1, <1>4, <1>5, Zenon DEF Ordered, R
<1> QED
  BY <1>1, <1>3, <1>6, SMTT(30) DEF g

(* The reply of the first update's barrier is there: what was sent up to   *)
(* its nb_cfg is no longer under way.                                      *)
LEMMA ConfirmedIsDone ==
  ASSUME ChannelInv, XidInv, Ordered(flow_updates, sb.nb_cfg), Awaited,
         state = "S_UPDATE_FLOWS", FirstConfirmed
  PROVE  /\ \A i \in 1 .. Len(toSwitch) :
               toSwitch[i].nb > Head(flow_updates).nb_cfg
         /\ Tail(flow_updates) = <<>> => toSwitch = <<>>
         /\ link
<1> DEFINE fu == flow_updates
           x == Head(fu).xid
<1>0. sb.nb_cfg \in Nat /\ IsQueue(toSwitch) /\ (\E R : toCtl \in Seq(R))
  BY SMTT(30) DEF ChannelInv
<1>1. /\ Len(fu) \in Nat /\ Len(fu) >= 1 /\ Len(Tail(fu)) = Len(fu) - 1
      /\ Head(fu) = fu[1] /\ fu[1].nb_cfg \in Nat
  BY <1>0, TailOrdered, SMTT(30) DEF FirstConfirmed
<1>2. 1 \in 1 .. Len(toCtl) /\ Head(toCtl) = toCtl[1]
  BY <1>0, CtlTail DEF FirstConfirmed
<1>3. \A i \in 1 .. Len(toSwitch) : Barrier(x) \notin toSwitch[i].msgs
  BY <1>2, Zenon DEF XidInv, FirstConfirmed
<1>4. \A i \in 1 .. Len(toSwitch) : ~ BarrierBehind(x, i)
  BY <1>3, SMTT(30) DEF BarrierBehind
<1>5. 1 \in 1 .. Len(fu)
  BY <1>1
<1>6. \A i \in 1 .. Len(toSwitch) :
         ~ (toSwitch[i].nb <= fu[1].nb_cfg \/ 1 = Len(fu))
  BY <1>1, <1>4, <1>5, Zenon DEF Awaited
<1>7. /\ Len(toSwitch) \in Nat /\ (toSwitch = <<>> <=> Len(toSwitch) = 0)
      /\ \A i \in 1 .. Len(toSwitch) : toSwitch[i].nb \in Nat
  BY <1>0, QueueNb, Zenon
<1>8. \A i \in 1 .. Len(toSwitch) : toSwitch[i].nb > Head(fu).nb_cfg
  BY <1>1, <1>6, <1>7, SMTT(30)
<1>9. Tail(fu) = <<>> => toSwitch = <<>>
  <2> SUFFICES ASSUME Tail(fu) = <<>>, Len(toSwitch) # 0
               PROVE  FALSE
    BY <1>7
  <2>3. Len(Tail(fu)) = 0
    BY QueueEmpty, Zenon
  <2>1. 1 = Len(fu)
    <3> HIDE DEF fu
    <3> QED
      BY <1>1, <2>3
  <2>2. 1 \in 1 .. Len(toSwitch)
    BY <1>7
  <2> QED
    BY <1>6, <2>1, <2>2, SMTT(30)
<1> QED
  BY <1>8, <1>9 DEF ChannelInv, FirstConfirmed

LEMMA AwaitedConfirmed ==
  ASSUME ChannelInv, Ordered(flow_updates, sb.nb_cfg), Awaited,
         FirstConfirmed, flow_updates' = Tail(flow_updates),
         UNCHANGED <<toSwitch, state>>
  PROVE  Awaited'
<1> DEFINE fu == flow_updates
<1>1. /\ Len(fu) \in Nat /\ Len(fu) >= 1 /\ Len(fu') = Len(fu) - 1
      /\ \A k \in 1 .. Len(fu) - 1 : fu'[k] = fu[k + 1]
  BY TailOrdered, SMTT(30) DEF ChannelInv, FirstConfirmed
<1>2. \A x, i : BarrierBehind(x, i)' <=> BarrierBehind(x, i)
  BY DEF BarrierBehind
<1>3. ASSUME NEW k \in 1 .. Len(fu')
      PROVE  /\ k + 1 \in 1 .. Len(fu) /\ fu'[k] = fu[k + 1]
             /\ k = Len(fu') => k + 1 = Len(fu)
  BY <1>1
<1> QED
  BY <1>2, <1>3, Zenon DEF Awaited

(* ofctrl_put() with messages, with none while an update waits, and with   *)
(* none while no update waits.                                             *)
PutSent ==
  Send(PutAll) /\ flow_updates' = Track(flow_updates, next_xid, sb.nb_cfg)

PutNothing ==
  /\ PutMessages(Desired, sb.nb_cfg) = <<>> /\ UNCHANGED toSwitch
  /\ \/ /\ flow_updates # <<>>
        /\ flow_updates' = [flow_updates EXCEPT ![Len(flow_updates)].nb_cfg
                              = sb.nb_cfg]
        /\ UNCHANGED cur_cfg
     \/ /\ flow_updates = <<>> /\ UNCHANGED flow_updates
        /\ cur_cfg' = sb.nb_cfg

LEMMA PutForms ==
  ASSUME ofctrl_put
  PROVE  /\ state = "S_UPDATE_FLOWS" /\ pc = "lflow_run"
         /\ UNCHANGED <<state, sb, sw, link>>
         /\ installed_flows' = {Install(d) : d \in Desired}
         /\ (PutSent /\ UNCHANGED cur_cfg) \/ PutNothing
BY DEF ofctrl_put, ofctrl_can_put, Desired, PutSent, PutNothing, PutAll,
       Barriered, Barrier, tlvVars, connVars, netVars, swVars

LEMMA NothingRenews ==
  ASSUME NEW nb \in Nat, NEW fu, Ordered(fu, nb), fu # <<>>
  PROVE  \E u, g : /\ g = [fu EXCEPT ![Len(fu)].nb_cfg = nb]
                   /\ u.xid = fu[Len(fu)].xid /\ Len(g) = Len(fu)
                   /\ Ordered(g, nb) /\ Renewed(fu, g, u) /\ g # <<>>
<1> DEFINE R == [xid : Nat, nb_cfg : Nat]
           n == Len(fu)
           u == [fu[n] EXCEPT !.nb_cfg = nb]
           g == [fu EXCEPT ![n] = u]
<1>1. n \in 1 .. n /\ fu \in Seq(R)
  BY DEF Ordered
<1>2. fu[n] \in R
  BY <1>1, ElementOfSeq, Zenon
<1>3. \A r \in R : /\ [r EXCEPT !.nb_cfg = nb] \in R
                   /\ [r EXCEPT !.nb_cfg = nb].nb_cfg = nb
                   /\ [r EXCEPT !.nb_cfg = nb].xid = r.xid
  OBVIOUS
<1> HIDE DEF R
<1>4. u \in R /\ u.nb_cfg = nb /\ u.xid = fu[n].xid
  BY <1>2, <1>3, Zenon
<1> HIDE DEF u
<1>5. Ordered(g, nb) /\ Renewed(fu, g, u) /\ g # <<>>
  BY <1>4, ReplaceLast DEF R
<1>6. Len(g) = n
  BY <1>1, <1>4
<1>7. g = [fu EXCEPT ![Len(fu)].nb_cfg = nb]
  BY Zenon DEF u
<1> HIDE DEF g, n
<1> QED
  BY <1>4, <1>5, <1>6, <1>7, Zenon DEF n

LEMMA PutOrdered ==
  ASSUME ChannelInv, Ordered(flow_updates, sb.nb_cfg), Awaited, ofctrl_put
  PROVE  /\ Ordered(flow_updates', sb.nb_cfg) /\ Awaited'
         /\ flow_updates' = <<>> => PutNothing /\ flow_updates = <<>>
<1> DEFINE nb == sb.nb_cfg
<1>1. nb \in Nat /\ next_xid \in Nat
  BY DEF ChannelInv
<1>2. /\ state = "S_UPDATE_FLOWS" /\ UNCHANGED state
      /\ PutSent \/ PutNothing
  BY PutForms, Zenon
<1>3. CASE PutSent
  <2>1. PICK g : g = flow_updates'
    BY Zenon
  <2>2. /\ Ordered(g, nb) /\ g # <<>>
        /\ Renewed(flow_updates, g, [xid |-> next_xid, nb_cfg |-> nb])
    BY <1>1, <1>3, <2>1, TrackRenews, Zenon DEF PutSent
  <2>3. Awaited'
    BY <1>2, <1>3, <2>1, <2>2, AwaitedPut, Zenon DEF PutSent
  <2> QED
    BY <2>1, <2>2, <2>3, Zenon
<1>4. CASE PutNothing /\ flow_updates # <<>>
  <2>1. PICK u, g : /\ g = [flow_updates EXCEPT ![Len(flow_updates)].nb_cfg = nb]
                    /\ u.xid = flow_updates[Len(flow_updates)].xid
                    /\ Len(g) = Len(flow_updates)
                    /\ Ordered(g, nb) /\ Renewed(flow_updates, g, u)
                    /\ g # <<>>
    BY <1>1, <1>4, NothingRenews, Zenon
  <2>2. flow_updates' = g /\ UNCHANGED toSwitch
    BY <1>4, <2>1, Zenon DEF PutNothing
  <2>3. Awaited'
    BY <1>2, <1>4, <2>1, <2>2, AwaitedRenewed, Zenon
  <2> QED
    BY <2>1, <2>2, <2>3, Zenon
<1>5. CASE PutNothing /\ flow_updates = <<>>
  <2>1. UNCHANGED <<toSwitch, flow_updates>>
    BY <1>5 DEF PutNothing
  <2>2. Awaited'
    BY <1>2, <2>1, AwaitedQuiet, SMTT(30)
  <2> QED
    BY <1>5, <2>1, <2>2, Zenon
<1> QED
  BY <1>2, <1>3, <1>4, <1>5

LEMMA NextAwaited ==
  ASSUME ChannelInv, XidInv, Ordered(flow_updates, sb.nb_cfg), Awaited,
         [Next]_vars
  PROVE  Ordered(flow_updates, sb.nb_cfg)' /\ Awaited'
<1> USE DEF loopVars, tlvVars, cfgVars, connVars, netVars
<1>0. sb.nb_cfg \in Nat
  BY SMTT(30) DEF ChannelInv
<1>1. ASSUME UNCHANGED <<flow_updates, sb>>, state' # "S_UPDATE_FLOWS"
      PROVE  Ordered(flow_updates, sb.nb_cfg)' /\ Awaited'
  BY <1>1 DEF Awaited
<1>2. ASSUME UNCHANGED <<flow_updates, sb, toSwitch>>,
             state' = "S_UPDATE_FLOWS" => state = "S_UPDATE_FLOWS"
      PROVE  Ordered(flow_updates, sb.nb_cfg)' /\ Awaited'
  BY <1>2, AwaitedQuiet
<1>3. CASE run_S_NEW \/ recv_S_TLV_TABLE_REQUESTED \/ ofctrl_run_reconnected
  <2>1. UNCHANGED <<flow_updates, sb>> /\ state' # "S_UPDATE_FLOWS"
    BY <1>3, ZenonT(30) DEF run_S_NEW, recv_S_TLV_TABLE_REQUESTED, Received,
       Ignored, RequestFailed, GeneveOption, ofctrl_run_reconnected
  <2> QED
    BY <1>1, <2>1
<1>4. CASE run_S_CLEAR_FLOWS
  <2>1. flow_updates' = <<>> /\ UNCHANGED sb
    BY <1>4 DEF run_S_CLEAR_FLOWS
  <2>2. \A k \in 1 .. Len(flow_updates') : FALSE
    BY <2>1, QueueEmpty, SMTT(30)
  <2> QED
    BY <2>1, <2>2, SMTT(30) DEF Ordered, Awaited
<1>5. CASE recv_S_UPDATE_FLOWS
  <2>1. /\ UNCHANGED <<toSwitch, sb, state>>
        /\ \/ UNCHANGED flow_updates
           \/ FirstConfirmed /\ flow_updates' = Tail(flow_updates)
    BY <1>5, UpdateReceived, Zenon
  <2>2. CASE UNCHANGED flow_updates
    BY <1>2, <2>1, <2>2, SMTT(30)
  <2>3. CASE FirstConfirmed /\ flow_updates' = Tail(flow_updates)
    <3>1. Ordered(Tail(flow_updates), sb.nb_cfg)
      BY <1>0, <2>3, TailOrdered, Zenon DEF FirstConfirmed
    <3>2. Awaited'
      BY <2>1, <2>3, AwaitedConfirmed, Zenon
    <3> QED
      BY <2>1, <2>3, <3>1, <3>2
  <2> QED
    BY <2>1, <2>2, <2>3
<1>6. CASE ofctrl_put
  <2>1. UNCHANGED sb
    BY <1>6, PutForms
  <2> QED
    BY <1>6, <2>1, PutOrdered
<1>7. CASE SwitchStep
  <2>1. PICK m, a, o : SwitchTakes(m, a, o)
    BY <1>7, SwitchShape
  <2>2. UNCHANGED <<state, flow_updates, sb>>
    BY <1>7 DEF SwitchStep
  <2>3. Shifted(toSwitch, toSwitch', m, o)
    BY <2>1, Zenon DEF SwitchTakes
  <2> QED
    BY <2>2, <2>3, AwaitedSwitch
<1>8. CASE SbChange
  <2>1. /\ UNCHANGED <<flow_updates, toSwitch, state>>
        /\ \E nb \in sb.nb_cfg .. MaxNbCfg : sb'.nb_cfg = nb
    BY <1>8, SMTT(30) DEF SbChange
  <2>2. sb'.nb_cfg \in Nat /\ sb.nb_cfg <= sb'.nb_cfg
    BY <1>0, <2>1, BoundsAssumption
  <2> DEFINE n == Len(flow_updates)
  <2>3. \A k \in 1 .. n : flow_updates[k].nb_cfg \in Nat
    <3> DEFINE R == [xid : Nat, nb_cfg : Nat]
    <3>1. flow_updates \in Seq(R) /\ \A r \in R : r.nb_cfg \in Nat
      BY DEF Ordered
    <3> HIDE DEF R
    <3> QED
      BY <3>1, ElementOfSeq, SMTT(30)
  <2>4. \A k \in 1 .. n : flow_updates[k].nb_cfg <= sb'.nb_cfg
    BY <1>0, <2>2, <2>3, SMTT(30) DEF Ordered
  <2>5. Ordered(flow_updates, sb'.nb_cfg)
    BY <2>4, SMTT(30) DEF Ordered
  <2> QED
    BY <2>1, <2>5, AwaitedQuiet
<1>9. CASE Disconnect
  <2>1. toSwitch' = <<>> /\ UNCHANGED <<flow_updates, sb>>
    BY <1>9 DEF Disconnect
  <2> QED
    BY <2>1, QueueEmpty DEF Awaited
<1>10. CASE \/ ofctrl_run_connected \/ ofctrl_run_unconnected
            \/ recv_S_TLV_TABLE_MOD_SENT \/ ofctrl_run_done \/ body_skip
            \/ body_lflow_run \/ consider_logical_flow \/ update_ct_zones
            \/ Drain \/ OtherController \/ UNCHANGED vars
  <2>1. /\ UNCHANGED <<flow_updates, sb, toSwitch>>
        /\ state' = "S_UPDATE_FLOWS" => state = "S_UPDATE_FLOWS"
    BY <1>10, Zenon
       DEF ofctrl_run_connected, ofctrl_run_unconnected,
           recv_S_TLV_TABLE_MOD_SENT, AfterModError, ofctrl_run_done,
           body_skip, body_lflow_run, consider_logical_flow,
           update_ct_zones, Drain, OtherController, vars
  <2> QED
    BY <1>2, <2>1, SMTT(30)
<1> QED
  BY <1>3, <1>4, <1>5, <1>6, <1>7, <1>8, <1>9, <1>10 DEF Next, Loop, Run
=============================================================================
