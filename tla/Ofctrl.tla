------------------------------- MODULE Ofctrl -------------------------------
(***************************************************************************)
(* controller/ofctrl.c: how ovn-controller keeps the flow, group and meter *)
(* tables of the integration bridge what it wants them to be, over an      *)
(* OpenFlow connection that may drop at any time.                          *)
(*                                                                         *)
(* The module has the part of ovn-controller's main loop that ofctrl.c     *)
(* sees (pc says where the loop is), the connection, and the switch.  Each *)
(* pass of the loop takes a snapshot of the southbound database, runs the  *)
(* connection's state machine (ofctrl_run), and, when it may, translates   *)
(* the logical flows and replaces the switch's tables (ofctrl_put).        *)
(***************************************************************************)
EXTENDS Naturals, Sequences, FiniteSetsExt

CONSTANTS
  LogicalFlows,    \* the southbound rows there may be, see LogicalFlow below
  BaseKey,         \* the key of a flow that physical_run() always adds
  NoName,          \* "this flow has no group (no meter)"
  GroupNames, MeterNames, MAX_EXT_TABLE_ID,
  Zones,           \* the conntrack zones that get assigned
  TUN_METADATA_NUM_OPTS,
  MaxNbCfg,        \* bound on the northbound sequence number
  Loads            \* what the environment may do, see Load below

ASSUME BoundsAssumption ==
  /\ MAX_EXT_TABLE_ID \in Nat
  /\ TUN_METADATA_NUM_OPTS \in Nat \ {0}
  /\ MaxNbCfg \in Nat
  /\ NoName \notin GroupNames \union MeterNames
  /\ \A lf \in LogicalFlows : /\ lf.key # BaseKey
                              /\ lf.group \in GroupNames \union {NoName}
                              /\ lf.meter \in MeterNames \union {NoName}

VARIABLES
  pc,              \* where the main loop is
  todo,            \* logical flows still to be translated in this pass
  flow_table,      \* the desired flows, while they are being collected
  sb,              \* the southbound snapshot of this pass
  \* ofctrl.c
  state, xid, xid2, mff_ovn_geneve, installed_flows, groups, meters,
  flow_updates, cur_cfg,
  pending,         \* pending_ct_zones, the part that ofctrl.c works on
  \* the connection
  conn,            \* rconn_is_connected()
  link,            \* whether the connection is really there
  tx_counter,      \* whether messages wait in the rconn
  toSwitch,        \* messages sent: a sequence of batches
  toCtl,           \* replies
  next_xid,
  \* the switch
  sw,
  flushed,         \* history: zones the switch flushed since their assignment
  left             \* what the environment may still do

loopVars == <<pc, todo, flow_table, sb>>
tlvVars  == <<state, xid, xid2, mff_ovn_geneve>>
flowVars == <<installed_flows, groups, meters>>
cfgVars  == <<flow_updates, cur_cfg, pending>>
connVars == <<conn, link>>
netVars  == <<tx_counter, toSwitch, next_xid>>
swVars   == <<sw, flushed>>
vars == <<loopVars, tlvVars, flowVars, cfgVars, connVars, netVars, toCtl,
          swVars, left>>

Groups == INSTANCE ExtendTable WITH table <- groups, Names <- GroupNames
Meters == INSTANCE ExtendTable WITH table <- meters, Names <- MeterNames

-----------------------------------------------------------------------------
(* Data. *)

(* A logical flow is a record of its uuid, the (table, priority, match) it *)
(* is translated to, and the group and meter that its actions name.  A     *)
(* flow has the ids in place of the names; 'lb' remembers which group the  *)
(* actions were encoded for.                                               *)
BaseFlow ==
  [key |-> BaseKey, cookie |-> 0, group |-> 0, meter |-> 0, lb |-> NoName]

\* ofpacts_equal()
SameActions(f, g) == f.group = g.group /\ f.meter = g.meter

\* ovn_flow_lookup() compares the keys.
Has(flows, key) == \E f \in flows : f.key = key
Get(flows, key) == CHOOSE f \in flows : f.key = key

\* TLV options: who uses each index of the switch's table.  The last index
\* stands for those that ovn-controller does not support.
TlvIndexes == 0 .. TUN_METADATA_NUM_OPTS
TlvTable == {map \in [TlvIndexes -> {"free", "ovn", "other"}] :
               Cardinality({i \in TlvIndexes : map[i] = "ovn"}) <= 1}
OvnIndexes(map) == {i \in TlvIndexes : map[i] = "ovn"}
FreeIndexes(map) == {i \in TlvIndexes : /\ i < TUN_METADATA_NUM_OPTS
                                        /\ map[i] = "free"}
NoReply == [type |-> "none"]

\* What the environment may do: the southbound rows there may be and how
\* often the database changes, the drops of the connection, the assignments
\* of zones, the TLV tables that the switch may have at first, whether
\* another controller uses options too, and whether the total size of the
\* options may reach its limit.
Load == [flows : SUBSET LogicalFlows, changes : Nat, drops : Nat,
         assigns : Nat, tlvs : SUBSET TlvTable, races : BOOLEAN,
         full : BOOLEAN]
ASSUME LoadsAssumption == Loads \subseteq Load

MFF(index) == index + 1     \* MFF_TUN_METADATA0 + index; 0 is "disabled"

\* A put's messages are in batches whose order is that of the code; within
\* a batch they are in the order of a hash table, i.e. in any order.  'nb'
\* remembers the nb_cfg that the put was for.
Batch(msgs, nb) == [msgs |-> msgs, nb |-> nb]
Send(batches) ==
  IF link THEN toSwitch' = toSwitch \o batches ELSE UNCHANGED toSwitch

-----------------------------------------------------------------------------
(* The main loop: a new pass sees the database as it is now. *)

Init ==
  /\ pc = "idle" /\ todo = {} /\ flow_table = {}
  /\ sb = [nb_cfg |-> 0, flows |-> {}, meters |-> {}]
  /\ state = "S_NEW" /\ xid = 0 /\ xid2 = 0 /\ mff_ovn_geneve = 0
  /\ installed_flows = {} /\ flow_updates = <<>> /\ cur_cfg = 0
  /\ groups = Groups!ovn_extend_table_init
  /\ meters = Meters!ovn_extend_table_init
  /\ pending = {}
  /\ conn = FALSE /\ link = FALSE /\ tx_counter = FALSE
  /\ toSwitch = <<>> /\ toCtl = <<>> /\ next_xid = 1
  /\ left \in Loads
  /\ sw \in [flows : {{}}, groups : {{}}, meters : {{}}, tlv : left.tlvs]
  /\ flushed = {}

\* northd commits a change of the southbound database, which the next
\* ovsdb_idl_loop_run() of the loop makes visible.
SbChange ==
  /\ pc = "idle" /\ left.changes > 0
  /\ \E nb \in sb.nb_cfg .. MaxNbCfg, flows \in SUBSET left.flows,
        rows \in SUBSET (MeterNames \intersect {lf.meter : lf \in left.flows}) :
        /\ sb' = [nb_cfg |-> nb, flows |-> flows, meters |-> rows]
        /\ sb' # sb
  /\ left' = [left EXCEPT !.changes = @ - 1]
  /\ UNCHANGED <<pc, todo, flow_table, tlvVars, flowVars, cfgVars, connVars,
                 netVars, toCtl, swVars>>

-----------------------------------------------------------------------------
(* ofctrl_run() *)

\* Mutant: the flushes are not sent again.
RequeueNone(entries) == entries

\* The entries whose flush the switch may never have seen.
Requeue(entries) ==
  {IF e.state = "CT_ZONE_OF_SENT"
   THEN [e EXCEPT !.state = "CT_ZONE_OF_QUEUED"] ELSE e : e \in entries}

\* rconn_run(): the connection is as it was, or gone, or a new one.
ofctrl_run_connected ==
  /\ pc = "idle" /\ conn /\ link
  /\ pc' = "run"
  /\ UNCHANGED <<todo, flow_table, sb, tlvVars, flowVars, cfgVars,
                 connVars, netVars, toCtl, swVars, left>>

ofctrl_run_unconnected ==
  /\ pc = "idle" /\ ~ link
  /\ conn' = FALSE /\ tx_counter' = FALSE
  /\ pc' = "body"
  /\ UNCHANGED <<todo, flow_table, sb, tlvVars, flowVars, cfgVars,
                 link, toSwitch, next_xid, toCtl, swVars, left>>

\* Mutant: the new connection is not noticed.
ofctrl_run_reconnected_unnoticed ==
  /\ pc = "idle" /\ ~ link
  /\ conn' = TRUE /\ link' = TRUE /\ tx_counter' = FALSE
  /\ state' = IF state = "S_UPDATE_FLOWS" THEN state ELSE "S_NEW"
  /\ pending' = Requeue(pending)
  /\ pc' = "run"
  /\ UNCHANGED <<todo, flow_table, sb, xid, xid2, mff_ovn_geneve, flowVars,
                 flow_updates, cur_cfg, toSwitch, next_xid, toCtl, swVars,
                 left>>

ofctrl_run_reconnected ==
  /\ pc = "idle" /\ ~ link
  /\ conn' = TRUE /\ link' = TRUE /\ tx_counter' = FALSE
  /\ state' = "S_NEW"
  /\ pending' = Requeue(pending)
  /\ pc' = "run"
  /\ UNCHANGED <<todo, flow_table, sb, xid, xid2, mff_ovn_geneve,
                 flowVars, flow_updates, cur_cfg, toSwitch, next_xid,
                 toCtl, swVars, left>>

run_S_NEW ==
  /\ pc = "run" /\ state = "S_NEW"
  /\ xid' = next_xid /\ next_xid' = next_xid + 1
  /\ Send(<<Batch({[type |-> "tlv_request", xid |-> next_xid]}, 0)>>)
  /\ tx_counter' = TRUE
  /\ state' = "S_TLV_TABLE_REQUESTED"
  /\ UNCHANGED <<loopVars, xid2, mff_ovn_geneve, flowVars, cfgVars, connVars,
                 toCtl, swVars, left>>

\* Mutant: the groups of the switch are forgotten.
ClearMessagesNoGroups ==
  <<Batch({[type |-> "clear_flows"]}, 0),
    Batch({[type |-> "clear_meters"]}, 0)>>

ClearMessages ==
  <<Batch({[type |-> "clear_flows"]}, 0),
    Batch({[type |-> "clear_groups"]}, 0),
    Batch({[type |-> "clear_meters"]}, 0)>>

\* Mutant: the updates of the old connection are still waited for.
run_S_CLEAR_FLOWS_keeping_updates ==
  /\ pc = "run" /\ state = "S_CLEAR_FLOWS"
  /\ Send(ClearMessages)
  /\ tx_counter' = TRUE
  /\ installed_flows' = {}
  /\ groups' = Groups!ClearExisting(groups)
  /\ meters' = Meters!ClearExisting(meters)
  /\ state' = "S_UPDATE_FLOWS"
  /\ UNCHANGED <<loopVars, xid, xid2, mff_ovn_geneve, cfgVars, connVars,
                 next_xid, toCtl, swVars, left>>

run_S_CLEAR_FLOWS ==
  /\ pc = "run" /\ state = "S_CLEAR_FLOWS"
  /\ Send(ClearMessages)
  /\ tx_counter' = TRUE
  /\ installed_flows' = {}
  /\ groups' = Groups!ClearExisting(groups)
  /\ meters' = Meters!ClearExisting(meters)
  /\ flow_updates' = <<>>
  /\ state' = "S_UPDATE_FLOWS"
  /\ UNCHANGED <<loopVars, xid, xid2, mff_ovn_geneve, cur_cfg, pending,
                 connVars, next_xid, toCtl, swVars, left>>

\* The message that a recv_ function handles; ofctrl_recv() ignores one.
Received(st) == pc = "run" /\ state = st /\ toCtl # <<>>
Ignored == UNCHANGED <<tlvVars, cfgVars, netVars>>

\* Mutant: the state machine stays where it is.
RequestFailedStays ==
  mff_ovn_geneve' = 0 /\ UNCHANGED <<state, xid, xid2, netVars>>

\* The error path of recv_S_TLV_TABLE_REQUESTED()
RequestFailed ==
  /\ mff_ovn_geneve' = 0
  /\ state' = "S_CLEAR_FLOWS"
  /\ UNCHANGED <<xid, xid2, netVars>>

\* process_tlv_table_reply()
GeneveOption(map) ==
  IF OvnIndexes(map) # {}
  THEN LET index == CHOOSE i \in OvnIndexes(map) : TRUE IN
       IF index < TUN_METADATA_NUM_OPTS
       THEN /\ mff_ovn_geneve' = MFF(index)
            /\ state' = "S_CLEAR_FLOWS"
            /\ UNCHANGED <<xid, xid2, netVars>>
       ELSE RequestFailed
  ELSE IF FreeIndexes(map) = {}
  THEN RequestFailed
  ELSE LET index == Min(FreeIndexes(map)) IN
       /\ mff_ovn_geneve' = MFF(index)
       /\ xid' = next_xid /\ xid2' = next_xid + 1 /\ next_xid' = next_xid + 2
       /\ Send(<<Batch({[type |-> "tlv_mod", xid |-> next_xid,
                         index |-> index]}, 0),
                 Batch({[type |-> "barrier", xid |-> next_xid + 1]}, 0)>>)
       /\ tx_counter' = TRUE
       /\ state' = "S_TLV_TABLE_MOD_SENT"

recv_S_TLV_TABLE_REQUESTED ==
  /\ Received("S_TLV_TABLE_REQUESTED")
  /\ toCtl' = Tail(toCtl)
  /\ \/ /\ Head(toCtl).xid # xid
        /\ Ignored
     \/ /\ Head(toCtl).xid = xid
        /\ Head(toCtl).type = "tlv_reply"
        /\ GeneveOption(Head(toCtl).map)
        /\ UNCHANGED cfgVars
     \/ /\ Head(toCtl).xid = xid
        /\ Head(toCtl).type = "error"
        /\ RequestFailed
        /\ UNCHANGED cfgVars
  /\ UNCHANGED <<loopVars, flowVars, connVars, swVars, left>>

\* Mutant: a lost race is taken for success.
AfterModErrorNoRetry(code) == "S_CLEAR_FLOWS"

AfterModError(code) ==
  IF code \in {"ALREADY_MAPPED", "DUP_ENTRY"} THEN "S_NEW"
  ELSE "S_CLEAR_FLOWS"

recv_S_TLV_TABLE_MOD_SENT ==
  /\ Received("S_TLV_TABLE_MOD_SENT")
  /\ toCtl' = Tail(toCtl)
  /\ \/ /\ Head(toCtl).xid \notin {xid, xid2}
        /\ UNCHANGED state
     \/ /\ Head(toCtl).xid = xid2 /\ Head(toCtl).type = "barrier_reply"
        /\ state' = "S_CLEAR_FLOWS"
     \/ /\ Head(toCtl).xid = xid /\ Head(toCtl).type = "error"
        /\ state' = AfterModError(Head(toCtl).code)
  /\ UNCHANGED <<xid, xid2, mff_ovn_geneve>>
  /\ UNCHANGED <<loopVars, flowVars, cfgVars, connVars, netVars, swVars, left>>

\* Mutant: any barrier reply confirms.
ConfirmedByAny(entries, x) ==
  {IF e.state = "CT_ZONE_OF_SENT"
   THEN [e EXCEPT !.state = "CT_ZONE_DB_QUEUED"] ELSE e : e \in entries}

\* The flush that a barrier reply confirms.
Confirmed(entries, x) ==
  {IF e.state = "CT_ZONE_OF_SENT" /\ e.of_xid = x
   THEN [e EXCEPT !.state = "CT_ZONE_DB_QUEUED"] ELSE e : e \in entries}

recv_S_UPDATE_FLOWS ==
  /\ Received("S_UPDATE_FLOWS")
  /\ toCtl' = Tail(toCtl)
  /\ IF Head(toCtl).type = "barrier_reply" /\ flow_updates # <<>>
     THEN LET x   == Head(toCtl).xid
              fup == Head(flow_updates)
          IN /\ IF fup.xid = x
                THEN /\ cur_cfg' = IF fup.nb_cfg >= cur_cfg
                                   THEN fup.nb_cfg ELSE cur_cfg
                     /\ flow_updates' = Tail(flow_updates)
                ELSE UNCHANGED <<cur_cfg, flow_updates>>
             /\ pending' = Confirmed(pending, x)
             /\ UNCHANGED <<tlvVars, netVars>>
     ELSE Ignored
  /\ UNCHANGED <<loopVars, flowVars, connVars, swVars, left>>

\* No progress: the state machine waits and there is no message.  (The limit
\* of 50 rounds, after which the loop comes back at once, is never reached.)
\* The rconn may have noticed that the connection dropped.
ofctrl_run_done ==
  /\ pc = "run" /\ state \notin {"S_NEW", "S_CLEAR_FLOWS"}
  /\ toCtl = <<>>
  /\ \/ UNCHANGED <<conn, tx_counter>>
     \/ ~ link /\ conn' = FALSE /\ tx_counter' = FALSE
  /\ pc' = "body"
  /\ UNCHANGED <<todo, flow_table, sb, tlvVars, flowVars, cfgVars, link,
                 toSwitch, next_xid, toCtl, swVars, left>>

-----------------------------------------------------------------------------
(* The rest of the loop. *)

\* update_ct_zones() assigns a zone, whose flush ofctrl_put() has to send.
update_ct_zones ==
  /\ pc = "body" /\ left.assigns > 0
  /\ \E z \in Zones :
        /\ \A e \in pending : e.zone # z
        /\ pending' = pending \union
             {[zone |-> z, state |-> "CT_ZONE_OF_QUEUED", of_xid |-> 0]}
        /\ flushed' = flushed \ {z}
  /\ left' = [left EXCEPT !.assigns = @ - 1]
  /\ UNCHANGED <<loopVars, tlvVars, flowVars, flow_updates, cur_cfg, connVars,
                 netVars, toCtl, sw>>

ofctrl_can_put == state = "S_UPDATE_FLOWS" /\ ~ tx_counter /\ conn

\* if (ovs_idl_txn && ofctrl_can_put()): the transaction may be there or not.
\* commit_ct_zones() hands the confirmed zones over to the database.
body_lflow_run ==
  /\ pc = "body" /\ ofctrl_can_put
  /\ pending' = {e \in pending : e.state # "CT_ZONE_DB_QUEUED"}
  /\ todo' = sb.flows /\ flow_table' = {}
  /\ pc' = "lflow_run"
  /\ UNCHANGED <<sb, tlvVars, flowVars, flow_updates, cur_cfg, connVars,
                 netVars, toCtl, swVars, left>>

body_skip ==
  /\ pc = "body"
  /\ pc' = "idle"
  /\ UNCHANGED <<todo, flow_table, sb, tlvVars, flowVars, cfgVars,
                 connVars, netVars, toCtl, swVars, left>>

\* consider_logical_flow(): encode_CT_LB() and encode_LOG() assign ids (none
\* left: no group action, no log action); ofctrl_add_flow() drops a duplicate.
\* The rows come in the order of the IDL's table, the same in every pass.
consider_logical_flow ==
  /\ pc = "lflow_run"
  /\ \E lf \in todo :
       /\ \A other \in todo : lf.uuid <= other.uuid
       /\ LET gid == IF lf.group = NoName THEN 0
                     ELSE Groups!AssignedId(groups, lf.group)
              mid == IF lf.meter = NoName THEN 0
                     ELSE Meters!AssignedId(meters, lf.meter)
              f == [key |-> lf.key, cookie |-> lf.uuid, group |-> gid,
                    meter |-> mid, lb |-> IF gid = 0 THEN NoName ELSE lf.group]
          IN /\ todo' = todo \ {lf}
             /\ groups' = IF lf.group = NoName THEN groups
                          ELSE Groups!AssignId(groups, lf.group)
             /\ meters' = IF lf.meter = NoName THEN meters
                          ELSE Meters!AssignId(meters, lf.meter)
             /\ flow_table' = IF Has(flow_table, lf.key) THEN flow_table
                              ELSE flow_table \union {f}
  /\ UNCHANGED <<pc, sb, tlvVars, installed_flows, cfgVars, connVars,
                 netVars, toCtl, swVars, left>>

\* ofctrl_put(): the messages that turn the installed flows into 'desired',
\* in the order of the code.  A group that parse_ofp_group_mod_str() rejects
\* is logged and not sent; this is left out, since the strings are made by
\* encode_CT_LB() and by ofctrl_put() itself, and have the form it expects.
FlushMessages ==
  {[type |-> "flush", zone |-> e.zone] :
     e \in {p \in pending : p.state = "CT_ZONE_OF_QUEUED"}}

GroupAdds ==
  {[type |-> "group_add", id |-> e.table_id, name |-> e.name] :
     e \in Groups!Uninstalled(groups)}

MeterAdds ==
  {[type |-> "meter_add", id |-> e.table_id] :
     e \in {m \in Meters!Uninstalled(meters) : m.name \in sb.meters}}

FlowChanges(desired) ==
  {[type |-> "flow_delete", key |-> i.key] :
     i \in {f \in installed_flows : ~ Has(desired, f.key)}}
  \union
  {[type |-> "flow_modify", key |-> d.key, flow |-> d] :
     d \in {f \in desired :
              /\ Has(installed_flows, f.key)
              /\ ~ SameActions(f, Get(installed_flows, f.key))}}

FlowAdds(desired) ==
  {[type |-> "flow_add", key |-> d.key, flow |-> d] :
     d \in {f \in desired : ~ Has(installed_flows, f.key)}}

GroupDeletes ==
  {[type |-> "group_delete", id |-> e.table_id] : e \in Groups!Unwanted(groups)}

MeterDeletes ==
  {[type |-> "meter_delete", id |-> e.table_id] : e \in Meters!Unwanted(meters)}

\* A loop that finds nothing to do adds no message.
NonEmpty(msgs, nb) == IF msgs = {} THEN <<>> ELSE <<Batch(msgs, nb)>>

PutMessages(desired, nb) ==
  NonEmpty(FlushMessages, nb)
    \o NonEmpty(GroupAdds, nb) \o NonEmpty(MeterAdds, nb)
    \o NonEmpty(FlowChanges(desired), nb) \o NonEmpty(FlowAdds(desired), nb)
    \o NonEmpty(GroupDeletes, nb) \o NonEmpty(MeterDeletes, nb)

\* The flow that is installed for a desired one: a modify keeps the cookie.
Install(d) ==
  IF ~ Has(installed_flows, d.key) THEN d
  ELSE LET i == Get(installed_flows, d.key) IN
       IF SameActions(i, d) THEN i ELSE [d EXCEPT !.cookie = i.cookie]

\* Mutant: an update for the same nb_cfg does not wait for the new barrier.
TrackFirst(updates, x, nb) ==
  IF updates # <<>> /\ updates[Len(updates)].nb_cfg = nb THEN updates
  ELSE Append(updates, [xid |-> x, nb_cfg |-> nb])

\* Track the flow update: the updates for a later nb_cfg go, one for the same
\* nb_cfg waits for this barrier instead.
Track(updates, x, nb) ==
  LET older == {i \in DOMAIN updates : updates[i].nb_cfg <= nb}
      kept  == IF older = {} THEN <<>> ELSE SubSeq(updates, 1, Max(older))
  IN IF kept # <<>> /\ kept[Len(kept)].nb_cfg = nb
     THEN [kept EXCEPT ![Len(kept)].xid = x]
     ELSE Append(kept, [xid |-> x, nb_cfg |-> nb])

Sent(entries, x) ==
  {IF e.state = "CT_ZONE_OF_QUEUED"
   THEN [e EXCEPT !.state = "CT_ZONE_OF_SENT", !.of_xid = x] ELSE e :
   e \in entries}

\* Mutant: the groups that were deleted from the switch stay in the table.
GroupsAfterPutKept == Groups!Move(groups)

GroupsAfterPut == Groups!Move(Groups!RemoveUnwanted(groups))
MetersAfterPut == Meters!Move(Meters!RemoveUnwanted(meters))

ofctrl_put ==
  /\ pc = "lflow_run" /\ todo = {} /\ ofctrl_can_put
  /\ LET desired == flow_table \union {BaseFlow}
         nb == sb.nb_cfg
         batches == PutMessages(desired, nb)
     IN /\ installed_flows' = {Install(d) : d \in desired}
        /\ IF batches # <<>>
           THEN /\ Send(batches \o <<Batch({[type |-> "barrier",
                                            xid |-> next_xid]}, nb)>>)
                /\ tx_counter' = TRUE
                /\ next_xid' = next_xid + 1
                /\ pending' = Sent(pending, next_xid)
                /\ flow_updates' = Track(flow_updates, next_xid, nb)
                /\ UNCHANGED cur_cfg
           ELSE /\ IF flow_updates # <<>>
                   THEN /\ flow_updates' =
                             [flow_updates EXCEPT ![Len(flow_updates)].nb_cfg
                                = nb]
                        /\ UNCHANGED cur_cfg
                   ELSE /\ cur_cfg' = nb
                        /\ UNCHANGED flow_updates
                /\ UNCHANGED <<pending, netVars>>
  /\ groups' = GroupsAfterPut
  /\ meters' = MetersAfterPut
  /\ flow_table' = {}
  /\ pc' = "idle"
  /\ UNCHANGED <<todo, sb, tlvVars, connVars, toCtl, swVars, left>>

-----------------------------------------------------------------------------
(* The connection and the switch (external). *)

\* The rconn hands its last message to the socket.
Drain ==
  /\ tx_counter /\ tx_counter' = FALSE
  /\ UNCHANGED <<loopVars, tlvVars, flowVars, cfgVars, connVars, toSwitch,
                 next_xid, toCtl, swVars, left>>

\* The connection drops, with what was in flight both ways.
Disconnect ==
  /\ link /\ left.drops > 0
  /\ link' = FALSE
  /\ toSwitch' = <<>> /\ toCtl' = <<>>
  /\ left' = [left EXCEPT !.drops = @ - 1]
  /\ UNCHANGED <<loopVars, tlvVars, flowVars, cfgVars, conn, tx_counter,
                 next_xid, swVars>>

GroupOf(s, id) == {g \in s.groups : g.id = id}

\* A flow is refused when its group does not exist.  (An unknown meter is no
\* reason: log() names it in a controller action.)
Accepts(s, f) == f.group # 0 => GroupOf(s, f.group) # {}

\* What a message does to the switch's tables.
Apply(s, m) ==
  CASE m.type = "clear_flows"  -> [s EXCEPT !.flows = {}]
    [] m.type = "clear_groups" ->
         [s EXCEPT !.groups = {}, !.flows = {f \in @ : f.group = 0}]
    [] m.type = "clear_meters" -> [s EXCEPT !.meters = {}]
    [] m.type = "flow_delete"  ->
         [s EXCEPT !.flows = {f \in @ : f.key # m.key}]
    [] m.type = "flow_modify" /\ Has(s.flows, m.key) /\ Accepts(s, m.flow) ->
         [s EXCEPT !.flows = {f \in @ : f.key # m.key} \union
            {[m.flow EXCEPT !.cookie = Get(s.flows, m.key).cookie]}]
    [] m.type = "flow_add" /\ Accepts(s, m.flow) ->
         [s EXCEPT !.flows = {f \in @ : f.key # m.key} \union {m.flow}]
    [] m.type = "group_add" /\ GroupOf(s, m.id) = {} ->
         [s EXCEPT !.groups = @ \union {[id |-> m.id, name |-> m.name]}]
    [] m.type = "group_delete" ->
         [s EXCEPT !.groups = @ \ GroupOf(s, m.id),
                   !.flows = {f \in @ : f.group # m.id}]
    [] m.type = "meter_add"    -> [s EXCEPT !.meters = @ \union {m.id}]
    [] m.type = "meter_delete" -> [s EXCEPT !.meters = @ \ {m.id}]
    [] OTHER -> s

\* What the switch may answer, and the TLV table it then has.
Error(m, code) == [type |-> "error", xid |-> m.xid, code |-> code]
Answers(m) ==
  CASE m.type = "tlv_request" ->
         {<<[type |-> "tlv_reply", xid |-> m.xid, map |-> sw.tlv], sw.tlv>>}
         \union (IF left.races THEN {<<Error(m, "REFUSED"), sw.tlv>>} ELSE {})
    [] m.type = "tlv_mod" ->
         IF sw.tlv[m.index] # "free"
         THEN {<<Error(m, "ALREADY_MAPPED"), sw.tlv>>}
         ELSE IF OvnIndexes(sw.tlv) # {}
         THEN {<<Error(m, "DUP_ENTRY"), sw.tlv>>}
         ELSE {<<NoReply, [sw.tlv EXCEPT ![m.index] = "ovn"]>>}
              \union (IF left.full THEN {<<Error(m, "TABLE_FULL"), sw.tlv>>}
                      ELSE {})
    [] m.type = "barrier" ->
         {<<[type |-> "barrier_reply", xid |-> m.xid], sw.tlv>>}
    [] OTHER -> {<<NoReply, sw.tlv>>}

SwitchStep ==
  /\ toSwitch # <<>>
  /\ \E m \in Head(toSwitch).msgs :
        /\ toSwitch' = IF Head(toSwitch).msgs = {m} THEN Tail(toSwitch)
                       ELSE [toSwitch EXCEPT ![1].msgs = @ \ {m}]
        /\ flushed' = IF m.type = "flush" THEN flushed \union {m.zone}
                      ELSE flushed
        /\ \E a \in Answers(m) :
              /\ toCtl' = IF a[1] = NoReply THEN toCtl ELSE Append(toCtl, a[1])
              /\ sw' = [Apply(sw, m) EXCEPT !.tlv = a[2]]
  /\ UNCHANGED <<loopVars, tlvVars, flowVars, cfgVars, connVars, tx_counter,
                 next_xid, left>>

\* Another controller maps an option, its own or that of OVN.
OtherController ==
  /\ left.races
  /\ \E i \in TlvIndexes, owner \in {"ovn", "other"} :
        /\ sw.tlv[i] = "free"
        /\ owner = "ovn" => OvnIndexes(sw.tlv) = {}
        /\ sw' = [sw EXCEPT !.tlv[i] = owner]
  /\ UNCHANGED <<loopVars, tlvVars, flowVars, cfgVars, connVars, netVars,
                 toCtl, flushed, left>>

-----------------------------------------------------------------------------
Run == \/ ofctrl_run_connected \/ ofctrl_run_unconnected
       \/ run_S_NEW \/ run_S_CLEAR_FLOWS
       \/ recv_S_TLV_TABLE_REQUESTED \/ recv_S_TLV_TABLE_MOD_SENT
       \/ recv_S_UPDATE_FLOWS \/ ofctrl_run_done

Loop == Run \/ body_skip \/ consider_logical_flow \/ ofctrl_put

Next == \/ Loop \/ ofctrl_run_reconnected \/ body_lflow_run
        \/ SbChange \/ update_ct_zones
        \/ Drain \/ Disconnect \/ SwitchStep \/ OtherController

Spec == Init /\ [][Next]_vars

\* The loop never stops, the switch reads what it is sent.  A reconnection
\* and an OVS transaction are not there in every pass, but again and again.
Fairness ==
  /\ WF_vars(Loop) /\ WF_vars(Drain) /\ WF_vars(SwitchStep)
  /\ SF_vars(ofctrl_run_reconnected) /\ SF_vars(body_lflow_run)

FairSpec == Spec /\ Fairness

-----------------------------------------------------------------------------
(* Properties. *)

\* The switch has got everything that was sent.
CaughtUp == link /\ state = "S_UPDATE_FLOWS" /\ toSwitch = <<>>

(* The comment on 'installed_flows' ("holds the flow table currently       *)
(* installed in the switch"): once the switch has processed what ofctrl.c  *)
(* sent, its flows and groups are those that ofctrl.c believes installed,  *)
(* and it has no meter that ofctrl.c forgot, whatever drops and            *)
(* reconnections came before.                                              *)
SwitchInSync ==
  CaughtUp =>
    /\ sw.flows = installed_flows
    /\ sw.groups = {[id |-> e.table_id, name |-> e.name] :
                      e \in groups.existing}
    /\ sw.meters \subseteq {e.table_id : e \in meters.existing}

(* The order of the messages of ofctrl_put() (groups before the flows that *)
(* use them, groups deleted after) and the ids of extend-table.c: at every *)
(* moment, even between two messages of a put or after a drop in its       *)
(* middle, a flow in the switch reaches the very group that its logical    *)
(* flow named.                                                             *)
FlowsReachTheirGroup ==
  \A f \in sw.flows :
     f.group # 0 => [id |-> f.group, name |-> f.lb] \in sw.groups

(* The comment on struct ofctrl_flow_update ("we know that the switch is   *)
(* caught up to northbound database sequence number 'nb_cfg'"): when       *)
(* cur_cfg becomes n, nothing that was sent for n or before is still under *)
(* way, and nothing of it was lost.                                        *)
UpToDateIsTrue ==
  [][cur_cfg' # cur_cfg =>
       /\ \A i \in DOMAIN toSwitch : toSwitch[i].nb > cur_cfg'
       /\ toSwitch = <<>> => sw.flows = installed_flows']_vars

(* A conntrack zone counts as flushed (CT_ZONE_DB_QUEUED, after which the  *)
(* zone is recorded and will not be flushed again) only if the switch did  *)
(* flush it after it was assigned, in spite of drops between the flush and *)
(* its barrier reply.                                                      *)
FlushConfirmed ==
  \A e \in pending : e.state = "CT_ZONE_DB_QUEUED" => e.zone \in flushed

(* The comment on 'mff_ovn_geneve' ("In S_CLEAR_FLOWS or S_UPDATE_FLOWS,   *)
(* this is really the option we have"): the switch maps the option that    *)
(* the flows will use.  (Unless the switch has no room for an option of    *)
(* this size: recv_S_TLV_TABLE_MOD_SENT() then goes on with the option     *)
(* that it asked for in vain.)                                             *)
GeneveOptionIsReal ==
  ~ left.full =>
    (state \in {"S_CLEAR_FLOWS", "S_UPDATE_FLOWS"} /\ mff_ovn_geneve # 0 =>
       sw.tlv[mff_ovn_geneve - 1] = "ovn")

(* The group table lives as extend-table.c's callers may use it: each step *)
(* of ofctrl.c is a step of ExtendTable or leaves the table alone.         *)
GroupTableSpec == Groups!Spec

(* Once the database and the connection are quiet, the chassis catches up  *)
(* with nb_cfg and reports it, which "ovn-nbctl --wait=hv" waits for.      *)
NbCfgAcked == <>[](cur_cfg = sb.nb_cfg)

(* Every conntrack flush that update_ct_zones() asks for is sent, sent     *)
(* again after a drop, and confirmed in the end.                           *)
FlushDone == \A z \in Zones : (\E e \in pending : e.zone = z)
                                ~> (\A e \in pending : e.zone # z)

(* The negotiation of the Geneve option ends, however it races with other  *)
(* controllers and whatever the switch refuses: ofctrl.c always comes back *)
(* to the state in which it can update flows.                              *)
Negotiated == []<>(state = "S_UPDATE_FLOWS")
=============================================================================
