------------------------------ MODULE TunnelKeys ------------------------------
(***************************************************************************)
(* How ovn-northd numbers things for the southbound database, as functions *)
(* of what one pass over the databases reads: the tunnel keys of datapaths *)
(* (build_datapaths) and of ports (build_ports), and the QoS queue ids of  *)
(* ports on a chassis (northd/ovn-northd.c).  Module Northd runs them.     *)
(*                                                                         *)
(* Switches and ports are numbers, in the order in which the database      *)
(* tables are walked.                                                      *)
(***************************************************************************)
EXTENDS Naturals, FiniteSets, SequencesExt

CONSTANTS Switches,          \* logical switches, a set of naturals
          Ports,             \* logical switch ports, a set of naturals
          Chassis,           \* hypervisors
          None,              \* a missing row, or an empty chassis column
          MaxDatapathKey,    \* (1u << 24) - 1, scaled down
          KeyWidth,          \* 2^16, scaled down: the range of a uint16_t
          MaxPortKey,        \* (1u << 15) - 1, scaled down
          MaxQueueId         \* QDISC_MAX_QUEUE_ID, scaled down

InOrder(S) == SetToSortSeq(S, <)
Least(S) == CHOOSE x \in S : \A y \in S : x <= y
Greatest(S) == CHOOSE x \in S : \A y \in S : x >= y

\* A loop over 'seq' that carries 'acc' along.  Drawing the result from a set
\* of one makes TLC evaluate it once per step.
Loop(Body(_, _), start, seq) ==
    FoldLeft(LAMBDA a, x : CHOOSE r \in {Body(acc, x) : acc \in {a}} : TRUE,
             start, seq)

\* The first identifier after 'hint', going round, that is not in use.  The
\* loop stops when it is back at 'hint', which it therefore never tries; 0 is
\* the "exhausted" answer.  From hint 0, as after a start, the code's loop does
\* not end when every identifier is in use: that is never asked here, since
\* there are more keys than switches and the hint of a port is 0 only in an
\* empty switch.
allocate_tnlid(used, max, hint) ==
    LET free == 1..max \ (used \cup {hint})
        above == {k \in free : k > hint}
    IN  IF free = {} THEN 0 ELSE Least(IF above = {} THEN free ELSE above)

\* Mutant: the keys of the existing ports are not indexed.
PortKeysInUse_none(pb, rows) == {}

\* A port that is already in the southbound database counts as in use in the
\* datapath it now belongs to.
PortKeysInUse(pb, rows) == {pb[p].key : p \in rows}

(***************************************************************************)
(* build_datapaths: 'wanted' are the switches of the northbound database,  *)
(* 'dp' maps every switch to the tunnel key of its Datapath_Binding, 0 if  *)
(* it has none.  Keys come from a 24 bit space but pass through a          *)
(* uint16_t, and a zero there ends the loop with the remaining switches    *)
(* unnumbered.                                                             *)
(***************************************************************************)
build_datapaths(wanted, dp, hint) ==
    LET both == {s \in wanted : dp[s] # 0}
        Number(acc, s) ==
            LET tnlid == allocate_tnlid(acc.used, MaxDatapathKey, acc.hint)
                tunnel_key == tnlid % KeyWidth
            IN  IF acc.stop THEN acc
                ELSE [used |-> acc.used \cup {tnlid},
                      hint |-> IF tnlid = 0 THEN acc.hint ELSE tnlid,
                      dp   |-> [acc.dp EXCEPT ![s] = tunnel_key],
                      stop |-> tunnel_key = 0]
    IN  Loop(Number,
                 [used |-> {dp[s] : s \in both},
                  hint |-> hint,
                  dp   |-> [s \in Switches |-> IF s \in both THEN dp[s] ELSE 0],
                  stop |-> FALSE],
                 InOrder(wanted \ both))

(***************************************************************************)
(* The queue ids of one pass.  'queues' is what join_logical_ports         *)
(* collects; a port with QoS options that is bound to a chassis gets the   *)
(* least free id there, and one that has lost them gives its id back.      *)
(***************************************************************************)
allocate_chassis_queueid(queues, c) ==
    LET free == {q \in 1..MaxQueueId : <<c, q>> \notin queues}
    IN  IF free = {} THEN 0 ELSE Least(free)

\* Mutant: the ids of the existing ports are not collected.
ChassisQueues_none(lsp, pb) == {}

\* Ports in both databases only.
ChassisQueues(lsp, pb) ==
    {<<pb[p].chassis, pb[p].queue>> :
        p \in {r \in Ports : /\ lsp[r] # None
                             /\ pb[r] # None
                             /\ pb[r].queue # 0
                             /\ pb[r].chassis # None}}

\* Giving an id back reads the chassis row of the port.
ReadsNullChassis(lsp, pb) ==
    \E p \in Ports : /\ lsp[p] # None
                     /\ pb[p] # None
                     /\ ~lsp[p].qos
                     /\ pb[p].queue # 0
                     /\ pb[p].chassis = None

(***************************************************************************)
(* ovn_port_update_sbrec, for one port that is in both databases.  The     *)
(* queue table is a hash map with duplicates, of which freeing removes     *)
(* one, so an id is gone only when no other port on the chassis holds it.  *)
(***************************************************************************)
ovn_port_update_sbrec(acc, p, lsp) ==
    LET row == acc.pb[p]
        wants == row.chassis # None /\ lsp[p].qos /\ row.queue = 0
        drops == ~lsp[p].qos /\ row.queue # 0
        got == IF wants THEN allocate_chassis_queueid(acc.queues, row.chassis)
               ELSE IF drops THEN 0 ELSE row.queue
        pb == [acc.pb EXCEPT ![p] = [row EXCEPT !.sw = lsp[p].sw, !.queue = got]]
        mine == <<row.chassis, row.queue>>
    IN  [pb     |-> pb,
         queues |-> IF wants /\ got # 0 THEN acc.queues \cup {<<row.chassis, got>>}
                    ELSE IF drops /\ mine \notin ChassisQueues(lsp, pb)
                         THEN acc.queues \ {mine}
                         ELSE acc.queues]

\* A port the southbound database lacks: a key for it in its datapath, after
\* the greatest one in use, and a row without chassis or queue.
InsertPort(acc, p, lsp) ==
    LET used == PortKeysInUse(acc.pb, {r \in Ports : /\ acc.pb[r] # None
                                                     /\ acc.pb[r].sw = lsp[p].sw})
        hint == IF acc.hint[lsp[p].sw] # 0 THEN acc.hint[lsp[p].sw]
                ELSE IF used = {} THEN 0 ELSE Greatest(used)
        key == allocate_tnlid(used, MaxPortKey, hint)
    IN  IF key = 0 THEN acc
        ELSE [pb   |-> [acc.pb EXCEPT ![p] = [sw |-> lsp[p].sw, key |-> key,
                                              queue |-> 0, chassis |-> None]],
              hint |-> [acc.hint EXCEPT ![lsp[p].sw] = key]]

\* build_ports: the ports in both databases are brought up to date in order,
\* then the new ones are numbered, and the rows of the others are deleted.
build_ports(lsp, pb) ==
    LET both == {p \in Ports : lsp[p] # None /\ pb[p] # None}
        nb_only == {p \in Ports : lsp[p] # None /\ pb[p] = None}
        updated == Loop(LAMBDA acc, p : ovn_port_update_sbrec(acc, p, lsp),
                            [pb     |-> [p \in Ports |-> IF p \in both THEN pb[p]
                                                         ELSE None],
                             queues |-> ChassisQueues(lsp, pb)],
                            InOrder(both))
    IN  Loop(LAMBDA acc, p : InsertPort(acc, p, lsp),
                 [pb |-> updated.pb, hint |-> [s \in Switches |-> 0]],
                 InOrder(nb_only)).pb

================================================================================
