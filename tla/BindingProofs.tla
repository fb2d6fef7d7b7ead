----------------------------- MODULE BindingProofs -----------------------------
(***************************************************************************)
(* Proofs about Binding, for every set of chassis, group, priorities and   *)
(* ports: gateways that see each other agree on who is active, and every   *)
(* reference to a chassis is one to a row.                                 *)
(***************************************************************************)
EXTENDS Binding, FiniteSetTheorems, TLAPS

\* ha_chassis_group_is_active on two gateways of the group that see each
\* other is not true for both: each would have to outrank the other in
\* compare_chassis_prio_, whatever else they see.
LEMMA OneActive ==
    ASSUME NEW ha \in SUBSET Gateways, NEW ref, NEW seen_c, NEW seen_d,
           NEW c \in Gateways, NEW d \in Gateways,
           c # d, d \in seen_c, c \in seen_d,
           ha_chassis_group_is_active(ha, ref, seen_c, c),
           ha_chassis_group_is_active(ha, ref, seen_d, d)
    PROVE  FALSE
<1>1. c \in ha /\ d \in ha
  BY DEF ha_chassis_group_is_active
<1>2. CASE Cardinality(Gateways) = 1
  <2>1. PICK g : Gateways = {g}
    BY <1>2, FS_Singleton, ChassisAssumption
  <2> QED
    BY <2>1
<1>3. CASE Cardinality(Gateways) # 1
  <2>1. d \in Candidates(ha, seen_c, c) \ {c} /\ c \in Candidates(ha, seen_d, d) \ {d}
    BY <1>1 DEF Candidates
  <2>2. compare_chassis_prio_(c, d) /\ compare_chassis_prio_(d, c)
    BY <1>3, <2>1 DEF ha_chassis_group_is_active
  <2>3. c \in Int /\ d \in Int /\ Priority[c] \in Int /\ Priority[d] \in Int
    BY ChassisAssumption
  <2> QED
    BY <2>2, <2>3 DEF compare_chassis_prio_
<1> QED
  BY <1>2, <1>3

\* The variables whose shape the actions rely on.
Shape ==
    /\ sb \in [rows : SUBSET Chassis, ha : SUBSET Gateways, ref : SUBSET Chassis,
               pb : [Ports -> Chassis \cup {None}],
               requested : [Ports -> Chassis \cup {None}]]
    /\ txn \in [Chassis -> {None} \cup [Ports -> Chassis \cup {None, Keep}]]
    /\ state \in [Chassis -> {"running", "exiting", "leaving", "stopped"}]
    /\ bfd \in [Chassis -> SUBSET Chassis]
    /\ sessions \in [Chassis -> SUBSET Chassis]
    /\ northd_txn # None => /\ northd_txn.ha \subseteq Gateways
                            /\ northd_txn.ref \subseteq Chassis

\* The inductive invariant.
BindingInv == Shape /\ TypeOK

\* bfd_calculate_chassis names chassis.
LEMMA BfdChassis ==
    ASSUME NEW ha \in SUBSET Gateways, NEW ref \in SUBSET Chassis, NEW c
    PROVE  bfd_calculate_chassis(ha, ref, c) \subseteq Chassis
BY ChassisAssumption, Zenon DEF bfd_calculate_chassis

\* The start.
LEMMA InitBindingInv == Init => BindingInv
<1> SUFFICES ASSUME Init PROVE BindingInv
  OBVIOUS
<1>1. load.requested \in [Ports -> Chassis \cup {None}]
  BY LoadsAssumption DEF Init
<1> DEFINE ha == IF load.fresh THEN {} ELSE Gateways
<1>2. ha \in SUBSET Gateways
  OBVIOUS
<1>3. bfd = [c \in Chassis |-> bfd_calculate_chassis(ha, {}, c) \ {c}]
  BY DEF Init
<1>4. \A c \in Chassis : bfd_calculate_chassis(ha, {}, c) \subseteq Chassis
  BY <1>2, BfdChassis
<1>5. /\ bfd \in [Chassis -> SUBSET Chassis]
      /\ \A c \in Chassis : bfd[c] \subseteq Chassis \ {c}
  <2> HIDE DEF ha
  <2> QED BY <1>3, <1>4
<1>6. /\ sb = [rows |-> IF load.fresh THEN {} ELSE Chassis, ha |-> ha, ref |-> {},
               pb |-> [p \in Ports |-> None], requested |-> load.requested]
      /\ sessions = bfd
      /\ txn = [c \in Chassis |-> None]
      /\ northd_txn = None
      /\ state = [c \in Chassis |-> "running"]
  BY DEF Init
<1>7. Shape
  BY <1>1, <1>2, <1>5, <1>6, ChassisAssumption DEF Shape
<1>8. TypeOK
  BY <1>1, <1>2, <1>5, <1>6, ChassisAssumption, Zenon DEF TypeOK
<1> QED
  BY <1>7, <1>8 DEF BindingInv

\* binding_run writes only the chassis itself, or nothing, in a port's row.
LEMMA Writes ==
    ASSUME NEW c, NEW p
    PROVE  consider_local_datapath(c, p) \in {c, None, Keep}
BY DEF consider_local_datapath

LEMMA RunBindingInv ==
    ASSUME BindingInv, NEW c \in Chassis, Run(c)
    PROVE  BindingInv'
<1> DEFINE writes == [p \in Ports |-> consider_local_datapath(c, p)]
           conf == bfd_calculate_chassis(sb.ha, sb.ref, c) \ {c}
<1>1. writes \in [Ports -> {c, None, Keep}]
  BY Writes
<1>2. conf \subseteq Chassis \ {c}
  BY BfdChassis DEF BindingInv, Shape
<1>3. /\ state[c] = "running"
      /\ txn' = txn \/ txn' = [txn EXCEPT ![c] = writes]
      /\ bfd' = bfd \/ bfd' = [bfd EXCEPT ![c] = conf]
      /\ UNCHANGED <<sb, northd_txn, state, sessions>>
  BY DEF Run
<1> HIDE DEF writes, conf
<1>4. Shape'
  <2>1. txn' \in [Chassis -> {None} \cup [Ports -> Chassis \cup {None, Keep}]]
    <3>1. writes \in [Ports -> Chassis \cup {None, Keep}]
      BY <1>1
    <3> QED BY <1>3, <3>1 DEF BindingInv, Shape
  <2>2. bfd' \in [Chassis -> SUBSET Chassis]
    BY <1>2, <1>3 DEF BindingInv, Shape
  <2> QED BY <2>1, <2>2, <1>3 DEF BindingInv, Shape
<1>5. TypeOK'
  <2>1. \A d \in Chassis : bfd'[d] \subseteq Chassis \ {d}
    BY <1>2, <1>3 DEF BindingInv, Shape, TypeOK
  <2>2. \A d \in Chassis : /\ txn'[d] = None \/ txn'[d] \in [Ports -> {d, None, Keep}]
                           /\ state'[d] = "stopped" => txn'[d] = None
    BY <1>1, <1>3 DEF BindingInv, Shape, TypeOK
  <2> QED BY <2>1, <2>2, <1>3 DEF BindingInv, TypeOK
<1> QED
  BY <1>4, <1>5 DEF BindingInv

LEMMA CommitBindingInv ==
    ASSUME BindingInv, NEW c \in Chassis, Commit(c)
    PROVE  BindingInv'
<1> DEFINE pb == [p \in Ports |-> IF txn[c][p] = Keep THEN sb.pb[p] ELSE txn[c][p]]
<1>1. /\ txn[c] # None
      /\ sb' = [sb EXCEPT !.rows = @ \cup {c}, !.pb = pb]
      /\ txn' = [txn EXCEPT ![c] = None]
      /\ UNCHANGED <<northd_txn, state, bfd, sessions>>
  BY DEF Commit, network
<1>2. txn[c] \in [Ports -> {c, None, Keep}]
  BY <1>1 DEF BindingInv, TypeOK
<1>3. \A p \in Ports : pb[p] \in sb.rows \cup {c, None}
  BY <1>2 DEF BindingInv, TypeOK
<1>4. pb \in [Ports -> Chassis \cup {None}]
  BY <1>3 DEF BindingInv, Shape
<1> HIDE DEF pb
<1>5. /\ sb'.rows = sb.rows \cup {c}
      /\ sb'.ha = sb.ha
      /\ sb'.ref = sb.ref
      /\ sb'.pb = pb
      /\ sb'.requested = sb.requested
      /\ sb' \in [rows : SUBSET Chassis, ha : SUBSET Gateways, ref : SUBSET Chassis,
                  pb : [Ports -> Chassis \cup {None}],
                  requested : [Ports -> Chassis \cup {None}]]
  BY <1>1, <1>4, Zenon DEF BindingInv, Shape
<1>6. Shape'
  BY <1>1, <1>5 DEF BindingInv, Shape
<1>7. TypeOK'
  BY <1>1, <1>3, <1>5 DEF BindingInv, Shape, TypeOK
<1> QED
  BY <1>6, <1>7 DEF BindingInv

LEMMA NorthdPassBindingInv ==
    ASSUME BindingInv, NorthdPass
    PROVE  BindingInv'
<1>1. /\ northd_txn' = [ha |-> GroupMembers, ref |-> {sb.pb[p] : p \in Lsps} \ {None}]
      /\ UNCHANGED <<sb, txn, state, bfd, sessions>>
  BY DEF NorthdPass, controllers, network
<1>2. GroupMembers \subseteq Gateways
  BY DEF GroupMembers, BindingInv, Shape
<1>3. {sb.pb[p] : p \in Lsps} \ {None} \subseteq Chassis
  BY DEF Lsps, BindingInv, Shape
<1>4. Shape'
  BY <1>1, <1>2, <1>3 DEF BindingInv, Shape
<1>5. TypeOK'
  BY <1>1 DEF BindingInv, TypeOK
<1> QED
  BY <1>4, <1>5 DEF BindingInv

LEMMA NorthdCommitBindingInv ==
    ASSUME BindingInv, NorthdCommit
    PROVE  BindingInv'
<1>1. /\ sb' = [sb EXCEPT !.ha = northd_txn.ha \cap sb.rows,
                          !.ref = northd_txn.ref \cap sb.rows]
      /\ northd_txn # None
      /\ northd_txn' = None
      /\ UNCHANGED <<txn, state, bfd, sessions>>
  BY DEF NorthdCommit, controllers, network
<1>2. Shape'
  BY <1>1, Zenon DEF BindingInv, Shape
<1>3. TypeOK'
  BY <1>1 DEF BindingInv, Shape, TypeOK
<1> QED
  BY <1>2, <1>3 DEF BindingInv

LEMMA CleanupBindingInv ==
    ASSUME BindingInv, NEW c \in Chassis, binding_cleanup(c)
    PROVE  BindingInv'
<1> DEFINE release == [p \in Ports |-> IF sb.pb[p] = c THEN None ELSE Keep]
<1>1. /\ txn' = [txn EXCEPT ![c] = release]
      /\ state' = [state EXCEPT ![c] = "leaving"]
      /\ bfd' = [bfd EXCEPT ![c] = {}]
      /\ UNCHANGED <<sb, northd_txn, sessions>>
  BY DEF binding_cleanup
<1>2. release \in [Ports -> {c, None, Keep}]
  OBVIOUS
<1> HIDE DEF release
<1>3. Shape'
  <2>1. txn' \in [Chassis -> {None} \cup [Ports -> Chassis \cup {None, Keep}]]
    <3>1. release \in [Ports -> Chassis \cup {None, Keep}]
      BY <1>2
    <3> QED BY <1>1, <3>1 DEF BindingInv, Shape
  <2> QED BY <1>1, <2>1 DEF BindingInv, Shape
<1>4. TypeOK'
  BY <1>1, <1>2 DEF BindingInv, Shape, TypeOK
<1> QED
  BY <1>3, <1>4 DEF BindingInv

LEMMA CommitCleanupBindingInv ==
    ASSUME BindingInv, NEW c \in Chassis, CommitCleanup(c)
    PROVE  BindingInv'
<1> DEFINE pb == [p \in Ports |-> IF sb.pb[p] = c \/ txn[c][p] = None THEN None
                                  ELSE sb.pb[p]]
<1>1. /\ sb' = [sb EXCEPT !.rows = @ \ {c}, !.ha = @ \ {c}, !.ref = @ \ {c}, !.pb = pb]
      /\ txn' = [txn EXCEPT ![c] = None]
      /\ state' = [state EXCEPT ![c] = "exiting"]
      /\ UNCHANGED <<northd_txn, bfd, sessions>>
  BY DEF CommitCleanup, network
<1>2. /\ pb \in [Ports -> Chassis \cup {None}]
      /\ \A p \in Ports : pb[p] \in (sb.rows \ {c}) \cup {None}
  BY DEF BindingInv, Shape, TypeOK
<1> HIDE DEF pb
<1>3. Shape'
  <2>1. sb' \in [rows : SUBSET Chassis, ha : SUBSET Gateways, ref : SUBSET Chassis,
                 pb : [Ports -> Chassis \cup {None}],
                 requested : [Ports -> Chassis \cup {None}]]
    BY <1>1, <1>2, Zenon DEF BindingInv, Shape
  <2> QED BY <1>1, <2>1 DEF BindingInv, Shape
<1>4. TypeOK'
  <2>1. /\ sb'.rows = sb.rows \ {c} /\ sb'.ha = sb.ha \ {c} /\ sb'.ref = sb.ref \ {c}
        /\ sb'.pb = pb
    BY <1>1 DEF BindingInv, Shape
  <2>2. \A d \in Chassis : /\ txn'[d] = None \/ txn'[d] \in [Ports -> {d, None, Keep}]
                           /\ state'[d] = "stopped" => txn'[d] = None
    BY <1>1 DEF BindingInv, Shape, TypeOK
  <2> QED BY <1>1, <1>2, <2>1, <2>2 DEF BindingInv, TypeOK
<1> QED
  BY <1>3, <1>4 DEF BindingInv

LEMMA CleanedUpBindingInv ==
    ASSUME BindingInv, NEW c \in Chassis, CleanedUp(c)
    PROVE  BindingInv'
<1>1. /\ txn[c] = None
      /\ state' = [state EXCEPT ![c] = "stopped"]
      /\ bfd' = [bfd EXCEPT ![c] = {}]
      /\ UNCHANGED <<sb, txn, northd_txn, sessions>>
  BY DEF CleanedUp
<1> QED
  BY <1>1 DEF BindingInv, Shape, TypeOK

\* What happens around the controllers.
LEMMA WorldBindingInv ==
    ASSUME BindingInv, NEW c \in Chassis,
           \/ NodeChanges(c) \/ Exit(c) \/ Crash(c) \/ Start(c) \/ Connect(c)
           \/ \E p \in Vifs : IfaceChanges(c, p) \/ RequestChanges(p, c)
           \/ \E d \in Chassis : BfdDetects(c, d)
           \/ \E l \in Pairs : LinkChanges(l)
    PROVE  BindingInv'
<1>1. CASE NodeChanges(c) \/ Connect(c) \/ (\E p \in Vifs : IfaceChanges(c, p))
           \/ (\E l \in Pairs : LinkChanges(l))
  <2>1. UNCHANGED <<sb, txn, northd_txn, state, bfd, sessions>>
    BY <1>1 DEF NodeChanges, Connect, IfaceChanges, LinkChanges, controllers, network
  <2> QED BY <2>1 DEF BindingInv, Shape, TypeOK
<1>2. CASE Exit(c) \/ Start(c)
  <2>1. /\ state' \in {[state EXCEPT ![c] = "exiting"], [state EXCEPT ![c] = "running"]}
        /\ UNCHANGED <<sb, txn, northd_txn, bfd, sessions>>
    BY <1>2 DEF Exit, Start, network
  <2> QED BY <2>1 DEF BindingInv, Shape, TypeOK
<1>3. CASE Crash(c)
  <2>1. /\ state' = [state EXCEPT ![c] = "stopped"]
        /\ txn' = [txn EXCEPT ![c] = None]
        /\ UNCHANGED <<sb, northd_txn, bfd, sessions>>
    BY <1>3 DEF Crash, network
  <2> QED BY <2>1 DEF BindingInv, Shape, TypeOK
<1>4. ASSUME NEW p \in Vifs, RequestChanges(p, c) PROVE BindingInv'
  <2>1. /\ sb' = [sb EXCEPT !.requested[p] = c]
        /\ UNCHANGED <<txn, northd_txn, state, bfd, sessions>>
    BY <1>4 DEF RequestChanges, controllers, network
  <2> QED BY <2>1, Zenon DEF BindingInv, Shape, TypeOK
<1>5. ASSUME NEW d \in Chassis, BfdDetects(c, d) PROVE BindingInv'
  <2>1. /\ sessions' \in {[sessions EXCEPT ![c] = @ \cup {d}],
                          [sessions EXCEPT ![c] = @ \ {d}]}
        /\ c # d \/ sessions' = [sessions EXCEPT ![c] = @ \ {d}]
        /\ UNCHANGED <<sb, txn, northd_txn, state, bfd>>
    BY <1>5, Zenon DEF BfdDetects, Session, controllers, BindingInv, TypeOK
  <2> QED BY <2>1 DEF BindingInv, Shape, TypeOK
<1> QED
  BY <1>1, <1>2, <1>3, <1>4, <1>5

\* Every reference to a chassis in the southbound database is one to an
\* existing row, and a stopped controller has no transaction left that could
\* bring its row back (binding_cleanup, sync_ha_chassis_group_for_sbpb).
THEOREM BindingTyped == Spec => []TypeOK
<1>1. BindingInv /\ [Next]_vars => BindingInv'
  <2> SUFFICES ASSUME BindingInv, [Next]_vars PROVE BindingInv'
    OBVIOUS
  <2>1. ASSUME NEW c \in Chassis, Run(c) PROVE BindingInv'
    BY <2>1, RunBindingInv
  <2>2. ASSUME NEW c \in Chassis, Commit(c) PROVE BindingInv'
    BY <2>2, CommitBindingInv
  <2>3. ASSUME NEW c \in Chassis, binding_cleanup(c) PROVE BindingInv'
    BY <2>3, CleanupBindingInv
  <2>4. ASSUME NEW c \in Chassis, CommitCleanup(c) \/ CleanedUp(c) PROVE BindingInv'
    BY <2>4, CommitCleanupBindingInv, CleanedUpBindingInv
  <2>5. ASSUME NEW c \in Chassis,
               \/ NodeChanges(c) \/ Exit(c) \/ Crash(c) \/ Start(c) \/ Connect(c)
               \/ \E p \in Vifs : IfaceChanges(c, p) \/ RequestChanges(p, c)
               \/ \E d \in Chassis : BfdDetects(c, d)
        PROVE  BindingInv'
    BY <2>5, WorldBindingInv
  <2>6. ASSUME NEW l \in Pairs, LinkChanges(l) PROVE BindingInv'
    <3>1. PICK c \in Chassis : TRUE
      BY DEF Pairs
    <3> QED BY <2>6, <3>1, WorldBindingInv
  <2>7. CASE NorthdPass
    BY <2>7, NorthdPassBindingInv
  <2>8. CASE NorthdCommit
    BY <2>8, NorthdCommitBindingInv
  <2>9. CASE UNCHANGED vars
    BY <2>9 DEF vars, BindingInv, Shape, TypeOK
  <2> QED
    BY <2>1, <2>2, <2>3, <2>4, <2>5, <2>6, <2>7, <2>8, <2>9, ChassisAssumption DEF Next
<1>2. BindingInv => TypeOK
  BY DEF BindingInv
<1> QED
  BY <1>1, <1>2, InitBindingInv, PTL DEF Spec

\* Two gateways that see each other are never both active, for every group,
\* priorities and names, whatever else each of them sees and however BFD,
\* restarts and northd's updates interleave (ha_chassis_group_is_active).
THEOREM GatewaysAgree == Spec => []ActiveUnique
<1>1. TypeOK => ActiveUnique
  <2> SUFFICES ASSUME TypeOK, NEW c \in Gateways, NEW d \in Gateways,
                      c # d, d \in active_tunnels(c), c \in active_tunnels(d),
                      Active(c), Active(d)
               PROVE  FALSE
    BY DEF ActiveUnique
  <2>1. sb.ha \in SUBSET Gateways
    BY DEF TypeOK
  <2> QED
    BY <2>1, OneActive DEF Active
<1> QED
  BY <1>1, BindingTyped, PTL

================================================================================
