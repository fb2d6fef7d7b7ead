------------------------------ MODULE CtZones ------------------------------
(***************************************************************************)
(* controller/ovn-controller.c: which conntrack zone each logical port and *)
(* gateway router uses on this chassis, and how the assignment survives a  *)
(* restart of ovn-controller.                                              *)
(*                                                                         *)
(* A new assignment goes through the states of ct_zone_pending_state: the  *)
(* zone is flushed in the switch (Ofctrl has the details), then recorded   *)
(* in the Bridge table of the local OVSDB through the IDL loop, whose      *)
(* transactions may take time and fail.                                    *)
(***************************************************************************)
EXTENDS Naturals, FiniteSets, Functions

CONSTANTS
  Users,           \* logical ports, and the keys "<datapath>_dnat", "_snat"
  MAX_CT_ZONES,
  NoTxn,
  MaxChanges,      \* bound on the changes of the set of users
  MaxReconnects,   \* bound on the reconnections to the switch
  MaxCrashes       \* bound on the restarts of ovn-controller

Zones == 1 .. MAX_CT_ZONES
Maps == UNION {[S -> Zones] : S \in SUBSET Users}

\* A transaction of the IDL: the ids that it leaves, and its status
Txns == [ids : Maps,
         status : {"UNCHANGED", "INCOMPLETE", "SUCCESS", "TRY_AGAIN", "ERROR"}]

ASSUME CtZonesAssumption ==
  /\ MAX_CT_ZONES \in Nat
  /\ NoTxn \notin Txns
  /\ MaxChanges \in Nat /\ MaxReconnects \in Nat /\ MaxCrashes \in Nat

VARIABLES
  pc,              \* where the main loop is
  all_users,       \* the users that update_ct_zones() saw last
  ct_zones,        \* a function from users to zones
  ct_zone_bitmap,  \* the set of bits that are 1
  pending,         \* pending_ct_zones, a set of entries
  open_txn, committing_txn, skip_seqno,   \* struct ovsdb_idl_loop
  external_ids,    \* the "ct-zone-*" keys of the bridge, in the database
  conns,           \* history: whose connections each zone may hold
  astray,          \* history: see Overtaken and Unsaved
  used             \* how much of the bounds above is used up

zoneVars == <<all_users, ct_zones, ct_zone_bitmap>>
txnVars  == <<open_txn, committing_txn, skip_seqno>>
vars == <<pc, zoneVars, pending, txnVars, external_ids, conns, astray, used>>

Image(f) == {f[u] : u \in DOMAIN f}

\* struct ct_zone_pending_entry, with its key in the shash, which may have
\* several entries for one key: 'since' tells those of one user apart.
\* 'flushed' is history: whether the switch has executed the flush that was
\* sent for it.
Entry(u, z, add, st) ==
  [user |-> u, zone |-> z, add |-> add, state |-> st,
   since |-> used.changes, flushed |-> FALSE]
InState(sts) == {e \in pending : e.state \in sts}
SetState(es, st) ==
  {IF e \in es THEN [e EXCEPT !.state = st] ELSE e : e \in pending}

\* Two ways for the record of a user to go astray, as <<user, zone>> pairs.
\* A user that changes again while it has an entry gets a second one, in no
\* order with the first.
Pairs(es) == {<<e.user, e.zone>> : e \in es}
Overtaken(new) ==
  LET twice == {e.user : e \in new} \intersect {e.user : e \in pending}
  IN Pairs({e \in pending \union new : e.user \in twice})

\* An entry whose transaction failed still is in CT_ZONE_DB_SENT, and goes
\* with a pass that returns 1 without having sent it again.
Unsaved(txn) ==
  IF txn = NoTxn \/ txn.status = "UNCHANGED"
  THEN Pairs(InState({"CT_ZONE_DB_SENT"})) ELSE {}

AstrayUser(u) == \E p \in astray : p[1] = u
AstrayZone(z) == \E p \in astray : p[2] = z

-----------------------------------------------------------------------------
(* Start and restart. *)

\* Mutant: the restored zones are not marked as used.
restore_ct_zones_unmarked(ids) ==
  /\ ct_zones' = ids
  /\ ct_zone_bitmap' = {0}

\* restore_ct_zones(), after the bitmap got its reserved zone 0
restore_ct_zones(ids) ==
  /\ ct_zones' = ids
  /\ ct_zone_bitmap' = {0} \union Image(ids)

Init ==
  /\ external_ids \in {f \in Maps : IsInjective(f)}
  /\ ct_zones = external_ids
  /\ ct_zone_bitmap = {0} \union Image(external_ids)
  /\ all_users = DOMAIN external_ids
  /\ pending = {}
  /\ open_txn = NoTxn /\ committing_txn = NoTxn /\ skip_seqno = FALSE
  /\ conns = [z \in Zones |-> {u \in DOMAIN external_ids : external_ids[u] = z}]
  /\ astray = {}
  /\ pc = "idle"
  /\ used = [changes |-> 0, reconnects |-> 0, crashes |-> 0]

\* The process ends at any point; a commit under way may still take effect.
Crash ==
  /\ used.crashes < MaxCrashes
  /\ used' = [used EXCEPT !.crashes = @ + 1]
  /\ \/ UNCHANGED external_ids
     \/ /\ committing_txn # NoTxn /\ committing_txn.status = "INCOMPLETE"
        /\ external_ids' = committing_txn.ids
  /\ restore_ct_zones(external_ids')
  /\ all_users' = DOMAIN external_ids'
  /\ pending' = {}
  /\ open_txn' = NoTxn /\ committing_txn' = NoTxn /\ skip_seqno' = FALSE
  /\ pc' = "idle"
  /\ UNCHANGED <<conns, astray>>

-----------------------------------------------------------------------------
(* A pass of the main loop. *)

\* ovsdb_idl_loop_run(): a transaction is opened when none is under way.
\* What other parts of the pass may write to it (tunnels, patch ports) is left
\* out: it makes the transaction take longer, not carry other zones.
ovsdb_idl_loop_run ==
  /\ pc = "idle" /\ pc' = "update"
  /\ open_txn' = IF committing_txn # NoTxn \/ skip_seqno THEN NoTxn
                 ELSE [ids |-> external_ids, status |-> "UNCHANGED"]
  /\ UNCHANGED <<zoneVars, pending, committing_txn, skip_seqno, external_ids,
                 conns, astray, used>>

\* Mutant: a zone's bit is not set before the next user's scan.
AssignmentsUnmarked(new, free) ==
  UNION {[S -> free] : S \in SUBSET new}

\* The zones that the users in 'new' get: the lowest free ones, in the order
\* in which the users come, until they are exhausted.
Assignments(new, free) ==
  LET n == IF Cardinality(new) < Cardinality(free)
           THEN Cardinality(new) ELSE Cardinality(free)
      lowest == {z \in free : Cardinality({y \in free : y < z}) < n}
      served == {S \in SUBSET new : Cardinality(S) = n}
  IN {f \in UNION {[S -> lowest] : S \in served} : IsInjective(f)}

\* Mutant: the bits of the users that are gone stay set.
BitsFreedNever(gone) == {}

BitsFreed(gone) == {ct_zones[u] : u \in gone}

\* Mutant: a new zone is not flushed.
AddEntryUnflushed(u, z) == Entry(u, z, TRUE, "CT_ZONE_DB_QUEUED")

AddEntry(u, z) == Entry(u, z, TRUE, "CT_ZONE_OF_QUEUED")
RemoveEntry(u, z) == Entry(u, z, FALSE, "CT_ZONE_DB_QUEUED")
NewEntries(gone, f) ==
  {RemoveEntry(u, ct_zones[u]) : u \in gone} \union {AddEntry(u, f[u]) : u \in DOMAIN f}

update_ct_zones(users) ==
  /\ pc = "update" /\ pc' = "commit"
  /\ users # all_users => used.changes < MaxChanges
  /\ all_users' = users
  /\ used' = [used EXCEPT !.changes = @ + IF users # all_users THEN 1 ELSE 0]
  /\ LET gone == DOMAIN ct_zones \ users
         kept == DOMAIN ct_zones \intersect users
         bits == ct_zone_bitmap \ BitsFreed(gone)
     IN \E f \in Assignments(users \ DOMAIN ct_zones, Zones \ bits) :
          /\ ct_zones' = [u \in kept \union DOMAIN f |->
                            IF u \in kept THEN ct_zones[u] ELSE f[u]]
          /\ ct_zone_bitmap' = bits \union Image(f)
          /\ pending' = pending \union NewEntries(gone, f)
          /\ astray' = astray \union Overtaken(NewEntries(gone, f))
  /\ UNCHANGED <<txnVars, external_ids, conns>>

\* Mutant: what was sent once is not sent again.
EntriesToSendOnce == InState({"CT_ZONE_DB_QUEUED"})

\* "any pending entries in the CT_ZONE_DB_QUEUED must be sent", and those of
\* a transaction that failed "need to be retried"
EntriesToSend == InState({"CT_ZONE_DB_QUEUED", "CT_ZONE_DB_SENT"})

\* Mutant: a removed user stays recorded.
NewIdsKept(es) ==
  {[u \in DOMAIN external_ids \union {e.user : e \in es} |->
      IF \E e \in es : e.user = u
      THEN (CHOOSE e \in pending : e.user = u).zone ELSE external_ids[u]]}

\* The ids after commit_ct_zones() went through the entries: those of one
\* user come in the order of their hash bucket, so any may be the last.
NewIds(es) ==
  LET touched == {e.user : e \in es}
      lasts == {f \in [touched -> es] : \A u \in touched : f[u].user = u}
      Result(f) ==
        [u \in (DOMAIN external_ids \ touched) \union {v \in touched : f[v].add} |->
           IF u \in touched THEN f[u].zone ELSE external_ids[u]]
  IN {Result(f) : f \in lasts}

\* What commit_ct_zones() and ofctrl_put() make of an entry
Committed(e) ==
  CASE e.state \in {"CT_ZONE_DB_QUEUED", "CT_ZONE_DB_SENT"} ->
         [e EXCEPT !.state = "CT_ZONE_DB_SENT"]
    [] e.state = "CT_ZONE_OF_QUEUED" ->
         [e EXCEPT !.state = "CT_ZONE_OF_SENT", !.flushed = FALSE]
    [] OTHER -> e

\* if (ovs_idl_txn && ofctrl_can_put()): commit_ct_zones(), and ofctrl_put()
\* in the same pass, with the flushes and with the flows that use the zones.
commit_ct_zones ==
  /\ pc = "commit" /\ pc' = "wait"
  /\ open_txn # NoTxn
  /\ IF EntriesToSend = {} THEN UNCHANGED open_txn
     ELSE \E ids \in NewIds(EntriesToSend) :
            open_txn' = [ids |-> ids, status |-> "INCOMPLETE"]
  /\ pending' = {Committed(e) : e \in pending}
  /\ conns' = [z \in Zones |->
                 conns[z] \union {u \in DOMAIN ct_zones : ct_zones[u] = z}]
  /\ UNCHANGED <<zoneVars, committing_txn, skip_seqno, external_ids, astray, used>>

\* No transaction, or ofctrl_can_put() is false.
commit_skip ==
  /\ pc = "commit" /\ pc' = "wait"
  /\ UNCHANGED <<zoneVars, pending, txnVars, external_ids, conns, astray, used>>

\* ovsdb_idl_loop_commit_and_wait(), and the entries that it confirms: those
\* in CT_ZONE_DB_SENT go when it returns 1, which it also does when there was
\* no transaction at all.
ovsdb_idl_loop_commit_and_wait ==
  /\ pc = "wait" /\ pc' = "idle"
  /\ LET txn == IF open_txn # NoTxn THEN open_txn ELSE committing_txn
         retval == CASE txn = NoTxn -> 1
                     [] txn # NoTxn /\ txn.status \in {"SUCCESS", "UNCHANGED"} -> 1
                     [] OTHER -> 0
     IN /\ open_txn' = NoTxn
        /\ committing_txn' =
             IF txn # NoTxn /\ txn.status = "INCOMPLETE" THEN txn ELSE NoTxn
        /\ IF txn # NoTxn /\ txn.status = "TRY_AGAIN"
           THEN skip_seqno' \in BOOLEAN   \* has the database changed since?
           ELSE UNCHANGED skip_seqno
        /\ pending' =
             IF retval = 1 THEN pending \ InState({"CT_ZONE_DB_SENT"})
             ELSE pending
        /\ astray' = astray \union Unsaved(txn)
  /\ UNCHANGED <<zoneVars, external_ids, conns, used>>

-----------------------------------------------------------------------------
(* The switch and the database (external). *)

\* The switch executes the flush.  The user that has the zone may go on to
\* open connections; one that is gone is assumed not to.
Flush(e) ==
  /\ e \in InState({"CT_ZONE_OF_SENT"}) /\ ~ e.flushed
  /\ pending' = (pending \ {e}) \union {[e EXCEPT !.flushed = TRUE]}
  /\ conns' = [conns EXCEPT ![e.zone] =
                 {u \in DOMAIN ct_zones : ct_zones[u] = e.zone}]
  /\ UNCHANGED <<pc, zoneVars, txnVars, external_ids, astray, used>>

\* The barrier reply after the flush: see recv_S_UPDATE_FLOWS in Ofctrl.
FlushDone(e) ==
  /\ e \in InState({"CT_ZONE_OF_SENT"}) /\ e.flushed
  /\ pending' = SetState({e}, "CT_ZONE_DB_QUEUED")
  /\ UNCHANGED <<pc, zoneVars, txnVars, external_ids, conns, astray, used>>

\* A new connection to the switch: see ofctrl_run_reconnected in Ofctrl.
Reconnect ==
  /\ used.reconnects < MaxReconnects
  /\ pending' = SetState(InState({"CT_ZONE_OF_SENT"}), "CT_ZONE_OF_QUEUED")
  /\ used' = [used EXCEPT !.reconnects = @ + 1]
  /\ UNCHANGED <<pc, zoneVars, txnVars, external_ids, conns, astray>>

\* The database answers that it has committed the transaction, ...
Answer ==
  /\ committing_txn # NoTxn /\ committing_txn.status = "INCOMPLETE"
  /\ external_ids' = committing_txn.ids
  /\ committing_txn' = [committing_txn EXCEPT !.status = "SUCCESS"]
  /\ UNCHANGED <<pc, zoneVars, pending, open_txn, skip_seqno, conns, astray, used>>

\* ... or that it has not.  A connection that drops makes the IDL report
\* TXN_TRY_AGAIN whether or not the database had committed.
AnswerFailure ==
  /\ committing_txn # NoTxn /\ committing_txn.status = "INCOMPLETE"
  /\ \/ /\ external_ids' \in {external_ids, committing_txn.ids}
        /\ committing_txn' = [committing_txn EXCEPT !.status = "TRY_AGAIN"]
     \/ /\ UNCHANGED external_ids
        /\ committing_txn' = [committing_txn EXCEPT !.status = "ERROR"]
  /\ UNCHANGED <<pc, zoneVars, pending, open_txn, skip_seqno, conns, astray, used>>

\* The IDL's copy of the database changes.
SeqnoChange ==
  /\ skip_seqno /\ skip_seqno' = FALSE
  /\ UNCHANGED <<pc, zoneVars, pending, open_txn, committing_txn, external_ids,
                 conns, astray, used>>

-----------------------------------------------------------------------------
Loop == \/ ovsdb_idl_loop_run
        \/ \E users \in SUBSET Users : update_ct_zones(users)
        \/ commit_skip
        \/ ovsdb_idl_loop_commit_and_wait

\* One life of the process.
LifeNext == \/ Loop \/ commit_ct_zones
            \/ \E e \in pending : Flush(e) \/ FlushDone(e)
            \/ Reconnect \/ Answer \/ AnswerFailure \/ SeqnoChange

LifeSpec == Init /\ [][LifeNext]_vars

Next == LifeNext \/ Crash

Spec == Init /\ [][Next]_vars

\* The loop runs on: it does not sleep for longer than the inactivity probe
\* of the connection to the switch.  The switch and the database answer, the
\* passes that have a transaction and a switch to put to come again and
\* again, and not every transaction fails.
Fairness ==
  /\ WF_vars(Loop) /\ SF_vars(commit_ct_zones)
  /\ WF_vars(\E e \in pending : Flush(e) \/ FlushDone(e))
  /\ SF_vars(Answer) /\ WF_vars(SeqnoChange)

FairSpec == Spec /\ Fairness

-----------------------------------------------------------------------------
(* Properties. *)

(* The comment in update_ct_zones() ("Assign a unique zone id for each     *)
(* logical port and two zones to a gateway router"): no two users share a  *)
(* zone, so the connections of one are never seen by another.              *)
UniqueZones ==
  \A u, v \in DOMAIN ct_zones : ct_zones[u] = ct_zones[v] => u = v

(* The same across restarts: whenever the process ends, the record that    *)
(* restore_ct_zones() reads has no zone twice, so two users share a zone   *)
(* only if some user's record of that zone went astray.                    *)
UniqueUnlessAstray ==
  \A u, v \in DOMAIN ct_zones :
    ct_zones[u] = ct_zones[v] /\ u # v => AstrayZone(ct_zones[u])

(* The bitmap says which zones are in use, and zone 0 is reserved: a zone  *)
(* neither leaks when its user goes nor is free while somebody uses it.    *)
BitmapExact == ct_zone_bitmap = {0} \union Image(ct_zones)

(* The states of ct_zone_pending_entry: a user whose zone is not waiting   *)
(* to be flushed has no connections of another user in its zone, however   *)
(* zones are reassigned while flushes and commits are under way.           *)
NoForeignConnections ==
  \A u \in DOMAIN ct_zones :
    \/ \E e \in pending : /\ e.user = u /\ e.zone = ct_zones[u]
                          /\ e.state \in {"CT_ZONE_OF_QUEUED", "CT_ZONE_OF_SENT"}
    \/ conns[ct_zones[u]] \subseteq {u}

(* Whether the record says of a user what ovn-controller does. *)
Recorded(u) ==
  /\ u \in DOMAIN ct_zones <=> u \in DOMAIN external_ids
  /\ u \in DOMAIN ct_zones => ct_zones[u] = external_ids[u]

(* ovn-controller.8.xml, on the ct-zone keys ("To keep state across        *)
(* restarts of ovn-controller, these keys are stored in the integration    *)
(* bridge's Bridge table"): a user that no entry is pending for is         *)
(* recorded with the zone that it has, or not recorded if it has none,     *)
(* though transactions fail and are retried; except a user that changed    *)
(* again before its entry was through, and one whose entry was dropped     *)
(* after its transaction failed.                                           *)
RecordedUnlessAstray ==
  \A u \in Users :
    \/ \E e \in pending : e.user = u
    \/ AstrayUser(u)
    \/ Recorded(u)

(* Every assignment and removal gets through its flush, the reconnections  *)
(* to the switch and its transactions, also after some of them failed: in  *)
(* the end nothing is pending and the database has the zones in use, with  *)
(* the same exceptions.                                                    *)
EventuallyRecorded ==
  <>[](/\ pending = {}
       /\ \A u \in Users : AstrayUser(u) \/ Recorded(u))
=============================================================================
