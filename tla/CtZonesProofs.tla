--------------------------- MODULE CtZonesProofs ---------------------------
(***************************************************************************)
(* Proofs about CtZones, for every set of users and every number of zones: *)
(* in one life of ovn-controller, whatever happens to its flushes and its  *)
(* transactions, no two users share a zone and no zone leaks.              *)
(*                                                                         *)
(* The two facts need each other: a new user gets a zone that is free in   *)
(* the bitmap, so its zone is new because the bitmap has every zone in     *)
(* use; and deleting a user's bit keeps the bitmap exact because nobody    *)
(* else has that zone.                                                     *)
(*                                                                         *)
(* A zone has a stranger's connections only while its user's entry still   *)
(* awaits the flush (ConnInv), so none is left when the flush is done.     *)
(*                                                                         *)
(* With restarts, the proof is about the record: what it says and is no    *)
(* longer in use, a pending entry will remove, and every transaction under *)
(* way, whether or not it will be known to have been executed, takes the   *)
(* database to such a state (RecordInv).  So a crash at any point restores *)
(* a map without two users of one zone.  The invariant is relative to what *)
(* went astray: nothing is assumed of the transactions and of the users.   *)
(***************************************************************************)
EXTENDS CtZones, TLAPS

(* The inductive invariant. *)
ZonesInv ==
  /\ ct_zones \in Maps
  /\ UniqueZones
  /\ BitmapExact

(* What update_ct_zones() hands out: distinct free zones, to new users.    *)
LEMMA AssignmentsAreFree ==
  ASSUME NEW new, NEW free, NEW f \in Assignments(new, free)
  PROVE  /\ DOMAIN f \subseteq new
         /\ \A u \in DOMAIN f : f[u] \in free
         /\ \A u, v \in DOMAIN f : f[u] = f[v] => u = v
<1> DEFINE n == IF Cardinality(new) < Cardinality(free)
                THEN Cardinality(new) ELSE Cardinality(free)
           lowest == {z \in free : Cardinality({y \in free : y < z}) < n}
<1>1. PICK S \in SUBSET new : f \in [S -> lowest]
  BY Zenon DEF Assignments
<1>2. IsInjective(f)
  BY Zenon DEF Assignments
<1>3. lowest \subseteq free
  OBVIOUS
<1> HIDE DEF lowest
<1> QED
  BY <1>1, <1>2, <1>3, Zenon DEF IsInjective

(* The start: restore_ct_zones() from a database with distinct zones.      *)
LEMMA InitZonesInv == Init => ZonesInv
<1> SUFFICES ASSUME Init PROVE ZonesInv
  OBVIOUS
<1>1. ct_zones \in Maps /\ IsInjective(ct_zones)
  BY DEF Init
<1>2. ct_zone_bitmap = {0} \union Image(ct_zones)
  BY DEF Init
<1> QED
  BY <1>1, <1>2 DEF ZonesInv, UniqueZones, BitmapExact, IsInjective

(* update_ct_zones() keeps the zones distinct and the bitmap exact.        *)
LEMMA UpdateZonesInv ==
  ASSUME NEW users \in SUBSET Users, ZonesInv, update_ct_zones(users)
  PROVE  ZonesInv'
<1> DEFINE gone == DOMAIN ct_zones \ users
           kept == DOMAIN ct_zones \intersect users
           bits == ct_zone_bitmap \ BitsFreed(gone)
<1>1. PICK f \in Assignments(users \ DOMAIN ct_zones, Zones \ bits) :
        /\ ct_zones' = [u \in kept \union DOMAIN f |->
                          IF u \in kept THEN ct_zones[u] ELSE f[u]]
        /\ ct_zone_bitmap' = bits \union Image(f)
  BY DEF update_ct_zones
<1>2. /\ DOMAIN f \subseteq users \ DOMAIN ct_zones
      /\ \A u \in DOMAIN f : f[u] \in Zones \ bits
      /\ \A u, v \in DOMAIN f : f[u] = f[v] => u = v
  <2> DEFINE new == users \ DOMAIN ct_zones
             free == Zones \ bits
  <2>1. f \in Assignments(new, free)
    OBVIOUS
  <2> HIDE DEF new, free
  <2>2. /\ DOMAIN f \subseteq new
        /\ \A u \in DOMAIN f : f[u] \in free
        /\ \A u, v \in DOMAIN f : f[u] = f[v] => u = v
    BY <2>1, AssignmentsAreFree
  <2> QED
    BY <2>2, Zenon DEF new, free
<1>3. /\ DOMAIN ct_zones \subseteq Users
      /\ \A u \in DOMAIN ct_zones : ct_zones[u] \in Zones
  BY Zenon DEF ZonesInv, Maps
<1>4. \A u \in kept : ct_zones[u] \in bits
  BY <1>3 DEF ZonesInv, UniqueZones, BitmapExact, Image, BitsFreed
<1>5. bits = {0} \union {ct_zones[u] : u \in kept}
  <2>1. bits \subseteq {0} \union {ct_zones[u] : u \in kept}
    BY DEF ZonesInv, BitmapExact, Image, BitsFreed
  <2>2. 0 \in bits
    BY <1>3 DEF ZonesInv, BitmapExact, Image, Zones, BitsFreed
  <2> QED
    BY <2>1, <2>2, <1>4, SMTT(30)
<1>6. DOMAIN ct_zones' = kept \union DOMAIN f
  BY <1>1
<1>7. \A u \in kept : ct_zones'[u] = ct_zones[u]
  BY <1>1
<1>8. \A u \in DOMAIN f : ct_zones'[u] = f[u]
  BY <1>1, <1>2
<1> HIDE DEF gone, kept, bits
<1>9. UniqueZones'
  <2> SUFFICES ASSUME NEW u \in kept \union DOMAIN f,
                      NEW v \in kept \union DOMAIN f,
                      ct_zones'[u] = ct_zones'[v]
               PROVE  u = v
    BY <1>6 DEF UniqueZones
  <2>1. CASE u \in kept /\ v \in kept
    BY <2>1, <1>7 DEF ZonesInv, UniqueZones, kept
  <2>2. CASE u \in kept /\ v \in DOMAIN f
    BY <2>2, <1>2, <1>4, <1>7, <1>8
  <2>3. CASE u \in DOMAIN f /\ v \in kept
    BY <2>3, <1>2, <1>4, <1>7, <1>8
  <2>4. CASE u \in DOMAIN f /\ v \in DOMAIN f
    BY <2>4, <1>2, <1>8
  <2> QED
    BY <2>1, <2>2, <2>3, <2>4
<1>10. BitmapExact'
  <2>1. Image(ct_zones)' = {ct_zones[u] : u \in kept} \union Image(f)
    BY <1>6, <1>7, <1>8 DEF Image
  <2> QED
    BY <2>1, <1>1, <1>5 DEF BitmapExact
<1>11. ct_zones' \in Maps
  <2>1. kept \union DOMAIN f \in SUBSET Users
    BY <1>2, <1>3 DEF kept
  <2>2. \A u \in kept \union DOMAIN f : ct_zones'[u] \in Zones
    BY <1>2, <1>3, <1>7, <1>8 DEF kept
  <2>3. ct_zones' \in [kept \union DOMAIN f -> Zones]
    BY <1>1, <2>2
  <2> QED
    BY <2>1, <2>3 DEF Maps
<1> QED
  BY <1>9, <1>10, <1>11 DEF ZonesInv

(* Every step of one life of the process preserves the invariant: only     *)
(* update_ct_zones() touches the zones.                                    *)
LEMMA NextZonesInv == ZonesInv /\ [LifeNext]_vars => ZonesInv'
<1> SUFFICES ASSUME ZonesInv, [LifeNext]_vars PROVE ZonesInv'
  OBVIOUS
<1>1. CASE \E users \in SUBSET Users : update_ct_zones(users)
  BY <1>1, UpdateZonesInv
<1>2. CASE zoneVars' = zoneVars
  BY <1>2 DEF zoneVars, ZonesInv, UniqueZones, BitmapExact, Image
<1>3. CASE \/ ovsdb_idl_loop_run \/ commit_skip
           \/ ovsdb_idl_loop_commit_and_wait \/ commit_ct_zones
  <2>1. zoneVars' = zoneVars
    BY <1>3 DEF ovsdb_idl_loop_run, commit_skip, commit_ct_zones,
                ovsdb_idl_loop_commit_and_wait
  <2> QED
    BY <1>2, <2>1
<1>4. CASE \/ \E e \in pending : Flush(e) \/ FlushDone(e)
           \/ Reconnect \/ Answer \/ AnswerFailure \/ SeqnoChange
  <2>1. zoneVars' = zoneVars
    BY <1>4, Zenon DEF Flush, FlushDone, Reconnect, Answer, AnswerFailure, SeqnoChange
  <2> QED
    BY <1>2, <2>1
<1>5. CASE UNCHANGED vars
  BY <1>2, <1>5 DEF vars
<1> QED
  BY <1>1, <1>3, <1>4, <1>5 DEF LifeNext, Loop

(* update_ct_zones(): "Assign a unique zone id for each logical port and   *)
(* two zones to a gateway router".  In one life of the process no two      *)
(* users share a zone, for any number of users and zones, exhaustion       *)
(* included.                                                               *)
THEOREM ZonesUnique == LifeSpec => []UniqueZones
<1>1. Init => ZonesInv
  BY InitZonesInv
<1>2. ZonesInv /\ [LifeNext]_vars => ZonesInv'
  BY NextZonesInv
<1>3. ZonesInv => UniqueZones
  BY DEF ZonesInv
<1> QED
  BY <1>1, <1>2, <1>3, PTL DEF LifeSpec

(* The bitmap of update_ct_zones() is exact at all times: no zone leaks    *)
(* and none in use is free.                                                *)
THEOREM ZonesBitmapExact == LifeSpec => []BitmapExact
<1>1. Init => ZonesInv
  BY InitZonesInv
<1>2. ZonesInv /\ [LifeNext]_vars => ZonesInv'
  BY NextZonesInv
<1>3. ZonesInv => BitmapExact
  BY DEF ZonesInv
<1> QED
  BY <1>1, <1>2, <1>3, PTL DEF LifeSpec

-----------------------------------------------------------------------------
(* The pending entries and the connections in a zone *)

PendingStates ==
  {"CT_ZONE_OF_QUEUED", "CT_ZONE_OF_SENT", "CT_ZONE_DB_QUEUED", "CT_ZONE_DB_SENT"}
PendingEntries ==
  [user : Users, zone : Zones, add : BOOLEAN, state : PendingStates,
   since : Nat, flushed : BOOLEAN]

(* The shape of the entries, of their history and of the bounds.           *)
EntriesTyped ==
  /\ pending \subseteq PendingEntries
  /\ conns \in [Zones -> SUBSET Users]
  /\ used \in [changes : Nat, reconnects : Nat, crashes : Nat]

LEMMA InitEntriesTyped == Init => EntriesTyped
<1> SUFFICES ASSUME Init PROVE EntriesTyped
  OBVIOUS
<1>1. DOMAIN external_ids \subseteq Users
  BY DEF Init, Maps
<1> QED
  BY <1>1 DEF Init, EntriesTyped

(* What the steps that walk through the entries make of one.               *)
LEMMA EntryChanges ==
  ASSUME NEW e \in PendingEntries
  PROVE  /\ \A st \in PendingStates :
              /\ [e EXCEPT !.state = st] \in PendingEntries
              /\ [e EXCEPT !.state = st].state = st
              /\ [e EXCEPT !.state = st].user = e.user
              /\ [e EXCEPT !.state = st].zone = e.zone
              /\ [e EXCEPT !.state = st].add = e.add
         /\ [e EXCEPT !.flushed = TRUE] \in PendingEntries
         /\ [e EXCEPT !.flushed = TRUE].user = e.user
         /\ [e EXCEPT !.flushed = TRUE].zone = e.zone
         /\ [e EXCEPT !.flushed = TRUE].add = e.add
         /\ [e EXCEPT !.flushed = TRUE].state = e.state
BY Zenon DEF PendingEntries

(* A change of state is one of some of the entries, which stay what they   *)
(* are otherwise.                                                          *)
LEMMA SetStateEntries ==
  ASSUME EntriesTyped, NEW es, NEW st \in PendingStates
  PROVE  /\ SetState(es, st) \subseteq PendingEntries
         /\ \A e \in pending : e \notin es => e \in SetState(es, st)
         /\ \A e \in pending : e \in es => [e EXCEPT !.state = st] \in SetState(es, st)
         /\ \A x \in SetState(es, st) :
              \/ x \in pending /\ x \notin es
              \/ \E e \in pending : e \in es /\ x = [e EXCEPT !.state = st]
<1>1. \A e \in pending : [e EXCEPT !.state = st] \in PendingEntries
  BY DEF EntriesTyped, PendingEntries
<1>2. \A x \in SetState(es, st) :
        \/ x \in pending /\ x \notin es
        \/ \E e \in pending : e \in es /\ x = [e EXCEPT !.state = st]
  BY DEF SetState
<1>3. \A e \in pending : e \notin es => e \in SetState(es, st)
  BY DEF SetState
<1>4. \A e \in pending : e \in es => [e EXCEPT !.state = st] \in SetState(es, st)
  BY DEF SetState
<1> QED
  BY <1>1, <1>2, <1>3, <1>4 DEF EntriesTyped

(* commit_ct_zones() and ofctrl_put() send what is queued.                 *)
LEMMA CommittedEntry ==
  ASSUME NEW e \in PendingEntries
  PROVE  /\ Committed(e) \in PendingEntries
         /\ Committed(e).user = e.user /\ Committed(e).zone = e.zone
         /\ Committed(e).add = e.add
         /\ e.state \in {"CT_ZONE_DB_QUEUED", "CT_ZONE_DB_SENT"} =>
              Committed(e).state = "CT_ZONE_DB_SENT"
         /\ e.state = "CT_ZONE_OF_QUEUED" =>
              Committed(e).state = "CT_ZONE_OF_SENT" /\ ~ Committed(e).flushed
         /\ e.state = "CT_ZONE_OF_SENT" => Committed(e) = e
<1>1. CASE e.state \in {"CT_ZONE_DB_QUEUED", "CT_ZONE_DB_SENT"}
  <2>1. Committed(e) = [e EXCEPT !.state = "CT_ZONE_DB_SENT"]
    BY <1>1 DEF Committed
  <2> QED BY <1>1, <2>1 DEF PendingEntries, PendingStates
<1>2. CASE e.state = "CT_ZONE_OF_QUEUED"
  <2>1. Committed(e) = [e EXCEPT !.state = "CT_ZONE_OF_SENT", !.flushed = FALSE]
    BY <1>2 DEF Committed
  <2> QED BY <1>2, <2>1, Zenon DEF PendingEntries, PendingStates
<1>3. CASE e.state = "CT_ZONE_OF_SENT"
  <2>1. Committed(e) = e
    BY <1>3 DEF Committed
  <2> QED BY <1>3, <2>1 DEF PendingEntries
<1> QED
  BY <1>1, <1>2, <1>3 DEF PendingEntries, PendingStates

(* What update_ct_zones() does: the users that stay keep their zones, new  *)
(* ones get distinct free zones, and there is a removal for every user     *)
(* that is gone and an assignment, to be flushed first, for every new one. *)
Updated(gone, kept, bits, f) ==
  /\ \A u \in DOMAIN f : f[u] \notin bits
  /\ \A u, v \in DOMAIN f : f[u] = f[v] => u = v
  /\ DOMAIN ct_zones' = kept \union DOMAIN f
  /\ \A u \in kept : ct_zones'[u] = ct_zones[u]
  /\ \A u \in DOMAIN f : ct_zones'[u] = f[u]
  /\ ct_zones' \in Maps
  /\ ct_zone_bitmap' = bits \union Image(f)
  /\ pending' = pending \union NewEntries(gone, f)
  /\ NewEntries(gone, f) \subseteq PendingEntries
  /\ astray' = astray \union Overtaken(NewEntries(gone, f))

LEMMA UpdateEntries ==
  ASSUME NEW users \in SUBSET Users, ct_zones \in Maps, EntriesTyped,
         update_ct_zones(users)
  PROVE  \E f \in Maps :
           /\ DOMAIN f \subseteq users \ DOMAIN ct_zones
           /\ Updated(DOMAIN ct_zones \ users, DOMAIN ct_zones \intersect users,
                      ct_zone_bitmap \ BitsFreed(DOMAIN ct_zones \ users), f)
<1> DEFINE gone == DOMAIN ct_zones \ users
           kept == DOMAIN ct_zones \intersect users
           bits == ct_zone_bitmap \ BitsFreed(gone)
           new == users \ DOMAIN ct_zones
           free == Zones \ bits
<1>1. PICK f \in Assignments(new, free) :
        /\ ct_zones' = [u \in kept \union DOMAIN f |->
                          IF u \in kept THEN ct_zones[u] ELSE f[u]]
        /\ ct_zone_bitmap' = bits \union Image(f)
        /\ pending' = pending \union NewEntries(gone, f)
        /\ astray' = astray \union Overtaken(NewEntries(gone, f))
  BY Zenon DEF update_ct_zones
<1>2. /\ DOMAIN f \subseteq new
      /\ \A u \in DOMAIN f : f[u] \in free
      /\ \A u, v \in DOMAIN f : f[u] = f[v] => u = v
      /\ f = [u \in DOMAIN f |-> f[u]]
  <2> HIDE DEF new, free
  <2>1. /\ DOMAIN f \subseteq new
        /\ \A u \in DOMAIN f : f[u] \in free
        /\ \A u, v \in DOMAIN f : f[u] = f[v] => u = v
    BY AssignmentsAreFree
  <2> DEFINE n == IF Cardinality(new) < Cardinality(free)
                  THEN Cardinality(new) ELSE Cardinality(free)
             lowest == {z \in free : Cardinality({y \in free : y < z}) < n}
  <2>2. PICK S \in SUBSET new : f \in [S -> lowest]
    BY Zenon DEF Assignments
  <2> HIDE DEF lowest
  <2> QED BY <2>1, <2>2
<1>3. f \in Maps
  <2>1. DOMAIN f \in SUBSET Users /\ f \in [DOMAIN f -> Zones]
    BY <1>2
  <2> QED BY <2>1 DEF Maps
<1>4. /\ DOMAIN ct_zones \subseteq Users
      /\ \A u \in DOMAIN ct_zones : ct_zones[u] \in Zones
  BY Zenon DEF Maps
<1>5. used.changes \in Nat
  BY DEF EntriesTyped
<1>6. /\ \A u \in gone : RemoveEntry(u, ct_zones[u]) \in PendingEntries
      /\ \A u \in DOMAIN f : AddEntry(u, f[u]) \in PendingEntries
  BY <1>2, <1>4, <1>5 DEF RemoveEntry, AddEntry, Entry, PendingEntries, PendingStates
<1>7. NewEntries(gone, f) \subseteq PendingEntries
  BY <1>6, Zenon DEF NewEntries
<1>8. /\ DOMAIN ct_zones' = kept \union DOMAIN f
      /\ \A u \in kept : ct_zones'[u] = ct_zones[u]
      /\ \A u \in DOMAIN f : ct_zones'[u] = f[u]
  BY <1>1, <1>2
<1>9. ct_zones' \in Maps
  <2>1. kept \union DOMAIN f \in SUBSET Users
    BY <1>2, <1>4
  <2>2. ct_zones' \in [kept \union DOMAIN f -> Zones]
    BY <1>1, <1>2, <1>4, <1>8
  <2> QED BY <2>1, <2>2 DEF Maps
<1>10. \A u \in DOMAIN f : f[u] \notin bits
  BY <1>2, Zenon
<1> HIDE DEF bits, gone, kept
<1>11. Updated(gone, kept, bits, f)
  BY <1>1, <1>2, <1>7, <1>8, <1>9, <1>10, Zenon DEF Updated
<1> QED
  BY <1>2, <1>3, <1>11, Zenon DEF bits, gone, kept

LEMMA NextEntriesTyped ==
  ct_zones \in Maps /\ EntriesTyped /\ [Next]_vars => EntriesTyped'
<1> SUFFICES ASSUME ct_zones \in Maps, EntriesTyped, [Next]_vars PROVE EntriesTyped'
  OBVIOUS
<1>1. ASSUME NEW users \in SUBSET Users, update_ct_zones(users) PROVE EntriesTyped'
  <2>1. pending' \subseteq PendingEntries
    <3>1. PICK f \in Maps :
            Updated(DOMAIN ct_zones \ users, DOMAIN ct_zones \intersect users,
                    ct_zone_bitmap \ BitsFreed(DOMAIN ct_zones \ users), f)
      BY <1>1, UpdateEntries, Zenon
    <3> QED BY <3>1, Zenon DEF EntriesTyped, Updated
  <2>2. /\ UNCHANGED conns
        /\ used' = [used EXCEPT !.changes = @ + IF users # all_users THEN 1 ELSE 0]
    BY <1>1 DEF update_ct_zones
  <2> QED BY <2>1, <2>2 DEF EntriesTyped
<1> USE DEF EntriesTyped
<1>2. CASE commit_ct_zones
  <2>1. pending' = {Committed(e) : e \in pending} /\ UNCHANGED used
    BY <1>2 DEF commit_ct_zones
  <2>2. conns' = [z \in Zones |->
                    conns[z] \union {u \in DOMAIN ct_zones : ct_zones[u] = z}]
    BY <1>2 DEF commit_ct_zones
  <2>3. DOMAIN ct_zones \subseteq Users
    BY DEF Maps
  <2> QED BY <2>1, <2>2, <2>3, CommittedEntry
<1>3. ASSUME NEW e \in pending, Flush(e) \/ FlushDone(e) PROVE EntriesTyped'
  <2>1. /\ UNCHANGED used
        /\ \/ pending' = (pending \ {e}) \union {[e EXCEPT !.flushed = TRUE]}
           \/ pending' = SetState({e}, "CT_ZONE_DB_QUEUED")
        /\ \/ UNCHANGED conns
           \/ conns' = [conns EXCEPT ![e.zone] =
                          {u \in DOMAIN ct_zones : ct_zones[u] = e.zone}]
    BY <1>3 DEF Flush, FlushDone
  <2>2. pending' \subseteq PendingEntries
    <3>1. [e EXCEPT !.flushed = TRUE] \in PendingEntries
      BY EntryChanges
    <3>2. SetState({e}, "CT_ZONE_DB_QUEUED") \subseteq PendingEntries
      BY SetStateEntries DEF PendingStates
    <3> QED BY <2>1, <3>1, <3>2, Zenon
  <2>3. DOMAIN ct_zones \subseteq Users
    BY DEF Maps
  <2> QED BY <2>1, <2>2, <2>3
<1>4. CASE Reconnect
  <2>1. /\ pending' = SetState(InState({"CT_ZONE_OF_SENT"}), "CT_ZONE_OF_QUEUED")
        /\ used' = [used EXCEPT !.reconnects = @ + 1] /\ UNCHANGED conns
    BY <1>4 DEF Reconnect
  <2>2. pending' \subseteq PendingEntries
    BY <2>1, EntryChanges, SetStateEntries DEF PendingStates
  <2> QED BY <2>1, <2>2
<1>5. CASE Crash
  BY <1>5 DEF Crash
<1>6. CASE ovsdb_idl_loop_commit_and_wait
  BY <1>6 DEF ovsdb_idl_loop_commit_and_wait
<1>7. CASE ovsdb_idl_loop_run \/ commit_skip \/ Answer \/ AnswerFailure \/ SeqnoChange
  BY <1>7 DEF ovsdb_idl_loop_run, commit_skip, Answer, AnswerFailure, SeqnoChange
<1>8. CASE UNCHANGED vars
  BY <1>8 DEF vars
<1> QED
  BY <1>1, <1>2, <1>3, <1>4, <1>5, <1>6, <1>7, <1>8 DEF Next, LifeNext, Loop

(* A zone may hold a stranger's connections only as long as the flush that *)
(* its new user's entry asks for has not been executed: the entry is still *)
(* queued, or sent and under way.                                          *)
AwaitsFlush(e) ==
  \/ e.state = "CT_ZONE_OF_QUEUED"
  \/ e.state = "CT_ZONE_OF_SENT" /\ ~ e.flushed

ConnInv ==
  \A u \in DOMAIN ct_zones :
    \/ \E e \in pending : e.user = u /\ e.zone = ct_zones[u] /\ AwaitsFlush(e)
    \/ conns[ct_zones[u]] \subseteq {u}

LEMMA NextConnInv ==
  ASSUME ZonesInv, EntriesTyped, ConnInv, [LifeNext]_vars
  PROVE  ConnInv'
<1>1. ASSUME NEW users \in SUBSET Users, update_ct_zones(users) PROVE ConnInv'
  <2>1. PICK f \in Maps :
          Updated(DOMAIN ct_zones \ users, DOMAIN ct_zones \intersect users,
                  ct_zone_bitmap \ BitsFreed(DOMAIN ct_zones \ users), f)
    BY <1>1, UpdateEntries, Zenon DEF ZonesInv
  <2>2. conns' = conns
    BY <1>1 DEF update_ct_zones
  <2>3. \A u \in DOMAIN f : /\ AddEntry(u, f[u]) \in pending'
                            /\ AddEntry(u, f[u]).user = u
                            /\ AddEntry(u, f[u]).zone = f[u]
                            /\ AwaitsFlush(AddEntry(u, f[u]))
    BY <2>1, Zenon DEF Updated, NewEntries, AddEntry, Entry, AwaitsFlush
  <2>4. pending \subseteq pending'
    BY <2>1 DEF Updated
  <2>5. /\ DOMAIN ct_zones' = (DOMAIN ct_zones \intersect users) \union DOMAIN f
        /\ \A u \in DOMAIN ct_zones \intersect users : ct_zones'[u] = ct_zones[u]
        /\ \A u \in DOMAIN f : ct_zones'[u] = f[u]
    BY <2>1, Zenon DEF Updated
  <2> QED BY <2>2, <2>3, <2>4, <2>5 DEF ConnInv
<1>2. CASE commit_ct_zones
  <2>1. /\ pending' = {Committed(e) : e \in pending} /\ UNCHANGED ct_zones
        /\ conns' = [z \in Zones |->
                       conns[z] \union {u \in DOMAIN ct_zones : ct_zones[u] = z}]
    BY <1>2 DEF commit_ct_zones, zoneVars
  <2>2. \A u \in DOMAIN ct_zones :
          /\ ct_zones[u] \in Zones
          /\ {v \in DOMAIN ct_zones : ct_zones[v] = ct_zones[u]} = {u}
    BY DEF ZonesInv, UniqueZones, Maps
  <2>3. \A u \in DOMAIN ct_zones : conns'[ct_zones[u]] = conns[ct_zones[u]] \union {u}
    BY <2>1, <2>2
  <2>4. \A e \in pending : /\ Committed(e) \in pending'
                           /\ Committed(e).user = e.user /\ Committed(e).zone = e.zone
                           /\ AwaitsFlush(e) => AwaitsFlush(Committed(e))
    BY <2>1, CommittedEntry DEF EntriesTyped, AwaitsFlush
  <2> QED BY <2>1, <2>3, <2>4, SMTT(30) DEF ConnInv
<1>3. ASSUME NEW e \in pending, Flush(e) PROVE ConnInv'
  <2>1. /\ pending' = (pending \ {e}) \union {[e EXCEPT !.flushed = TRUE]}
        /\ conns' = [conns EXCEPT ![e.zone] =
                       {u \in DOMAIN ct_zones : ct_zones[u] = e.zone}]
        /\ UNCHANGED ct_zones
    BY <1>3 DEF Flush, zoneVars
  <2>2. ASSUME NEW u \in DOMAIN ct_zones, ct_zones[u] = e.zone
        PROVE  conns'[ct_zones[u]] \subseteq {u}
    BY <2>1, <2>2 DEF ZonesInv, UniqueZones, Maps, EntriesTyped
  <2>3. ASSUME NEW u \in DOMAIN ct_zones, ct_zones[u] # e.zone
        PROVE  conns'[ct_zones[u]] = conns[ct_zones[u]]
    BY <2>1, <2>3 DEF ZonesInv, Maps, EntriesTyped
  <2> QED BY <2>1, <2>2, <2>3 DEF ConnInv
<1>4. ASSUME NEW e \in pending, FlushDone(e) PROVE ConnInv'
  <2>1. /\ pending' = SetState({e}, "CT_ZONE_DB_QUEUED") /\ ~ AwaitsFlush(e)
        /\ UNCHANGED <<ct_zones, conns>>
    BY <1>4 DEF FlushDone, zoneVars, InState, AwaitsFlush
  <2>2. \A x \in pending : AwaitsFlush(x) => x \in pending'
    BY <2>1 DEF SetState
  <2> QED BY <2>1, <2>2, SMTT(30) DEF ConnInv
<1>5. CASE Reconnect
  <2>1. /\ pending' = SetState(InState({"CT_ZONE_OF_SENT"}), "CT_ZONE_OF_QUEUED")
        /\ UNCHANGED <<ct_zones, conns>>
    BY <1>5 DEF Reconnect, zoneVars
  <2>2. ASSUME NEW x \in pending, AwaitsFlush(x)
        PROVE  \E y \in pending' : y.user = x.user /\ y.zone = x.zone /\ AwaitsFlush(y)
    <3> DEFINE y == IF x \in InState({"CT_ZONE_OF_SENT"})
                    THEN [x EXCEPT !.state = "CT_ZONE_OF_QUEUED"] ELSE x
    <3>1. y \in pending'
      BY <2>1 DEF SetState
    <3>2. y.user = x.user /\ y.zone = x.zone /\ AwaitsFlush(y)
      BY <2>2, EntryChanges DEF EntriesTyped, AwaitsFlush, PendingStates
    <3> QED BY <3>1, <3>2, Zenon
  <2> QED BY <2>1, <2>2 DEF ConnInv
<1>6. CASE ovsdb_idl_loop_commit_and_wait
  <2>1. UNCHANGED <<ct_zones, conns>> /\ \A x \in pending : AwaitsFlush(x) => x \in pending'
    BY <1>6 DEF ovsdb_idl_loop_commit_and_wait, zoneVars, InState, AwaitsFlush
  <2> QED BY <2>1 DEF ConnInv
<1>7. CASE ovsdb_idl_loop_run \/ commit_skip \/ Answer \/ AnswerFailure \/ SeqnoChange
  BY <1>7 DEF ovsdb_idl_loop_run, commit_skip, Answer, AnswerFailure, SeqnoChange,
              zoneVars, ConnInv
<1>8. CASE UNCHANGED vars
  BY <1>8 DEF vars, zoneVars, ConnInv
<1> QED
  BY <1>1, <1>2, <1>3, <1>4, <1>5, <1>6, <1>7, <1>8 DEF LifeNext, Loop

(* A user whose zone is not waiting for its flush never meets connections  *)
(* of another user: the states of ct_zone_pending_entry keep the reuse of  *)
(* a zone behind the flush, for any number of users and zones, with        *)
(* failing transactions, reconnections and users that come and go quickly. *)
THEOREM ZonesFlushedBeforeUse == LifeSpec => []NoForeignConnections
<1> DEFINE Inv == ZonesInv /\ EntriesTyped /\ ConnInv
<1>1. Init => ConnInv
  BY DEF Init, ConnInv, Maps, IsInjective
<1>2. Inv /\ [LifeNext]_vars => Inv'
  <2>1. [LifeNext]_vars => [Next]_vars
    BY DEF Next
  <2> QED BY <2>1, NextZonesInv, NextEntriesTyped, NextConnInv DEF ZonesInv
<1>3. Inv => NoForeignConnections
  BY DEF ConnInv, AwaitsFlush, NoForeignConnections
<1> QED
  BY <1>1, <1>2, <1>3, InitZonesInv, InitEntriesTyped, PTL DEF LifeSpec

-----------------------------------------------------------------------------
(* The record in the database, with restarts, failed transactions, and     *)
(* users that change while they have entries.  Everything is said up to a  *)
(* set 'bad' of <<user, zone>> pairs, those that went astray.              *)

DbStates == {"CT_ZONE_DB_QUEUED", "CT_ZONE_DB_SENT"}
Unsent == {e \in pending : e.state # "CT_ZONE_DB_SENT"}

BadUser(u, bad) == \E p \in bad : p[1] = u
BadZone(z, bad) == \E p \in bad : p[2] = z

(* No zone twice, in the zones in use or in a record of them.              *)
Distinct(ids, bad) ==
  \A u, v \in DOMAIN ids : ids[u] = ids[v] /\ u # v => BadZone(ids[u], bad)

(* What a record says that is not in use, an entry of 'es' will remove.    *)
Follows(ids, es, zones, bad) ==
  \A u \in DOMAIN ids :
    \/ <<u, ids[u]>> \in bad
    \/ u \in DOMAIN zones /\ zones[u] = ids[u]
    \/ \E e \in es : e.user = u /\ e.zone = ids[u] /\ ~ e.add

(* A record is right about the users that have no entry in 'es'.           *)
Agree(ids, zones, u) ==
  /\ u \in DOMAIN zones <=> u \in DOMAIN ids
  /\ u \in DOMAIN zones => zones[u] = ids[u]
Tells(ids, es, zones, bad) ==
  \A u \in Users :
    (\E e \in es : e.user = u) \/ BadUser(u, bad) \/ Agree(ids, zones, u)

Saves(ids, es, zones, bad) ==
  /\ ids \in Maps /\ Distinct(ids, bad)
  /\ Follows(ids, es, zones, bad) /\ Tells(ids, es, zones, bad)

(* An entry says what is to be recorded, unless it was overtaken.          *)
EntryTrue(e, zones, bad) ==
  /\ ~ e.add => e.state \in DbStates
  /\ \/ <<e.user, e.zone>> \in bad
     \/ e.add /\ e.user \in DOMAIN zones /\ zones[e.user] = e.zone
     \/ ~ e.add /\ e.user \notin DOMAIN zones

(* A transaction that can still succeed saves all that was sent.           *)
TxnsTrue ==
  /\ open_txn \in Txns \union {NoTxn} /\ committing_txn \in Txns \union {NoTxn}
  /\ open_txn # NoTxn =>
       /\ committing_txn = NoTxn
       /\ \/ open_txn.status = "UNCHANGED"
          \/ /\ open_txn.status = "INCOMPLETE"
             /\ Saves(open_txn.ids, Unsent, ct_zones, astray)
  /\ committing_txn # NoTxn /\ committing_txn.status \in {"INCOMPLETE", "SUCCESS"} =>
       Saves(committing_txn.ids, Unsent, ct_zones, astray)
  /\ committing_txn # NoTxn /\ committing_txn.status = "SUCCESS" =>
       external_ids = committing_txn.ids

(* The zones in use are marked.                                            *)
ZonesTrue ==
  /\ ct_zones \in Maps /\ Distinct(ct_zones, astray)
  /\ \A u \in DOMAIN ct_zones :
       BadZone(ct_zones[u], astray) \/ ct_zones[u] \in ct_zone_bitmap

EntriesTrue == \A e \in pending : EntryTrue(e, ct_zones, astray)

(* The inductive invariant, beside EntriesTyped.                           *)
RecordInv ==
  /\ ZonesTrue /\ EntriesTrue /\ TxnsTrue
  /\ Saves(external_ids, pending, ct_zones, astray)

LEMMA InitRecordInv == Init => RecordInv
<1> SUFFICES ASSUME Init PROVE RecordInv
  OBVIOUS
<1>1. /\ external_ids \in Maps /\ IsInjective(external_ids) /\ ct_zones = external_ids
      /\ ct_zone_bitmap = {0} \union Image(external_ids) /\ pending = {}
      /\ open_txn = NoTxn /\ committing_txn = NoTxn
  BY DEF Init
<1>2. Distinct(external_ids, astray)
  BY <1>1 DEF Distinct, IsInjective
<1>3. ZonesTrue
  BY <1>1, <1>2 DEF ZonesTrue, Image
<1>4. Saves(external_ids, pending, ct_zones, astray)
  BY <1>1, <1>2 DEF Saves, Follows, Tells, Agree
<1> QED
  BY <1>1, <1>3, <1>4 DEF RecordInv, EntriesTrue, TxnsTrue

(* The zones in use stay, and entries go away only if they have a          *)
(* successor or went astray.                                               *)
LEMMA SavesKept ==
  ASSUME NEW ids, NEW zones, NEW es, NEW bad, Saves(ids, es, zones, bad),
         NEW es2, NEW bad2, bad \subseteq bad2,
         \A e \in es : \/ <<e.user, e.zone>> \in bad2
                       \/ \E f \in es2 : f.user = e.user /\ f.zone = e.zone /\ f.add = e.add
  PROVE  Saves(ids, es2, zones, bad2)
<1>1. \A u : BadUser(u, bad) => BadUser(u, bad2)
  BY DEF BadUser
<1>2. \A z : BadZone(z, bad) => BadZone(z, bad2)
  BY DEF BadZone
<1>3. \A u, z : <<u, z>> \in bad2 => BadUser(u, bad2)
  BY DEF BadUser
<1>4. Distinct(ids, bad2)
  BY <1>2 DEF Saves, Distinct
<1>5. Follows(ids, es2, zones, bad2)
  <2> SUFFICES ASSUME NEW u \in DOMAIN ids, <<u, ids[u]>> \notin bad2,
                      ~ (u \in DOMAIN zones /\ zones[u] = ids[u])
               PROVE  \E f \in es2 : f.user = u /\ f.zone = ids[u] /\ ~ f.add
    BY DEF Follows
  <2>1. PICK e \in es : e.user = u /\ e.zone = ids[u] /\ ~ e.add
    BY DEF Saves, Follows
  <2> QED BY <2>1
<1>6. Tells(ids, es2, zones, bad2)
  <2> SUFFICES ASSUME NEW u \in Users, ~ BadUser(u, bad2), \A f \in es2 : f.user # u
               PROVE  Agree(ids, zones, u)
    BY DEF Tells
  <2>1. \A e \in es : e.user # u
    BY <1>3, Zenon
  <2> QED BY <1>1, <2>1 DEF Saves, Tells
<1> QED
  BY <1>4, <1>5, <1>6 DEF Saves

(* A restart: restore_ct_zones() finds distinct zones, whether or not the  *)
(* commit under way has taken effect.                                      *)
LEMMA CrashRecordInv ==
  ASSUME RecordInv, Crash
  PROVE  RecordInv'
<1>1. /\ \/ external_ids' = external_ids
         \/ /\ committing_txn # NoTxn /\ committing_txn.status = "INCOMPLETE"
            /\ external_ids' = committing_txn.ids
      /\ ct_zones' = external_ids' /\ ct_zone_bitmap' = {0} \union Image(external_ids')
      /\ pending' = {} /\ open_txn' = NoTxn /\ committing_txn' = NoTxn
      /\ UNCHANGED astray
  BY DEF Crash, restore_ct_zones
<1>2. external_ids' \in Maps /\ Distinct(external_ids', astray')
  BY <1>1 DEF RecordInv, TxnsTrue, Saves
<1>3. ZonesTrue'
  BY <1>1, <1>2 DEF ZonesTrue, Image
<1>4. Saves(external_ids', pending', ct_zones', astray')
  BY <1>1, <1>2 DEF Saves, Follows, Tells, Agree
<1> QED
  BY <1>1, <1>3, <1>4 DEF RecordInv, EntriesTrue, TxnsTrue

(* Entries change, but not who they are about; what is on its way to the   *)
(* database stays so.                                                      *)
LEMMA RelabelEntries ==
  ASSUME RecordInv, NEW m \in [pending -> PendingEntries],
         pending' = {m[e] : e \in pending},
         \A e \in pending :
           /\ m[e].user = e.user /\ m[e].zone = e.zone /\ m[e].add = e.add
           /\ e.state \in DbStates => m[e].state \in DbStates,
         UNCHANGED <<ct_zones, external_ids, astray>>
  PROVE  EntriesTrue' /\ Saves(external_ids', pending', ct_zones', astray')
<1>1. \A e \in pending : EntryTrue(e, ct_zones, astray)
  BY DEF RecordInv, EntriesTrue
<1>2. ASSUME NEW x \in pending' PROVE EntryTrue(x, ct_zones', astray')
  <2>1. PICK e \in pending : x = m[e]
    OBVIOUS
  <2> QED BY <1>1, <2>1 DEF EntryTrue
<1>3. Saves(external_ids, pending', ct_zones, astray)
  <2>1. \A e \in pending : \E f \in pending' :
          f.user = e.user /\ f.zone = e.zone /\ f.add = e.add
    OBVIOUS
  <2> QED BY <2>1, SavesKept DEF RecordInv
<1> QED
  BY <1>2, <1>3 DEF EntriesTrue

(* The switch answers, or the connection to it is new: no entry goes to    *)
(* the database.                                                           *)
LEMMA RelabelRecordInv ==
  ASSUME RecordInv, NEW m \in [pending -> PendingEntries],
         pending' = {m[e] : e \in pending},
         \A e \in pending :
           /\ m[e].user = e.user /\ m[e].zone = e.zone /\ m[e].add = e.add
           /\ m[e].state = "CT_ZONE_DB_SENT" <=> e.state = "CT_ZONE_DB_SENT"
           /\ e.state \in DbStates => m[e].state \in DbStates,
         UNCHANGED <<pc, zoneVars, txnVars, external_ids, astray>>
  PROVE  RecordInv'
<1>1. UNCHANGED <<ct_zones, ct_zone_bitmap, open_txn, committing_txn, external_ids, astray>>
  BY DEF zoneVars, txnVars
<1>2. EntriesTrue' /\ Saves(external_ids', pending', ct_zones', astray')
  BY <1>1, RelabelEntries
<1>3. ZonesTrue'
  BY <1>1 DEF RecordInv, ZonesTrue
<1>4. ASSUME NEW ids, Saves(ids, Unsent, ct_zones, astray)
      PROVE  Saves(ids, Unsent', ct_zones, astray)
  <2>1. \A e \in Unsent : \E f \in Unsent' :
          f.user = e.user /\ f.zone = e.zone /\ f.add = e.add
    BY DEF Unsent
  <2> QED BY <1>4, <2>1, SavesKept
<1>5. TxnsTrue'
  BY <1>1, <1>4 DEF RecordInv, TxnsTrue
<1> QED
  BY <1>2, <1>3, <1>5 DEF RecordInv

LEMMA SwitchRecordInv ==
  ASSUME RecordInv, EntriesTyped,
         (\E e \in pending : Flush(e) \/ FlushDone(e)) \/ Reconnect
  PROVE  RecordInv'
<1>1. pending \subseteq PendingEntries
  BY DEF EntriesTyped
<1>2. ASSUME NEW e \in pending, Flush(e) PROVE RecordInv'
  <2> DEFINE m == [x \in pending |-> IF x = e THEN [e EXCEPT !.flushed = TRUE] ELSE x]
  <2>1. /\ pending' = (pending \ {e}) \union {[e EXCEPT !.flushed = TRUE]}
        /\ UNCHANGED <<pc, zoneVars, txnVars, external_ids, astray>>
    BY <1>2 DEF Flush
  <2>2. m \in [pending -> PendingEntries]
    BY <1>1, EntryChanges
  <2>3. pending' = {m[x] : x \in pending}
    BY <2>1
  <2>4. \A x \in pending :
           /\ m[x].user = x.user /\ m[x].zone = x.zone /\ m[x].add = x.add
           /\ m[x].state = x.state
    BY <1>1, EntryChanges
  <2> HIDE DEF m
  <2> QED BY <2>1, <2>2, <2>3, <2>4, RelabelRecordInv
<1>3. ASSUME NEW es \in SUBSET InState({"CT_ZONE_OF_SENT"}),
             NEW st \in {"CT_ZONE_OF_QUEUED", "CT_ZONE_DB_QUEUED"},
             pending' = SetState(es, st),
             UNCHANGED <<pc, zoneVars, txnVars, external_ids, astray>>
      PROVE  RecordInv'
  <2> DEFINE m == [x \in pending |-> IF x \in es THEN [x EXCEPT !.state = st] ELSE x]
  <2>1. st \in PendingStates /\ st # "CT_ZONE_DB_SENT"
    BY DEF PendingStates
  <2>2. \A x \in es : x.state = "CT_ZONE_OF_SENT" /\ x \in pending
    BY <1>1 DEF InState
  <2>3. m \in [pending -> PendingEntries]
    BY <1>1, <2>1, EntryChanges, Zenon
  <2>4. pending' = {m[x] : x \in pending}
    BY <1>3, Zenon DEF SetState
  <2>5. \A x \in pending :
           /\ m[x].user = x.user /\ m[x].zone = x.zone /\ m[x].add = x.add
           /\ m[x].state = "CT_ZONE_DB_SENT" <=> x.state = "CT_ZONE_DB_SENT"
           /\ x.state \in DbStates => m[x].state \in DbStates
    BY <1>1, <2>1, <2>2, EntryChanges DEF DbStates
  <2> HIDE DEF m
  <2> QED BY <1>3, <2>3, <2>4, <2>5, RelabelRecordInv
<1>4. ASSUME NEW e \in pending, FlushDone(e) PROVE RecordInv'
  <2>1. /\ {e} \in SUBSET InState({"CT_ZONE_OF_SENT"})
        /\ pending' = SetState({e}, "CT_ZONE_DB_QUEUED")
        /\ UNCHANGED <<pc, zoneVars, txnVars, external_ids, astray>>
    BY <1>4 DEF FlushDone
  <2> QED BY <1>3, <2>1
<1>5. CASE Reconnect
  <2>1. /\ pending' = SetState(InState({"CT_ZONE_OF_SENT"}), "CT_ZONE_OF_QUEUED")
        /\ UNCHANGED <<pc, zoneVars, txnVars, external_ids, astray>>
    BY <1>5 DEF Reconnect
  <2> QED BY <1>3, <2>1
<1> QED
  BY <1>2, <1>4, <1>5

(* update_ct_zones(): a user that goes leaves a removal for its record; a  *)
(* user that already has an entry goes astray with all its entries.        *)
LEMMA UpdateRecordInv ==
  ASSUME RecordInv, EntriesTyped, NEW users \in SUBSET Users, update_ct_zones(users)
  PROVE  RecordInv'
<1> DEFINE gone == DOMAIN ct_zones \ users
           kept == DOMAIN ct_zones \intersect users
           bits == ct_zone_bitmap \ BitsFreed(gone)
<1>1. PICK f \in Maps : DOMAIN f \subseteq users \ DOMAIN ct_zones /\ Updated(gone, kept, bits, f)
  BY UpdateEntries, Zenon DEF RecordInv, ZonesTrue
<1> DEFINE new == NewEntries(gone, f)
<1>2. UNCHANGED <<external_ids, open_txn, committing_txn>>
  BY DEF update_ct_zones, txnVars
<1>3. /\ pending' = pending \union new /\ astray' = astray \union Overtaken(new)
      /\ DOMAIN ct_zones' = kept \union DOMAIN f /\ ct_zones' \in Maps
      /\ \A u \in kept : ct_zones'[u] = ct_zones[u]
      /\ \A u \in DOMAIN f : ct_zones'[u] = f[u]
      /\ ct_zone_bitmap' = bits \union Image(f)
      /\ \A u \in DOMAIN f : f[u] \notin bits
      /\ \A u, v \in DOMAIN f : f[u] = f[v] => u = v
  BY <1>1, Zenon DEF Updated
<1>4. /\ gone \intersect kept = {} /\ gone \intersect DOMAIN f = {}
      /\ kept \intersect DOMAIN f = {} /\ DOMAIN ct_zones = gone \union kept
  BY <1>1
<1>5. \A x \in new :
        \/ /\ x.user \in gone /\ x.zone = ct_zones[x.user] /\ ~ x.add
           /\ x.state = "CT_ZONE_DB_QUEUED" /\ x = RemoveEntry(x.user, ct_zones[x.user])
        \/ /\ x.user \in DOMAIN f /\ x.zone = f[x.user] /\ x.add
           /\ x.state = "CT_ZONE_OF_QUEUED" /\ x = AddEntry(x.user, f[x.user])
  BY DEF NewEntries, RemoveEntry, AddEntry, Entry
<1>6. \A u \in gone : \E x \in new : x.user = u /\ x.zone = ct_zones[u] /\ ~ x.add
  <2>1. \A u \in gone : RemoveEntry(u, ct_zones[u]) \in new
    BY Zenon DEF NewEntries
  <2>2. \A u, z : /\ RemoveEntry(u, z).user = u /\ RemoveEntry(u, z).zone = z
                  /\ ~ RemoveEntry(u, z).add
    BY DEF RemoveEntry, Entry
  <2> HIDE DEF gone, new
  <2> QED BY <2>1, <2>2
<1>7. \A u \in DOMAIN f : \E x \in new : x.user = u
  <2>1. \A u \in DOMAIN f : AddEntry(u, f[u]) \in new
    BY Zenon DEF NewEntries
  <2>2. \A u, z : AddEntry(u, z).user = u
    BY DEF AddEntry, Entry
  <2> HIDE DEF new
  <2> QED BY <2>1, <2>2
<1> HIDE DEF gone, kept, new
<1>8. ASSUME NEW x \in new, NEW y \in pending, NEW z \in pending \union new,
             x.user = y.user, z.user = x.user
      PROVE  <<z.user, z.zone>> \in astray'
  <2>1. z.user \in {e.user : e \in new} \intersect {e.user : e \in pending}
    BY <1>8
  <2> QED BY <1>3, <2>1, Zenon DEF Overtaken, Pairs
<1>9. astray \subseteq astray'
  BY <1>3
<1>10. /\ \A u : BadUser(u, astray) => BadUser(u, astray')
       /\ \A z : BadZone(z, astray) => BadZone(z, astray')
  BY <1>9 DEF BadUser, BadZone
<1>11. \A u \in kept : BadZone(ct_zones[u], astray) \/ ct_zones[u] \in bits
  BY <1>4 DEF BitsFreed, RecordInv, ZonesTrue, Distinct
<1> HIDE DEF bits
<1>12. ZonesTrue'
  <2>1. Distinct(ct_zones', astray')
    <3> SUFFICES ASSUME NEW u \in kept \union DOMAIN f, NEW v \in kept \union DOMAIN f,
                        ct_zones'[u] = ct_zones'[v], u # v
                 PROVE  BadZone(ct_zones'[u], astray')
      BY <1>3, Zenon DEF Distinct
    <3>1. CASE u \in kept /\ v \in kept
      BY <1>3, <1>4, <1>10, <3>1 DEF RecordInv, ZonesTrue, Distinct
    <3>2. CASE u \in kept /\ v \in DOMAIN f
      BY <1>3, <1>10, <1>11, <3>2, SMTT(30)
    <3>3. CASE u \in DOMAIN f /\ v \in kept
      BY <1>3, <1>10, <1>11, <3>3, SMTT(30)
    <3>4. CASE u \in DOMAIN f /\ v \in DOMAIN f
      BY <1>3, <3>4
    <3> QED BY <3>1, <3>2, <3>3, <3>4
  <2>2. \A u \in DOMAIN ct_zones' :
          BadZone(ct_zones'[u], astray') \/ ct_zones'[u] \in ct_zone_bitmap'
    BY <1>3, <1>10, <1>11 DEF Image
  <2> QED BY <1>3, <2>1, <2>2, Zenon DEF ZonesTrue
<1>13. ASSUME NEW x \in pending' PROVE EntryTrue(x, ct_zones', astray')
  <2>1. CASE x \in new
    BY <1>3, <1>4, <1>5, <2>1 DEF EntryTrue, DbStates
  <2>2. CASE x \in pending
    <3>1. EntryTrue(x, ct_zones, astray)
      BY <2>2 DEF RecordInv, EntriesTrue
    <3>2. CASE \E y \in new : y.user = x.user
      BY <1>8, <2>2, <3>1, <3>2 DEF EntryTrue
    <3>3. CASE \A y \in new : y.user # x.user
      <4>1. x.user \notin gone /\ x.user \notin DOMAIN f
        BY <1>6, <1>7, <3>3
      <4> QED BY <1>3, <1>4, <1>9, <3>1, <4>1 DEF EntryTrue
    <3> QED BY <3>2, <3>3
  <2> QED BY <1>3, <2>1, <2>2
<1>14. ASSUME NEW ids, NEW es, Saves(ids, es, ct_zones, astray)
       PROVE  Saves(ids, es \union new, ct_zones', astray')
  <2>1. ids \in Maps /\ Distinct(ids, astray')
    BY <1>10, <1>14 DEF Saves, Distinct
  <2>2. Follows(ids, es \union new, ct_zones', astray')
    <3> SUFFICES ASSUME NEW u \in DOMAIN ids, <<u, ids[u]>> \notin astray',
                        ~ (\E e \in es : e.user = u /\ e.zone = ids[u] /\ ~ e.add)
                 PROVE  \/ u \in DOMAIN ct_zones' /\ ct_zones'[u] = ids[u]
                        \/ \E e \in new : e.user = u /\ e.zone = ids[u] /\ ~ e.add
      BY DEF Follows
    <3>1. u \in DOMAIN ct_zones /\ ct_zones[u] = ids[u]
      BY <1>9, <1>14 DEF Saves, Follows
    <3> QED BY <1>3, <1>4, <1>6, <3>1
  <2>3. Tells(ids, es \union new, ct_zones', astray')
    <3> SUFFICES ASSUME NEW u \in Users, \A e \in es \union new : e.user # u,
                        ~ BadUser(u, astray')
                 PROVE  Agree(ids, ct_zones', u)
      BY DEF Tells
    <3>1. Agree(ids, ct_zones, u)
      BY <1>10, <1>14 DEF Saves, Tells
    <3>2. u \notin gone /\ u \notin DOMAIN f
      BY <1>6, <1>7
    <3> QED BY <1>3, <1>4, <3>1, <3>2 DEF Agree
  <2> QED BY <2>1, <2>2, <2>3, Zenon DEF Saves
<1>15. Saves(external_ids', pending', ct_zones', astray')
  BY <1>2, <1>3, <1>14, Zenon DEF RecordInv
<1>16. Unsent' = Unsent \union new
  BY <1>3, <1>5 DEF Unsent
<1>17. TxnsTrue'
  BY <1>2, <1>14, <1>16 DEF RecordInv, TxnsTrue
<1> QED
  BY <1>12, <1>13, <1>15, <1>17 DEF RecordInv, EntriesTrue

(* What commit_ct_zones() writes: it goes through every removal that is    *)
(* pending, so that all it leaves are zones in use, which differ.          *)
LEMMA NewIdsSave ==
  ASSUME RecordInv, EntriesTyped, NEW ids \in NewIds(EntriesToSend), NEW es,
         \A e \in pending : e \notin EntriesToSend => \E f \in es : f.user = e.user
  PROVE  Saves(ids, es, ct_zones, astray)
<1> DEFINE touched == {e.user : e \in EntriesToSend}
<1>1. PICK f \in [touched -> EntriesToSend] :
        /\ \A u \in touched : f[u].user = u
        /\ ids = [u \in (DOMAIN external_ids \ touched)
                        \union {v \in touched : f[v].add} |->
                    IF u \in touched THEN f[u].zone ELSE external_ids[u]]
  BY Zenon DEF NewIds
<1>2. /\ EntriesToSend \subseteq pending
      /\ \A e \in pending : e.state \in DbStates => e \in EntriesToSend
  BY DEF EntriesToSend, InState, DbStates
<1>3. \A e \in pending : e \in PendingEntries /\ EntryTrue(e, ct_zones, astray)
  BY DEF EntriesTyped, RecordInv, EntriesTrue
<1>4. ASSUME NEW u \in touched
      PROVE  /\ f[u] \in pending /\ f[u].user = u /\ u \in Users /\ f[u].zone \in Zones
             /\ f[u].add \in BOOLEAN /\ EntryTrue(f[u], ct_zones, astray)
             /\ u \in DOMAIN ids <=> f[u].add
             /\ u \in DOMAIN ids => ids[u] = f[u].zone
  <2>1. f[u] \in pending /\ f[u].user = u
    BY <1>1, <1>2
  <2>2. f[u] \in PendingEntries /\ EntryTrue(f[u], ct_zones, astray)
    BY <1>3, <2>1
  <2>3. (u \in DOMAIN ids <=> f[u].add) /\ (u \in DOMAIN ids => ids[u] = f[u].zone)
    BY <1>1
  <2> QED BY <2>1, <2>2, <2>3 DEF PendingEntries
<1>5. ASSUME NEW u, u \notin touched
      PROVE  /\ u \in DOMAIN ids <=> u \in DOMAIN external_ids
             /\ u \in DOMAIN ids => ids[u] = external_ids[u]
  BY <1>1, <1>5
<1>6. \A e \in pending : e.state \in DbStates => e.user \in touched
  BY <1>2
<1>7. /\ Follows(external_ids, pending, ct_zones, astray)
      /\ Tells(external_ids, pending, ct_zones, astray)
      /\ DOMAIN external_ids \subseteq Users
      /\ \A u \in DOMAIN external_ids : external_ids[u] \in Zones
      /\ Distinct(ct_zones, astray)
  BY DEF RecordInv, Saves, ZonesTrue, Maps
<1>8. ids = [u \in DOMAIN ids |-> ids[u]]
  BY <1>1
<1> HIDE DEF touched
<1>9. ids \in Maps
  <2>1. DOMAIN ids \in SUBSET Users
    BY <1>4, <1>5, <1>7
  <2>2. \A u \in DOMAIN ids : ids[u] \in Zones
    BY <1>4, <1>5, <1>7
  <2>3. ids \in [DOMAIN ids -> Zones]
    BY <1>8, <2>2
  <2> QED BY <2>1, <2>3 DEF Maps
<1>10. ASSUME NEW u \in DOMAIN ids, <<u, ids[u]>> \notin astray
       PROVE  u \in DOMAIN ct_zones /\ ct_zones[u] = ids[u]
  <2>1. CASE u \in touched
    <3>1. f[u].add /\ f[u].user = u /\ ids[u] = f[u].zone /\ EntryTrue(f[u], ct_zones, astray)
      BY <1>4, <2>1
    <3> QED BY <1>10, <3>1 DEF EntryTrue
  <2>2. CASE u \notin touched
    <3>1. u \in DOMAIN external_ids /\ external_ids[u] = ids[u]
      BY <1>5, <2>2
    <3>2. \A e \in pending : e.user = u => e.add
      BY <1>3, <1>6, <2>2, Zenon DEF EntryTrue
    <3> QED BY <1>7, <1>10, <3>1, <3>2 DEF Follows
  <2> QED BY <2>1, <2>2
<1>11. Distinct(ids, astray)
  <2> SUFFICES ASSUME NEW u \in DOMAIN ids, NEW v \in DOMAIN ids, ids[u] = ids[v], u # v
               PROVE  BadZone(ids[u], astray)
    BY Zenon DEF Distinct
  <2>1. CASE <<u, ids[u]>> \in astray \/ <<v, ids[u]>> \in astray
    BY <2>1 DEF BadZone
  <2>2. CASE <<u, ids[u]>> \notin astray /\ <<v, ids[u]>> \notin astray
    BY <1>7, <1>10, <2>2 DEF Distinct
  <2> QED BY <2>1, <2>2
<1>12. Follows(ids, es, ct_zones, astray)
  BY <1>10 DEF Follows
<1>13. Tells(ids, es, ct_zones, astray)
  <2> SUFFICES ASSUME NEW u \in Users, \A e \in es : e.user # u, ~ BadUser(u, astray)
               PROVE  Agree(ids, ct_zones, u)
    BY DEF Tells
  <2>1. CASE u \in touched
    <3>1. <<u, f[u].zone>> \notin astray
      BY DEF BadUser
    <3>2. /\ f[u].user = u /\ f[u].add \in BOOLEAN /\ EntryTrue(f[u], ct_zones, astray)
          /\ u \in DOMAIN ids <=> f[u].add
          /\ u \in DOMAIN ids => ids[u] = f[u].zone
      BY <1>4, <2>1
    <3> QED BY <3>1, <3>2 DEF EntryTrue, Agree
  <2>2. CASE u \notin touched
    <3>1. \A e \in pending : e.user # u
      BY <2>2 DEF touched
    <3>2. Agree(external_ids, ct_zones, u)
      BY <1>7, <3>1 DEF Tells
    <3> QED BY <1>5, <2>2, <3>2 DEF Agree
  <2> QED BY <2>1, <2>2
<1> QED
  BY <1>9, <1>11, <1>12, <1>13 DEF Saves

(* commit_ct_zones(): the transaction saves what it sends; the entries     *)
(* that it leaves unsent are those that await their flush.                 *)
LEMMA CommitRecordInv ==
  ASSUME RecordInv, EntriesTyped, commit_ct_zones
  PROVE  RecordInv'
<1> DEFINE m == [e \in pending |-> Committed(e)]
<1>1. /\ pending' = {Committed(e) : e \in pending} /\ open_txn # NoTxn
      /\ UNCHANGED <<ct_zones, ct_zone_bitmap, committing_txn, external_ids, astray>>
      /\ IF EntriesToSend = {} THEN UNCHANGED open_txn
         ELSE \E ids \in NewIds(EntriesToSend) :
                open_txn' = [ids |-> ids, status |-> "INCOMPLETE"]
  BY DEF commit_ct_zones, zoneVars
<1>2. ASSUME NEW e \in pending
      PROVE  /\ Committed(e) \in PendingEntries
             /\ Committed(e).user = e.user /\ Committed(e).zone = e.zone
             /\ Committed(e).add = e.add
             /\ e.state \in DbStates => Committed(e).state \in DbStates
             /\ e \notin EntriesToSend => Committed(e).state # "CT_ZONE_DB_SENT"
  <2>1. e \in PendingEntries
    BY DEF EntriesTyped
  <2>2. e \notin EntriesToSend => e.state \in {"CT_ZONE_OF_QUEUED", "CT_ZONE_OF_SENT"}
    BY <2>1 DEF EntriesToSend, InState, PendingEntries, PendingStates
  <2> QED BY <2>1, <2>2, CommittedEntry DEF DbStates
<1>3. EntriesTrue' /\ Saves(external_ids', pending', ct_zones', astray')
  <2>1. m \in [pending -> PendingEntries] /\ pending' = {m[e] : e \in pending}
    BY <1>1, <1>2
  <2>2. \A e \in pending :
          /\ m[e].user = e.user /\ m[e].zone = e.zone /\ m[e].add = e.add
          /\ e.state \in DbStates => m[e].state \in DbStates
    BY <1>2
  <2> HIDE DEF m
  <2> QED BY <1>1, <2>1, <2>2, RelabelEntries
<1>4. ZonesTrue'
  BY <1>1 DEF RecordInv, ZonesTrue
<1>5. \A e \in pending : e \notin EntriesToSend =>
        \E f \in Unsent' : f.user = e.user /\ f.zone = e.zone /\ f.add = e.add
  BY <1>1, <1>2 DEF Unsent
<1>6. TxnsTrue /\ committing_txn = NoTxn
  BY <1>1 DEF RecordInv, TxnsTrue
<1>7. CASE EntriesToSend = {}
  <2>1. ASSUME NEW ids, Saves(ids, Unsent, ct_zones, astray)
        PROVE  Saves(ids, Unsent', ct_zones, astray)
    <3>1. \A e \in Unsent : \E f \in Unsent' :
            f.user = e.user /\ f.zone = e.zone /\ f.add = e.add
      BY <1>5, <1>7 DEF Unsent
    <3> QED BY <2>1, <3>1, SavesKept
  <2>2. TxnsTrue'
    BY <1>1, <1>6, <1>7, <2>1 DEF TxnsTrue
  <2> QED BY <1>3, <1>4, <2>2 DEF RecordInv
<1>8. CASE EntriesToSend # {}
  <2>1. PICK ids \in NewIds(EntriesToSend) :
          open_txn' = [ids |-> ids, status |-> "INCOMPLETE"]
    BY <1>1, <1>8
  <2>2. Saves(ids, Unsent', ct_zones, astray)
    <3>1. \A e \in pending : e \notin EntriesToSend => \E f \in Unsent' : f.user = e.user
      BY <1>5
    <3> QED BY <3>1, NewIdsSave
  <2>3. open_txn' \in Txns /\ open_txn'.ids = ids /\ open_txn'.status = "INCOMPLETE"
    BY <2>1, <2>2 DEF Txns, Saves
  <2>4. TxnsTrue'
    BY <1>1, <1>6, <2>2, <2>3 DEF TxnsTrue
  <2> QED BY <1>3, <1>4, <2>4 DEF RecordInv
<1> QED
  BY <1>7, <1>8

(* The database answers: a transaction that it may have executed is right  *)
(* about all that no entry is pending for.                                 *)
LEMMA AnswerRecordInv ==
  ASSUME RecordInv, Answer \/ AnswerFailure
  PROVE  RecordInv'
<1>1. /\ committing_txn # NoTxn /\ committing_txn.status = "INCOMPLETE"
      /\ external_ids' \in {external_ids, committing_txn.ids}
      /\ \E st \in {"SUCCESS", "TRY_AGAIN", "ERROR"} :
           /\ committing_txn' = [committing_txn EXCEPT !.status = st]
           /\ st = "SUCCESS" => external_ids' = committing_txn.ids
      /\ UNCHANGED <<ct_zones, ct_zone_bitmap, pending, open_txn, astray>>
  BY DEF Answer, AnswerFailure, zoneVars
<1>2. /\ committing_txn \in Txns /\ open_txn = NoTxn
      /\ Saves(committing_txn.ids, Unsent, ct_zones, astray)
  BY <1>1 DEF RecordInv, TxnsTrue
<1>3. PICK st \in {"SUCCESS", "TRY_AGAIN", "ERROR"} :
        /\ committing_txn' = [committing_txn EXCEPT !.status = st]
        /\ st = "SUCCESS" => external_ids' = committing_txn.ids
  BY <1>1
<1>4. /\ committing_txn' \in Txns /\ committing_txn'.ids = committing_txn.ids
      /\ committing_txn'.status = st
  BY <1>2, <1>3 DEF Txns
<1>5. Unsent' = Unsent
  BY <1>1 DEF Unsent
<1>6. TxnsTrue'
  BY <1>1, <1>2, <1>3, <1>4, <1>5 DEF TxnsTrue
<1>7. Saves(committing_txn.ids, pending, ct_zones, astray)
  <2>1. \A e \in Unsent : \E f \in pending :
          f.user = e.user /\ f.zone = e.zone /\ f.add = e.add
    BY DEF Unsent
  <2> QED BY <1>2, <2>1, SavesKept
<1>8. Saves(external_ids', pending', ct_zones', astray')
  BY <1>1, <1>7 DEF RecordInv
<1>9. ZonesTrue' /\ EntriesTrue'
  BY <1>1 DEF RecordInv, ZonesTrue, EntriesTrue
<1> QED
  BY <1>6, <1>8, <1>9 DEF RecordInv

(* The end of a pass: the entries of a transaction that succeeded are in   *)
(* the record; those that are dropped without one go astray.               *)
LEMMA WaitRecordInv ==
  ASSUME RecordInv, ovsdb_idl_loop_commit_and_wait
  PROVE  RecordInv'
<1> DEFINE txn == IF open_txn # NoTxn THEN open_txn ELSE committing_txn
           retval == CASE txn = NoTxn -> 1
                       [] txn # NoTxn /\ txn.status \in {"SUCCESS", "UNCHANGED"} -> 1
                       [] OTHER -> 0
<1>1. /\ open_txn' = NoTxn
      /\ committing_txn' = IF txn # NoTxn /\ txn.status = "INCOMPLETE" THEN txn ELSE NoTxn
      /\ pending' = IF retval = 1 THEN pending \ InState({"CT_ZONE_DB_SENT"}) ELSE pending
      /\ astray' = astray \union Unsaved(txn)
      /\ UNCHANGED <<ct_zones, ct_zone_bitmap, external_ids>>
  BY DEF ovsdb_idl_loop_commit_and_wait, zoneVars
<1>2. /\ txn \in Txns \union {NoTxn}
      /\ txn # NoTxn /\ txn.status \in {"INCOMPLETE", "SUCCESS"} =>
           Saves(txn.ids, Unsent, ct_zones, astray)
      /\ txn # NoTxn /\ txn.status = "SUCCESS" => external_ids = txn.ids
  BY DEF RecordInv, TxnsTrue
<1>3. /\ pending \ InState({"CT_ZONE_DB_SENT"}) = Unsent
      /\ pending \ Unsent = InState({"CT_ZONE_DB_SENT"})
  BY DEF InState, Unsent
<1>4. ASSUME astray \subseteq astray', pending' \subseteq pending
      PROVE  ZonesTrue' /\ EntriesTrue'
  <2>1. \A z : BadZone(z, astray) => BadZone(z, astray')
    BY <1>4 DEF BadZone
  <2>2. ZonesTrue'
    BY <1>1, <2>1 DEF RecordInv, ZonesTrue, Distinct
  <2>3. EntriesTrue'
    BY <1>1, <1>4, Zenon DEF RecordInv, EntriesTrue, EntryTrue
  <2> QED BY <2>2, <2>3
<1>5. ASSUME committing_txn' = NoTxn PROVE TxnsTrue'
  BY <1>1, <1>5 DEF TxnsTrue
<1>6. CASE txn = NoTxn \/ txn.status = "UNCHANGED"
  <2>1. retval = 1 /\ Unsaved(txn) = Pairs(InState({"CT_ZONE_DB_SENT"}))
    BY <1>6, Zenon DEF Unsaved
  <2>2. committing_txn' = NoTxn
    BY <1>1, <1>6
  <2>3. pending' = Unsent /\ astray' = astray \union Pairs(pending \ Unsent)
    BY <1>1, <1>3, <2>1
  <2>4. Unsent \subseteq pending
    BY DEF Unsent
  <2>5. \A e \in pending : <<e.user, e.zone>> \in astray' \/ e \in pending'
    BY <2>3 DEF Pairs
  <2>6. Saves(external_ids, pending', ct_zones, astray')
    BY <2>3, <2>5, SavesKept, Zenon DEF RecordInv
  <2> QED BY <1>1, <1>4, <1>5, <2>2, <2>3, <2>4, <2>6 DEF RecordInv
<1>7. CASE txn # NoTxn /\ txn.status # "UNCHANGED"
  <2>1. UNCHANGED astray
    BY <1>1, <1>7 DEF Unsaved
  <2>2. CASE txn.status = "SUCCESS"
    <3>1. retval = 1 /\ committing_txn' = NoTxn
      BY <1>1, <1>7, <2>2
    <3>2. pending' = Unsent /\ Unsent \subseteq pending
      BY <1>1, <1>3, <3>1 DEF Unsent
    <3>3. Saves(external_ids', pending', ct_zones', astray')
      BY <1>1, <1>2, <1>7, <2>1, <2>2, <3>2
    <3> QED BY <1>4, <1>5, <2>1, <3>1, <3>2, <3>3 DEF RecordInv
  <2>3. CASE txn.status # "SUCCESS"
    <3>1. UNCHANGED pending
      <4>1. retval # 1
        BY <1>7, <2>3
      <4> QED BY <1>1, <4>1
    <3>2. Saves(external_ids', pending', ct_zones', astray')
      BY <1>1, <2>1, <3>1 DEF RecordInv
    <3>3. Unsent' = Unsent
      BY <3>1 DEF Unsent
    <3>4. TxnsTrue'
      <4>1. CASE txn.status = "INCOMPLETE"
        <5>1. committing_txn' = txn /\ txn \in Txns /\ txn.status # "SUCCESS"
          BY <1>1, <1>2, <1>7, <4>1
        <5>2. Saves(txn.ids, Unsent', ct_zones', astray')
          BY <1>1, <1>2, <1>7, <2>1, <3>3, <4>1, Zenon
        <5> HIDE DEF txn
        <5> QED BY <1>1, <5>1, <5>2 DEF TxnsTrue
      <4>2. CASE txn.status # "INCOMPLETE"
        BY <1>1, <1>5, <4>2
      <4> QED BY <4>1, <4>2
    <3> QED BY <1>4, <2>1, <3>1, <3>2, <3>4 DEF RecordInv
  <2> QED BY <2>2, <2>3
<1> QED
  BY <1>6, <1>7

(* The steps that leave the entries and the record alone.                  *)
LEMMA IdleRecordInv ==
  ASSUME RecordInv,
         ovsdb_idl_loop_run \/ commit_skip \/ SeqnoChange \/ UNCHANGED vars
  PROVE  RecordInv'
<1>1. UNCHANGED <<ct_zones, ct_zone_bitmap, pending, committing_txn, external_ids, astray>>
  BY DEF ovsdb_idl_loop_run, commit_skip, SeqnoChange, vars, zoneVars, txnVars
<1>2. \/ UNCHANGED open_txn \/ open_txn' = NoTxn
      \/ /\ open_txn' = [ids |-> external_ids, status |-> "UNCHANGED"]
         /\ committing_txn = NoTxn
  BY DEF ovsdb_idl_loop_run, commit_skip, SeqnoChange, vars, txnVars
<1>3. Unsent' = Unsent
  BY <1>1 DEF Unsent
<1>4. [ids |-> external_ids, status |-> "UNCHANGED"] \in Txns
  BY DEF RecordInv, Saves, Txns
<1>5. TxnsTrue'
  BY <1>1, <1>2, <1>3, <1>4 DEF RecordInv, TxnsTrue
<1> QED
  BY <1>1, <1>5 DEF RecordInv, ZonesTrue, EntriesTrue

LEMMA NextRecordInv ==
  ASSUME RecordInv, EntriesTyped, [Next]_vars
  PROVE  RecordInv'
BY CrashRecordInv, SwitchRecordInv, UpdateRecordInv, CommitRecordInv, AnswerRecordInv,
   WaitRecordInv, IdleRecordInv
   DEF Next, LifeNext, Loop

(* ovn-controller.8.xml on the ct-zone keys ("To keep state across         *)
(* restarts of ovn-controller, these keys are stored in the integration    *)
(* bridge's Bridge table"): an entry goes away only when the database has  *)
(* what it says, for any number of users, zones, restarts and failed       *)
(* transactions, except for the two ways in which the code loses track: a  *)
(* user that changes while it has an entry, and an entry that a pass drops *)
(* without having sent it again.                                           *)
THEOREM ZonesAreRecorded == Spec => []RecordedUnlessAstray
<1> DEFINE Inv == RecordInv /\ EntriesTyped
<1>1. Init => Inv
  BY InitRecordInv, InitEntriesTyped
<1>2. Inv /\ [Next]_vars => Inv'
  BY NextRecordInv, NextEntriesTyped DEF RecordInv, ZonesTrue
<1>3. Inv => RecordedUnlessAstray
  BY SMTT(30) DEF RecordInv, Saves, Tells, Agree, BadUser, RecordedUnlessAstray, Recorded, AstrayUser
<1> QED
  BY <1>1, <1>2, <1>3, PTL DEF Spec

(* Zones stay distinct across restarts, with the same exceptions:          *)
(* restore_ct_zones() finds one zone under two keys only if the record of  *)
(* that zone went astray, because the removal of a zone's last user is in  *)
(* the database before, or with, the record of its next one.               *)
THEOREM ZonesUniqueAfterRestart == Spec => []UniqueUnlessAstray
<1> DEFINE Inv == RecordInv /\ EntriesTyped
<1>1. Init => Inv
  BY InitRecordInv, InitEntriesTyped
<1>2. Inv /\ [Next]_vars => Inv'
  BY NextRecordInv, NextEntriesTyped DEF RecordInv, ZonesTrue
<1>3. Inv => UniqueUnlessAstray
  BY DEF RecordInv, ZonesTrue, Distinct, BadZone, UniqueUnlessAstray, AstrayZone
<1> QED
  BY <1>1, <1>2, <1>3, PTL DEF Spec
=============================================================================
