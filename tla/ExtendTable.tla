---------------------------- MODULE ExtendTable ----------------------------
(***************************************************************************)
(* lib/extend-table.c: the allocator of OpenFlow group and meter ids.      *)
(*                                                                         *)
(* ovn-controller keeps one table for groups and one for meters.  While    *)
(* logical flows are translated, every group or meter they name gets an id *)
(* (ovn_extend_table_assign_id) in 'desired'; ofctrl_put() then deletes    *)
(* from the switch the entries that are no longer wanted and makes         *)
(* 'desired' the new 'existing'.                                           *)
(*                                                                         *)
(* The operators below take the table as an argument, so that a module     *)
(* with two tables can use them for both; the variable 'table' and the     *)
(* actions are the life of one table under the calls its callers make.     *)
(***************************************************************************)
EXTENDS Naturals

CONSTANTS Names,             \* what a group or a meter is (its description)
          MAX_EXT_TABLE_ID   \* the largest id, 65535 in the code

ASSUME MaxIdAssumption == MAX_EXT_TABLE_ID \in Nat

EXT_TABLE_ID_INVALID == 0

VARIABLE table

TableIds == 1 .. MAX_EXT_TABLE_ID

\* struct ovn_extend_table_info
Info == [name : Names, table_id : TableIds, new_table_id : BOOLEAN]

\* struct ovn_extend_table; table_ids is the set of the bits that are 1.
Table == [table_ids : SUBSET (TableIds \union {0}),
          desired   : SUBSET Info,
          existing  : SUBSET Info]

-----------------------------------------------------------------------------
(* The operations. *)

ovn_extend_table_init ==
  [table_ids |-> {EXT_TABLE_ID_INVALID}, desired |-> {}, existing |-> {}]

\* ovn_extend_table_lookup(): the hash is that of the name.
Lookup(target, e) ==
  \E f \in target : f.name = e.name /\ f.table_id = e.table_id

Named(target, name) == {e \in target : e.name = name}

\* EXTEND_TABLE_FOR_EACH_UNINSTALLED and EXTEND_TABLE_FOR_EACH_INSTALLED
Uninstalled(t) == {e \in t.desired : ~ Lookup(t.existing, e)}
Unwanted(t)    == {e \in t.existing : ~ Lookup(t.desired, e)}

\* bitmap_scan(): the first zero bit among the ids.
FirstZero(t) ==
  CHOOSE id \in TableIds \ t.table_ids :
     \A other \in TableIds \ t.table_ids : id <= other

\* Mutant: an installed entry's id is not looked up.
CandidateAlwaysNew(t, name) ==
  IF TableIds \subseteq t.table_ids THEN MAX_EXT_TABLE_ID + 1
  ELSE FirstZero(t)

\* The id assign_id() works with: that of an installed entry of this name,
\* or else the first zero bit, or MAX_EXT_TABLE_ID + 1 when there is none.
Candidate(t, name) ==
  IF Named(t.existing, name) # {}
  THEN (CHOOSE e \in Named(t.existing, name) : TRUE).table_id
  ELSE IF TableIds \subseteq t.table_ids
       THEN MAX_EXT_TABLE_ID + 1
       ELSE FirstZero(t)

\* The id that ovn_extend_table_assign_id() returns...
AssignedId(t, name) ==
  IF Named(t.desired, name) # {}
  THEN (CHOOSE e \in Named(t.desired, name) : TRUE).table_id
  ELSE IF Candidate(t, name) = MAX_EXT_TABLE_ID + 1
       THEN EXT_TABLE_ID_INVALID
       ELSE Candidate(t, name)

\* Mutant: exhaustion is not noticed.
AssignIdUnchecked(t, name) ==
  IF Named(t.desired, name) # {} THEN t
  ELSE [t EXCEPT
         !.table_ids = @ \union {Candidate(t, name)},
         !.desired   = @ \union
            {[name         |-> name,
              table_id     |-> Candidate(t, name),
              new_table_id |-> Named(t.existing, name) = {}]}]

\* ... and the table that it leaves.
AssignId(t, name) ==
  IF \/ Named(t.desired, name) # {}
     \/ Candidate(t, name) = MAX_EXT_TABLE_ID + 1
  THEN t
  ELSE [t EXCEPT
         !.table_ids = @ \union {Candidate(t, name)},
         !.desired   = @ \union
            {[name         |-> name,
              table_id     |-> Candidate(t, name),
              new_table_id |-> Named(t.existing, name) = {}]}]

Ids(S) == {e.table_id : e \in S}

\* ovn_extend_table_clear(table, true)
ClearExisting(t) ==
  [t EXCEPT !.table_ids = @ \ Ids(t.existing), !.existing = {}]

\* Mutant: the ids of all entries are freed, whoever owns them.
ClearDesiredOwned(t) ==
  [t EXCEPT !.table_ids = @ \ Ids(t.desired), !.desired = {}]

\* ovn_extend_table_clear(table, false)
ClearDesired(t) ==
  [t EXCEPT !.table_ids = @ \ Ids({e \in t.desired : e.new_table_id}),
            !.desired = {}]

\* Mutant: a removal frees the ids that are still wanted too.
RemoveUnwantedAll(t) ==
  [t EXCEPT !.table_ids = @ \ Ids(t.existing),
            !.existing  = @ \ Unwanted(t)]

\* ofctrl_put(): ovn_extend_table_remove() of every unwanted entry, ...
RemoveUnwanted(t) ==
  [t EXCEPT !.table_ids = @ \ Ids(Unwanted(t)),
            !.existing  = @ \ Unwanted(t)]

\* ... and ovn_extend_table_move().
Move(t) ==
  [t EXCEPT !.desired = {}, !.existing = @ \union Uninstalled(t)]

-----------------------------------------------------------------------------
(* The life of a table.  run_S_CLEAR_FLOWS() clears 'existing' at a point  *)
(* of the main loop where 'desired' is empty: translation and ofctrl_put() *)
(* always run together.                                                    *)

Init == table = ovn_extend_table_init

Assign(name) == table' = AssignId(table, name)

Put == table' = Move(RemoveUnwanted(table))

Discard == table' = ClearDesired(table)

Reset == /\ table.desired = {}
         /\ table' = ClearExisting(table)

Next == \/ \E name \in Names : Assign(name)
        \/ Put
        \/ Discard
        \/ Reset

Spec == Init /\ [][Next]_table

-----------------------------------------------------------------------------
(* Properties. *)

(* The type of the table's fields: ids are 1 to MAX_EXT_TABLE_ID, and the  *)
(* bitmap has one more bit for the invalid id 0.                           *)
TypeOK == table \in Table

(* Every id is that of one name and every name has one id, whichever of    *)
(* the two hmaps the entries are in: a flow whose actions were translated  *)
(* with an id keeps meaning the same group or meter until it is replaced.  *)
OneIdPerName ==
  \A e, f \in table.desired \union table.existing :
     e.name = f.name <=> e.table_id = f.table_id

(* The comment on 'table_ids' ("value set for allocated group ids in       *)
(* either desired or existing"): no id leaks and none in use is free, in   *)
(* spite of an entry being in both hmaps and of the bit being cleared only *)
(* where 'new_table_id' says that it belongs to the entry.                 *)
BitmapExact ==
  table.table_ids = {EXT_TABLE_ID_INVALID}
                    \union Ids(table.desired \union table.existing)

(* What makes BitmapExact inductive: 'new_table_id' of a desired entry     *)
(* says that 'existing' does not hold the same name, so that discarding    *)
(* the entry is what frees its id.                                         *)
NewIdExact ==
  \A e \in table.desired :
     e.new_table_id <=> Named(table.existing, e.name) = {}

(* An id never changes its meaning in one step: an id in use before and    *)
(* after a step is that of the same name.  A put may drop an id but does   *)
(* not hand it to another name before the switch was told of the deletion. *)
IdKeepsName ==
  [][\A e \in table.desired \union table.existing,
        f \in table'.desired \union table'.existing :
        e.table_id = f.table_id => e.name = f.name]_table
=============================================================================
