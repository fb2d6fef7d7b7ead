------------------------- MODULE ExtendTableProofs -------------------------
(***************************************************************************)
(* Proofs about the id allocator of lib/extend-table.c, for any set of     *)
(* names and any number of ids.                                            *)
(***************************************************************************)
EXTENDS ExtendTable, WellFoundedInduction, TLAPS

(* The inductive invariant: the bitmap and 'new_table_id' both say what    *)
(* the two hmaps hold.                                                     *)
IInv == TypeOK /\ OneIdPerName /\ BitmapExact /\ NewIdExact

(* bitmap_scan() finds a zero bit when there is one: a nonempty set of     *)
(* natural numbers has a least element.                                    *)
LEMMA LeastElement ==
  ASSUME NEW S \in SUBSET Nat, S # {}
  PROVE  \E x \in S : \A y \in S : x <= y
<1> DEFINE R == {ss \in Nat \X Nat : ss[1] < ss[2]}
<1>1. PICK x \in S : \A y \in S : ~ (<<y, x>> \in R)
  <2>1. IsWellFoundedOn(R, Nat)
    BY NatLessThanWellFounded, Zenon DEF OpToRel
  <2> HIDE DEF R
  <2> QED
    BY <2>1, WFMin, Zenon
<1>2. \A y \in S : x <= y
  <2> SUFFICES ASSUME NEW y \in S
               PROVE  x <= y
    OBVIOUS
  <2>1. <<y, x>> \in R <=> y < x
    OBVIOUS
  <2> QED
    BY <1>1, <2>1
<1> QED
  BY <1>1, <1>2

(* What ovn_extend_table_assign_id() works with: an id of its own, or that *)
(* of the installed entry of the same name.                                *)
LEMMA CandidateId ==
  ASSUME TypeOK, NEW name \in Names,
         Candidate(table, name) # MAX_EXT_TABLE_ID + 1
  PROVE  /\ Candidate(table, name) \in TableIds
         /\ Named(table.existing, name) # {} =>
              \E e \in table.existing : /\ e.name = name
                                        /\ e.table_id = Candidate(table, name)
         /\ Named(table.existing, name) = {} =>
              Candidate(table, name) \notin table.table_ids
<1> USE MaxIdAssumption DEF TypeOK, Table, Info
<1>1. CASE Named(table.existing, name) # {}
  <2>1. (CHOOSE e \in Named(table.existing, name) : TRUE)
          \in Named(table.existing, name)
    BY <1>1
  <2> QED
    BY <1>1, <2>1, Zenon DEF Candidate, Named
<1>2. CASE Named(table.existing, name) = {}
  <2> DEFINE F == TableIds \ table.table_ids
  <2>1. F \in SUBSET Nat /\ F # {}
    BY <1>2 DEF Candidate, TableIds
  <2>2. FirstZero(table) \in F
    <3>1. \E x \in F : \A y \in F : x <= y
      BY <2>1, LeastElement, Zenon
    <3> QED
      BY <3>1 DEF FirstZero
  <2>3. Candidate(table, name) = FirstZero(table)
    BY <1>2, <2>1 DEF Candidate
  <2> QED
    BY <1>2, <2>2, <2>3
<1> QED
  BY <1>1, <1>2

(* ovn_extend_table_init(): both hmaps empty, only the invalid id taken.   *)
LEMMA InitIInv == Init => IInv
BY MaxIdAssumption
   DEF Init, IInv, TypeOK, Table, Info, OneIdPerName, BitmapExact, NewIdExact,
       ovn_extend_table_init, EXT_TABLE_ID_INVALID, Ids

(* ovn_extend_table_assign_id(): the new entry has the id of the installed *)
(* entry of its name, or an id that nobody has.                            *)
LEMMA AssignIInv ==
  ASSUME IInv, NEW name \in Names, Assign(name)
  PROVE  IInv'
<1> USE DEF IInv, TypeOK, Table, Info
<1>1. CASE table' = table
  BY <1>1, Zenon DEF OneIdPerName, BitmapExact, NewIdExact
<1>2. CASE table' # table
  <2> DEFINE id  == Candidate(table, name)
             new == [name         |-> name,
                     table_id     |-> id,
                     new_table_id |-> Named(table.existing, name) = {}]
  <2>1. /\ Named(table.desired, name) = {}
        /\ id # MAX_EXT_TABLE_ID + 1
    BY <1>2 DEF Assign, AssignId
  <2>2. table' = [table EXCEPT !.table_ids = @ \union {id},
                               !.desired = @ \union {new}]
    BY <2>1 DEF Assign, AssignId
  <2>3. /\ id \in TableIds
        /\ Named(table.existing, name) # {} =>
              \E e \in table.existing : e.name = name /\ e.table_id = id
        /\ Named(table.existing, name) = {} => id \notin table.table_ids
    BY <2>1, CandidateId
  <2> HIDE DEF id
  <2>4. /\ new.name = name /\ new.table_id = id
        /\ new.new_table_id \in BOOLEAN
        /\ new.new_table_id <=> Named(table.existing, name) = {}
    BY Zenon
  <2>5. new \in Info
    BY <2>3, <2>4
  <2> HIDE DEF new
  <2>6. /\ table'.table_ids = table.table_ids \union {id}
        /\ table'.desired = table.desired \union {new}
        /\ table'.existing = table.existing
    BY <2>2
  <2>7. TypeOK'
    BY <2>2, <2>3, <2>5, Zenon
  <2>8. OneIdPerName'
    <3>1. \A e \in table.desired \union table.existing :
             e.name = name <=> e.table_id = id
      <4>1. CASE Named(table.existing, name) # {}
        BY <4>1, <2>3 DEF OneIdPerName
      <4>2. CASE Named(table.existing, name) = {}
        BY <4>2, <2>1, <2>3 DEF BitmapExact, Named, Ids
      <4> QED
        BY <4>1, <4>2
    <3> QED
      BY <2>6, <2>4, <3>1 DEF OneIdPerName
  <2>9. BitmapExact'
    <3>1. Ids(table'.desired \union table'.existing)
            = Ids(table.desired \union table.existing) \union {id}
      BY <2>6, <2>4 DEF Ids
    <3> QED
      BY <2>6, <3>1, Zenon DEF BitmapExact
  <2>10. NewIdExact'
    BY <2>6, <2>4 DEF NewIdExact, Named
  <2> QED
    BY <2>7, <2>8, <2>9, <2>10
<1> QED
  BY <1>1, <1>2

(* The end of ofctrl_put(): the ids that go are those of entries that are  *)
(* not wanted, the entries that stay are the desired ones.                 *)
LEMMA PutIInv ==
  ASSUME IInv, Put
  PROVE  IInv'
<1> USE DEF IInv, TypeOK, Table, Info
<1>1. /\ table'.table_ids = table.table_ids \ Ids(Unwanted(table))
      /\ table'.desired = {}
      /\ table'.existing = (table.existing \ Unwanted(table))
           \union Uninstalled([table EXCEPT
                      !.table_ids = @ \ Ids(Unwanted(table)),
                      !.existing  = @ \ Unwanted(table)])
  BY DEF Put, Move, RemoveUnwanted
<1>2. \A e \in table'.existing :
        \/ e \in table.desired
        \/ e \in table.existing /\ Lookup(table.desired, e)
  BY <1>1 DEF Uninstalled, Unwanted
<1>3. \A e \in table.desired :
        \E f \in table'.existing : f.name = e.name /\ f.table_id = e.table_id
  BY <1>1 DEF Uninstalled, Unwanted, Lookup
<1>4. TypeOK'
  BY <1>1, <1>2, Zenon DEF Put, Move, RemoveUnwanted
<1>5. OneIdPerName'
  BY <1>1, <1>2 DEF OneIdPerName
<1>6. BitmapExact'
  <2>1. Ids(table'.existing) = Ids(table.desired)
    BY <1>2, <1>3 DEF Ids, Lookup
  <2>2. \A e \in table.existing :
          e \in Unwanted(table) <=> e.table_id \notin Ids(table.desired)
    BY DEF Unwanted, Lookup, Ids, OneIdPerName
  <2>3. Ids(Unwanted(table)) = Ids(table.existing) \ Ids(table.desired)
    BY <2>2 DEF Ids, Unwanted
  <2>4. table.table_ids = {EXT_TABLE_ID_INVALID}
                          \union Ids(table.desired) \union Ids(table.existing)
    BY DEF BitmapExact, Ids
  <2>5. EXT_TABLE_ID_INVALID \notin Ids(table.existing)
    BY MaxIdAssumption DEF EXT_TABLE_ID_INVALID, Ids, TableIds
  <2>6. Ids(table'.desired \union table'.existing) = Ids(table'.existing)
    BY <1>1
  <2> QED
    BY <1>1, <2>1, <2>3, <2>4, <2>5, <2>6, Zenon DEF BitmapExact
<1>7. NewIdExact'
  BY <1>1 DEF NewIdExact
<1> QED
  BY <1>4, <1>5, <1>6, <1>7

(* ovn_extend_table_clear(table, false): 'new_table_id' picks exactly the  *)
(* entries whose id no installed entry has.                                *)
LEMMA DiscardIInv ==
  ASSUME IInv, Discard
  PROVE  IInv'
<1> USE DEF IInv, TypeOK, Table, Info
<1> DEFINE fresh == {e \in table.desired : e.new_table_id}
<1>1. /\ table'.table_ids = table.table_ids \ Ids(fresh)
      /\ table'.desired = {}
      /\ table'.existing = table.existing
  BY DEF Discard, ClearDesired
<1>2. TypeOK'
  BY Zenon DEF Discard, ClearDesired
<1>3. OneIdPerName'
  BY <1>1 DEF OneIdPerName
<1>4. BitmapExact'
  <2>1. \A e \in table.desired :
          e \in fresh <=> e.table_id \notin Ids(table.existing)
    BY DEF NewIdExact, OneIdPerName, Named, Ids
  <2>2. Ids(fresh) = Ids(table.desired) \ Ids(table.existing)
    BY <2>1 DEF Ids
  <2>3. table.table_ids = {EXT_TABLE_ID_INVALID}
                          \union Ids(table.desired) \union Ids(table.existing)
    BY DEF BitmapExact, Ids
  <2>4. EXT_TABLE_ID_INVALID \notin Ids(table.desired)
    BY MaxIdAssumption DEF EXT_TABLE_ID_INVALID, Ids, TableIds
  <2>5. Ids(table'.desired \union table'.existing) = Ids(table.existing)
    BY <1>1
  <2> HIDE DEF fresh
  <2> QED
    BY <1>1, <2>2, <2>3, <2>4, <2>5 DEF BitmapExact
<1>5. NewIdExact'
  BY <1>1 DEF NewIdExact
<1> QED
  BY <1>2, <1>3, <1>4, <1>5

(* ovn_extend_table_clear(table, true), with no desired entries.           *)
LEMMA ResetIInv ==
  ASSUME IInv, Reset
  PROVE  IInv'
<1> USE DEF IInv, TypeOK, Table, Info
<1>1. /\ table'.table_ids = table.table_ids \ Ids(table.existing)
      /\ table'.desired = {}
      /\ table'.existing = {}
  BY DEF Reset, ClearExisting
<1>2. TypeOK'
  BY Zenon DEF Reset, ClearExisting
<1>3. BitmapExact'
  <2>1. table.table_ids = {EXT_TABLE_ID_INVALID} \union Ids(table.existing)
    BY DEF BitmapExact, Ids, Reset
  <2>2. EXT_TABLE_ID_INVALID \notin Ids(table.existing)
    BY MaxIdAssumption DEF EXT_TABLE_ID_INVALID, Ids, TableIds
  <2>3. Ids(table'.desired \union table'.existing) = {}
    BY <1>1 DEF Ids
  <2> QED
    BY <1>1, <2>1, <2>2, <2>3, Zenon DEF BitmapExact
<1> QED
  BY <1>1, <1>2, <1>3 DEF OneIdPerName, NewIdExact

(* Every call of extend-table.c keeps the inductive invariant.             *)
LEMMA NextIInv == IInv /\ [Next]_table => IInv'
<1> SUFFICES ASSUME IInv, [Next]_table
             PROVE  IInv'
  OBVIOUS
<1>1. ASSUME NEW name \in Names, Assign(name)
      PROVE  IInv'
  BY <1>1, AssignIInv
<1>2. CASE UNCHANGED table
  BY <1>2 DEF IInv, TypeOK, OneIdPerName, BitmapExact, NewIdExact
<1> QED
  BY <1>1, <1>2, PutIInv, DiscardIInv, ResetIInv DEF Next

(* Ids and names correspond one to one in what is installed or about to be *)
(* installed, whatever sequence of assign, put, discard and reset          *)
(* ovn-controller goes through: for any number of names and of ids.        *)
THEOREM IdsConsistent == Spec => []OneIdPerName
<1>1. IInv => OneIdPerName
  BY DEF IInv
<1> QED
  BY <1>1, InitIInv, NextIInv, PTL DEF Spec

(* The bitmap of extend-table.c holds exactly the ids in use: none leaks   *)
(* and none is given out twice.                                            *)
THEOREM IdBitmapExact == Spec => []BitmapExact
<1>1. IInv => BitmapExact
  BY DEF IInv
<1> QED
  BY <1>1, InitIInv, NextIInv, PTL DEF Spec

(* The fields of the table keep their types.                               *)
THEOREM TypeCorrect == Spec => []TypeOK
<1>1. IInv => TypeOK
  BY DEF IInv
<1> QED
  BY <1>1, InitIInv, NextIInv, PTL DEF Spec

(* No step gives an id in use to another name: what the flows already on   *)
(* the switch call group 1 stays the group they meant.                     *)
THEOREM IdsKeepTheirNames == Spec => IdKeepsName
<1> DEFINE Keeps == \A e \in table.desired \union table.existing,
                       f \in table'.desired \union table'.existing :
                       e.table_id = f.table_id => e.name = f.name
<1>1. ASSUME IInv, IInv', [Next]_table
      PROVE  [Keeps]_table
  <2> SUFFICES ASSUME Next
               PROVE  Keeps
    BY <1>1
  <2> USE DEF IInv
  <2>1. ASSUME NEW name \in Names, Assign(name)
        PROVE  Keeps
    <3>1. \A e \in table.desired \union table.existing :
             e \in table'.desired \union table'.existing
      BY <1>1, <2>1, Zenon DEF Assign, AssignId, TypeOK, Table
    <3> QED
      BY <1>1, <3>1, SMTT(30) DEF OneIdPerName
  <2>2. CASE Put \/ Discard \/ Reset
    <3>1. \A f \in table'.desired \union table'.existing :
             f \in table.desired \union table.existing
      BY <1>1, <2>2, Zenon
         DEF Put, Discard, Reset, Move, RemoveUnwanted, ClearDesired,
             ClearExisting, Uninstalled, TypeOK, Table
    <3> QED
      BY <1>1, <3>1 DEF OneIdPerName
  <2> QED
    BY <2>1, <2>2 DEF Next
<1>2. IInv /\ IInv' /\ [Next]_table => [Keeps]_table
  BY <1>1
<1> QED
  BY <1>2, InitIInv, NextIInv, PTL DEF Spec, IdKeepsName
=============================================================================
