-------------------------------- MODULE Expr --------------------------------
(***************************************************************************)
(* lib/expr.c: how the match of a logical flow becomes OpenFlow matches.   *)
(* A parsed expression is annotated with the prerequisites of its fields,  *)
(* simplified to tests for equality, normalized to an OR of ANDs of        *)
(* clauses over one field each, and turned into matches, some of which are *)
(* clauses of a conjunctive match.                                         *)
(*                                                                         *)
(* A number is the set of its 1-bits.  The number of a port is the set of  *)
(* just itself, so that a port's field is tested as the others are.        *)
(***************************************************************************)
EXTENDS Integers, FiniteSets, SequencesExt

CONSTANTS
  Width,             \* the bits of each field; 0 for one that holds a port
  Prereqs,           \* each field's prerequisite, an expression or None
  must_crossproduct, \* the fields that no clause of a conjunction may test
  PortNumbers,       \* what lookup_port() finds: a function of names
  Resident           \* the ports for which is_chassis_resident() is true

Symbols == DOMAIN Width

-----------------------------------------------------------------------------
(* Constructing and manipulating expressions. *)

None == [type |-> "NULL"]
Boolean(b) == [type |-> "BOOLEAN", boolean |-> b]
AndOr(type, subs) == [type |-> type, andor |-> subs]
Cmp(symbol, relop, value, mask) ==
  [type |-> "CMP", symbol |-> symbol, relop |-> relop,
   value |-> value, mask |-> mask]
CmpString(symbol, string) ==
  [type |-> "CMP", symbol |-> symbol, relop |-> "EQ", string |-> string]
Condition(string, not) ==
  [type |-> "CONDITION", string |-> string, not |-> not]

\* The subexpressions that 'e' contributes to an AND or OR of type 'type':
\* those of its own when it has that type too, see expr_insert_andor().
Spliced(type, e) == IF e.type = type THEN e.andor ELSE <<e>>
FlattenAll(type, subs) ==
  FoldLeft(LAMBDA acc, e : acc \o Spliced(type, e), <<>>, subs)

expr_combine(type, a, b) ==
  IF a = None THEN b ELSE IF b = None THEN a
  ELSE AndOr(type, Spliced(type, a) \o Spliced(type, b))

expr_fix_andor(e, short_circuit) ==
  LET kept == SelectSeq(e.andor, LAMBDA sub : sub.type # "BOOLEAN")
  IN IF Boolean(short_circuit) \in Range(e.andor) THEN Boolean(short_circuit)
     ELSE CASE Len(kept) = 0 -> Boolean(~ short_circuit)
            [] Len(kept) = 1 -> kept[1]
            [] OTHER -> AndOr(e.type, kept)

expr_fix(e) == IF e.type \in {"AND", "OR"}
               THEN expr_fix_andor(e, e.type = "OR") ELSE e

RECURSIVE expr_get_unique_symbol(_)
expr_get_unique_symbol(e) ==
  CASE e.type = "CMP" -> e.symbol
    [] e.type \in {"AND", "OR"} ->
         LET syms == {expr_get_unique_symbol(sub) : sub \in Range(e.andor)}
         IN IF Cardinality(syms) = 1 THEN CHOOSE s \in syms : TRUE ELSE "NULL"
    [] OTHER -> "NULL"

-----------------------------------------------------------------------------
(* expr_annotate() *)

WithPrereqs(e, symbol) == expr_combine("AND", e, Prereqs[symbol])

RECURSIVE expr_annotate(_, _)
expr_annotate(e, append_prereqs) ==
  CASE e.type = "CMP" ->
         IF append_prereqs THEN WithPrereqs(e, e.symbol) ELSE e
    [] e.type \in {"AND", "OR"} ->
         LET sym == expr_get_unique_symbol(e)
             once == append_prereqs /\ sym # "NULL"
             whole == IF once THEN WithPrereqs(e, sym) ELSE e
             subs == [i \in DOMAIN whole.andor |->
                        expr_annotate(whole.andor[i], append_prereqs /\ ~ once)]
         IN AndOr(whole.type, FlattenAll(whole.type, subs))
    [] OTHER -> e

-----------------------------------------------------------------------------
(* expr_simplify() *)

\* The expression that expr_combine() makes of these, one after another.
Disjunction(subs) ==
  FoldLeft(LAMBDA acc, e : expr_combine("OR", acc, e), None, subs)

\* The bits of a field that are in 'bits', in the order of bitwise_scan().
Ascending(symbol, bits) ==
  SelectSeq([n \in 1 .. Width[symbol] |-> n - 1], LAMBDA i : i \in bits)

expr_simplify_eq(e) == IF e.mask = {} THEN Boolean(TRUE) ELSE e

\* Some bit of the mask differs.
expr_simplify_ne(e) ==
  LET bits == Ascending(e.symbol, e.mask)
      Differs(i) == Cmp(e.symbol, "EQ", {i} \ e.value, {i})
      new == Disjunction([n \in DOMAIN bits |-> Differs(bits[n])])
  IN IF new = None THEN Boolean(FALSE) ELSE new

\* The values that agree with e's above bit 'z' and differ from it there.
Deciding(e, z) ==
  LET value == IF z \in e.value THEN e.value \ {z} ELSE e.value \union {z}
  IN Cmp(e.symbol, "EQ", {i \in value : i >= z}, {i \in e.mask : i >= z})

expr_simplify_relational(e) ==
  LET lt == e.relop \in {"LT", "LE"}
      eq == e.relop \in {"LE", "GE"}
      zs == Ascending(e.symbol, {z \in e.mask : (z \in e.value) = lt})
      decided == [n \in DOMAIN zs |-> Deciding(e, zs[n])]
      equal == IF eq THEN <<[e EXCEPT !.relop = "EQ"]>> ELSE <<>>
      new == Disjunction(equal \o decided)
  IN IF e.value = (IF lt THEN e.mask ELSE {})
     THEN IF eq THEN Boolean(TRUE) ELSE expr_simplify_ne(e)
     ELSE IF new = None THEN Boolean(FALSE) ELSE new

RECURSIVE expr_simplify(_)
expr_simplify(e) ==
  CASE e.type = "CMP" ->
         CASE Width[e.symbol] = 0 -> e
           [] Width[e.symbol] # 0 /\ e.relop = "EQ" -> expr_simplify_eq(e)
           [] Width[e.symbol] # 0 /\ e.relop = "NE" -> expr_simplify_ne(e)
           [] OTHER -> expr_simplify_relational(e)
    [] e.type \in {"AND", "OR"} ->
         LET subs == [i \in DOMAIN e.andor |-> expr_simplify(e.andor[i])]
         IN expr_fix(AndOr(e.type, FlattenAll(e.type, subs)))
    [] e.type = "CONDITION" -> Boolean((e.string \in Resident) # e.not)
    [] OTHER -> e

-----------------------------------------------------------------------------
(* expr_normalize() *)

\* mf_subvalue_intersect()
Compatible(a, b) == a.value \intersect b.mask = b.value \intersect a.mask
Intersect(a, b) ==
  [a EXCEPT !.value = @ \union b.value, !.mask = @ \union b.mask]
IntersectAll(x, cmps) ==
  FoldLeft(LAMBDA acc, c : IF acc = None THEN None
                           ELSE IF Compatible(acc, c) THEN Intersect(acc, c)
                           ELSE None, x, cmps)

\* What is left of x && b for each b, where anything is.
Meets(x, bs) ==
  LET ok == SelectSeq(bs, LAMBDA b : Compatible(x, b))
  IN [j \in DOMAIN ok |-> Intersect(x, ok[j])]

\* Of x && (a0 || a1 ...) && (b0 || b1 ...): xa0b0 || xa0b1 || xa1b0 ...
Product(x, as, bs) ==
  FoldLeft(LAMBDA acc, xa : acc \o Meets(xa, bs), <<>>, Meets(x, as))

OfType(type, subs) == SelectSeq(subs, LAMBDA e : e.type = type)
Strings(or) == {sub.string : sub \in Range(or.andor)}

RECURSIVE crush_cmps(_, _)

crush_and_string(e, symbol) ==
  LET new == [i \in DOMAIN e.andor |-> crush_cmps(e.andor[i], symbol)]
      cmps == {c.string : c \in Range(OfType("CMP", new))}
      ors == {Strings(or) : or \in Range(OfType("OR", new))}
      result == {s \in UNION (ors \union {cmps}) :
                   /\ cmps \subseteq {s}
                   /\ \A strings \in ors : s \in strings}
      subs == SetToSeq({CmpString(symbol, s) : s \in result})
  IN IF Boolean(FALSE) \in Range(new) THEN Boolean(FALSE)
     ELSE expr_fix(AndOr("OR", subs))

crush_and_numeric(e, symbol) ==
  LET new == [i \in DOMAIN e.andor |-> crush_cmps(e.andor[i], symbol)]
      x == IntersectAll(Cmp(symbol, "EQ", {}, {}), OfType("CMP", new))
      ors == OfType("OR", new)
      rest == SubSeq(ors, 3, Len(ors))
  IN CASE Boolean(FALSE) \in Range(new) \/ x = None -> Boolean(FALSE)
       [] OTHER ->
          CASE Len(ors) = 0 -> expr_simplify_eq(x)
            [] Len(ors) = 1 -> expr_fix(AndOr("OR", Meets(x, ors[1].andor)))
            [] OTHER ->
               LET or == expr_fix(AndOr("OR", Product(x, ors[1].andor,
                                                      ors[2].andor)))
               IN IF or.type = "BOOLEAN" THEN or
                  ELSE IF rest = <<>> THEN crush_cmps(or, symbol)
                  ELSE crush_cmps(AndOr("AND", <<or>> \o rest), symbol)

\* The duplicates go.  (The order in which qsort() leaves the rest matters
\* neither here nor in expr_sort().)
Unique(subs) ==
  FoldLeft(LAMBDA acc, e : IF e \in Range(acc) THEN acc ELSE Append(acc, e),
           <<>>, subs)

crush_or(e, symbol) ==
  LET new == [i \in DOMAIN e.andor |-> crush_cmps(e.andor[i], symbol)]
      fixed == expr_fix(AndOr("OR", FlattenAll("OR", new)))
  IN IF fixed.type # "OR" THEN fixed
     ELSE expr_fix(AndOr("OR", Unique(fixed.andor)))

crush_cmps(e, symbol) ==
  CASE e.type = "OR" -> crush_or(e, symbol)
    [] e.type = "AND" -> IF Width[symbol] # 0 THEN crush_and_numeric(e, symbol)
                         ELSE crush_and_string(e, symbol)
    [] OTHER -> e

GroupOf(subs, symbol) ==
  SelectSeq(subs, LAMBDA sub : expr_get_unique_symbol(sub) = symbol)

\* The clauses over one symbol are brought together and crushed.
Crushed(subs, symbol) ==
  LET group == GroupOf(subs, symbol)
  IN crush_cmps(IF Len(group) = 1 THEN group[1] ELSE AndOr("AND", group), symbol)

\* The AND of the crushed clauses and of those over several symbols.
Recombined(crushed, mixed) ==
  IF Boolean(FALSE) \in Range(crushed) THEN Boolean(FALSE)
  ELSE FoldLeft(LAMBDA acc, sub : expr_combine("AND", acc, sub), None,
                SelectSeq(crushed, LAMBDA c : c.type # "BOOLEAN") \o mixed)

expr_sort(e) ==
  LET all == [i \in DOMAIN e.andor |-> expr_get_unique_symbol(e.andor[i])]
      syms == Unique(SelectSeq(all, LAMBDA symbol : symbol # "NULL"))
  IN Recombined([i \in DOMAIN syms |-> Crushed(e.andor, syms[i])],
                GroupOf(e.andor, "NULL"))

\* Mutant: a field that must not be in a conjunction is forgotten.
Crosses_mixed(sub) ==
  sub.type # "CMP" /\ expr_get_unique_symbol(sub) = "NULL"

\* Whether an AND has to be multiplied out over this subexpression.
Crosses(sub) ==
  /\ sub.type # "CMP"
  /\ expr_get_unique_symbol(sub) \in {"NULL"} \union must_crossproduct

RECURSIVE expr_normalize_or(_)

\* An AND whose clauses are sorted, multiplied out over the first of them
\* that has to be, and again until none has.
MultipliedOut(e) ==
  LET cross == {i \in DOMAIN e.andor : Crosses(e.andor[i])}
      Term(i, k) ==
        AndOr("AND", FlattenAll("AND", [e.andor EXCEPT ![i] = k]))
      Terms(i) ==
        [n \in DOMAIN e.andor[i].andor |-> Term(i, e.andor[i].andor[n])]
  IN IF e.type # "AND" \/ cross = {} THEN e
     ELSE expr_normalize_or(AndOr("OR",
            Terms(CHOOSE i \in cross : \A j \in cross : i <= j)))

\* expr_sort() leaves one clause per symbol, so the code that merges two
\* neighbours over one symbol has nothing to do.
expr_normalize_and(and) == MultipliedOut(expr_sort(and))

expr_normalize_or(e) ==
  LET new == [i \in DOMAIN e.andor |->
                IF e.andor[i].type = "AND" THEN expr_normalize_and(e.andor[i])
                ELSE e.andor[i]]
  IN expr_fix(AndOr("OR", FlattenAll("OR", new)))

expr_normalize(e) ==
  CASE e.type = "AND" -> expr_normalize_and(e)
    [] e.type = "OR" -> expr_normalize_or(e)
    [] OTHER -> e

-----------------------------------------------------------------------------
(* expr_to_matches() *)

Wildcard == [value |-> {}, mask |-> {}]
CatchAll == [symbol \in Symbols |-> Wildcard]
ExprMatch(match, conj_id, conjunctions) ==
  [match |-> match, conj_id |-> conj_id, conjunctions |-> conjunctions]

MergedConjunctions(a, b) == IF a = {} \/ b = {} THEN {} ELSE a \union b

expr_match_add(matches, new) ==
  LET same == {m \in matches : m.match = new.match /\ m.conj_id = new.conj_id}
  IN (matches \ same) \union
       {ExprMatch(new.match, new.conj_id,
                  IF same = {} THEN new.conjunctions
                  ELSE MergedConjunctions((CHOOSE m \in same : TRUE).conjunctions,
                                          new.conjunctions))}

\* constrain_match() fails on a port that is not known here; otherwise it
\* replaces what the match says of the field.
CanConstrain(e) == Width[e.symbol] = 0 => e.string \in DOMAIN PortNumbers
constrain_match(e, match) ==
  [match EXCEPT ![e.symbol] =
     IF Width[e.symbol] # 0 THEN [value |-> e.value, mask |-> e.mask]
     ELSE [value |-> {PortNumbers[e.string]}, mask |-> Range(PortNumbers)]]

\* Both for an OR of comparisons ('match' is what the clauses have in common)
\* and for the comparisons of add_cmp_flow().
add_disjunction(subs, match, conjunctions, matches) ==
  FoldLeft(LAMBDA acc, sub :
             expr_match_add(acc, ExprMatch(constrain_match(sub, match), 0,
                                           conjunctions)),
           matches, SelectSeq(subs, CanConstrain))

\* 'acc' is the matches so far and the number of conjunctions in them.
add_conjunction(and, acc) ==
  LET cmps == OfType("CMP", and.andor)
      ors == OfType("OR", and.andor)
      match == FoldLeft(LAMBDA m, e : constrain_match(e, m), CatchAll, cmps)
      n == Len(ors)
      id == acc.n_conjs + 1
      dead == {k \in 1 .. n : \A sub \in Range(ors[k].andor) : ~ CanConstrain(sub)}
      added == {k \in 1 .. n : \A d \in dead : k < d}
      clauses ==
        FoldLeft(LAMBDA m, k : IF k \notin added THEN m
                   ELSE add_disjunction(ors[k].andor, match,
                          {[id |-> id, clause |-> k - 1, n_clauses |-> n]}, m),
                 acc.matches, [k \in 1 .. n |-> k])
  IN CASE \E e \in Range(cmps) : ~ CanConstrain(e) -> acc
       [] OTHER ->
          CASE n = 0 -> [acc EXCEPT !.matches =
                           expr_match_add(@, ExprMatch(match, 0, {}))]
            [] n = 1 -> [acc EXCEPT !.matches =
                           add_disjunction(ors[1].andor, match, {}, @)]
            [] OTHER ->
               [n_conjs |-> id,
                matches |-> IF dead # {} THEN clauses
                            ELSE expr_match_add(clauses, ExprMatch(match, id, {}))]

expr_to_matches(e) ==
  LET none == [n_conjs |-> 0, matches |-> {}]
      Cmps(subs, acc) ==
        [acc EXCEPT !.matches = add_disjunction(subs, CatchAll, {}, @)]
  IN CASE e.type = "CMP" -> Cmps(<<e>>, none)
       [] e.type = "AND" -> add_conjunction(e, none)
       [] e.type = "OR" ->
            FoldLeft(LAMBDA acc, sub :
                       IF sub.type = "AND" THEN add_conjunction(sub, acc)
                       ELSE Cmps(<<sub>>, acc), none, e.andor)
       [] e.type = "BOOLEAN" ->
            [none EXCEPT !.matches = IF e.boolean
                                     THEN {ExprMatch(CatchAll, 0, {})} ELSE {}]
=============================================================================
