------------------------------ MODULE MCLflow ------------------------------
(***************************************************************************)
(* Instances of Lflow for TLC.  Two fields of two bits, a third that is    *)
(* the prerequisite of the second and must not be in a conjunction, and    *)
(* the port, of which one name is unknown and one is elsewhere.  A row on  *)
(* its own has any match of three comparisons or conditions, and those of  *)
(* four that make a conjunction; two rows have the conjunctions of two     *)
(* sets of values, and what may share a key with one of their clauses.     *)
(***************************************************************************)
EXTENDS Lflow

MCWidth == [x |-> 2, y |-> 2, t |-> 1, inport |-> 0]
MCPrereqs == [x |-> None, y |-> Cmp("t", "EQ", {0}, {0}), t |-> None,
              inport |-> None]
MCPortNumbers == [p1 |-> 1, p2 |-> 2, p3 |-> 3]

And(a, b) == expr_combine("AND", a, b)
\* The second row's actions are on y and have its prerequisite.
Lf(uuid, match) ==
  [uuid |-> uuid, match |-> match,
   prereqs |-> IF uuid = 1 THEN None ELSE Cmp("t", "EQ", {0}, {0})]

Leaves == {Cmp("x", "EQ", {0}, {0, 1}), Cmp("x", "NE", {0, 1}, {0, 1}),
           Cmp("x", "GE", {0}, {0, 1}), Cmp("x", "LT", {1}, {0, 1}),
           Cmp("x", "GT", {}, {1}), Cmp("x", "EQ", {}, {}),
           Cmp("y", "EQ", {1}, {0, 1}), Cmp("y", "NE", {}, {0, 1}),
           Cmp("y", "LE", {1}, {0, 1}), Cmp("t", "EQ", {}, {0}),
           Cmp("t", "NE", {}, {0}),
           CmpString("inport", "p1"), CmpString("inport", "p3"),
           CmpString("inport", "unknown"),
           Condition("p1", FALSE), Condition("p1", TRUE)}

Ops == {"AND", "OR"}
Pairs == {expr_combine(op, a, b) : op \in Ops, a \in Leaves, b \in Leaves}
Trees == {expr_combine(op, a, b) : op \in Ops, a \in Leaves, b \in Pairs}

Few == {Cmp("x", "EQ", {0}, {0, 1}), Cmp("x", "GE", {0}, {0, 1}),
        Cmp("y", "NE", {}, {0, 1}), Cmp("t", "EQ", {}, {0}),
        CmpString("inport", "p1"), CmpString("inport", "unknown")}
FewPairs == {expr_combine(op, a, b) : op \in Ops, a \in Few, b \in Few}
BigTrees == {expr_combine(op, a, b) : op \in Ops, a \in FewPairs, b \in FewPairs}

\* Fields that are one of several values or ports.
In(cmps) ==
  FoldSet(LAMBDA c, acc : expr_combine("OR", acc, c), None, cmps)
SomeOf(f, values) ==
  {In({Cmp(f, "EQ", v, {0, 1}) : v \in S}) : S \in SUBSET values \ {{}}}
Ports == In({CmpString("inport", p) : p \in {"p1", "p2", "unknown"}})
Rows == LET xs == SomeOf("x", {{}, {0}, {1}})
            ys == SomeOf("y", {{}, {0}, {1}})
        IN {And(x, y) : x \in xs, y \in ys} \union {And(x, Ports) : x \in xs}
           \union xs \union ys

MCInputs == {{}} \union {{Lf(1, e)} : e \in Trees \union BigTrees}
            \union {{Lf(1, a), Lf(2, b)} : a \in Rows, b \in Rows}
\* Two rows only.
MCRows == {{}} \union {{Lf(1, a), Lf(2, b)} : a \in Rows, b \in Rows}
=============================================================================
