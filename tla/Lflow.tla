------------------------------- MODULE Lflow -------------------------------
(***************************************************************************)
(* controller/lflow.c: the pass in which ovn-controller translates the     *)
(* logical flows into the table of desired OpenFlow flows, and what Open   *)
(* vSwitch then does with a packet.  Expr has the translation of one       *)
(* match; here the flows of several logical flows meet in one table, whose *)
(* keys ofctrl_add_flow() keeps unique.                                    *)
(*                                                                         *)
(* The logical flows are those of one datapath that is local, one table    *)
(* and one priority: others never share a key.                             *)
(***************************************************************************)
EXTENDS Expr

CONSTANTS
  Inputs,            \* the sets of logical flows that there may be
  LocalPorts,        \* numbers of the ports in local_lport_ids
  Inport             \* the field that holds the ingress port

ASSUME InputsAssumption ==
  /\ Inport \in Symbols /\ Width[Inport] = 0
  /\ LocalPorts \subseteq Range(PortNumbers)

VARIABLES
  logical_flows,     \* the rows of the southbound database
  todo,              \* those that this pass has still to translate
  flow_table,        \* the desired flows
  conj_id_ofs,
  dropped            \* history: whether ofctrl_add_flow() dropped a flow in
                     \* favour of a clause of a conjunction

vars == <<logical_flows, todo, flow_table, conj_id_ofs, dropped>>

Init ==
  /\ logical_flows = {} /\ todo = {} /\ flow_table = {}
  /\ conj_id_ofs = 1 /\ dropped = FALSE

\* add_logical_flows() begins with an empty table and the rows of now.  (As
\* it keeps nothing of the pass before, the rows may as well be gone in
\* every other pass.)
lflow_run ==
  /\ todo = {}
  /\ IF logical_flows = {} THEN logical_flows' \in Inputs
     ELSE logical_flows' = {}
  /\ todo' = logical_flows'
  /\ flow_table' = {} /\ conj_id_ofs' = 1 /\ dropped' = FALSE

\* The match with the prerequisites of the actions, translated.
normalized(lflow) ==
  expr_normalize(expr_simplify(expr_annotate(
    expr_combine("AND", lflow.match, lflow.prereqs), TRUE)))

\* Mutant: each logical flow begins with the same conjunction ids.
NextOfs_same(n_conjs) == conj_id_ofs

NextOfs(n_conjs) == conj_id_ofs + n_conjs

\* The flow for a match: the actions are those of the logical flow, or the
\* conjunctions of which it is a clause.
OpenFlow(lflow, m) ==
  [match |-> m.match,
   conj_id |-> IF m.conj_id = 0 THEN 0 ELSE m.conj_id + conj_id_ofs,
   lflow |-> IF m.conjunctions = {} THEN lflow.uuid ELSE 0,
   conjunctions |-> {[c EXCEPT !.id = @ + conj_id_ofs] : c \in m.conjunctions}]

\* A port that is not on this chassis sends nothing here.
Elsewhere(m) == m.match[Inport] # Wildcard
                  /\ m.match[Inport].value \intersect LocalPorts = {}

SameKey(f, g) == f.match = g.match /\ f.conj_id = g.conj_id

\* A flow whose key is taken is dropped.
ofctrl_add_flow(new) ==
  LET dups == {f \in new : \E g \in flow_table : SameKey(f, g)}
      clauses == {g \in flow_table : g.conjunctions # {}}
  IN /\ flow_table' = flow_table \union (new \ dups)
     /\ dropped' = (dropped \/ \E f \in dups, g \in clauses : SameKey(f, g))

AddMatches(lflow, result) ==
  /\ ofctrl_add_flow({OpenFlow(lflow, m) :
                        m \in {m \in result.matches : ~ Elsewhere(m)}})
  /\ conj_id_ofs' = IF result.matches = {} THEN conj_id_ofs
                    ELSE NextOfs(result.n_conjs)

consider_logical_flow(lflow) ==
  /\ lflow \in todo /\ todo' = todo \ {lflow}
  /\ AddMatches(lflow, expr_to_matches(normalized(lflow)))
  /\ UNCHANGED logical_flows

Next == lflow_run \/ \E lflow \in todo : consider_logical_flow(lflow)

Spec == Init /\ [][Next]_vars

-----------------------------------------------------------------------------
(* Open vSwitch (external): a packet looks for a flow.  One that matches   *)
(* flows for every clause of a conjunction may also match its conj_id.     *)

Bits == UNION {{s} \X (0 .. Width[s] - 1) : s \in Symbols}
Packets ==
  {[s \in Symbols |-> IF Width[s] = 0 THEN {port}
                      ELSE {i \in 0 .. Width[s] - 1 : <<s, i>> \in ones}] :
     ones \in SUBSET Bits, port \in LocalPorts}

MatchesPacket(match, p) ==
  \A s \in Symbols : p[s] \intersect match[s].mask = match[s].value

\* The logical flows whose actions Open vSwitch may execute on the packet.
Applied(p) ==
  LET hit == {f \in flow_table : MatchesPacket(f.match, p)}
      clauses == UNION {f.conjunctions : f \in hit}
      ids == {c.id : c \in {c \in clauses :
                \A k \in 0 .. c.n_clauses - 1 : [c EXCEPT !.clause = k] \in clauses}}
  IN {f.lflow : f \in {f \in hit : /\ f.conjunctions = {}
                                   /\ f.conj_id \in {0} \union ids}}

-----------------------------------------------------------------------------
(* What the rows say. *)

Num(bits) == FoldSet(LAMBDA i, acc : 2^i + acc, 0, bits)

Relation(relop, a, b) ==
  CASE relop = "EQ" -> a = b [] relop = "NE" -> a # b
    [] relop = "LT" -> a < b [] relop = "LE" -> a <= b
    [] relop = "GT" -> a > b [] relop = "GE" -> a >= b

\* Whether the expression is true of the packet, each comparison only if the
\* prerequisites of its field are.
RECURSIVE Holds(_, _)
Holds(e, p) ==
  CASE e.type = "CMP" ->
         /\ IF Width[e.symbol] = 0
            THEN /\ e.string \in DOMAIN PortNumbers
                 /\ p[e.symbol] = {PortNumbers[e.string]}
            ELSE Relation(e.relop, Num(p[e.symbol] \intersect e.mask), Num(e.value))
         /\ Prereqs[e.symbol] # None => Holds(Prereqs[e.symbol], p)
    [] e.type = "AND" -> \A i \in DOMAIN e.andor : Holds(e.andor[i], p)
    [] e.type = "OR"  -> \E i \in DOMAIN e.andor : Holds(e.andor[i], p)
    [] e.type = "BOOLEAN" -> e.boolean
    [] e.type = "CONDITION" -> (e.string \in Resident) # e.not
    [] OTHER -> TRUE

Matching(p) == {lf.uuid : lf \in {lf \in logical_flows :
                                    Holds(lf.match, p) /\ Holds(lf.prereqs, p)}}

-----------------------------------------------------------------------------
(* Properties. *)

\* A clause is over one field, and an OR only has comparisons.
Clause(c) == /\ expr_get_unique_symbol(c) # "NULL"
             /\ c.type = "OR" => \A k \in Range(c.andor) : k.type = "CMP"

Conjunction(sub) ==
  LET clauses == Spliced("AND", sub)
  IN /\ sub.type \in {"CMP", "AND"}
     /\ \A i \in DOMAIN clauses : Clause(clauses[i])
     /\ \A i, j \in DOMAIN clauses :
          expr_get_unique_symbol(clauses[i]) = expr_get_unique_symbol(clauses[j])
            => i = j
     /\ \A c \in Range(clauses) :
          c.type = "OR" => expr_get_unique_symbol(c) \notin must_crossproduct

InNormalForm(e) ==
  e.type # "BOOLEAN" =>
    \A i \in DOMAIN Spliced("OR", e) : Conjunction(Spliced("OR", e)[i])

(* The comment on constrain_match() ("This will only work properly if 'm'  *)
(* doesn't already match on 'expr->cmp.symbol'") and the XXX in            *)
(* expr_is_normalized_and() ("should also check that no symbol is          *)
(* repeated"): whatever the match of a logical flow, expr_normalize()      *)
(* leaves an OR of ANDs of clauses over one field each, different fields   *)
(* in one AND, none of those that must not be in a conjunction.            *)
NormalForm ==
  \A lflow \in logical_flows : InNormalForm(normalized(lflow))

(* ovn-sb.xml on Logical_Flow (OVN looks for a row whose match "is true    *)
(* for the packet", and "drops the packet" if there is none), as far as    *)
(* consider_logical_flow() keeps to it: once a pass is through, no packet  *)
(* gets the actions of a row that does not match it; and one that a row    *)
(* matches gets those of a row that does, unless ofctrl_add_flow() dropped *)
(* a flow in favour of a clause that another row's conjunction has.        *)
PacketsMeetTheirFlow ==
  todo = {} =>
    \A p \in Packets :
      /\ Applied(p) \subseteq Matching(p)
      /\ Applied(p) = {} => Matching(p) = {} \/ dropped

(* The same without the exception, as ovn-sb.xml has it.                   *)
EveryPacketMeetsItsFlow ==
  todo = {} => \A p \in Packets : Applied(p) = {} => Matching(p) = {}
=============================================================================
