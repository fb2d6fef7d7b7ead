----------------------------- MODULE MCCtZones -----------------------------
(***************************************************************************)
(* Instances of CtZones for TLC.  With three users of two zones, the zones *)
(* run out, and pass from one user to another while the others keep        *)
(* theirs.  Two users suffice for what a restart can make of the record:   *)
(* one whose record is stale, and one that got its zone since.  The        *)
(* starts that differ only in the names of the users are left out.         *)
(***************************************************************************)
EXTENDS CtZones, TLC

RouterKeys == {"lp1", "lr_dnat", "lr_snat"}
LifeInit   == Init /\ external_ids \in {<<>>, "lp1" :> 1 @@ "lr_dnat" :> 2}
MCLifeSpec == LifeInit /\ [][LifeNext]_vars

TwoPorts == {"lp1", "lp2"}
RestartInit ==
  Init /\ external_ids \in {<<>>, "lp1" :> 1, "lp1" :> 1 @@ "lp2" :> 2}
MCFairSpec == RestartInit /\ [][Next]_vars /\ Fairness
=============================================================================
