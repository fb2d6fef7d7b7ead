----------------------------- MODULE NbCfgProofs -----------------------------
(***************************************************************************)
(* hv_cfg tells the truth, for every number of ovn-northd and of chassis,  *)
(* every number of changes, failures, takeovers and crashes.               *)
(*                                                                         *)
(* An ovn-northd computes hv_cfg from a copy of the Chassis table that may *)
(* be old, and its transaction may execute much later, after another       *)
(* ovn-northd has taken over.  What makes it true all the same is that     *)
(* what a chassis has reached only grows: every report there is of a       *)
(* chassis that stayed, in the table, in a copy or in a transaction under  *)
(* way, is one it has reached.                                             *)
(*                                                                         *)
(* sb_cfg tells the truth as long as no southbound transaction has failed. *)
(* It is read from next_cfg and cur_cfg of the loop and not from the       *)
(* database, so the invariant follows a number through a northd: the       *)
(* northbound copy, the transaction to the southbound database, next_cfg,  *)
(* cur_cfg, the transaction back.  Each stands for contents that have been *)
(* written, or go with a transaction that has yet to be.                   *)
(***************************************************************************)
EXTENDS NbCfg, WellFoundedInduction, TLAPS

Reports == UNION {[S -> Nat] : S \in SUBSET Chassis}
NbGlobal == [nb_cfg : Nat, sb_cfg : Nat, hv_cfg : Nat]
Southbound == [nb_cfg : Nat, chassis : Reports]
Results == {"none", "TXN_SUCCESS", "TXN_TRY_AGAIN", "TXN_NOT_LOCKED"}
NbSets == UNION {[S -> Nat] : S \in SUBSET {"sb_cfg", "hv_cfg"}}
NorthdState ==
  [nb : NbGlobal, sb : Southbound, has_lock : BOOLEAN,
   nb_txn : {None} \union [set : NbSets, result : Results],
   sb_txn : {None} \union [set : [nb_cfg : Nat], result : Results],
   nb_skip : BOOLEAN, sb_skip : BOOLEAN, cur_cfg : Nat, next_cfg : Nat]

Shape ==
  /\ nb \in NbGlobal
  /\ sb \in Southbound
  /\ northd \in [Northds -> NorthdState]
  /\ installed \in [Chassis -> Nat]
  /\ reached \in [Chassis -> Nat]

\* Every report of chassis c, wherever it is, is at most r.
Bounded(c, r, nbv, sbv, ns) ==
  /\ nbv.hv_cfg <= r
  /\ c \in DOMAIN sbv.chassis
  /\ sbv.chassis[c] <= r
  /\ \A n \in Northds :
       /\ c \in DOMAIN ns[n].sb.chassis
       /\ ns[n].sb.chassis[c] <= r
       /\ ns[n].nb_txn # None /\ "hv_cfg" \in DOMAIN ns[n].nb_txn.set =>
            ns[n].nb_txn.set["hv_cfg"] <= r

\* The inductive invariant.
HvInv ==
  /\ Shape
  /\ stayed \subseteq Chassis
  /\ \A c \in stayed : /\ installed[c] <= reached[c]
                       /\ Bounded(c, reached[c], nb, sb, northd)

\* A set of numbers has a least element.
LEMMA Least ==
  ASSUME NEW S \in SUBSET Nat, S # {}
  PROVE  \E r \in S : \A s \in S : r <= s
<1>1. \E r \in S : \A s \in S : ~(<<s, r>> \in OpToRel(<, Nat))
  BY WFMin, NatLessThanWellFounded, Zenon
<1>2. \A s, r \in Nat : s < r => <<s, r>> \in OpToRel(<, Nat)
  BY DEF OpToRel
<1>3. PICK r \in S : \A s \in S : ~(<<s, r>> \in OpToRel(<, Nat))
  BY <1>1, Zenon
<1>4. \A s \in S : ~(s < r)
  BY <1>2, <1>3, Zenon
<1> QED
  BY <1>4

\* update_northbound_cfg() takes for hv_cfg at most what each chassis reports.
LEMMA HvCfgBound ==
  ASSUME NEW nbv \in NbGlobal, NEW sbv \in Southbound
  PROVE  /\ HvCfg(nbv, sbv) \in Nat
         /\ \A c \in DOMAIN sbv.chassis : HvCfg(nbv, sbv) <= sbv.chassis[c]
<1> DEFINE reports == {sbv.chassis[c] : c \in DOMAIN sbv.chassis}
           least == CHOOSE r \in reports : \A s \in reports : r <= s
<1>1. reports \in SUBSET Nat
  BY DEF Southbound, Reports
<1>2. nbv.nb_cfg \in Nat
  BY DEF NbGlobal
<1>3. CASE reports = {}
  <2>1. HvCfg(nbv, sbv) = nbv.nb_cfg
    BY <1>3 DEF HvCfg
  <2> QED BY <1>2, <1>3, <2>1
<1>4. CASE reports # {}
  <2>1. least \in reports /\ \A s \in reports : least <= s
    <3>1. \E r \in reports : \A s \in reports : r <= s
      BY <1>1, <1>4, Least, Zenon
    <3> HIDE DEF reports
    <3> QED BY <3>1
  <2>2. HvCfg(nbv, sbv) = Min2(nbv.nb_cfg, least)
    BY <1>4 DEF HvCfg
  <2>3. \A c \in DOMAIN sbv.chassis : sbv.chassis[c] \in reports
    OBVIOUS
  <2> HIDE DEF reports, least
  <2>4. least \in Nat /\ \A s \in reports : s \in Nat
    BY <1>1, <2>1
  <2>5. Min2(nbv.nb_cfg, least) \in Nat /\ Min2(nbv.nb_cfg, least) <= least
    BY <1>2, <2>4 DEF Min2
  <2>6. \A s \in reports : Min2(nbv.nb_cfg, least) <= s
    BY <2>1, <2>4, <2>5
  <2> QED BY <2>2, <2>3, <2>5, <2>6
<1> QED
  BY <1>3, <1>4

\* What update_northbound_cfg() sets.
LEMMA NorthboundWrites ==
  ASSUME NEW d \in NorthdState, NEW nbv \in NbGlobal, NEW sbv \in Southbound
  PROVE  LET w == update_northbound_cfg(d, nbv, sbv)
         IN  /\ w \in NbSets
             /\ "hv_cfg" \in DOMAIN w => w["hv_cfg"] = HvCfg(nbv, sbv)
<1> DEFINE to == [sb_cfg |-> IF SbCfg(d) = 0 THEN nbv.sb_cfg ELSE SbCfg(d),
                  hv_cfg |-> HvCfg(nbv, sbv)]
           fields == {g \in DOMAIN to : to[g] # nbv[g]}
           w == [f \in fields |-> to[f]]
<1>1. update_northbound_cfg(d, nbv, sbv) = w
  BY DEF update_northbound_cfg
<1>2. HvCfg(nbv, sbv) \in Nat
  BY HvCfgBound
<1>3. SbCfg(d) \in Nat /\ nbv.sb_cfg \in Nat
  BY DEF SbCfg, NorthdState, NbGlobal
<1>4. DOMAIN to = {"sb_cfg", "hv_cfg"}
  OBVIOUS
<1>5. to["hv_cfg"] = HvCfg(nbv, sbv) /\ \A f \in DOMAIN to : to[f] \in Nat
  BY <1>2, <1>3, <1>4
<1> HIDE DEF to
<1>6. fields \in SUBSET {"sb_cfg", "hv_cfg"}
  BY <1>4
<1>7. w \in [fields -> Nat]
  BY <1>5
<1>8. w \in NbSets
  BY <1>6, <1>7, Zenon DEF NbSets
<1>9. "hv_cfg" \in DOMAIN w => w["hv_cfg"] = HvCfg(nbv, sbv)
  BY <1>5
<1> QED
  BY <1>1, <1>8, <1>9

\* The start.
LEMMA InitHvInv == Init => HvInv
<1> SUFFICES ASSUME Init PROVE HvInv
  OBVIOUS
<1>1. nb = [nb_cfg |-> 0, sb_cfg |-> 0, hv_cfg |-> 0]
  BY DEF Init
<1>2. sb = [nb_cfg |-> 0, chassis |-> [c \in InitialChassis |-> 0]]
  BY DEF Init
<1>3. /\ installed = [c \in Chassis |-> 0]
      /\ reached = [c \in Chassis |-> 0]
      /\ stayed = InitialChassis
  BY DEF Init
<1>4. nb \in NbGlobal /\ sb \in Southbound
  <2>1. [c \in InitialChassis |-> 0] \in Reports
    BY NbCfgAssumption DEF Reports
  <2> QED BY <1>1, <1>2, <2>1 DEF NbGlobal, Southbound
<1>5. northd = [n \in Northds |-> Started(n = lock)]
  BY DEF Init
<1>6. \A b \in BOOLEAN : /\ Started(b) \in NorthdState
                         /\ Started(b).sb = sb
                         /\ Started(b).nb_txn = None
  BY <1>4 DEF Started, NorthdState
<1>7. \A n \in Northds : (n = lock) \in BOOLEAN
  OBVIOUS
<1>8. /\ northd \in [Northds -> NorthdState]
      /\ \A n \in Northds : northd[n].sb = sb /\ northd[n].nb_txn = None
  BY <1>5, <1>6, <1>7, Zenon
<1>9. Shape
  BY <1>3, <1>4, <1>8 DEF Shape
<1>10. ASSUME NEW c \in stayed PROVE Bounded(c, reached[c], nb, sb, northd)
  <2>1. c \in InitialChassis /\ c \in Chassis
    BY <1>3, NbCfgAssumption
  <2>2. sb.chassis[c] = 0 /\ reached[c] = 0 /\ nb.hv_cfg = 0 /\ c \in DOMAIN sb.chassis
    BY <1>1, <1>2, <1>3, <2>1
  <2> QED BY <1>8, <2>2 DEF Bounded
<1> QED
  BY <1>3, <1>9, <1>10, NbCfgAssumption DEF HvInv

\* A pass of the main loop of an ovn-northd, whatever news it has.
LEMMA PassHvInv ==
  ASSUME HvInv, NEW n \in Northds, NorthdPass(n)
  PROVE  HvInv'
<1>1. PICK rn \in BOOLEAN, rs \in BOOLEAN : Pass(n, rn, rs)
  BY DEF NorthdPass
<1> DEFINE d == northd[n]
           nbv == IF rn THEN nb ELSE d.nb
           sbv == IF rs THEN sb ELSE d.sb
           active == Active(d, rs, n)
           nbopen == MayOpen(d.nb_txn, d.nb_skip, rn)
           sbopen == MayOpen(d.sb_txn, d.sb_skip, rs)
           build == active /\ nbopen /\ sbopen
           sbw == IF build /\ sbv.nb_cfg # nbv.nb_cfg
                  THEN [nb_cfg |-> nbv.nb_cfg] ELSE <<>>
           nbw == IF active /\ nbopen
                  THEN update_northbound_cfg(d, nbv, sbv) ELSE <<>>
           e == [d EXCEPT !.next_cfg = IF build THEN nbv.nb_cfg ELSE @]
           nb_txn == Committing(d.nb_txn, nbopen, nbw, rn)
           sb_txn == Committing(d.sb_txn, sbopen, sbw, rs)
           unchanged == active /\ sbopen /\ sbw = <<>>
           cur == CurCfg(e, unchanged, rs)
           rec == [nb |-> nbv, sb |-> sbv, has_lock |-> active,
                   nb_txn |-> nb_txn, sb_txn |-> sb_txn,
                   nb_skip |-> Skip(d.nb_txn, d.nb_skip, rn),
                   sb_skip |-> Skip(d.sb_txn, d.sb_skip, rs),
                   next_cfg |-> e.next_cfg, cur_cfg |-> cur]
<1>2. northd' = [northd EXCEPT ![n] = rec]
  BY <1>1 DEF Pass
<1>3. UNCHANGED <<nb, sb, installed, stayed, reached>>
  BY DEF NorthdPass, db, ghosts
<1>4. /\ d \in NorthdState
      /\ nbv \in NbGlobal /\ sbv \in Southbound /\ sbv \in {sb, d.sb}
  BY DEF HvInv, Shape, NorthdState
<1>5. /\ active \in BOOLEAN
      /\ Skip(d.nb_txn, d.nb_skip, rn) \in BOOLEAN
      /\ Skip(d.sb_txn, d.sb_skip, rs) \in BOOLEAN
  BY <1>4, Zenon DEF Active, Skip, NorthdState
<1>6. \/ nb_txn \in {None, d.nb_txn}
      \/ nb_txn = Sent(update_northbound_cfg(d, nbv, sbv))
  BY DEF Committing
<1>7. sb_txn \in {None, d.sb_txn} \/ sb_txn = Sent([nb_cfg |-> nbv.nb_cfg])
  BY DEF Committing
<1>8. e.next_cfg \in Nat /\ cur \in Nat
  BY <1>4 DEF CurCfg, Succeeded, NorthdState, NbGlobal
<1> HIDE DEF d, nbv, sbv, active, nbopen, sbopen, nb_txn, sb_txn, unchanged, cur, e
<1>9. nb_txn \in {None} \union [set : NbSets, result : Results]
  <2>1. Sent(update_northbound_cfg(d, nbv, sbv)) \in [set : NbSets, result : Results]
    BY <1>4, NorthboundWrites DEF Sent, Results
  <2> QED BY <1>4, <1>6, <2>1 DEF NorthdState
<1>10. sb_txn \in {None} \union [set : [nb_cfg : Nat], result : Results]
  <2>1. Sent([nb_cfg |-> nbv.nb_cfg]) \in [set : [nb_cfg : Nat], result : Results]
    BY <1>4 DEF Sent, Results, NbGlobal
  <2> QED BY <1>4, <1>7, <2>1 DEF NorthdState
<1>11. rec \in NorthdState
  BY <1>4, <1>5, <1>8, <1>9, <1>10 DEF NorthdState
<1>12. rec.sb = sbv /\ rec.nb_txn = nb_txn
  OBVIOUS
<1> HIDE DEF rec
<1>13. northd' \in [Northds -> NorthdState] /\ northd'[n] = rec
       /\ \A m \in Northds \ {n} : northd'[m] = northd[m]
  BY <1>2, <1>11 DEF HvInv, Shape
<1>14. Shape'
  BY <1>3, <1>13 DEF HvInv, Shape
<1>15. ASSUME NEW c \in stayed PROVE Bounded(c, reached[c], nb, sb, northd')
  <2>1. Bounded(c, reached[c], nb, sb, northd) /\ reached[c] \in Nat
    BY DEF HvInv, Shape
  <2>2. c \in DOMAIN sbv.chassis /\ sbv.chassis[c] <= reached[c]
    BY <1>4, <2>1 DEF Bounded, d
  <2>3. ASSUME nb_txn # None, "hv_cfg" \in DOMAIN nb_txn.set
        PROVE  nb_txn.set["hv_cfg"] <= reached[c]
    <3>1. CASE nb_txn = d.nb_txn
      BY <2>1, <2>3, <3>1 DEF Bounded, d
    <3>2. CASE nb_txn = Sent(update_northbound_cfg(d, nbv, sbv))
      <4>1. nb_txn.set["hv_cfg"] = HvCfg(nbv, sbv)
        BY <1>4, <2>3, <3>2, NorthboundWrites DEF Sent
      <4>2. HvCfg(nbv, sbv) \in Nat /\ HvCfg(nbv, sbv) <= sbv.chassis[c]
        BY <1>4, <2>2, HvCfgBound
      <4>3. sbv.chassis[c] \in Nat
        BY <1>4, <2>2 DEF Southbound, Reports
      <4> QED BY <2>1, <2>2, <4>1, <4>2, <4>3
    <3> QED BY <1>6, <2>3, <3>1, <3>2
  <2> QED BY <1>12, <1>13, <2>1, <2>2, <2>3 DEF Bounded
<1> QED
  BY <1>3, <1>14, <1>15 DEF HvInv

\* The end of a process and the start of the next.
LEMMA CrashHvInv ==
  ASSUME HvInv, NEW n \in Northds, NorthdCrash(n)
  PROVE  HvInv'
<1> DEFINE rec == Started(lock' = n)
<1>1. northd' = [northd EXCEPT ![n] = rec]
  BY DEF NorthdCrash
<1>2. UNCHANGED <<nb, sb, installed, stayed, reached>>
  BY DEF NorthdCrash, ghosts
<1>3. rec \in NorthdState /\ rec.sb = sb /\ rec.nb_txn = None
  BY DEF Started, NorthdState, HvInv, Shape
<1> HIDE DEF rec
<1>4. northd' \in [Northds -> NorthdState] /\ northd'[n] = rec
       /\ \A m \in Northds \ {n} : northd'[m] = northd[m]
  BY <1>1, <1>3 DEF HvInv, Shape
<1>5. Shape'
  BY <1>2, <1>4 DEF HvInv, Shape
<1>6. ASSUME NEW c \in stayed PROVE Bounded(c, reached[c], nb, sb, northd')
  BY <1>3, <1>4 DEF HvInv, Bounded
<1> QED
  BY <1>2, <1>5, <1>6 DEF HvInv

\* The northbound database executes, or refuses, a transaction.
LEMMA NbExecuteHvInv ==
  ASSUME HvInv, NEW n \in Northds, NbExecute(n)
  PROVE  HvInv'
<1> DEFINE t == northd[n].nb_txn
           hv == IF "hv_cfg" \in DOMAIN t.set THEN t.set.hv_cfg ELSE nb.hv_cfg
           sbc == IF "sb_cfg" \in DOMAIN t.set THEN t.set.sb_cfg ELSE nb.sb_cfg
<1>1. t # None
  BY DEF NbExecute
<1>2. PICK r \in Results : northd' = [northd EXCEPT ![n].nb_txn.result = r]
  BY DEF NbExecute, NbResult, Results
<1>3. UNCHANGED <<sb, installed, stayed, reached>>
  BY DEF NbExecute, ghosts
<1>4. t \in [set : NbSets, result : Results]
  BY <1>1 DEF HvInv, Shape, NorthdState
<1>5. hv \in Nat /\ sbc \in Nat
  BY <1>4 DEF NbSets, HvInv, Shape, NbGlobal
<1>6. nb' = nb \/ nb' = [nb EXCEPT !.sb_cfg = sbc, !.hv_cfg = hv]
  BY DEF NbExecute
<1>7. nb' \in NbGlobal /\ nb'.hv_cfg \in {nb.hv_cfg, hv}
  <2> HIDE DEF hv, sbc
  <2> QED BY <1>5, <1>6, Zenon DEF HvInv, Shape, NbGlobal
<1>8. /\ northd' \in [Northds -> NorthdState]
      /\ northd'[n].sb = northd[n].sb
      /\ northd'[n].nb_txn = [t EXCEPT !.result = r]
      /\ \A m \in Northds \ {n} : northd'[m] = northd[m]
  <2> DEFINE d == northd[n]
             u == [t EXCEPT !.result = r]
             e == [d EXCEPT !.nb_txn = u]
  <2>1. northd \in [Northds -> NorthdState] /\ d \in NorthdState
    BY DEF HvInv, Shape
  <2>2. u \in [set : NbSets, result : Results]
    BY <1>4
  <2>3. northd' = [northd EXCEPT ![n] = e]
    BY <1>2, <2>1
  <2> HIDE DEF u
  <2>4. e \in NorthdState /\ e.sb = d.sb /\ e.nb_txn = u
    BY <2>1, <2>2, SMTT(30) DEF NorthdState
  <2> HIDE DEF e
  <2>5. /\ northd' \in [Northds -> NorthdState] /\ northd'[n] = e
        /\ \A m \in Northds \ {n} : northd'[m] = northd[m]
    BY <2>1, <2>3, <2>4
  <2> QED
    BY <2>4, <2>5, Zenon DEF u
<1>9. northd'[n].nb_txn.set = t.set
  BY <1>4, <1>8
<1>10. Shape'
  BY <1>3, <1>7, <1>8 DEF HvInv, Shape
<1>11. ASSUME NEW c \in stayed PROVE Bounded(c, reached[c], nb', sb, northd')
  <2>1. Bounded(c, reached[c], nb, sb, northd)
    BY DEF HvInv
  <2>2. nb'.hv_cfg <= reached[c]
    BY <1>1, <1>7, <2>1 DEF Bounded
  <2> QED BY <1>1, <1>8, <1>9, <2>1, <2>2, Zenon DEF Bounded
<1> QED
  BY <1>3, <1>10, <1>11 DEF HvInv

\* The southbound one.
LEMMA SbExecuteHvInv ==
  ASSUME HvInv, NEW n \in Northds, SbExecute(n)
  PROVE  HvInv'
<1> DEFINE t == northd[n].sb_txn
<1>1. t # None
  BY DEF SbExecute
<1>2. PICK r \in Results : northd' = [northd EXCEPT ![n].sb_txn.result = r]
  BY DEF SbExecute, SbResult, Results
<1>3. UNCHANGED <<nb, installed, stayed, reached>>
  BY DEF SbExecute
<1>4. t \in [set : [nb_cfg : Nat], result : Results]
  BY <1>1 DEF HvInv, Shape, NorthdState
<1>5. sb' = sb \/ sb' = [sb EXCEPT !.nb_cfg = t.set.nb_cfg]
  BY DEF SbExecute
<1>6. sb' \in Southbound /\ sb'.chassis = sb.chassis
  BY <1>4, <1>5 DEF HvInv, Shape, Southbound
<1>7. /\ northd' \in [Northds -> NorthdState]
      /\ northd'[n].sb = northd[n].sb /\ northd'[n].nb_txn = northd[n].nb_txn
      /\ \A m \in Northds \ {n} : northd'[m] = northd[m]
  BY <1>2, <1>4, SMTT(30) DEF HvInv, Shape, NorthdState
<1>8. Shape'
  BY <1>3, <1>6, <1>7 DEF HvInv, Shape
<1>9. ASSUME NEW c \in stayed PROVE Bounded(c, reached[c], nb, sb', northd')
  BY <1>6, <1>7 DEF HvInv, Bounded
<1> QED
  BY <1>3, <1>8, <1>9 DEF HvInv

\* A chassis: what it runs, reports, and its coming and going.
LEMMA ChassisHvInv ==
  ASSUME HvInv, NEW c \in Chassis,
         ChassisInstall(c) \/ ChassisReport(c) \/ ChassisJoin(c) \/ ChassisLeave(c)
  PROVE  HvInv'
<1> USE DEF HvInv, Shape
<1>1. CASE ChassisInstall(c)
  <2>1. /\ installed' = [installed EXCEPT ![c] = sb.nb_cfg]
        /\ reached' = [reached EXCEPT ![c] = IF sb.nb_cfg > @ THEN sb.nb_cfg ELSE @]
        /\ UNCHANGED <<nb, sb, northd, stayed>>
    BY <1>1 DEF ChassisInstall, db
  <2>2. sb.nb_cfg \in Nat
    BY DEF Southbound
  <2>3. installed' \in [Chassis -> Nat] /\ reached' \in [Chassis -> Nat]
    BY <2>1, <2>2
  <2>4. \A x \in stayed : reached[x] <= reached'[x] /\ installed'[x] <= reached'[x]
    BY <2>1, <2>2
  <2>5. ASSUME NEW x \in stayed PROVE Bounded(x, reached'[x], nb, sb, northd)
    <3>1. Bounded(x, reached[x], nb, sb, northd) /\ reached[x] \in Nat /\ reached'[x] \in Nat
      BY <2>3
    <3>2. nb.hv_cfg \in Nat /\ sb.chassis[x] \in Nat
      BY <3>1, SMTT(30) DEF NbGlobal, Southbound, Reports, Bounded
    <3>3. ASSUME NEW m \in Northds PROVE northd[m].sb.chassis[x] \in Nat
      BY <3>1 DEF NorthdState, Southbound, Reports, Bounded
    <3>4. ASSUME NEW m \in Northds, northd[m].nb_txn # None,
                 "hv_cfg" \in DOMAIN northd[m].nb_txn.set
          PROVE  northd[m].nb_txn.set["hv_cfg"] \in Nat
      <4>1. northd[m].nb_txn.set \in NbSets
        BY <3>4 DEF NorthdState
      <4> QED BY <3>4, <4>1 DEF NbSets
    <3>5. reached[x] <= reached'[x]
      BY <2>4
    <3> QED BY <3>1, <3>2, <3>3, <3>4, <3>5 DEF Bounded
  <2> QED BY <2>1, <2>3, <2>4, <2>5
<1>2. CASE ChassisReport(c)
  <2>1. /\ c \in DOMAIN sb.chassis
        /\ sb' = [sb EXCEPT !.chassis[c] = installed[c]]
        /\ UNCHANGED <<nb, northd, installed, stayed, reached>>
    BY <1>2 DEF ChassisReport, ghosts, Members
  <2>2. sb' \in Southbound /\ sb'.chassis = [sb.chassis EXCEPT ![c] = installed[c]]
    <3>1. [sb.chassis EXCEPT ![c] = installed[c]] \in Reports
      BY <2>1 DEF Southbound, Reports
    <3> QED BY <2>1, <3>1 DEF Southbound
  <2>3. ASSUME NEW x \in stayed PROVE Bounded(x, reached[x], nb, sb', northd)
    BY <2>1, <2>2 DEF Bounded, Southbound, Reports
  <2> QED BY <2>1, <2>2, <2>3
<1>3. CASE ChassisJoin(c)
  <2> DEFINE ch == [d \in Members \union {c} |-> IF d = c THEN 0 ELSE sb.chassis[d]]
  <2>1. /\ c \notin Members
        /\ sb' = [sb EXCEPT !.chassis = ch]
        /\ installed' = [installed EXCEPT ![c] = 0]
        /\ UNCHANGED <<nb, northd, stayed, reached>>
    BY <1>3 DEF ChassisJoin, ghosts
  <2>2. ch \in Reports
    <3>1. /\ Members \subseteq Chassis
          /\ \A d \in Members : sb.chassis[d] \in Nat
      BY DEF Members, Southbound, Reports
    <3>2. ch \in [(Members \union {c}) -> Nat] /\ (Members \union {c}) \in SUBSET Chassis
      BY <3>1
    <3> QED BY <3>2, Zenon DEF Reports
  <2>3. sb' \in Southbound /\ sb'.chassis = ch
    <3> HIDE DEF ch
    <3> QED BY <2>1, <2>2 DEF Southbound
  <2>4. \A x \in stayed : x \in Members /\ x # c
    BY <2>1 DEF Bounded, Members
  <2>5. ASSUME NEW x \in stayed PROVE Bounded(x, reached[x], nb, sb', northd)
    BY <2>3, <2>4 DEF Bounded
  <2> QED BY <2>1, <2>3, <2>4, <2>5, Zenon
<1>4. CASE ChassisLeave(c)
  <2> DEFINE ch == [d \in Members \ {c} |-> sb.chassis[d]]
  <2>1. /\ sb' = [sb EXCEPT !.chassis = ch]
        /\ stayed' = stayed \ {c}
        /\ UNCHANGED <<nb, northd, installed, reached>>
    BY <1>4 DEF ChassisLeave
  <2>2. ch \in Reports
    <3>1. /\ Members \subseteq Chassis
          /\ \A d \in Members : sb.chassis[d] \in Nat
      BY DEF Members, Southbound, Reports
    <3>2. ch \in [(Members \ {c}) -> Nat] /\ (Members \ {c}) \in SUBSET Chassis
      BY <3>1
    <3> QED BY <3>2, Zenon DEF Reports
  <2>3. sb' \in Southbound /\ sb'.chassis = ch
    <3> HIDE DEF ch
    <3> QED BY <2>1, <2>2 DEF Southbound
  <2>4. \A x \in stayed : x \in Members
    BY DEF Bounded, Members
  <2>5. ASSUME NEW x \in stayed \ {c} PROVE Bounded(x, reached[x], nb, sb', northd)
    BY <2>3, <2>4 DEF Bounded
  <2> QED BY <2>1, <2>3, <2>5, SMTT(30)
<1> QED
  BY <1>1, <1>2, <1>3, <1>4

\* Every step.
LEMMA NextHvInv == HvInv /\ [Next]_vars => HvInv'
<1> SUFFICES ASSUME HvInv, [Next]_vars PROVE HvInv'
  OBVIOUS
<1>1. CASE do_nbctl
  <2>1. /\ nb' = [nb EXCEPT !.nb_cfg = @ + 1]
        /\ UNCHANGED <<sb, northd, installed, stayed, reached>>
    BY <1>1 DEF do_nbctl, ghosts
  <2>2. nb' \in NbGlobal /\ nb'.hv_cfg = nb.hv_cfg
    BY <2>1 DEF HvInv, Shape, NbGlobal
  <2> QED BY <2>1, <2>2 DEF HvInv, Shape, Bounded
<1>2. CASE LockMoves
  BY <1>2 DEF LockMoves, ghosts, HvInv, Shape
<1>3. ASSUME NEW n \in Northds,
             NorthdPass(n) \/ NorthdCrash(n) \/ NbExecute(n) \/ SbExecute(n)
      PROVE  HvInv'
  BY <1>3, PassHvInv, CrashHvInv, NbExecuteHvInv, SbExecuteHvInv
<1>4. ASSUME NEW c \in Chassis,
             \/ ChassisInstall(c) \/ ChassisReport(c)
             \/ ChassisJoin(c) \/ ChassisLeave(c)
      PROVE  HvInv'
  BY <1>4, ChassisHvInv
<1>5. CASE UNCHANGED vars
  BY <1>5 DEF vars, HvInv, Shape
<1> QED
  BY <1>1, <1>2, <1>3, <1>4, <1>5 DEF Next

\* What "ovn-nbctl --wait=hv" waits for has happened on every chassis that
\* was there all the time: update_northbound_cfg() never claims more than a
\* chassis has installed, whichever ovn-northd writes it, from whatever old
\* copies, before or after it lost the lock.
THEOREM HvCfgIsTrue == Spec => []HvCfgTrue
<1>1. HvInv => HvCfgTrue
  BY DEF HvInv, Bounded, HvCfgTrue
<1> QED
  BY <1>1, InitHvInv, NextHvInv, PTL DEF Spec

-----------------------------------------------------------------------------
(* sb_cfg, as long as no southbound transaction has failed *)

\* What one ovn-northd knows or has under way was written, at most w: its copy
\* of SB_Global, cur_cfg, the sb_cfg it is about to report, and next_cfg unless
\* the transaction that carries it is still without result.
Behind(d, w) ==
  /\ d.sb.nb_cfg <= w
  /\ d.cur_cfg <= w
  /\ d.nb_txn # None /\ "sb_cfg" \in DOMAIN d.nb_txn.set =>
       d.nb_txn.set["sb_cfg"] <= w
  /\ d.sb_txn = None => d.next_cfg <= w
  /\ d.sb_txn # None =>
       /\ d.sb_txn.set.nb_cfg = d.next_cfg
       /\ \/ d.sb_txn.result = "none"
          \/ d.sb_txn.result = "TXN_SUCCESS" /\ d.next_cfg <= w

\* The inductive invariant, beside HvInv.
SbInv ==
  /\ written \in Nat
  /\ failed \/ /\ nb.sb_cfg <= written
               /\ sb.nb_cfg <= written
               /\ \A n \in Northds : Behind(northd[n], written)

\* What has been written only grows.
LEMMA BehindGrows ==
  ASSUME NEW d \in NorthdState, NEW w \in Nat, NEW v \in Nat, w <= v, Behind(d, w)
  PROVE  Behind(d, v)
<1>1. /\ d.sb.nb_cfg \in Nat /\ d.cur_cfg \in Nat /\ d.next_cfg \in Nat
      /\ d.nb_txn # None => d.nb_txn.set \in NbSets
  BY DEF NorthdState, Southbound
<1>2. d.nb_txn # None /\ "sb_cfg" \in DOMAIN d.nb_txn.set =>
        d.nb_txn.set["sb_cfg"] \in Nat
  BY <1>1 DEF NbSets
<1> QED
  BY <1>1, <1>2 DEF Behind

\* update_northbound_cfg() reports no other sb_cfg than cur_cfg.
LEMMA SbCfgWritten ==
  ASSUME NEW d \in NorthdState, NEW nbv \in NbGlobal, NEW sbv \in Southbound
  PROVE  LET w == update_northbound_cfg(d, nbv, sbv)
         IN  "sb_cfg" \in DOMAIN w => w["sb_cfg"] = d.cur_cfg
<1> DEFINE to == [sb_cfg |-> IF SbCfg(d) = 0 THEN nbv.sb_cfg ELSE SbCfg(d),
                  hv_cfg |-> HvCfg(nbv, sbv)]
           fields == {g \in DOMAIN to : to[g] # nbv[g]}
           w == [f \in fields |-> to[f]]
<1>1. update_northbound_cfg(d, nbv, sbv) = w
  BY DEF update_northbound_cfg
<1>2. to["sb_cfg"] = nbv["sb_cfg"] \/ to["sb_cfg"] = d.cur_cfg
  BY DEF SbCfg
<1> HIDE DEF to
<1>3. "sb_cfg" \in DOMAIN w => w["sb_cfg"] = d.cur_cfg
  BY <1>2
<1> QED
  BY <1>1, <1>3

\* A pass: next_cfg moves only while no transaction is under way, and cur_cfg
\* follows it only when the southbound database holds it or has confirmed it.
LEMMA PassSbInv ==
  ASSUME HvInv, SbInv, NEW n \in Northds, NorthdPass(n)
  PROVE  SbInv'
<1>1. PICK rn \in BOOLEAN, rs \in BOOLEAN : Pass(n, rn, rs)
  BY SMTT(30) DEF NorthdPass
<1> DEFINE d == northd[n]
           nbv == IF rn THEN nb ELSE d.nb
           sbv == IF rs THEN sb ELSE d.sb
           active == Active(d, rs, n)
           nbopen == MayOpen(d.nb_txn, d.nb_skip, rn)
           sbopen == MayOpen(d.sb_txn, d.sb_skip, rs)
           build == active /\ nbopen /\ sbopen
           sbw == IF build /\ sbv.nb_cfg # nbv.nb_cfg
                  THEN [nb_cfg |-> nbv.nb_cfg] ELSE <<>>
           nbw == IF active /\ nbopen
                  THEN update_northbound_cfg(d, nbv, sbv) ELSE <<>>
           next == IF build THEN nbv.nb_cfg ELSE d.next_cfg
           e == [d EXCEPT !.next_cfg = IF build THEN nbv.nb_cfg ELSE @]
           nb_txn == Committing(d.nb_txn, nbopen, nbw, rn)
           sb_txn == Committing(d.sb_txn, sbopen, sbw, rs)
           unchanged == active /\ sbopen /\ sbw = <<>>
           cur == CurCfg(e, unchanged, rs)
           rec == [nb |-> nbv, sb |-> sbv, has_lock |-> active,
                   nb_txn |-> nb_txn, sb_txn |-> sb_txn,
                   nb_skip |-> Skip(d.nb_txn, d.nb_skip, rn),
                   sb_skip |-> Skip(d.sb_txn, d.sb_skip, rs),
                   next_cfg |-> e.next_cfg, cur_cfg |-> cur]
<1>2. /\ northd' = [northd EXCEPT ![n] = rec]
      /\ UNCHANGED <<nb, sb, written, failed>>
  BY <1>1, Zenon DEF Pass, NorthdPass, db, ghosts
<1> SUFFICES ASSUME ~failed PROVE Behind(rec, written)
  <2> HIDE DEF rec
  <2> QED BY <1>2 DEF SbInv, HvInv, Shape
<1>3. /\ d \in NorthdState /\ Behind(d, written) /\ sb.nb_cfg <= written
      /\ nbv \in NbGlobal /\ sbv \in Southbound /\ sbv \in {sb, d.sb}
  BY DEF HvInv, Shape, NorthdState, SbInv
<1>4. /\ sbv.nb_cfg <= written
      /\ sbv.nb_cfg \in Nat /\ nbv.nb_cfg \in Nat /\ d.next_cfg \in Nat
      /\ d.cur_cfg \in Nat /\ written \in Nat
  BY <1>3 DEF Behind, SbInv, Southbound, NbGlobal, NorthdState
<1>5. /\ e.next_cfg = next /\ e.sb_txn = d.sb_txn /\ e.cur_cfg = d.cur_cfg
      /\ next \in Nat
  BY <1>3, <1>4 DEF NorthdState
<1>6. sbopen => d.sb_txn = None
  BY SMTT(30) DEF MayOpen
<1>7. sbw # <<>> <=> build /\ sbv.nb_cfg # nbv.nb_cfg
  <2>1. DOMAIN [nb_cfg |-> nbv.nb_cfg] # DOMAIN <<>>
    BY SMTT(30)
  <2> QED BY <2>1
<1>8. \/ d.sb_txn = None /\ sbw # <<>> /\ build /\ sb_txn = Sent([nb_cfg |-> nbv.nb_cfg])
      \/ d.sb_txn = None /\ sbw = <<>> /\ sb_txn = None
      \/ d.sb_txn # None /\ ~sbopen /\ sb_txn = d.sb_txn
      \/ d.sb_txn # None /\ ~sbopen /\ sb_txn = None /\ d.sb_txn.result # "none"
  BY <1>6, <1>7 DEF Committing
<1>9. \/ nb_txn \in {None, d.nb_txn}
      \/ nb_txn = Sent(update_northbound_cfg(d, nbv, sbv))
  BY SMTT(30) DEF Committing
<1>10. \/ cur = d.cur_cfg
       \/ cur = next /\ d.sb_txn = None /\ sbw = <<>>
       \/ cur = next /\ ~sbopen /\ d.sb_txn # None /\ d.sb_txn.result = "TXN_SUCCESS"
  BY <1>5, <1>6, SMTT(30) DEF CurCfg, Succeeded
<1>11. d.sb_txn = None /\ sbw = <<>> => next <= written
  <2>1. d.sb_txn = None => d.next_cfg <= written
    BY <1>3 DEF Behind
  <2> QED BY <1>4, <1>7, <2>1
<1>12. ~sbopen => next = d.next_cfg
  OBVIOUS
<1>13. /\ rec.sb = sbv /\ rec.cur_cfg = cur /\ rec.nb_txn = nb_txn
       /\ rec.sb_txn = sb_txn /\ rec.next_cfg = next
  BY <1>5
<1>14. build => next = nbv.nb_cfg
  OBVIOUS
<1> HIDE DEF d, nbv, sbv, active, nbopen, sbopen, build, sbw, nbw, next, e,
             nb_txn, sb_txn, unchanged, cur, rec
<1>15. cur <= written
  <2>1. d.sb_txn # None /\ d.sb_txn.result = "TXN_SUCCESS" => d.next_cfg <= written
    BY <1>3 DEF Behind
  <2> QED BY <1>3, <1>10, <1>11, <1>12, <2>1 DEF Behind
<1>16. ASSUME nb_txn # None, "sb_cfg" \in DOMAIN nb_txn.set
       PROVE  nb_txn.set["sb_cfg"] <= written
  <2>1. CASE nb_txn = d.nb_txn
    BY <1>3, <1>16, <2>1 DEF Behind
  <2>2. CASE nb_txn = Sent(update_northbound_cfg(d, nbv, sbv))
    <3>1. nb_txn.set["sb_cfg"] = d.cur_cfg
      BY <1>3, <1>16, <2>2, SbCfgWritten DEF Sent
    <3> QED BY <1>3, <3>1 DEF Behind
  <2> QED BY <1>9, <1>16, <2>1, <2>2
<1>17. sb_txn = None => next <= written
  <2>1. d.sb_txn # None /\ d.sb_txn.result # "none" => d.next_cfg <= written
    BY <1>3 DEF Behind
  <2>2. Sent([nb_cfg |-> nbv.nb_cfg]) # None
    BY <1>4, NbCfgAssumption DEF Sent
  <2> QED BY <1>8, <1>11, <1>12, <2>1, <2>2
<1>18. sb_txn # None =>
         /\ sb_txn.set.nb_cfg = next
         /\ \/ sb_txn.result = "none"
            \/ sb_txn.result = "TXN_SUCCESS" /\ next <= written
  <2>1. CASE sb_txn = Sent([nb_cfg |-> nbv.nb_cfg]) /\ build
    BY <1>14, <2>1 DEF Sent
  <2>2. CASE sb_txn = d.sb_txn /\ ~sbopen
    BY <1>3, <1>12, <2>2 DEF Behind
  <2> QED BY <1>8, <2>1, <2>2
<1> QED
  BY <1>4, <1>13, <1>15, <1>16, <1>17, <1>18 DEF Behind

\* The other steps of an ovn-northd and of the servers.
LEMMA ServerSbInv ==
  ASSUME HvInv, SbInv, NEW n \in Northds,
         NorthdCrash(n) \/ NbExecute(n) \/ SbExecute(n)
  PROVE  SbInv'
<1> DEFINE d == northd[n]
<1>0. /\ d \in NorthdState /\ northd \in [Northds -> NorthdState]
      /\ sb.nb_cfg \in Nat /\ nb.sb_cfg \in Nat /\ written \in Nat
  BY DEF HvInv, Shape, Southbound, NbGlobal, SbInv
<1>1. CASE NorthdCrash(n)
  <2>1. /\ northd' = [northd EXCEPT ![n] = Started(lock' = n)]
        /\ UNCHANGED <<nb, sb, written, failed>>
    BY <1>1 DEF NorthdCrash, ghosts
  <2> DEFINE e == Started(lock' = n)
  <2>3. /\ e.sb = sb /\ e.cur_cfg = 0 /\ e.next_cfg = 0
        /\ e.nb_txn = None /\ e.sb_txn = None
    BY DEF Started
  <2>4. 0 <= written /\ (~failed => sb.nb_cfg <= written)
    BY <1>0 DEF SbInv
  <2> HIDE DEF e
  <2>5. ~failed => Behind(e, written)
    BY <2>3, <2>4, Zenon DEF Behind
  <2>2. ~failed => Behind(Started(lock' = n), written)
    BY <2>5 DEF e
  <2> QED BY <1>0, <2>1, <2>2 DEF SbInv
<1>2. CASE NbExecute(n)
  <2> DEFINE t == d.nb_txn
             sbc == IF "sb_cfg" \in DOMAIN t.set THEN t.set.sb_cfg ELSE nb.sb_cfg
             hv == IF "hv_cfg" \in DOMAIN t.set THEN t.set.hv_cfg ELSE nb.hv_cfg
  <2>1. t # None /\ UNCHANGED <<sb, written, failed>>
    BY <1>2, SMTT(30) DEF NbExecute, ghosts
  <2>2. PICK r \in Results : northd' = [northd EXCEPT ![n].nb_txn.result = r]
    BY <1>2 DEF NbExecute, NbResult, Results
  <2>3. nb' = nb \/ nb' = [nb EXCEPT !.sb_cfg = sbc, !.hv_cfg = hv]
    BY <1>2 DEF NbExecute
  <2>4. nb'.sb_cfg \in {nb.sb_cfg, sbc}
    <3> HIDE DEF sbc, hv
    <3> QED BY <2>3, Zenon DEF HvInv, Shape, NbGlobal
  <2>5. t \in [set : NbSets, result : Results]
    BY <1>0, <2>1 DEF NorthdState
  <2>6. /\ northd'[n] = [d EXCEPT !.nb_txn = [t EXCEPT !.result = r]]
        /\ \A m \in Northds \ {n} : northd'[m] = northd[m]
    BY <1>0, <2>2
  <2>7. /\ northd'[n].sb = d.sb /\ northd'[n].cur_cfg = d.cur_cfg
        /\ northd'[n].sb_txn = d.sb_txn /\ northd'[n].next_cfg = d.next_cfg
        /\ northd'[n].nb_txn.set = t.set
    BY <1>0, <2>5, <2>6 DEF NorthdState
  <2>8. ~failed => Behind(northd'[n], written) /\ nb'.sb_cfg <= written
    BY <1>0, <2>1, <2>4, <2>7 DEF Behind, SbInv
  <2> QED BY <1>0, <2>1, <2>6, <2>8 DEF SbInv
<1>3. CASE SbExecute(n)
  <2> DEFINE t == d.sb_txn
  <2>1. t # None /\ UNCHANGED nb
    BY <1>3, SMTT(30) DEF SbExecute
  <2>2. t \in [set : [nb_cfg : Nat], result : Results]
    BY <1>0, <2>1 DEF NorthdState
  <2>3. written' \in Nat /\ written <= written'
    BY <1>0, <1>3, <2>2, SMTT(30) DEF SbExecute
  <2>4. \/ failed'
        \/ /\ UNCHANGED failed
           /\ sb' = [sb EXCEPT !.nb_cfg = t.set.nb_cfg]
           /\ t.set.nb_cfg <= written'
           /\ northd' = [northd EXCEPT ![n].sb_txn.result = "TXN_SUCCESS"]
    BY <1>0, <1>3, <2>2 DEF SbExecute, SbResult
  <2> SUFFICES ASSUME ~failed'
               PROVE  /\ nb'.sb_cfg <= written' /\ sb'.nb_cfg <= written'
                      /\ \A m \in Northds : Behind(northd'[m], written')
    BY <2>3 DEF SbInv
  <2>5. ~failed
    BY <2>4
  <2>6. nb'.sb_cfg <= written'
    BY <1>0, <2>1, <2>3, <2>5 DEF SbInv
  <2>7. sb'.nb_cfg <= written'
    BY <2>4 DEF HvInv, Shape, Southbound
  <2>8. ASSUME NEW m \in Northds PROVE Behind(northd[m], written')
    BY <1>0, <2>3, <2>5, BehindGrows DEF SbInv
  <2>9. /\ northd'[n].sb = d.sb /\ northd'[n].cur_cfg = d.cur_cfg
        /\ northd'[n].nb_txn = d.nb_txn /\ northd'[n].next_cfg = d.next_cfg
        /\ northd'[n].sb_txn = [t EXCEPT !.result = "TXN_SUCCESS"]
        /\ \A m \in Northds \ {n} : northd'[m] = northd[m]
    BY <1>0, <2>4 DEF NorthdState
  <2>10. /\ northd'[n].sb_txn.set = t.set
         /\ northd'[n].sb_txn.result = "TXN_SUCCESS"
    BY <2>2, <2>9
  <2>11. Behind(northd'[n], written')
    BY <2>1, <2>4, <2>8, <2>9, <2>10 DEF Behind
  <2> QED BY <2>6, <2>7, <2>8, <2>9, <2>11
<1> QED
  BY <1>1, <1>2, <1>3

\* Every step.
LEMMA NextSbInv == HvInv /\ SbInv /\ [Next]_vars => SbInv'
<1> SUFFICES ASSUME HvInv, SbInv, [Next]_vars PROVE SbInv'
  OBVIOUS
<1>1. CASE do_nbctl
  <2>1. nb' = [nb EXCEPT !.nb_cfg = @ + 1] /\ UNCHANGED <<sb, northd, written, failed>>
    BY <1>1 DEF do_nbctl, ghosts
  <2>2. nb'.sb_cfg = nb.sb_cfg
    BY <2>1 DEF HvInv, Shape, NbGlobal
  <2> QED BY <2>1, <2>2 DEF SbInv
<1>2. CASE LockMoves
  BY <1>2 DEF LockMoves, ghosts, SbInv
<1>3. ASSUME NEW n \in Northds,
             NorthdPass(n) \/ NorthdCrash(n) \/ NbExecute(n) \/ SbExecute(n)
      PROVE  SbInv'
  BY <1>3, PassSbInv, ServerSbInv
<1>4. ASSUME NEW c \in Chassis,
             \/ ChassisInstall(c) \/ ChassisReport(c)
             \/ ChassisJoin(c) \/ ChassisLeave(c)
      PROVE  SbInv'
  <2>1. /\ UNCHANGED <<nb, northd, written, failed>>
        /\ \/ UNCHANGED sb
           \/ sb' = [sb EXCEPT !.chassis[c] = installed[c]]
           \/ \E ch : sb' = [sb EXCEPT !.chassis = ch]
    BY <1>4 DEF ChassisInstall, ChassisReport, ChassisJoin, ChassisLeave, db, ghosts
  <2>2. sb'.nb_cfg = sb.nb_cfg
    BY <2>1 DEF HvInv, Shape, Southbound
  <2> QED BY <2>1, <2>2 DEF SbInv
<1>5. CASE UNCHANGED vars
  BY <1>5 DEF vars, SbInv
<1> QED
  BY <1>1, <1>2, <1>3, <1>4, <1>5 DEF Next

\* What "ovn-nbctl --wait=sb" waits for has been in the southbound database,
\* as long as no southbound transaction has failed or seemed to: the pairing of
\* cur_cfg and next_cfg in ovsdb_idl_loop_commit_and_wait() is right then, for
\* any number of ovn-northd, restarts and northbound failures.
THEOREM SbCfgIsTrue == Spec => []SbCfgTrueUnlessFailed
<1>1. Init => SbInv
  <2> SUFFICES ASSUME Init PROVE SbInv
    OBVIOUS
  <2>1. /\ nb.sb_cfg = 0 /\ sb.nb_cfg = 0 /\ written = 0
        /\ northd = [n \in Northds |-> Started(n = lock)]
    BY DEF Init
  <2>2. \A n \in Northds : Behind(northd[n], written)
    BY <2>1 DEF Behind, Started
  <2> QED BY <2>1, <2>2 DEF SbInv
<1>2. SbInv => SbCfgTrueUnlessFailed
  BY DEF SbInv, SbCfgTrueUnlessFailed, SbCfgTrue
<1> QED
  BY <1>1, <1>2, InitHvInv, NextHvInv, NextSbInv, PTL DEF Spec
=============================================================================
