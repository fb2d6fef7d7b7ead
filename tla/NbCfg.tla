------------------------------- MODULE NbCfg -------------------------------
(***************************************************************************)
(* The sequence numbers with which "ovn-nbctl --wait" learns that a change *)
(* has taken effect: ovn-nbctl increments nb_cfg with its change, an       *)
(* ovn-northd translates the northbound database into the southbound one   *)
(* and reports sb_cfg, every ovn-controller installs what it finds there   *)
(* and reports in its Chassis row, ovn-northd reports the minimum as       *)
(* hv_cfg.                                                                 *)
(*                                                                         *)
(* The databases are asynchronous: a client works on a copy that lags, has *)
(* at most one transaction under way (struct ovsdb_idl_loop), and may find *)
(* it failed, or believe so.  Several ovn-northd compete for a lock of the *)
(* southbound database.  The contents of a database are identified with    *)
(* the sequence number that is written along with them.                    *)
(***************************************************************************)
EXTENDS Naturals, FiniteSets

CONSTANTS
  Northds, Chassis,
  None,
  InitialChassis,     \* the chassis that are registered at the start
  Loads               \* bounds, one of which holds in a behaviour: on the
                      \* changes to the northbound database, the failures of
                      \* transactions, the losses of the lock, the crashes, the
                      \* chassis that come or go; and the ovn-northd that run

ASSUME NbCfgAssumption ==
  /\ None \notin Northds
  /\ None \notin [set : [nb_cfg : Nat], result : {"none"}]   \* no transaction
  /\ InitialChassis \subseteq Chassis
  /\ \A l \in Loads :
       /\ {l.cfg, l.nb_failures, l.sb_failures, l.takeovers, l.crashes,
           l.chassis} \subseteq Nat
       /\ l.northds \subseteq Northds /\ l.northds # {}

VARIABLES
  nb,        \* NB_Global: nb_cfg, sb_cfg, hv_cfg
  sb,        \* SB_Global's nb_cfg; the Chassis table, its nb_cfg column
  lock,      \* the owner of the lock "ovn_northd"
  northd,    \* each ovn-northd
  awake,     \* those that called poll_immediate_wake() in their last pass
  installed, \* the configuration that each chassis runs
  stayed,    \* history: the chassis that were there all the time
  reached,   \* history: the highest configuration that each of them ran
  written,   \* history: the highest one that the southbound database had
  failed,    \* history: a southbound transaction has failed, or seemed to
  untold,    \* history: the ovn-northd whose cur_cfg is from an empty
             \* transaction, and later than their update_northbound_cfg()
  load       \* what is left of the bounds

vars == <<nb, sb, lock, northd, awake, installed, stayed, reached, written, failed,
          untold, load>>
db == <<nb, sb, lock>>
loops == <<awake, untold>>
ghosts == <<stayed, reached, written, failed>>

Running == load.northds
Members == DOMAIN sb.chassis

\* A transaction under way: what it sets, and its result once it has one.
Sent(w) == [set |-> w, result |-> "none"]

\* The state of an ovn-northd that has read both databases and has not run.
Started(has_lock) ==
  [nb |-> nb, sb |-> sb, has_lock |-> has_lock,
   nb_txn |-> None, sb_txn |-> None, nb_skip |-> FALSE, sb_skip |-> FALSE,
   cur_cfg |-> 0, next_cfg |-> 0]

Init ==
  /\ nb = [nb_cfg |-> 0, sb_cfg |-> 0, hv_cfg |-> 0]
  /\ sb = [nb_cfg |-> 0, chassis |-> [c \in InitialChassis |-> 0]]
  /\ load \in Loads
  /\ lock = CHOOSE n \in load.northds : TRUE
  /\ northd = [n \in Northds |-> Started(n = lock)]
  /\ installed = [c \in Chassis |-> 0] /\ reached = installed
  /\ stayed = InitialChassis
  /\ written = 0 /\ failed = FALSE
  /\ awake = Northds /\ untold = {}

Use(b) == load[b] > 0 /\ load' = [load EXCEPT ![b] = @ - 1]

-----------------------------------------------------------------------------
(* ovn-nbctl *)

\* do_nbctl(): the change is committed with the increment of nb_cfg.
do_nbctl ==
  /\ Use("cfg")
  /\ nb' = [nb EXCEPT !.nb_cfg = @ + 1]
  /\ UNCHANGED <<sb, lock, northd, loops, installed, ghosts>>

-----------------------------------------------------------------------------
(* ovn-northd *)

Min2(a, b) == IF a < b THEN a ELSE b

\* Mutant: a chassis that has not reported yet does not count.
HvCfgOfReporters(nbv, sbv) ==
  LET reports == {sbv.chassis[c] : c \in DOMAIN sbv.chassis} \ {0}
  IN IF reports = {} THEN nbv.nb_cfg
     ELSE Min2(nbv.nb_cfg, CHOOSE r \in reports : \A s \in reports : r <= s)

\* The minimum of nb_cfg over all chassis
HvCfg(nbv, sbv) ==
  LET reports == {sbv.chassis[c] : c \in DOMAIN sbv.chassis}
  IN IF reports = {} THEN nbv.nb_cfg
     ELSE Min2(nbv.nb_cfg, CHOOSE r \in reports : \A s \in reports : r <= s)

\* Mutant: what is being written is reported as written.
SbCfgEarly(d) == d.next_cfg

SbCfg(d) == d.cur_cfg

\* update_northbound_cfg(): the columns that it sets
update_northbound_cfg(d, nbv, sbv) ==
  LET to == [sb_cfg |-> IF SbCfg(d) = 0 THEN nbv.sb_cfg ELSE SbCfg(d),
             hv_cfg |-> HvCfg(nbv, sbv)]
  IN [f \in {g \in DOMAIN to : to[g] # nbv[g]} |-> to[f]]

\* ovsdb_idl_loop_run(): a transaction opens unless one is under way, or the
\* last one failed on contents that are still the same.
MayOpen(txn, skip, refreshed) == txn = None /\ ~(skip /\ ~refreshed)

\* The pass learns that its transaction has succeeded.
Succeeded(txn, refreshed) == txn # None /\ refreshed /\ txn.result = "TXN_SUCCESS"

\* Mutant: a pass that has nothing to write does not count as applied.
CurCfgOnSuccess(d, unchanged, refreshed) ==
  IF Succeeded(d.sb_txn, refreshed) THEN d.next_cfg ELSE d.cur_cfg

\* ovsdb_idl_loop_commit_and_wait(): what becomes of cur_cfg.  'unchanged' is
\* TXN_UNCHANGED, the result of an empty transaction of the lock's owner.
CurCfg(d, unchanged, refreshed) ==
  IF \/ unchanged
     \/ Succeeded(d.sb_txn, refreshed)
  THEN d.next_cfg ELSE d.cur_cfg

\* The transaction under way after ovsdb_idl_loop_commit_and_wait()
Committing(txn, open, w, refreshed) ==
  CASE open /\ w # <<>>                                    -> Sent(w)
    [] txn # None /\ refreshed /\ txn.result # "none"      -> None
    [] OTHER                                               -> txn

Skip(txn, skip, refreshed) ==
  \/ txn # None /\ refreshed /\ txn.result = "TXN_TRY_AGAIN"
  \/ skip /\ ~refreshed

\* Whether this ovn-northd believes that it has the lock
Active(d, refreshed, n) == IF refreshed THEN lock = n ELSE d.has_lock

\* One pass of the main loop.  'rn' and 'rs' say whether news of the two
\* databases have arrived: contents, results and the lock.
Pass(n, rn, rs) ==
  LET d      == northd[n]
      nbv    == IF rn THEN nb ELSE d.nb
      sbv    == IF rs THEN sb ELSE d.sb
      active == Active(d, rs, n)
      nbopen == MayOpen(d.nb_txn, d.nb_skip, rn)
      sbopen == MayOpen(d.sb_txn, d.sb_skip, rs)
      build  == active /\ nbopen /\ sbopen       \* ovnnb_db_run() goes on
      sbw    == IF build /\ sbv.nb_cfg # nbv.nb_cfg
                THEN [nb_cfg |-> nbv.nb_cfg] ELSE <<>>
      nbw    == IF active /\ nbopen
                THEN update_northbound_cfg(d, nbv, sbv) ELSE <<>>
      e      == [d EXCEPT !.next_cfg = IF build THEN nbv.nb_cfg ELSE @]
      unchanged == active /\ sbopen /\ sbw = <<>>
      cur    == CurCfg(e, unchanged, rs)
  IN /\ northd' = [northd EXCEPT ![n] =
          [nb |-> nbv, sb |-> sbv, has_lock |-> active,
           nb_txn |-> Committing(d.nb_txn, nbopen, nbw, rn),
           sb_txn |-> Committing(d.sb_txn, sbopen, sbw, rs),
           nb_skip |-> Skip(d.nb_txn, d.nb_skip, rn),
           sb_skip |-> Skip(d.sb_txn, d.sb_skip, rs),
           next_cfg |-> e.next_cfg,
           cur_cfg |-> cur]]
     /\ awake' = IF Succeeded(d.nb_txn, rn) \/ Succeeded(d.sb_txn, rs)
                 THEN awake \union {n} ELSE awake \ {n}
     /\ untold' = IF unchanged /\ cur # d.cur_cfg THEN untold \union {n}
                  ELSE IF active /\ nbopen THEN untold \ {n} ELSE untold

NorthdPass(n) ==
  /\ \E rn, rs \in BOOLEAN : Pass(n, rn, rs)
  /\ UNCHANGED <<db, installed, ghosts, load>>

\* The process ends, and with it its connection and its claim to the lock.
NorthdCrash(n) ==
  /\ Use("crashes")
  /\ lock' \in IF lock = n THEN Running ELSE {lock}
  /\ northd' = [northd EXCEPT ![n] = Started(lock' = n)]
  /\ awake' = awake \union {n}
  /\ untold' = untold \ {n}
  /\ UNCHANGED <<nb, sb, installed, ghosts>>

-----------------------------------------------------------------------------
(* The database servers *)

NbResult(n, r) == northd' = [northd EXCEPT ![n].nb_txn.result = r]
SbResult(n, r) == northd' = [northd EXCEPT ![n].sb_txn.result = r]

\* The northbound transaction of an ovn-northd is executed, or not.
NbExecute(n) ==
  LET t == northd[n].nb_txn
  IN /\ t # None /\ t.result = "none"
     /\ \/ /\ nb' = [nb EXCEPT
                !.sb_cfg = IF "sb_cfg" \in DOMAIN t.set THEN t.set.sb_cfg ELSE @,
                !.hv_cfg = IF "hv_cfg" \in DOMAIN t.set THEN t.set.hv_cfg ELSE @]
           /\ NbResult(n, "TXN_SUCCESS")
           /\ UNCHANGED load
        \/ /\ Use("nb_failures")
           /\ NbResult(n, "TXN_TRY_AGAIN")
           /\ UNCHANGED nb
     /\ UNCHANGED <<sb, lock, loops, installed, ghosts>>

\* The southbound one, which asserts the lock.  A failure that the client sees
\* may be a lost reply to a success.
SbExecute(n) ==
  LET t == northd[n].sb_txn
      applied == /\ sb' = [sb EXCEPT !.nb_cfg = t.set.nb_cfg]
                 /\ written' = IF t.set.nb_cfg > written THEN t.set.nb_cfg
                               ELSE written
  IN /\ t # None /\ t.result = "none"
     /\ \/ /\ lock = n /\ applied
           /\ SbResult(n, "TXN_SUCCESS")
           /\ UNCHANGED <<failed, load>>
        \/ /\ lock # n
           /\ failed' = TRUE
           /\ \E r \in {"TXN_NOT_LOCKED", "TXN_TRY_AGAIN"} : SbResult(n, r)
           /\ UNCHANGED <<sb, written, load>>
        \/ /\ lock = n
           /\ Use("sb_failures")
           /\ failed' = TRUE
           /\ applied \/ UNCHANGED <<sb, written>>
           /\ SbResult(n, "TXN_TRY_AGAIN")
     /\ UNCHANGED <<nb, lock, loops, installed, stayed, reached>>

\* The owner's connection is gone and another client gets the lock; the owner
\* learns it with the next news of the database.
LockMoves ==
  /\ Use("takeovers")
  /\ lock' \in Running \ {lock}
  /\ UNCHANGED <<nb, sb, northd, loops, installed, ghosts>>

-----------------------------------------------------------------------------
(* ovn-controller on each chassis *)

\* lflow_run() .. ofctrl_put(), until the switch has confirmed the flows
ChassisInstall(c) ==
  /\ c \in Members
  /\ installed[c] # sb.nb_cfg
  /\ installed' = [installed EXCEPT ![c] = sb.nb_cfg]
  /\ reached' = [reached EXCEPT ![c] = IF sb.nb_cfg > @ THEN sb.nb_cfg ELSE @]
  /\ UNCHANGED <<db, northd, loops, stayed, written, failed, load>>

\* sbrec_chassis_set_nb_cfg()
ChassisReport(c) ==
  /\ c \in Members
  /\ installed[c] # 0 /\ installed[c] # sb.chassis[c]
  /\ sb' = [sb EXCEPT !.chassis[c] = installed[c]]
  /\ UNCHANGED <<nb, lock, northd, loops, installed, ghosts, load>>

\* chassis_run() and chassis_cleanup()
ChassisJoin(c) ==
  /\ c \notin Members
  /\ Use("chassis")
  /\ sb' = [sb EXCEPT !.chassis =
              [d \in Members \union {c} |-> IF d = c THEN 0 ELSE sb.chassis[d]]]
  /\ installed' = [installed EXCEPT ![c] = 0]
  /\ UNCHANGED <<nb, lock, northd, loops, ghosts>>

ChassisLeave(c) ==
  /\ c \in Members
  /\ Use("chassis")
  /\ sb' = [sb EXCEPT !.chassis = [d \in Members \ {c} |-> sb.chassis[d]]]
  /\ stayed' = stayed \ {c}
  /\ UNCHANGED <<nb, lock, northd, loops, installed, reached, written, failed>>

Next ==
  \/ do_nbctl \/ LockMoves
  \/ \E n \in Northds :
       /\ n \in Running
       /\ NorthdPass(n) \/ NorthdCrash(n) \/ NbExecute(n) \/ SbExecute(n)
  \/ \E c \in Chassis :
       ChassisInstall(c) \/ ChassisReport(c) \/ ChassisJoin(c) \/ ChassisLeave(c)

Spec == Init /\ [][Next]_vars

\* poll_block() returns: the loop has asked for it, or there are news to read,
\* of contents, a result or the lock.  After TXN_TRY_AGAIN there will be: the
\* contents have changed, or the connection is made anew.
Woken(n) ==
  LET d == northd[n]
  IN \/ n \in awake
     \/ nb # d.nb \/ sb # d.sb \/ d.nb_skip \/ d.sb_skip
     \/ \E t \in {d.nb_txn, d.sb_txn} : t # None /\ t.result # "none"
     \/ (lock = n) # d.has_lock

\* News arrive, and a loop that has been woken turns; it may turn at other
\* times but need not.  The servers and the chassis work.
Fairness ==
  /\ \A n \in Northds :
       /\ WF_vars(/\ n \in Running /\ Woken(n) /\ Pass(n, TRUE, TRUE)
                  /\ UNCHANGED <<db, installed, ghosts, load>>)
       /\ WF_vars(NbExecute(n)) /\ WF_vars(SbExecute(n))
  /\ \A c \in Chassis : WF_vars(ChassisInstall(c)) /\ WF_vars(ChassisReport(c))

FairSpec == Spec /\ Fairness

-----------------------------------------------------------------------------
(* Properties *)

\* hv_cfg tells the truth: every chassis that has been there all the time has
\* run the configuration that "ovn-nbctl --wait=hv" is told of, whichever
\* ovn-northd tells it, from whatever copies of the databases.
HvCfgTrue ==
  \A c \in stayed : nb.hv_cfg <= reached[c]

\* sb_cfg tells the truth: the southbound database has had the configuration
\* that "ovn-nbctl --wait=sb" is told of.
SbCfgTrue == nb.sb_cfg <= written

\* The same as long as no southbound transaction fails (after a failure the
\* next, empty one is taken for the success of the one that failed).
SbCfgTrueUnlessFailed == failed \/ SbCfgTrue

\* After the last change, failure and takeover everything comes to agree: the
\* southbound database and every chassis are up to date and ovn-nbctl hears of
\* it.  There is one wait that may last until northd is woken by something
\* else: "ovn-nbctl --wait=sb", when northd finds the southbound database up to
\* date already, as after a restart.  Then cur_cfg advances with TXN_UNCHANGED,
\* at the end of a pass whose update_northbound_cfg() is over, and nothing
\* wakes the loop for the next.
Settles ==
  <>[](/\ sb.nb_cfg = nb.nb_cfg
       /\ nb.nb_cfg > 0 => nb.sb_cfg = nb.nb_cfg \/ lock \in untold
       /\ nb.hv_cfg = nb.nb_cfg
       /\ \A c \in Members : installed[c] = nb.nb_cfg)
=============================================================================
