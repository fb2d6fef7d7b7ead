-------------------------------- MODULE Northd --------------------------------
(***************************************************************************)
(* ovn-northd between its two databases: one pass of ovnnb_db_run and      *)
(* ovnsb_db_run reads both, and writes one transaction to each, which      *)
(* commits later or fails, while the administrator changes the northbound  *)
(* database and hypervisors claim and release ports in the southbound one  *)
(* (northd/ovn-northd.c).  Numbers and addresses are computed by           *)
(* TunnelKeys and Ipam.                                                    *)
(***************************************************************************)
EXTENDS Ipam

CONSTANT Loads               \* bounds on what happens from outside: how often a
                             \* switch or port is added or deleted, ..., and the
                             \* addresses ports are given

VARIABLES nb,                \* OVN_Northbound: switches and their ports
          sb,                \* OVN_Southbound: datapath and port bindings
          hint,              \* static in ovn_datapath_allocate_key
          sb_txn, nb_txn,    \* the transactions in flight, None if there is none
          wake,              \* the main loop has been woken, by a change of a
                             \* database or by itself, and has not run since
          load,              \* what may still happen
          held,              \* history: the chassis a port has had without a
                             \* break since its queue id was allocated there
          refused            \* history: the last southbound transaction was
                             \* refused, and there was no pass since

vars == <<nb, sb, hint, sb_txn, nb_txn, wake, load, held, refused>>

Row(s, spec) == [sw |-> s, qos |-> FALSE, up |-> FALSE, spec |-> spec, dyn |-> None]
Bound(p) == sb.pb[p] # None /\ sb.pb[p].chassis # None

Init ==
    /\ nb = [sw |-> {}, lsp |-> [p \in Ports |-> None]]
    /\ sb = [dp |-> [s \in Switches |-> 0], pb |-> [p \in Ports |-> None]]
    /\ hint = 0
    /\ sb_txn = None
    /\ nb_txn = None
    /\ wake = TRUE
    /\ load \in Loads
    /\ held = [p \in Ports |-> None]
    /\ refused = FALSE

(***************************************************************************)
(* What northd's transactions do when they execute.  The southbound one    *)
(* inserts, updates and deletes rows but leaves their chassis columns      *)
(* alone; the northbound one sets columns of the rows northd read, and     *)
(* misses those that were deleted since.                                   *)
(***************************************************************************)
SbApply(t) ==
    [dp |-> t.dp,
     pb |-> [p \in Ports |-> IF t.pb[p] = None \/ sb.pb[p] = None THEN t.pb[p]
                             ELSE [t.pb[p] EXCEPT !.chassis = sb.pb[p].chassis]]]
NbApply(t) ==
    [nb EXCEPT !.lsp = [p \in Ports |->
        IF @[p] = None \/ t[p] = None THEN @[p]
        ELSE [@[p] EXCEPT !.dyn = t[p].dyn, !.up = t[p].up]]]

\* The indexes of Datapath_Binding and Port_Binding in ovn-sb.ovsschema.
IndexClash(t) ==
    \/ \E s1, s2 \in Switches : /\ s1 # s2
                                /\ t.dp[s1] # 0
                                /\ t.dp[s1] = t.dp[s2]
    \/ \E p1, p2 \in Ports : /\ p1 # p2
                             /\ t.pb[p1] # None
                             /\ t.pb[p2] # None
                             /\ t.pb[p1].sw = t.pb[p2].sw
                             /\ t.pb[p1].key = t.pb[p2].key

(***************************************************************************)
(* One pass, which needs a transaction on both databases: while one is in  *)
(* flight ovnnb_db_run returns at once, and what woke the loop is spent.   *)
(* A switch left without a datapath binding, and a queue id given back by  *)
(* a port without a chassis, are null pointers that end the process; its   *)
(* monitor starts a new one, which has a new 'hint'.                       *)
(***************************************************************************)
Crashes == \/ ReadsNullChassis(nb.lsp, sb.pb)
           \/ build_datapaths(nb.sw, sb.dp, hint).stop

\* Mutant: a port that was released stays up.
UpAfter_stuck(p, pb) == nb.lsp[p].up \/ (pb[p] # None /\ pb[p].chassis # None)

\* handle_port_binding_changes: a port is up when a chassis has claimed it.
UpAfter(p, pb) == IF pb[p] = None THEN nb.lsp[p].up ELSE pb[p].chassis # None

InFlight == sb_txn # None \/ nb_txn # None
Ready == wake /\ ~InFlight

ovnnb_db_run ==
    /\ Ready
    /\ ~Crashes
    /\ \E dps \in {build_datapaths(nb.sw, sb.dp, hint)},
          pb \in {build_ports(nb.lsp, sb.pb)},
          dyn \in {build_ipam(nb.lsp)} :
          /\ hint' = dps.hint
          /\ \E t \in {[dp |-> dps.dp, pb |-> pb]} :
                sb_txn' = IF SbApply(t) = sb THEN None ELSE t
          /\ \E t \in {[p \in Ports |->
                          IF nb.lsp[p] = None THEN None
                          ELSE [dyn |-> dyn[p], up |-> UpAfter(p, pb)]]} :
                nb_txn' = IF NbApply(t) = nb THEN None ELSE t
    /\ wake' = FALSE
    /\ refused' = FALSE
    /\ UNCHANGED <<nb, sb, load, held>>

ReturnEarly ==
    /\ wake
    /\ InFlight
    /\ wake' = FALSE
    /\ UNCHANGED <<nb, sb, hint, sb_txn, nb_txn, load, held, refused>>

PassCrashes ==
    /\ Ready
    /\ Crashes
    /\ hint' = 0
    /\ refused' = FALSE
    /\ UNCHANGED <<nb, sb, sb_txn, nb_txn, wake, load, held>>

\* A port's queue id counts as held where northd saw the port when it
\* allocated the id, if the port is still there.
NewlyQueued(t, p) ==
    /\ t.pb[p] # None
    /\ t.pb[p].queue # 0
    /\ sb.pb[p].queue = 0
    /\ t.pb[p].chassis = sb.pb[p].chassis

SbCommit ==
    /\ sb_txn # None
    /\ ~IndexClash(sb_txn)
    /\ sb' = SbApply(sb_txn)
    /\ held' = [p \in Ports |->
           IF NewlyQueued(sb_txn, p) THEN sb.pb[p].chassis
           ELSE IF sb_txn.pb[p] = None \/ sb_txn.pb[p].queue = 0 THEN None
           ELSE held[p]]
    /\ sb_txn' = None
    /\ wake' = TRUE
    /\ UNCHANGED <<nb, hint, nb_txn, load, refused>>

Spend(what) == load[what] > 0 /\ load' = [load EXCEPT ![what] = @ - 1]

\* The database refuses the transaction.  After TXN_ERROR the loop does not
\* wake itself: the pass that gets the answer still has no transaction, so a
\* change it has read with the answer is spent too, and only one that is read
\* later wakes the loop.
SbError ==
    /\ sb_txn # None
    /\ IndexClash(sb_txn)
    /\ sb_txn' = None
    /\ wake' \in {wake, FALSE}
    /\ refused' = TRUE
    /\ UNCHANGED <<nb, sb, hint, nb_txn, load, held>>

\* A transaction that has to be tried again: the database has changed under
\* it, or the connection is made anew, and either wakes the loop.
SbTryAgain ==
    /\ sb_txn # None
    /\ Spend("fails")
    /\ sb_txn' = None
    /\ wake' = TRUE
    /\ UNCHANGED <<nb, sb, hint, nb_txn, held, refused>>

NbCommit ==
    /\ nb_txn # None
    /\ nb' = NbApply(nb_txn)
    /\ nb_txn' = None
    /\ wake' = TRUE
    /\ UNCHANGED <<sb, hint, sb_txn, load, held, refused>>

NbTryAgain ==
    /\ nb_txn # None
    /\ Spend("fails")
    /\ nb_txn' = None
    /\ wake' = TRUE
    /\ UNCHANGED <<nb, sb, hint, sb_txn, held, refused>>

\* The process ends and another one takes over.
Restart ==
    /\ Spend("crashes")
    /\ hint' = 0
    /\ sb_txn' = None
    /\ nb_txn' = None
    /\ wake' = TRUE
    /\ refused' = FALSE
    /\ UNCHANGED <<nb, sb, held>>
--------------------------------------------------------------------------------
(***************************************************************************)
(* The administrator.  A port that is deleted and made anew is another     *)
(* row, which a northbound transaction in flight does not know.            *)
(***************************************************************************)
Forget(gone) ==
    IF nb_txn = None THEN None
    ELSE [p \in Ports |-> IF p \in gone THEN None ELSE nb_txn[p]]

SetLsp(lsp, gone) ==
    /\ nb' = [nb EXCEPT !.lsp = lsp]
    /\ nb_txn' = Forget(gone)
    /\ wake' = TRUE
    /\ UNCHANGED <<sb, hint, sb_txn, held, refused>>

\* A new switch has a UUID of its own: 's' names it only when nothing is left
\* of a switch that had the name before.
AddSwitch(s) ==
    /\ s \notin nb.sw
    /\ sb.dp[s] = 0
    /\ sb_txn # None => sb_txn.dp[s] = 0
    /\ Spend("switches")
    /\ nb' = [nb EXCEPT !.sw = @ \cup {s}]
    /\ wake' = TRUE
    /\ UNCHANGED <<sb, hint, sb_txn, nb_txn, held, refused>>

\* Its ports go with it.
DelSwitch(s) ==
    LET gone == {p \in Ports : nb.lsp[p] # None /\ nb.lsp[p].sw = s}
    IN  /\ s \in nb.sw
        /\ Spend("switches")
        /\ nb' = [sw  |-> nb.sw \ {s},
                  lsp |-> [p \in Ports |-> IF p \in gone THEN None ELSE nb.lsp[p]]]
        /\ nb_txn' = Forget(gone)
        /\ wake' = TRUE
        /\ UNCHANGED <<sb, hint, sb_txn, held, refused>>

AddPort(p, s, spec) ==
    /\ nb.lsp[p] = None
    /\ s \in nb.sw
    /\ Spend("ports")
    /\ SetLsp([nb.lsp EXCEPT ![p] = Row(s, spec)], {p})

DelPort(p) ==
    /\ nb.lsp[p] # None
    /\ Spend("ports")
    /\ SetLsp([nb.lsp EXCEPT ![p] = None], {p})

\* Deleted from one switch and added to another in one transaction.
MovePort(p, s) ==
    /\ nb.lsp[p] # None
    /\ s \in nb.sw \ {nb.lsp[p].sw}
    /\ Spend("moves")
    /\ SetLsp([nb.lsp EXCEPT ![p] = Row(s, @.spec)], {p})

SetAddresses(p, spec) ==
    /\ nb.lsp[p] # None
    /\ nb.lsp[p].spec # spec
    /\ Spend("specs")
    /\ SetLsp([nb.lsp EXCEPT ![p].spec = spec], {})

SetQos(p) ==
    /\ nb.lsp[p] # None
    /\ Spend("qos")
    /\ SetLsp([nb.lsp EXCEPT ![p].qos = ~@], {})

\* Hypervisors write the chassis column of rows that are there.
Claim(p, c) ==
    /\ sb.pb[p] # None
    /\ sb.pb[p].chassis # c
    /\ Spend("claims")
    /\ sb' = [sb EXCEPT !.pb[p].chassis = c]
    /\ held' = [held EXCEPT ![p] = None]
    /\ wake' = TRUE
    /\ UNCHANGED <<nb, hint, sb_txn, nb_txn, refused>>

Step == ovnnb_db_run \/ PassCrashes
Administrator ==
    \/ \E s \in Switches : AddSwitch(s) \/ DelSwitch(s)
    \/ \E p \in Ports, s \in Switches, spec \in load.addresses : AddPort(p, s, spec)
    \/ \E p \in Ports : DelPort(p) \/ SetQos(p)
    \/ \E p \in Ports, s \in Switches : MovePort(p, s)
    \/ \E p \in Ports, spec \in load.addresses : SetAddresses(p, spec)

Next ==
    \/ Step
    \/ ReturnEarly
    \/ SbCommit \/ SbError \/ SbTryAgain
    \/ NbCommit \/ NbTryAgain
    \/ Restart
    \/ Administrator
    \/ \E p \in Ports, c \in Chassis \cup {None} : Claim(p, c)

Spec == Init /\ [][Next]_vars

\* northd's main loop is never blocked, so a pass that it has been woken for is
\* made: this is weak fairness of Step, which leaves Due false (a crash, which
\* has started a new process, at the second attempt).  A server answers every
\* transaction in the end.
Due == Ready /\ ~(Crashes /\ hint = 0)
FairSpec == /\ Spec
            /\ []<>~Due
            /\ WF_vars(SbCommit \/ SbError)
            /\ WF_vars(NbCommit)
--------------------------------------------------------------------------------
\* A southbound transaction of northd is refused for a duplicate key only if
\* a port has moved to another switch since the last one: build_ports leaves a
\* moved port the key it had, and that is the only way to a clash.
ClashOnlyByMove ==
    sb_txn # None /\ IndexClash(sb_txn) =>
        \E p \in Ports : /\ sb.pb[p] # None
                         /\ sb_txn.pb[p] # None
                         /\ sb.pb[p].sw # sb_txn.pb[p].sw

\* Two ports that have stayed on the chassis their queue ids were allocated
\* for do not share a queue (allocate_chassis_queueid).
QueuesDistinct ==
    \A p1, p2 \in Ports :
        /\ p1 # p2
        /\ held[p1] # None
        /\ held[p1] = held[p2]
        => sb.pb[p1].queue # sb.pb[p2].queue

\* No two ports have the same MAC address from the pool of northd, on
\* whatever switches they are (ipam_get_unused_mac).
MacsUnique ==
    \A p1, p2 \in Ports :
        /\ p1 # p2
        /\ nb.lsp[p1] # None /\ nb.lsp[p1].dyn # None
        /\ nb.lsp[p2] # None /\ nb.lsp[p2].dyn # None
        /\ InPool(nb.lsp[p1].dyn.mac)
        => nb.lsp[p1].dyn.mac # nb.lsp[p2].dyn.mac

\* The address a port has, fixed or dynamic, 0 if none.
Address(p) == IF ~nb.lsp[p].spec.dynamic THEN nb.lsp[p].spec.ip
              ELSE IF nb.lsp[p].dyn = None THEN 0 ELSE nb.lsp[p].dyn.ip
Shared(p1, p2) == /\ p1 # p2
                  /\ nb.lsp[p1] # None
                  /\ nb.lsp[p2] # None
                  /\ nb.lsp[p1].sw = nb.lsp[p2].sw
                  /\ InSubnet(Address(p1))
                  /\ Address(p1) = Address(p2)
                  /\ nb.lsp[p1].spec.dynamic

\* Once the administrator is quiet, a port with dynamic addressing shares its
\* address of the subnet with no other port of its switch, whatever was asked
\* for, changed or lost on the way (build_ipam), unless the database has
\* refused northd's last transaction.
AddressesSettle == <>[](refused \/ \A p1, p2 \in Ports : ~Shared(p1, p2))

Matches ==
    /\ \A s \in Switches : (sb.dp[s] # 0) <=> (s \in nb.sw)
    /\ \A p \in Ports :
           /\ (sb.pb[p] # None) <=> (nb.lsp[p] # None)
           /\ nb.lsp[p] # None =>
                  /\ sb.pb[p].sw = nb.lsp[p].sw
                  /\ nb.lsp[p].up = Bound(p)
                  /\ Bound(p) => (sb.pb[p].queue # 0) = nb.lsp[p].qos

\* Once the outside is quiet, the southbound database has a binding for
\* exactly the switches and ports of the northbound one, in the right switch,
\* with a queue where one is due, and the northbound database says which ports
\* are up (build_datapaths, build_ports, handle_port_binding_changes).  There
\* are two exceptions: a null pointer ends every pass; or the database has
\* refused the last transaction, for a clash of keys, and northd sleeps since,
\* even if a change that came before the answer has resolved the clash.
SouthboundFollows == <>[](Matches \/ Crashes \/ refused)

================================================================================
