-------------------------------- MODULE Binding --------------------------------
(***************************************************************************)
(* The hypervisors' claims on logical ports in the southbound database:    *)
(* binding_run on every chassis (controller/binding.c), with the chassis   *)
(* rows, the HA chassis group that northd keeps, and the BFD sessions that *)
(* decide which gateway is active (HaChassis).                             *)
(*                                                                         *)
(* A controller reads the database when it runs, and its transaction       *)
(* executes later: what others write in between it overwrites blindly,     *)
(* because binding.c verifies nothing it has read.                         *)
(***************************************************************************)
EXTENDS HaChassis

CONSTANTS Lport,             \* each logical port's [type, parent, chassis]
          None,              \* no chassis, no port, no transaction
          Keep,              \* a column a transaction does not write
          Loads              \* bounds on what happens from outside, and where
                             \* it starts

Ports == DOMAIN Lport
\* Logical switch ports: those whose chassis northd counts as gateway users.
Lsps == {p \in Ports : Lport[p].type # "chassisredirect"}
Vifs == {p \in Lsps : Lport[p].type = "" /\ Lport[p].parent = None}
HaPorts == {p \in Ports : Lport[p].type \in {"chassisredirect", "external"}}

ASSUME LoadsAssumption ==
    \A l \in Loads : l.requested \in [Ports -> Chassis \cup {None}]

VARIABLES sb,                \* rows: Chassis table; pb: chassis of each port;
                             \* requested: its requested-chassis option;
                             \* ha, ref: the HA chassis group
          txn,               \* the transaction each controller has in flight
          northd_txn,        \* the one northd has
          ifaces,            \* ports with an interface on each chassis
          state,             \* "running", "exiting", "leaving" (its clean-up is in
                             \* flight) or "stopped", per controller
          connected,         \* it has an OpenFlow connection to br-int
          links,             \* pairs of chassis whose tunnel works
          bfd,               \* tunnels with BFD enabled, per chassis
          sessions,          \* those whose BFD session is up
          load               \* what may still happen

controllers == <<txn, state, connected>>
network == <<links, bfd, sessions>>
vars == <<sb, txn, northd_txn, ifaces, state, connected, links, bfd, sessions, load>>

Pairs == {{c, d} : c, d \in Chassis} \ {{c} : c \in Chassis}

\* Either nothing has started yet, or the chassis are registered and northd
\* and BFD have caught up with that.
Init ==
    /\ load \in Loads
    /\ LET ha == IF load.fresh THEN {} ELSE Gateways
       IN  /\ sb = [rows |-> IF load.fresh THEN {} ELSE Chassis, ha |-> ha, ref |-> {},
                    pb |-> [p \in Ports |-> None], requested |-> load.requested]
           /\ bfd = [c \in Chassis |-> bfd_calculate_chassis(ha, {}, c) \ {c}]
    /\ sessions = bfd
    /\ txn = [c \in Chassis |-> None]
    /\ northd_txn = None
    /\ ifaces = load.ifaces
    /\ state = [c \in Chassis |-> "running"]
    /\ connected = [c \in Chassis |-> ~load.fresh]
    /\ links = Pairs

\* bfd_calculate_active_tunnels, which is only asked with br-int connected.
active_tunnels(c) == IF connected[c] THEN sessions[c] \cap bfd[c] ELSE {}

Active(c) == ha_chassis_group_is_active(sb.ha, sb.ref, active_tunnels(c), c)

(***************************************************************************)
(* consider_local_datapath: a port that is ours and that we may bind is    *)
(* claimed, and one that is recorded as ours but is not, is released.      *)
(***************************************************************************)
our_chassis(c, p) ==
    LET l == Lport[p]
    IN  IF p \in ifaces[c] \/ l.parent \in ifaces[c] THEN l.type # "localport"
        ELSE
        CASE l.type \in {"l2gateway", "l3gateway"} -> l.chassis = c
          [] p \in HaPorts -> c \in sb.ha /\ Active(c)
          [] OTHER -> FALSE

can_bind(c, p) == sb.requested[p] \in {None, c}

\* Mutant: a port that is bound elsewhere is released too.
consider_local_datapath_any(c, p) ==
    IF our_chassis(c, p) /\ can_bind(c, p)
    THEN IF sb.pb[p] # c THEN c ELSE Keep
    ELSE IF sb.pb[p] # None THEN None ELSE Keep

consider_local_datapath(c, p) ==
    IF our_chassis(c, p) /\ can_bind(c, p)
    THEN IF sb.pb[p] # c THEN c ELSE Keep
    ELSE IF sb.pb[p] = c THEN None ELSE Keep

\* One iteration of the main loop.  With a transaction, chassis_run registers
\* the chassis and binding_run writes the bindings; with br-int connected,
\* bfd_run enables and disables BFD.
Run(c) ==
    LET writes == [p \in Ports |-> consider_local_datapath(c, p)]
    IN  /\ state[c] = "running"
        /\ txn' = IF txn[c] = None /\ (c \notin sb.rows \/ \E p \in Ports : writes[p] # Keep)
                  THEN [txn EXCEPT ![c] = writes]
                  ELSE txn
        /\ bfd' = IF connected[c]
                  THEN [bfd EXCEPT ![c] = bfd_calculate_chassis(sb.ha, sb.ref, c) \ {c}]
                  ELSE bfd
        /\ UNCHANGED <<sb, northd_txn, ifaces, state, connected, links, sessions, load>>

\* The server executes it.
Commit(c) ==
    /\ txn[c] # None
    /\ state[c] # "leaving"
    /\ sb' = [sb EXCEPT !.rows = @ \cup {c},
                        !.pb = [p \in Ports |-> IF txn[c][p] = Keep THEN @[p]
                                                ELSE txn[c][p]]]
    /\ txn' = [txn EXCEPT ![c] = None]
    /\ UNCHANGED <<northd_txn, ifaces, state, connected, network, load>>

(***************************************************************************)
(* northd: the group's members are looked up again when one has lost its   *)
(* row, and the chassis that use the gateway are those of the bound LSPs.  *)
(***************************************************************************)
\* Mutant: the members are looked up only while there are none.
GroupMembers_once == IF sb.ha # {} THEN sb.ha ELSE Gateways \cap sb.rows

GroupMembers == IF sb.ha = Gateways THEN sb.ha ELSE Gateways \cap sb.rows

NorthdPass ==
    LET t == [ha |-> GroupMembers, ref |-> {sb.pb[p] : p \in Lsps} \ {None}]
    IN  /\ northd_txn = None
        /\ t.ha # sb.ha \/ t.ref # sb.ref
        /\ northd_txn' = t
        /\ UNCHANGED <<sb, ifaces, controllers, network, load>>

\* References to chassis rows that are gone by now are dropped.
NorthdCommit ==
    /\ northd_txn # None
    /\ sb' = [sb EXCEPT !.ha = northd_txn.ha \cap sb.rows,
                        !.ref = northd_txn.ref \cap sb.rows]
    /\ northd_txn' = None
    /\ UNCHANGED <<ifaces, controllers, network, load>>

(***************************************************************************)
(* A controller that was told to exit, in passes of their own.  One that   *)
(* finds the chassis' row releases what it sees the chassis hold, and      *)
(* deletes the row and its tunnels; one that finds no row is the last.     *)
(***************************************************************************)
\* Mutant: the exit does not wait for the transaction of the clean-up.
binding_cleanup_hasty(c) ==
    /\ state[c] = "exiting"
    /\ txn[c] = None
    /\ c \in sb.rows
    /\ txn' = [txn EXCEPT ![c] = [p \in Ports |-> IF sb.pb[p] = c THEN None ELSE Keep]]
    /\ state' = [state EXCEPT ![c] = "stopped"]
    /\ bfd' = [bfd EXCEPT ![c] = {}]
    /\ UNCHANGED <<sb, northd_txn, ifaces, connected, links, sessions, load>>

binding_cleanup(c) ==
    /\ state[c] = "exiting"
    /\ txn[c] = None
    /\ c \in sb.rows
    /\ txn' = [txn EXCEPT ![c] = [p \in Ports |-> IF sb.pb[p] = c THEN None ELSE Keep]]
    /\ state' = [state EXCEPT ![c] = "leaving"]
    /\ bfd' = [bfd EXCEPT ![c] = {}]
    /\ UNCHANGED <<sb, northd_txn, ifaces, connected, links, sessions, load>>

\* The server executes it.  The release overwrites what another chassis has
\* claimed meanwhile; the references to the deleted row become empty.
CommitCleanup(c) ==
    /\ state[c] = "leaving"
    /\ sb' = [sb EXCEPT !.rows = @ \ {c}, !.ha = @ \ {c}, !.ref = @ \ {c},
                        !.pb = [p \in Ports |-> IF @[p] = c \/ txn[c][p] = None THEN None
                                                ELSE @[p]]]
    /\ txn' = [txn EXCEPT ![c] = None]
    /\ state' = [state EXCEPT ![c] = "exiting"]
    /\ UNCHANGED <<northd_txn, ifaces, connected, network, load>>

CleanedUp(c) ==
    /\ state[c] = "exiting"
    /\ txn[c] = None
    /\ c \notin sb.rows
    /\ state' = [state EXCEPT ![c] = "stopped"]
    /\ connected' = [connected EXCEPT ![c] = FALSE]
    /\ bfd' = [bfd EXCEPT ![c] = {}]
    /\ UNCHANGED <<sb, txn, northd_txn, ifaces, links, sessions, load>>
--------------------------------------------------------------------------------
(***************************************************************************)
(* What happens around it.  The BFD session of a tunnel is up when both    *)
(* ends run BFD and the tunnel works; each end notices a change in its own *)
(* time.  Only what the gateways see matters here.                         *)
(***************************************************************************)
Session(c, d) == {c, d} \in links /\ d \in bfd[c] /\ c \in bfd[d]

BfdDetects(c, d) ==
    /\ (d \in sessions[c]) # Session(c, d)
    /\ sessions' = [sessions EXCEPT
           ![c] = IF Session(c, d) THEN @ \cup {d} ELSE @ \ {d}]
    /\ UNCHANGED <<sb, northd_txn, ifaces, controllers, links, bfd, load>>

Spend(what) == load[what] > 0 /\ load' = [load EXCEPT ![what] = @ - 1]

LinkChanges(l) ==
    /\ Spend("links")
    /\ links' = IF l \in links THEN links \ {l} ELSE links \cup {l}
    /\ UNCHANGED <<sb, northd_txn, ifaces, controllers, bfd, sessions>>

\* A chassis is cut off, or connected again.
NodeChanges(c) ==
    LET mine == {l \in Pairs : c \in l}
    IN  /\ Spend("nodes")
        /\ links' = IF mine \subseteq links THEN links \ mine ELSE links \cup mine
        /\ UNCHANGED <<sb, northd_txn, ifaces, controllers, bfd, sessions>>

\* An interface appears on a chassis, or disappears from it.
IfaceChanges(c, p) ==
    /\ Spend("ifaces_moved")
    /\ ifaces' = [ifaces EXCEPT ![c] = IF p \in @ THEN @ \ {p} ELSE @ \cup {p}]
    /\ UNCHANGED <<sb, northd_txn, controllers, network>>

\* The CMS asks for another chassis.
RequestChanges(p, c) ==
    /\ Spend("requests")
    /\ sb.requested[p] # c
    /\ sb' = [sb EXCEPT !.requested[p] = c]
    /\ UNCHANGED <<northd_txn, ifaces, controllers, network>>

Exit(c) ==
    /\ state[c] = "running"
    /\ Spend("exits")
    /\ state' = [state EXCEPT ![c] = "exiting"]
    /\ UNCHANGED <<sb, txn, northd_txn, ifaces, connected, network>>

\* A controller dies; the switch under it goes on, BFD included.
Crash(c) ==
    /\ state[c] = "running"
    /\ Spend("crashes")
    /\ state' = [state EXCEPT ![c] = "stopped"]
    /\ connected' = [connected EXCEPT ![c] = FALSE]
    /\ txn' = [txn EXCEPT ![c] = None]
    /\ UNCHANGED <<sb, northd_txn, ifaces, network>>

Start(c) ==
    /\ state[c] = "stopped"
    /\ state' = [state EXCEPT ![c] = "running"]
    /\ UNCHANGED <<sb, txn, northd_txn, ifaces, connected, network, load>>

Connect(c) ==
    /\ state[c] = "running"
    /\ ~connected[c]
    /\ connected' = [connected EXCEPT ![c] = TRUE]
    /\ UNCHANGED <<sb, txn, northd_txn, ifaces, state, network, load>>

Next ==
    \/ \E c \in Chassis : \/ Run(c) \/ Commit(c)
                          \/ binding_cleanup(c) \/ CommitCleanup(c) \/ CleanedUp(c)
                          \/ NodeChanges(c) \/ Exit(c) \/ Crash(c) \/ Start(c)
                          \/ Connect(c)
                          \/ \E p \in Vifs : IfaceChanges(c, p) \/ RequestChanges(p, c)
    \/ \E c \in Gateways, d \in Chassis : BfdDetects(c, d)
    \/ \E l \in Pairs : LinkChanges(l)
    \/ NorthdPass
    \/ NorthdCommit

Spec == Init /\ [][Next]_vars

\* The main loops run and are never blocked, the servers answer, BFD detects
\* what has changed after its detection time, and a stopped controller is
\* started again and connects to its switch.
FairSpec ==
    /\ Spec
    /\ \A c \in Chassis : /\ WF_vars(Run(c) \/ binding_cleanup(c) \/ CleanedUp(c))
                          /\ WF_vars(Commit(c) \/ CommitCleanup(c))
                          /\ WF_vars(Start(c) \/ Connect(c))
                          /\ \A d \in Chassis : c \in Gateways => WF_vars(BfdDetects(c, d))
    /\ WF_vars(NorthdPass)
    /\ WF_vars(NorthdCommit)
--------------------------------------------------------------------------------
\* What the variables hold.  A reference to a chassis is one to an existing
\* row, and a controller that has stopped has nothing in flight, neither a
\* claim that could bring its row or its bindings back nor the clean-up that
\* would delete them when it has started again (binding_cleanup).
TypeOK ==
    /\ sb.rows \subseteq Chassis
    /\ sb.ha \subseteq Gateways \cap sb.rows
    /\ sb.ref \subseteq sb.rows
    /\ \A p \in Ports : sb.pb[p] \in sb.rows \cup {None}
    /\ \A c \in Chassis : /\ bfd[c] \subseteq Chassis \ {c}
                          /\ sessions[c] \subseteq Chassis \ {c}
                          /\ txn[c] = None \/ txn[c] \in [Ports -> {c, None, Keep}]
                          /\ state[c] = "stopped" => txn[c] = None

\* Two gateways that see each other are never both active, so they never both
\* claim the port: that is what the total order of compare_chassis_prio_ is for.
ActiveUnique ==
    \A c, d \in Gateways :
        /\ c # d
        /\ d \in active_tunnels(c)
        /\ c \in active_tunnels(d)
        => ~(Active(c) /\ Active(d))

\* The chassis that would claim a port, as things are.
Holders(p) == {c \in Chassis : our_chassis(c, p) /\ can_bind(c, p)}
HeldBy(p) == sb.pb[p] \in (IF Holders(p) = {} THEN {None} ELSE Holders(p))

\* When things are quiet, a gateway port is bound to the gateway that considers
\* itself active, and to none if there is none.  Several gateways do so, and
\* take the port from each other for good, only if a tunnel between them is
\* broken (ha_chassis_group_is_active, consider_local_datapath).
GatewaySettles ==
    <>[](\A p \in HaPorts :
            /\ Cardinality(Holders(p)) <= 1 => HeldBy(p)
            /\ \A c, d \in Holders(p) : c = d \/ {c, d} \notin links)

\* A port whose interface ends up on one chassis, or whose requested chassis
\* singles one out, ends up bound there with its children, and one without an
\* interface ends up bound nowhere, whatever the old and the new chassis
\* overwrote of each other on the way (consider_local_datapath).
LportSettles ==
    <>[](\A p \in Lsps : Cardinality(Holders(p)) <= 1 => HeldBy(p))

\* Once every tunnel works for good, the gateway that is first in the order
\* gets the port back, after a partition, an exit or a crash.
FirstGatewayWins ==
    <>[](links = Pairs) =>
        <>[](\A p \in HaPorts, c \in Gateways :
                 (\A g \in Gateways \ {c} : compare_chassis_prio_(c, g)) => sb.pb[p] = c)

================================================================================
