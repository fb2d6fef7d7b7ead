# A TLA+ model of OVN

OVN turns a logical network, written down in the northbound database, into
OpenFlow flows on every hypervisor.  This directory holds a formal model of the
parts of it in which state is kept consistent across processes, threads,
connections and restarts: TLA+ modules translated from the C sources,
configurations with which TLC checks them on small instances, and proofs that
TLAPS checks for all sizes.

## 1. The system

    ovn-nbctl / CMS --> northbound DB --> ovn-northd --> southbound DB
                                                           |       ^
                                              logical flows, nb_cfg, bindings
                                                           v       |
                                                    ovn-controller (one per chassis)
                                                     |        |        |
                                          OpenFlow (flows)  packet-ins  local OVSDB
                                                     v        v        v
                                                  ovs-vswitchd, integration bridge

| part | source | what it keeps | modelled |
|---|---|---|---|
| id allocator | lib/extend-table.c | ids of OpenFlow groups and meters | `ExtendTable` |
| OpenFlow connection | controller/ofctrl.c | installed flows, groups, meters, Geneve option, updates in flight, cur_cfg | `Ofctrl` |
| conntrack zones | controller/ovn-controller.c | zone of each port and gateway router, pending flushes and records | `CtZones` |
| match expressions | lib/expr.c | none (an algorithm) | `Expr` |
| translation | controller/lflow.c | none (flows are rebuilt in each pass) | `Lflow`; cookies, groups and meters in `Ofctrl` |
| packet-in thread | controller/pinctrl.c | MAC bindings to write, buffered packets, RA and GARP timers | `Pinctrl` |
| port binding | controller/binding.c, chassis.c | which chassis has a port | `Binding` |
| gateway election | controller/ha-chassis.c, bfd.c | active chassis of a group | `HaChassis`, `Binding` |
| configuration numbers | northd/ovn-northd.c, utilities/ovn-nbctl.c | nb_cfg, sb_cfg, hv_cfg | `NbCfg` |
| number allocators | northd/ovn-northd.c | tunnel keys, queue ids, IPAM addresses | `TunnelKeys`, `Ipam`, `Northd` |
| logical flow generation | northd/ovn-northd.c | none | no (section 6) |
| tunnels, patch ports | controller/encaps.c, patch.c | ports of the bridge | no |
| VTEP gateway | controller-vtep/ | bindings and MAC tables of a hardware gateway | no |
| tools | utilities/ | none beyond one transaction | only ovn-nbctl's `--wait`, in `NbCfg` |
| OVSDB, OVS | ovs/ (vendored) | | external, as used |

PROJECT.json lists the parts with their sources, the hazards of the code with
the properties that cover them, and for each definition the lines it models.

How the modules fit together: `Ofctrl` uses `ExtendTable` for its two tables and
is shown to implement it.  `CtZones` abstracts the conntrack flushes that
`Ofctrl` has in detail, `NbCfg` a chassis' installation of a configuration that
`Ofctrl` has in detail (`UpToDateIsTrue` and `NbCfgAcked` are what `NbCfg`
takes from it).  `Lflow` runs `Expr` and produces the flows that are opaque in
`Ofctrl`.  `Binding` runs `HaChassis` on every chassis, with northd's part of
it.  `Northd` runs the functions of `TunnelKeys` and `Ipam` in northd's passes;
its `Claim` stands for what `Binding` does.  Each `MC` module gives TLC the
instances of one of them.

## 2. The modules

### ExtendTable

One table of `lib/extend-table.c`.  `table` is the C struct: `table_ids` is the
set of bits that are 1, `desired` and `existing` the two hmaps, as sets of
`(name, table_id, new_table_id)`.  The functions are operators on a table, so
that `Ofctrl` can use them for its two tables:

| definition | code |
|---|---|
| `AssignId`, `AssignedId`, `Candidate` | `ovn_extend_table_assign_id` |
| `ClearExisting`, `ClearDesired` | `ovn_extend_table_clear(table, true / false)` |
| `RemoveUnwanted` | the loop in `ofctrl_put` with `ovn_extend_table_remove` |
| `Move` | `ovn_extend_table_move` |

The actions `Assign`, `Put`, `Discard` and `Reset` are the calls that
ofctrl.c and lflow.c make.  `Reset` (`run_S_CLEAR_FLOWS`) needs `desired` to be
empty; that the main loop ensures this is not assumed but checked and proved:
`Ofctrl` has `ExtendTable`'s specification as a property (`GroupTableSpec`),
with its variable `groups` in place of `table`.

### Ofctrl

The part of a main loop's pass that ofctrl.c sees, the connection and the
switch.  `pc` is where the loop is: `idle` (a new pass), `run` (inside
`ofctrl_run`), `body` (between `ofctrl_run` and the translation), `lflow_run`
(translation up to `ofctrl_put`).  There is one action for each `run_S_*` and
`recv_S_*` function, one for the translation of a logical flow and one for
`ofctrl_put`, which does all that the function does: the messages in their
order, the installed flows, both id tables, the tracking of the update.

* `conn` is what the rconn believes, `link` whether the connection is really
  there; messages are lost when it drops, in both directions.
* `toSwitch` is a queue of batches.  Batches are in the order of the code
  (flushes, groups, meters, flow changes, flow additions, deletions of groups
  and of meters, barrier).  Within a batch the code follows a hash table: any
  order.
* A flow is its key (table, priority and match), its cookie and the ids in its
  actions.  `lb` is history: the group that the actions were meant for.
* The switch applies one message at a time.  As ovs-vswitchd does, it refuses a
  flow with an unknown group, and deletes the flows of a group that is deleted.
* The TLV table maps each index to `free`, `ovn` or `other`; another controller
  may take an index at any time.  The last index stands for those beyond
  `TUN_METADATA_NUM_OPTS`.
* `left` is what remains of the events that the outside may still cause; it
  starts as any member of `Loads`, so that one run covers several instances.
* The 50-round limit of `ofctrl_run` is left out: it only ends a pass early.

### CtZones

`update_ct_zones`, `commit_ct_zones`, `restore_ct_zones`, and the part of
`ovsdb_idl_loop` that carries the zones to the Bridge table of the local OVSDB.
`pending` is `pending_ct_zones`, an shash that may hold several entries of one
user, which come in any order when they are written; it is a set of entries,
told apart by `since`, the number of changes of the users until it was added.  A pass is
`ovsdb_idl_loop_run`, `update_ct_zones`, `commit_ct_zones` (with `ofctrl_put`)
or `commit_skip`, `ovsdb_idl_loop_commit_and_wait`.

The database answers a transaction with success, with an error, or with "try
again" in which case it may or may not have committed.  What the tunnels and
patch ports write to the same transaction is left out: it makes the transaction
take longer, not carry other zones.  `Crash` ends the process at any point, a
commit under way included, and starts it again from the database.  `astray` is
history: the users and zones of entries that were overtaken by a second entry of
their user, or dropped without having been written (section 5).
`conns` is history: whose connections a zone may hold.  A user that has a zone
may open connections as soon as `ofctrl_put` ran; **a user that is gone is
assumed to open no more** (see section 6).  `LifeSpec` is one life of the
process, `Spec` has crashes too.

### Expr and Lflow

`Expr` is what lib/expr.c does with a parsed expression, one operator per
function with the function's name: prerequisites (`expr_annotate`),
simplification to equalities (`expr_simplify`), the sort and merge of what is
about one field (`expr_sort`, `crush_and_numeric`, `crush_and_string`,
`crush_or`), normalization to a disjunction of conjunctions
(`expr_normalize`), and the conversion to flows with conjunctive matches
(`expr_to_matches`).  Expressions are records; a value or a mask is the set of
its bits that are 1.  An assertion of the code has no counterpart: where the
code would abort, the shape is wrong, which `NormalForm` excludes.

`Lflow` is a pass of `lflow_run`: rows in any order, each translated by
`consider_logical_flow`, which offsets the conjunction ids, drops flows for
ports that are not local, and adds to a table in which `ofctrl_add_flow` lets
the first of two flows with the same key win.  `Applied` is what Open vSwitch
then does with a packet, conjunctive matches included, and `Holds` evaluates an
expression on a packet directly: the two are compared for every packet.

### Pinctrl

The two threads of controller/pinctrl.c.  A thread's step is what it does
between two points at which the other can be observed: the handler's `hpc` goes
`top` (the name of the bridge, the connection), `recv` (one message at a time,
each under the mutex), the injection of buffered packets, announcements and
router adverts (under the mutex), `sleep` (clean-up and `seq_read`) and `poll`.
The main thread takes the mutex in `MainRun` and releases it in `MainUpdate`.

* `pinctrl.br_int_name` is read without the mutex.  While the main thread is
  replacing it, the handler may read the old name, the new one, or freed memory
  (`NamesRead`).
* `hwake` is whether the handler's next `poll_block` returns for the sequence
  number.  A notification that comes before `seq_read` is not one to wake for.
* Packets and MAC addresses are numbered as they come, so that `out`, the
  history of what was sent, shows order and origin.
* The transaction with MAC bindings may fail, and then they are gone.

### Binding and HaChassis

`HaChassis` has the functions of ha-chassis.c and bfd.c: which gateway is active
by one chassis' view of its tunnels, and which tunnels run BFD.  `Binding` has
a southbound database, the controllers, northd's upkeep of the HA group, and
BFD sessions.  A controller's pass (`Run`) reads the database, runs BFD and
binding and sends a transaction, which executes later (`Commit`).  References
of northd's transaction to chassis rows that are gone are dropped, as those
columns are weak references.  `Exit` is a graceful end.  It waits for the
transaction in flight, sends one that releases the ports the snapshot shows the
chassis to hold and deletes the row (`binding_cleanup`), which executes later
(`CommitCleanup`) and may overwrite another chassis' claim, and ends with the pass
that finds no row (`CleanedUp`); `Crash` leaves both behind, and a transaction that the
server has not executed is lost with it.  After a restart the tunnels count as
down until the controller has connected to its switch.

### NbCfg

ovn-nbctl, one or two ovn-northd, the databases and the chassis.  The contents
of a database are identified with the number that is written with them.  Each
northd works on copies (`nb`, `sb` in its state) that it may or may not refresh
at the start of a pass, has at most one transaction under way to each database,
and has the fields of `struct ovsdb_idl_loop`: `cur_cfg`, `next_cfg`,
`nb_skip` and `sb_skip` (skip_seqno).  A transaction may execute and be believed
failed.  Southbound transactions assert the lock, northbound ones do not.
A loop turns when it is woken (`Woken`): by itself (`awake`, after TXN_SUCCESS),
by news of a database, a result or the lock.  `stayed`, `reached`, `written`,
`failed` and `untold` (cur_cfg is from a transaction that changed nothing, and
has not been reported) are history.

### TunnelKeys, Ipam and Northd

`TunnelKeys` and `Ipam` are what one pass of northd computes: keys of datapaths
and ports, queue ids, dynamic IPv4 and MAC addresses.  Sizes are constants in
place of 2^24, 2^16, 2^15, and so on: what matters is that one is below the
other and that they can be exhausted.  `Northd` runs the passes: `ovnnb_db_run`
sends both transactions, which are executed, refused (duplicate key) or have to
be tried again, while the administrator and the chassis go on.  `wake` is whether
the loop has been woken.  A pass with a transaction in flight returns early and
uses up the wake-up (`ReturnEarly`); a result other than an error, or a change,
wakes the loop again.  `refused` is history: the server refused the last
transaction, and no pass has been made since.  Where the code
dereferences a null pointer the process ends (`PassCrashes`) and starts again
with nothing but the databases.

## 3. What is checked

| run | what it checks |
|---|---|
| `extend_table` | ids and names are one to one (`OneIdPerName`), the bitmap is exact (`BitmapExact`), an id does not change its meaning (`IdKeepsName`) |
| `ofctrl_tables` | the switch ends with what ofctrl.c believes (`SwitchInSync`), no flow ever reaches a wrong group (`FlowsReachTheirGroup`), the group table is used as extend-table.c expects (`GroupTableSpec`) |
| `ofctrl_acks` | an acknowledged nb_cfg has reached the switch (`UpToDateIsTrue`), a flush that counts as done was done (`FlushConfirmed`), both happen in the end (`NbCfgAcked`, `FlushDone`); the Geneve option in use is mapped in the switch (`GeneveOptionIsReal`) and its negotiation ends (`Negotiated`) |
| `ct_zones_life` | zones are unique (`UniqueZones`), none leaks (`BitmapExact`), a flushed zone has only its user's connections (`NoForeignConnections`) |
| `ct_zones_restart` | across restarts and failing commits, and but for entries that went astray: zones are unique (`UniqueUnlessAstray`), recorded as believed (`RecordedUnlessAstray`), and recorded in the end (`EventuallyRecorded`) |
| `lflow` | `expr_normalize` returns what the conversion relies on (`NormalForm`), a packet gets the actions of a row that matches it (`PacketsMeetTheirFlow`) |
| `pinctrl` | buffered packets leave in order, at most once, with a MAC learnt for their address (`PacketsInOrder`), and do not stay (`PacketsSettle`); the handler follows the bridge (`BridgeFollowed`); announcements are made and end (`Announced`); exit is not stuck (`Exits`) |
| `binding` | references are valid and a stopped controller has nothing in flight (`TypeOK`), gateways that see each other agree (`ActiveUnique`), ports settle where they belong (`LportSettles`, `GatewaySettles`), the first gateway gets its port back (`FirstGatewayWins`) |
| `nb_cfg` | hv_cfg (`HvCfgTrue`) and, while no southbound transaction fails, sb_cfg (`SbCfgTrueUnlessFailed`) tell the truth; all numbers come to agree, but for an sb_cfg that a sleeping loop has not reported (`Settles`) |
| `northd` | a refused transaction is due to a moved port (`ClashOnlyByMove`), queues on a chassis are distinct (`QueuesDistinct`), MACs too (`MacsUnique`), addresses become so (`AddressesSettle`), the southbound database follows unless the last pass was refused or crashes (`SouthboundFollows`) |

Two runs show that the code does not do what a manual page says; the quotations
are in PROJECT.json under "findings".

| run | what happens |
|---|---|
| `nb_cfg_early` | A southbound transaction has to be tried again while a northbound one is in flight.  The next pass leaves the southbound transaction empty, the empty one counts as success, and sb_cfg is reported for a configuration that was never written: `ovn-nbctl --wait=sb` returns too early. |
| `lflow_clauses` | Two logical flows of one table and priority share a clause of their conjunctive matches.  The clause of the second is dropped as a duplicate, and packets that only the second matches meet no flow. |

### Bounds

`Loads` (in the MC modules) are sets of budgets for outside events; a behaviour
has one of them.

* `extend_table`: four names for three ids, so that ids run out and pass from
  one name to another.
* `ofctrl_tables`: three logical flows, of which two share a key and two a
  group, three changes of the database and one drop, so that a group's id is
  freed and given to another group with a drop at any point; or a flow with a
  meter and two changes.
* `ofctrl_acks`: one logical flow, two changes and nb_cfg up to 2 (with the
  first put there are three updates in flight, for the same or for different
  configurations), one drop, one flush; or any initial TLV table with another
  controller; or any with no room left.
* `ct_zones_life`: a port and the two keys of a gateway router for two zones, from
  nothing or from two recorded zones; two changes of any users, one
  reconnection, commits that fail any number of times.  The zones run out, and
  one passes from one user to another while its entries are pending.
* `ct_zones_restart`: two ports, two zones, two changes, one restart, one
  reconnection, commits that fail any number of times.  A restart can go wrong
  with one user whose record is stale and one that got the zone since.
* In both, starts that differ only in the names of the users are left out.
* `lflow`: two fields of two bits, one that is the second's prerequisite and must
  not be in a conjunction, and the port (two local ones, one elsewhere, one
  unknown).  All trees of three comparisons out of 16, those of four out of 6,
  and all pairs of rows that are one conjunction of two clauses or one clause.
* `pinctrl`: one router port, two addresses, two bridges; rings of depth 3, which hold
  two packets, and three packets, so that a ring overwrites its oldest, wraps
  around and still has an order to keep; tables of one entry, which a second
  address overflows (`put_mac_bindings` and the buffered packets); a back-off of
  two steps.  Packets and replies overlap, or a table fills, or the connection
  is lost, or names and ports change.
* `binding`: three chassis, two of them gateways of equal priority, a VIF, its
  nested port and a gateway port.  Start-up from nothing; up to three failures
  and repairs of a link or of a chassis; an exit and a crash; two crashes; two
  moves of the interface; two changes of requested-chassis.
* `nb_cfg`: two chassis, one of which comes or goes; two configurations with one
  failure to each database; two with a southbound failure and a crash; two
  northds, one configuration and a take-over.
* `northd`: two switches, three ports, two chassis; five datapath keys of which
  those from 3 on do not fit the narrower variable, four port keys, two
  queues, a subnet with two addresses to give, MAC suffixes up to 5.  Six
  changes of switches, with a failure and a restart; three of ports and two
  moves, with a failure; QoS and claims of two ports; fixed, dynamic and
  requested addresses of three ports, or of two with a failure; dynamic MACs of
  four ports on two switches; a MAC of another vendor asked for and given up.

### Fairness

* ovn-controller's main loop runs on (`WF` of its steps): each step of a pass is
  unconditional, and `poll_block` returns at the latest for the inactivity probe
  of the connection to the switch (ofctrl.c:166, ofctrl.c:568).
* The switch reads its connection and the rconn sends what is queued (`WF`).
* A reconnection succeeds, and a pass finds both an open transaction and an
  empty send queue, again and again but not in every pass (`SF`).  A transaction
  is open unless one is being committed, which the database answers (`WF`).  In
  `CtZones` a transaction may fail any number of times, and in the end one
  succeeds (`SF` of `Answer`).
* `Pinctrl`: the handler's steps that need the mutex are strongly fair, since
  the main thread takes and releases it again and again; time goes on (`WF` of
  what expires or falls due), and an rconn's own timer wakes the handler.
* `Binding`: BFD detects a change in the end, a stopped controller is started
  again and connects.
* `NbCfg`: a northd that has been woken makes a pass with refreshed copies, and no
  other pass is fair: its loop has no timer.  Databases execute transactions,
  chassis install and report.
* `Northd`: `[]<>~Due` is weak fairness of the pass for which the loop has been
  woken, in a form that is cheap for TLC; servers answer.
* Changes, drops, failures, crashes and take-overs are not fair.

Deadlock is checked in all runs but `pinctrl` and `northd`: in the first both
threads end at exit, in the second northd sleeps until something changes.

## 4. What is proved

For all values of the constants, subject to the named assumptions on them
(each an `ASSUME` that TLC evaluates in the runs).  Every proof but the
refinement is of the form: an inductive invariant, a lemma per action that the
action keeps it, and that it implies the property.

**`ExtendTableProofs`**: `TypeCorrect`, `IdsConsistent` (`OneIdPerName`),
`IdBitmapExact` (`BitmapExact`), `IdsKeepTheirNames` (`IdKeepsName`).  The
inductive invariant adds `NewIdExact`: `new_table_id` of a desired entry is
true exactly when `existing` has no entry of that name.  Without it `Discard`
could free the id of an installed entry, or leak that of an entry that was
never installed.

**`OfctrlProofs`**: `GroupsImplementTable`, that is `Spec => GroupTableSpec`.  A
refinement: each step of `Ofctrl` is a step of `ExtendTable` on `groups` or
leaves it alone.  The invariant `GroupsInv` says above all that `desired` is
empty outside of a translation, which `run_S_CLEAR_FLOWS` relies on when it
clears only `existing`.  With it, the theorems on `ExtendTable` hold of the
groups of `Ofctrl`.  The module also has the lemmas that the next two share:
on queues and positions in them, on single messages, and the invariants
`ChannelInv` (shapes; a lost connection has nothing under way), `XidInv` (xids
under way are old, and no two barriers share one) and `UpdatesInv` (below).

**`OfctrlSyncProofs`**: what ofctrl.c knows of the switch.

* `SwitchStaysInSync` (`SwitchInSync`) and `GroupsAreThere`
  (`FlowsReachTheirGroup`).  A put is many messages, applied one at a time and
  in any order within a batch.  `Leads(s, ms, t)` says what each kind of batch
  does to the switch's tables in whatever order, with the condition under which
  the order does not matter; `Steps` is the lemma that one message applied
  leaves the rest of the batch leading to the same tables, with no flow losing
  its group on the way.  `Ends` chains it over a queue.  `SyncInv` then says:
  what is under way leads from the switch's tables to those ofctrl.c believes
  in.  For `ofctrl_put` this is shown batch by batch: groups before the flows
  that use them, deletions of groups after the flows that did.  The ids must be
  one to one, which comes from `ExtendTableProofs` through the refinement.
* `CfgAcksAreTrue` (`UpToDateIsTrue`), an action property.  `UpdatesInv` says
  that the list of updates ascends in nb_cfg (`Ordered`), that whatever was
  sent for an nb_cfg is ahead of the barrier that an update for that or a later
  nb_cfg waits for (`Awaited`), and that all has arrived when no update waits
  (`Settled`).  `Awaited` is what makes it right that `ofctrl_put` moves the
  last update of an nb_cfg to a new barrier instead of adding one.

**`OfctrlAckProofs`**: what ofctrl.c concludes from replies.

* `FlushesAreConfirmed` (`FlushConfirmed`).  `FlushInv`: wherever the barrier
  that an entry waits for is, the flush is ahead of it or done.
* `GeneveOptionHolds` (`GeneveOptionIsReal`).  `ModInv`: while
  `recv_S_TLV_TABLE_MOD_SENT` waits, the barrier reply comes after the mapping
  was made or after the error that refused it; `TlvInv` adds that no reply says
  of OVN's option what is no longer so.

**`CtZonesProofs`**, the first three for `LifeSpec`, whatever happens to flushes
and commits:

* `ZonesUnique` and `ZonesBitmapExact` are inductive together: a zone that the
  scan finds free is nobody's because the bitmap is exact, and freeing the bit
  of a user that is gone frees nobody else's because zones are unique.
* `ZonesFlushedBeforeUse` (`NoForeignConnections`).  `ConnInv`: a zone has a
  stranger's connections only while its user's entry awaits its flush.
* `ZonesAreRecorded` (`RecordedUnlessAstray`) and `ZonesUniqueAfterRestart`
  (`UniqueUnlessAstray`) for `Spec`, with crashes, failing commits and changes of
  users at any point, for any number of users and zones and without hypotheses.
  What goes astray is recorded as pairs of a user and a zone (`astray`), so the
  exceptions are no wider than the two cases of section 5.  `Saves` says of a
  record, given a set of entries and up to what is astray: it has no zone twice
  (`Distinct`), what it says beyond the zones in use an entry will remove
  (`Follows`), and it is right about users without an entry (`Tells`).
  `RecordInv` has it of the database with all entries, and of a transaction
  that can still succeed with the entries it does not carry (`TxnsTrue`), so
  that a crash may find either; with it, each entry says what ovn-controller
  believes (`EntriesTrue`) and the zones in use are marked (`ZonesTrue`).
  `Follows` is what keeps a zone from having two users in the record: a zone is
  given to another only after its old user's removal was entered, and a
  transaction that carries the new key carries that removal too, if it was not
  written before.

**`NbCfgProofs`**, for any number of northds and chassis:

* `HvCfgIsTrue` (`HvCfgTrue`).  hv_cfg is computed from copies that may be old
  and written after the lock is lost; `HvInv` says that every report there is of
  a steady chassis, in the table, in a northd's copy or in a transaction under
  way, is bounded by what that chassis has reached, which only grows.
* `SbCfgIsTrue` (`SbCfgTrueUnlessFailed`).  `SbInv`: as long as none failed, all
  that a northd knows or has under way (its copy, `cur_cfg`, the sb_cfg it is
  about to write, `next_cfg` once the transaction with it has its result) is
  at most what was written.  `nb_cfg_early` shows what a failure does to it.

**`BindingProofs`**: `BindingTyped` (`TypeOK`) and `GatewaysAgree`
(`ActiveUnique`).  The first needs the shapes of transactions under way (a
controller writes only its own name or nothing, in its clean-up too).  The second rests on
`OneActive`: the order of `compare_chassis_prio_` is total and antisymmetric
also at equal priorities, whatever else the two gateways see.

**`PinctrlProofs`**, for any number of addresses, ports and bridges, any depth of
the rings and any limits of the tables:

* `PacketsStayInOrder` (`PacketsInOrder`).  Packets come numbered.  `PacketsInv`
  says of each address that its ring holds, slot by slot (`Holds`), the last
  `depth - 1` or fewer of the packets that were buffered since the ring was
  made, in order; that these are newer than what was sent; that what is still
  to be received is newer than both; and that a MAC on its way from
  `put_mac_bindings` to the handler was learnt for its address.
  `buffered_push_packet` with its two indices modulo the depth is the step that
  needs the slots: a full ring overwrites the oldest packet.
* `TypesAreKept` (`TypeOK`): the mutex and the program counters of the threads
  (`ThreadsInv`), the names of bridges that the threads hold (`NamesInv`) and
  the limits of the tables (`TablesInv`).

Model-checked only:

* Liveness (`NbCfgAcked`, `FlushDone`, `Negotiated`, `EventuallyRecorded`,
  `PacketsSettle`, `BridgeFollowed`, `Announced`, `Exits`, `LportSettles`,
  `GatewaySettles`, `FirstGatewayWins`, `Settles`, `AddressesSettle`,
  `SouthboundFollows`): fairness and `ENABLED` are beyond the prover.
* `Expr` and `Lflow`, which are recursive.
* `Northd`: a pass folds over ports and datapaths, and what a fold computes
  needs an induction over data that the installed provers cannot do.

## 5. What the code does not promise

Found while modelling, each the reason why a property is stated as it is:

* Geneve: when the switch refuses the option for lack of room,
  `recv_S_TLV_TABLE_MOD_SENT` goes on with the option it asked for, although the
  comment at ofctrl.c:319 says "disable Geneve".  `GeneveOptionIsReal` leaves
  this case out.
* Meters: a meter whose row comes after the logical flow that names it is never
  added, since it counts as installed (ofctrl.c:860).  `SwitchInSync` asks only
  that the switch has no meter too many.
* Cookies: a flow that passes from one logical flow to another of the same key
  keeps the old cookie (ofctrl.c:1011).
* Updates: when nb_cfg goes back while updates are in flight, their list is no
  longer sorted and an old barrier can acknowledge too much (ofctrl.c:1167).
  The model's nb_cfg only grows.
* Zones: the removal of a user can be written before its own addition that still
  waits for its flush; the stale key makes two users share a zone after a
  restart (ovn-controller.c:381).  `astray` has the user with the zones of both
  its entries, and the properties of `ct_zones_restart` except them.
* Zones: after a commit that has to be tried again, a pass without a transaction
  drops the pending entries unwritten (ovn-controller.c:891).  `astray` has
  these too.  Without either of the two exceptions TLC finds both
  `UniqueUnlessAstray` and `RecordedUnlessAstray` violated.
* Gateways that do not see each other are both active, and take the port from
  each other for as long as the partition lasts.  `GatewaySettles` says that
  this is the only case.
* A port that moves to another switch keeps its tunnel key (ovn-northd.c:2551).
  If the key is taken there, every southbound transaction is refused until the
  administrator changes something.
* After a refusal (TXN_ERROR) northd's loop does not wake itself
  (ovsdb-idl.c:5384), and the pass that reads the answer still has no
  transaction.  A change that resolves the clash, if it is read before or with
  the answer, is therefore not acted upon until the next change.
  `SouthboundFollows` and `AddressesSettle` except the time from a refusal to
  the next pass.
* sb_cfg is written by the pass after the one in which cur_cfg advances.  When the
  southbound transaction changed nothing (TXN_UNCHANGED, as after a restart of
  northd that had already written everything) nothing wakes the loop for that
  pass, and `ovn-nbctl --wait=sb` waits until something else does
  (ovsdb-idl.c:5377).  `Settles` excepts sb_cfg in this case.
* A port that is unbound and loses its QoS options makes northd read a null
  chassis (ovn-northd.c:397), again after each restart until the row changes.
* A datapath key of 2^16 becomes 0 in a `uint16_t` (ovn-northd.c:807); the
  datapath has no row and the flow generation reads a null pointer.  A restart
  begins the search at 1 again.
* A port keeps its queue id when it moves to another chassis, where another port
  may have it.  `QueuesDistinct` speaks of ports that stayed.
* Two requests for one dynamic address in a pass are both granted and put right
  in the next (`AddressesSettle` is about the end).  When all MACs are taken one
  is given twice, since the test for exhaustion is never true
  (ovn-northd.c:1085).
* Buffered packets are kept by IP address alone and may leave with a MAC learnt
  on another router port for that address; `PacketsInOrder` asks for the address.

## 6. Abstractions and what is not modelled

* In `Ofctrl` matches and actions are opaque; which group, meter and cookie a
  flow has is kept.  A group that `parse_ofp_group_mod_str` rejects would be
  logged and not sent; the strings are made by `encode_CT_LB` and `ofctrl_put`
  and have the form it expects, so this branch is left out.  Meters given by a description (`set_meter`), packet
  injection and port lookup are not modelled.  Transaction ids do not wrap
  around.
* `CtZones` assumes that a user that is gone opens no connections.  The code
  sends the flush of a zone before it deletes the flows of the zone's old user;
  if that user still sends, its connections stay in the zone.  Zones restored
  after a restart are not flushed, so `NoForeignConnections` is about one life.
* `Expr`: lexing, parsing, negation (the parser's), subfields, predicates and
  the formatting of expressions; the evaluation for ovn-trace.  `Lflow`:
  actions, neighbour flows, DHCP options, multicast.  The step of
  `expr_normalize_and` that merges adjacent comparisons of one field never
  finds any after `expr_sort` (`NormalForm`).
* `Pinctrl`: the contents of the packets it composes, the DNS cache, the
  unlocked look at put_mac_bindings in `wait_put_mac_bindings`, which only
  decides whether the main loop waits.
* `Binding`: ports of types other than VIF, nested and chassisredirect
  (external ones take the same branch); local datapaths, with their depth limit
  of 100; the encap column; QoS.  The BFD sessions seen from chassis that are
  not gateways.  Whether a pass has an OVS transaction is not modelled: BFD is
  set in each pass that finds a connected bridge.
* `Northd`: router ports, IPv6 and MAC prefix changes in IPAM, tags, and
  everything that becomes logical flows.  The generation of logical flows is a
  function from rows to strings without state; what could be wrong with it is in
  the text of matches and actions.
* encaps.c, patch.c and controller-vtep/ compare the full contents of two
  databases in each pass and write the difference in one transaction; physical.c
  is a function from contents to flows.  They are left out for size.
* ovsdb-server and ovs-vswitchd are modelled by what the code relies on.
