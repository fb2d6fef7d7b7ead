------------------------------ MODULE Pinctrl ------------------------------
(***************************************************************************)
(* controller/pinctrl.c: the thread of ovn-controller that handles the     *)
(* packets the switch sends up (pinctrl_handler), and what the main thread *)
(* does for it (pinctrl_run, pinctrl_wait, pinctrl_destroy).               *)
(*                                                                         *)
(* The threads share br_int_name, put_mac_bindings, buffered_mac_bindings, *)
(* send_garp_data and ipv6_ras under pinctrl_mutex, with the exception of  *)
(* a few reads that the handler does without the lock.  They wake each     *)
(* other through 'struct seq': the thread that goes to sleep reads the     *)
(* sequence number immediately before it waits for it to change, so that a *)
(* change counts only if it comes after that read.                         *)
(*                                                                         *)
(* A MAC address is the number of the ARP reply that it was learnt from,   *)
(* and a packet the number of the "arp" action that it came with.  Time is *)
(* abstract: an entry turns 'old', an announcement 'due', at any moment.   *)
(***************************************************************************)
EXTENDS Integers, FiniteSets, Sequences, Functions

CONSTANTS
  Ports,              \* router ports: a datapath key and a port key
  Ips,
  Bridges,            \* the names that the integration bridge may have
  Vifs,               \* ports and NAT addresses that gratuitous ARP announces
  RaPorts,            \* router ports that may send periodic router adverts
  None, Freed,        \* a null pointer; memory that was freed
  BUFFER_QUEUE_DEPTH,
  MaxPutBindings,     \* 1000 in the code
  MaxBuffered,        \* 1000 in the code
  MaxBackoff,         \* 16 in the code
  MaxRecv,            \* 50 in the code
  Loads               \* bounds, one of which holds in a behaviour: on the
                      \* packets and replies that the switch sends up, and on
                      \* the lost connections and changes of configuration

ASSUME PinctrlAssumption ==
  /\ BUFFER_QUEUE_DEPTH \in Nat \ {0, 1}
  /\ {MaxPutBindings, MaxBuffered, MaxBackoff, MaxRecv} \subseteq Nat
  /\ Bridges # {}
  /\ Loads \subseteq [packets : Nat, macs : Nat, drops : Nat, changes : Nat,
                    ips : SUBSET Ips]

VARIABLES
  mutex,              \* who holds pinctrl_mutex
  hpc, hwake, recvd,  \* the handler: where it is, its wakeup, its loop index
  br_int_name,        \* the handler's own copy
  rconn,              \* its OpenFlow connection: target, state, messages in
  buffered_packets,   \* buffered_packets_map, a function on a set of addresses
  mpc,                \* the main thread
  name,               \* pinctrl.br_int_name
  put_mac_bindings,   \* a function on a set of keys
  buffered_mac_bindings,
  send_garp_data,     \* a function on Vifs
  ipv6_ras,           \* a function on RaPorts
  exit,               \* pinctrl_thread_exit
  txn, mac_binding,   \* the transaction in flight, the Southbound table
  world,              \* the name of the bridge, the ports to announce
  load,               \* what is left of the bounds
  learnt, packets,    \* history: the keys of the replies and of the packets
  pushed, out         \* history: packets buffered, packets sent

hvars == <<hpc, hwake, recvd, br_int_name>>
shared == <<put_mac_bindings, buffered_mac_bindings, send_garp_data, ipv6_ras>>
sbvars == <<txn, mac_binding>>
env == <<world, load>>
history == <<learnt, packets, pushed, out>>
vars == <<mutex, hvars, rconn, buffered_packets, mpc, name, shared, exit,
          sbvars, env, history>>

Keys == [port : Ports, ip : Ips]
Slots == 0 .. BUFFER_QUEUE_DEPTH - 1
NoGarp == [backoff |-> 0, announce |-> "never"]

Init ==
  /\ mutex = "free"
  /\ hpc = "top" /\ hwake = FALSE /\ recvd = 0 /\ br_int_name = None
  /\ rconn = [target |-> None, state |-> "VOID", in |-> <<>>]
  /\ buffered_packets = <<>>
  /\ mpc = "run" /\ name = None
  /\ put_mac_bindings = <<>> /\ buffered_mac_bindings = {}
  /\ send_garp_data = [v \in Vifs |-> NoGarp]
  /\ ipv6_ras = [r \in RaPorts |-> "none"]
  /\ exit = FALSE
  /\ txn = <<>> /\ mac_binding = <<>>
  /\ world = [bridge |-> CHOOSE b \in Bridges : TRUE, vifs |-> {}, ras |-> {}]
  /\ load \in Loads
  /\ learnt = <<>> /\ packets = <<>>
  /\ pushed = [i \in Ips |-> <<>>] /\ out = [i \in Ips |-> <<>>]

\* notify_pinctrl_handler(): it wakes the handler only if the handler has
\* read the sequence number since; a later seq_read() takes the change in.
notify_pinctrl_handler(changed) == hwake' = (hwake \/ (changed /\ hpc = "poll"))

-----------------------------------------------------------------------------
(* The packets that wait for an address: a ring for each address. *)

\* Mutant: a full ring forgets to move its head.
buffered_push_packet_stuck(bp, p) ==
  [bp EXCEPT !.data = [@ EXCEPT ![bp.tail] = p],
             !.tail = (bp.tail + 1) % BUFFER_QUEUE_DEPTH]

\* buffered_push_packet(): the oldest packet makes room.
buffered_push_packet(bp, p) ==
  LET next == (bp.tail + 1) % BUFFER_QUEUE_DEPTH
      stored == [bp.data EXCEPT ![bp.tail] = p]
  IN IF next = bp.head
     THEN [bp EXCEPT !.data = [stored EXCEPT ![bp.head] = Freed],
                     !.head = (bp.head + 1) % BUFFER_QUEUE_DEPTH,
                     !.tail = next]
     ELSE [bp EXCEPT !.data = stored, !.tail = next]

\* The packets from 'head' up to 'tail'.
Buffered(bp) ==
  [i \in 1 .. (bp.tail - bp.head) % BUFFER_QUEUE_DEPTH |->
     bp.data[(bp.head + i - 1) % BUFFER_QUEUE_DEPTH]]

NewRing == [data |-> [s \in Slots |-> Freed], head |-> 0, tail |-> 0,
            old |-> FALSE]
Emptied(bp) == [bp EXCEPT !.data = [s \in Slots |-> Freed], !.head = bp.tail]

\* Mutant: the number of addresses is not limited.
pinctrl_handle_arp_unlimited(p, ip) ==
  LET bp == IF ip \in DOMAIN buffered_packets THEN buffered_packets[ip] ELSE NewRing
  IN /\ buffered_packets' =
          [i \in DOMAIN buffered_packets \union {ip} |->
             IF i = ip
             THEN buffered_push_packet([bp EXCEPT !.old = FALSE], p)
             ELSE buffered_packets[i]]
     /\ pushed' = [pushed EXCEPT ![ip] = Append(@, p)]

\* pinctrl_handle_arp() up to the request that it sends:
\* pinctrl_handle_buffered_packets()
pinctrl_handle_arp(p, ip) ==
  LET known == ip \in DOMAIN buffered_packets
      bp == IF known THEN buffered_packets[ip] ELSE NewRing
  IN IF ~known /\ Cardinality(DOMAIN buffered_packets) >= MaxBuffered
     THEN UNCHANGED <<buffered_packets, pushed>>
     ELSE /\ buffered_packets' =
               [i \in DOMAIN buffered_packets \union {ip} |->
                  IF i = ip
                  THEN buffered_push_packet([bp EXCEPT !.old = FALSE], p)
                  ELSE buffered_packets[i]]
          /\ pushed' = [pushed EXCEPT ![ip] = Append(@, p)]

\* Mutant: nothing is too old.
buffered_packets_map_gc_never == UNCHANGED <<buffered_packets, pushed>>

\* buffered_packets_map_gc()
buffered_packets_map_gc ==
  LET keep == {i \in DOMAIN buffered_packets : ~buffered_packets[i].old}
  IN /\ buffered_packets' = [i \in keep |-> buffered_packets[i]]
     /\ pushed' = [i \in Ips |-> IF i \in keep THEN pushed[i] ELSE <<>>]

-----------------------------------------------------------------------------
(* The handler thread. *)

\* The name that the handler copies without the lock.  Between the free()
\* and the new pointer it reads freed memory: the old name or anything else.
NamesRead ==
  CASE name = None  -> {br_int_name}
    [] name = Freed -> {br_int_name, Freed}
    [] OTHER        -> {name}

\* Mutant: the connection keeps its first target.
ConnectedOnce(n) ==
  IF n # None /\ rconn.target = None
  THEN [target |-> n, state |-> "CONNECTING", in |-> <<>>] ELSE rconn

\* rconn_connect() to the bridge of that name, unless it is the target now.
ConnectTo(n) ==
  IF n # None /\ n # rconn.target
  THEN [target |-> n, state |-> "CONNECTING", in |-> <<>>] ELSE rconn

\* The top of the loop up to the receive loop.  A connection that is new
\* since the last pass is set up: pinctrl_setup() asks for the configuration.
HandlerTop ==
  /\ hpc = "top" /\ ~exit
  /\ \E n \in NamesRead :
       LET rc == ConnectTo(n)
           fresh == rc.state = "CONNECTED"
       IN /\ br_int_name' = n
          /\ rconn' = IF fresh THEN [rc EXCEPT !.state = "ASKED"] ELSE rc
          /\ hpc' = IF rc.state \in {"VOID", "CONNECTING"} THEN "sleep" ELSE "recv"
  /\ recvd' = 0
  /\ UNCHANGED <<mutex, hwake, buffered_packets, mpc, name, shared, exit,
                 sbvars, env, history>>

HandlerExit ==
  /\ hpc = "top" /\ exit
  /\ hpc' = "exited"
  /\ rconn' = [target |-> None, state |-> "VOID", in |-> <<>>]
  /\ br_int_name' = None
  /\ UNCHANGED <<mutex, hwake, recvd, buffered_packets, mpc, name, shared,
                 exit, sbvars, env, history>>

\* pinctrl_handle_put_mac_binding(), with the mutex
pinctrl_handle_put_mac_binding(k, mac) ==
  /\ mutex = "free"
  /\ IF k \notin DOMAIN put_mac_bindings
        /\ Cardinality(DOMAIN put_mac_bindings) >= MaxPutBindings
     THEN UNCHANGED put_mac_bindings
     ELSE put_mac_bindings' =
            [j \in DOMAIN put_mac_bindings \union {k} |->
               IF j = k THEN [mac |-> mac, old |-> FALSE] ELSE put_mac_bindings[j]]

\* set_switch_config() turns the asynchronous messages on.
set_switch_config(rc) == [rc EXCEPT !.state = "ON"]

\* pinctrl_recv() of one message
HandlerRecv ==
  /\ hpc = "recv" /\ rconn.in # <<>> /\ recvd < MaxRecv
  /\ recvd' = recvd + 1
  /\ LET m == Head(rconn.in)
         rc == [rconn EXCEPT !.in = Tail(@)]
     IN \/ /\ m.type = "OFPTYPE_GET_CONFIG_REPLY"
           /\ rconn' = set_switch_config(rc)
           /\ UNCHANGED <<buffered_packets, pushed, put_mac_bindings>>
        \/ /\ m.type = "ACTION_OPCODE_ARP"
           /\ rconn' = rc
           /\ pinctrl_handle_arp(m.n, m.key.ip)
           /\ UNCHANGED put_mac_bindings
        \/ /\ m.type = "ACTION_OPCODE_PUT_ARP"
           /\ rconn' = rc
           /\ pinctrl_handle_put_mac_binding(m.key, m.n)
           /\ UNCHANGED <<buffered_packets, pushed>>
  /\ UNCHANGED <<mutex, hpc, hwake, br_int_name, mpc, name,
                 buffered_mac_bindings, send_garp_data, ipv6_ras, exit, sbvars,
                 env, learnt, packets, out>>

\* Mutant: the backoff is not doubled.
send_garp_same(g) ==
  CASE g.announce # "due"     -> g
    [] g.backoff < MaxBackoff -> [g EXCEPT !.announce = "waiting"]
    [] OTHER                  -> [g EXCEPT !.announce = "never"]

\* send_garp(): the backoff doubles up to the last announcement, after which
\* the next one is at LLONG_MAX.
send_garp(g) ==
  CASE g.announce # "due"     -> g
    [] g.backoff < MaxBackoff -> [backoff |-> g.backoff * 2, announce |-> "waiting"]
    [] OTHER                  -> [g EXCEPT !.announce = "never"]

\* may_inject_pkts(), which reads the tables without the lock
may_inject_pkts ==
  \/ \E r \in RaPorts : ipv6_ras[r] # "none"
  \/ \E v \in Vifs : send_garp_data[v] # NoGarp
  \/ buffered_mac_bindings # {}

\* After the last message: send_garp_run(), send_ipv6_ras() and
\* send_mac_binding_buffered_pkts() with the mutex.  The bindings are popped
\* in no particular order; the first one for an address takes all of its
\* packets.
HandlerInject ==
  /\ hpc = "recv" /\ (rconn.in = <<>> \/ recvd = MaxRecv)
  /\ hpc' = "sleep"
  /\ mutex = "free" \/ ~may_inject_pkts
  /\ send_garp_data' = [v \in Vifs |-> send_garp(send_garp_data[v])]
  /\ ipv6_ras' = [r \in RaPorts |->
                    IF ipv6_ras[r] = "due" THEN "waiting" ELSE ipv6_ras[r]]
  /\ buffered_mac_bindings' = {}
  /\ LET served == {i \in DOMAIN buffered_packets :
                      \E b \in buffered_mac_bindings : b.key.ip = i}
     IN \E first \in [served -> buffered_mac_bindings] :
          /\ \A i \in served : first[i].key.ip = i
          /\ out' = [i \in Ips |->
                       IF i \notin served THEN out[i]
                       ELSE out[i] \o [j \in DOMAIN Buffered(buffered_packets[i]) |->
                              [pkt |-> Buffered(buffered_packets[i])[j],
                               by |-> first[i]]]]
          /\ buffered_packets' =
               [i \in DOMAIN buffered_packets |->
                  IF i \in served THEN Emptied(buffered_packets[i])
                  ELSE buffered_packets[i]]
          /\ pushed' = [i \in Ips |-> IF i \in served THEN <<>> ELSE pushed[i]]
  /\ UNCHANGED <<mutex, hwake, recvd, br_int_name, rconn, mpc, name,
                 put_mac_bindings, exit, sbvars, env, learnt, packets>>

\* buffered_packets_map_gc(), then seq_read() and seq_wait()
HandlerSleep ==
  /\ hpc = "sleep" /\ hpc' = "poll"
  /\ hwake' = FALSE
  /\ buffered_packets_map_gc
  /\ UNCHANGED <<mutex, recvd, br_int_name, rconn, mpc, name, shared, exit,
                 sbvars, env, learnt, packets, out>>

\* Mutant: the handler does not wait for the latch.
HandlerWakeNoLatch ==
  /\ hpc = "poll" /\ hpc' = "top"
  /\ hwake \/ rconn.state # "VOID"
  /\ hwake' = FALSE
  /\ UNCHANGED <<mutex, recvd, br_int_name, rconn, buffered_packets, mpc, name,
                 shared, exit, sbvars, env, history>>

\* poll_block() returns: for the sequence number, the latch, or the timers and
\* the socket of the connection, which has one in every state but VOID.  The
\* timers of send_garp_wait() and ipv6_ra_wait() may only do so earlier.
HandlerWake ==
  /\ hpc = "poll" /\ hpc' = "top"
  /\ hwake \/ exit \/ rconn.state # "VOID"
  /\ hwake' = FALSE
  /\ UNCHANGED <<mutex, recvd, br_int_name, rconn, buffered_packets, mpc, name,
                 shared, exit, sbvars, env, history>>

-----------------------------------------------------------------------------
(* The main thread. *)

\* The next pass of the main loop, pinctrl_run() up to the free() of the old
\* name.  What pinctrl_wait() registers can only make the pass come earlier:
\* the main thread, too, has the timer of an OpenFlow connection.
MainRun ==
  /\ mpc = "run" /\ mpc' = "locked"
  /\ mutex = "free" /\ mutex' = "main"
  /\ name' = IF name \notin {None, world.bridge} THEN Freed ELSE name
  /\ UNCHANGED <<hvars, rconn, buffered_packets, shared, exit, sbvars, env,
                 history>>

\* There is an open transaction when no commit is under way.
CanWrite == txn = <<>>

\* run_put_mac_binding() for all of them: those that are neither too old nor
\* of an unknown port, and new to the table.
Written(known) ==
  {k \in DOMAIN put_mac_bindings :
     /\ ~put_mac_bindings[k].old
     /\ k.port \in known
     /\ k \in DOMAIN mac_binding => mac_binding[k] # put_mac_bindings[k].mac}

\* run_put_mac_bindings() with buffer_put_mac_bindings()
run_put_mac_bindings(known) ==
  IF ~CanWrite
  THEN UNCHANGED <<txn, put_mac_bindings, buffered_mac_bindings>>
  ELSE /\ txn' = [k \in Written(known) |-> put_mac_bindings[k].mac]
       /\ buffered_mac_bindings' = buffered_mac_bindings \union
            {[key |-> k, mac |-> put_mac_bindings[k].mac] :
               k \in DOMAIN put_mac_bindings}
       /\ put_mac_bindings' = <<>>

\* send_garp_prepare(): send_garp_delete() and add_garp() by what is there
send_garp_prepare ==
  send_garp_data' =
    [v \in Vifs |->
       CASE v \notin world.vifs         -> NoGarp
         [] send_garp_data[v] = NoGarp  -> [backoff |-> 1, announce |-> "waiting"]
         [] OTHER                       -> send_garp_data[v]]

\* prepare_ipv6_ras()
prepare_ipv6_ras ==
  ipv6_ras' =
    [r \in RaPorts |->
       CASE r \notin world.ras    -> "none"
         [] ipv6_ras[r] = "none"  -> "waiting"
         [] OTHER                 -> ipv6_ras[r]]

\* What pinctrl_run() notifies the handler of: the name, a hand-over of
\* bindings, announcements that come or go, router adverts that come.
News ==
  \/ name' # name
  \/ CanWrite /\ put_mac_bindings # <<>>
  \/ {v \in Vifs : send_garp_data'[v] = NoGarp}
       # {v \in Vifs : send_garp_data[v] = NoGarp}
  \/ \E r \in RaPorts : ipv6_ras[r] = "none" /\ ipv6_ras'[r] # "none"

\* The rest of pinctrl_run(), and the commit at the end of the main loop.
MainUpdate ==
  /\ mpc = "locked" /\ mpc' = "run"
  /\ mutex' = "free"
  /\ name' = world.bridge
  /\ \E known \in SUBSET Ports : run_put_mac_bindings(known)
  /\ send_garp_prepare
  /\ prepare_ipv6_ras
  /\ notify_pinctrl_handler(News)
  /\ UNCHANGED <<hpc, recvd, br_int_name, rconn, buffered_packets, exit,
                 mac_binding, env, history>>

\* pinctrl_destroy(): the latch; the join; the tables
MainExit ==
  /\ mpc = "run" /\ mpc' = "join"
  /\ exit' = TRUE
  /\ UNCHANGED <<mutex, hvars, rconn, buffered_packets, name, shared, sbvars,
                 env, history>>

MainJoin ==
  /\ mpc = "join" /\ hpc = "exited"
  /\ mpc' = "gone"
  /\ name' = Freed
  /\ send_garp_data' = [v \in Vifs |-> NoGarp]
  /\ ipv6_ras' = [r \in RaPorts |-> "none"]
  /\ buffered_packets' = <<>>
  /\ put_mac_bindings' = <<>> /\ buffered_mac_bindings' = {}
  /\ pushed' = [i \in Ips |-> <<>>]
  /\ UNCHANGED <<mutex, hvars, rconn, exit, sbvars, env, learnt, packets, out>>

-----------------------------------------------------------------------------
(* The switch, the databases and time. *)

Connected == rconn.state \notin {"VOID", "CONNECTING"}

SwitchAccepts ==
  /\ rconn.state = "CONNECTING" /\ rconn.target \in Bridges
  /\ rconn' = [rconn EXCEPT !.state = "CONNECTED"]
  /\ UNCHANGED <<mutex, hvars, buffered_packets, mpc, name, shared, exit, sbvars,
                 env, history>>

SwitchConfigReply ==
  /\ rconn.state = "ASKED"
  /\ rconn' = [rconn EXCEPT !.state = "REPLIED",
                   !.in = Append(@, [type |-> "OFPTYPE_GET_CONFIG_REPLY"])]
  /\ UNCHANGED <<mutex, hvars, buffered_packets, mpc, name, shared, exit, sbvars,
                 env, history>>

\* A packet without a binding comes up, or the answer to a request.
SwitchPacketIn(k) ==
  /\ rconn.state = "ON" /\ k.ip \in load.ips
  /\ \/ /\ load.packets > 0 /\ load' = [load EXCEPT !.packets = @ - 1]
        /\ packets' = Append(packets, k)
        /\ rconn' = [rconn EXCEPT !.in = Append(@,
             [type |-> "ACTION_OPCODE_ARP", key |-> k, n |-> Len(packets')])]
        /\ UNCHANGED learnt
     \/ /\ load.macs > 0 /\ load' = [load EXCEPT !.macs = @ - 1]
        /\ learnt' = Append(learnt, k)
        /\ rconn' = [rconn EXCEPT !.in = Append(@,
             [type |-> "ACTION_OPCODE_PUT_ARP", key |-> k, n |-> Len(learnt')])]
        /\ UNCHANGED packets
  /\ UNCHANGED <<mutex, hvars, buffered_packets, mpc, name, shared, exit, sbvars,
                 world, pushed, out>>

ConnectionLost ==
  /\ Connected /\ load.drops > 0
  /\ load' = [load EXCEPT !.drops = @ - 1]
  /\ rconn' = [rconn EXCEPT !.state = "CONNECTING", !.in = <<>>]
  /\ UNCHANGED <<mutex, hvars, buffered_packets, mpc, name, shared, exit, sbvars,
                 world, history>>

\* The commit of the main loop is answered; a failed one leaves no trace.
CommitReply ==
  /\ txn # <<>> /\ txn' = <<>>
  /\ \/ mac_binding' = [k \in DOMAIN mac_binding \union DOMAIN txn |->
                          IF k \in DOMAIN txn THEN txn[k] ELSE mac_binding[k]]
     \/ UNCHANGED mac_binding
  /\ UNCHANGED <<mutex, hvars, rconn, buffered_packets, mpc, name, shared, exit,
                 env, history>>

\* More than a second after a binding, more than ten after a packet
BindingExpires(k) ==
  /\ k \in DOMAIN put_mac_bindings /\ ~put_mac_bindings[k].old
  /\ put_mac_bindings' = [put_mac_bindings EXCEPT ![k].old = TRUE]
  /\ UNCHANGED <<mutex, hvars, rconn, buffered_packets, mpc, name,
                 buffered_mac_bindings, send_garp_data, ipv6_ras, exit, sbvars,
                 env, history>>

PacketsExpire(i) ==
  /\ i \in DOMAIN buffered_packets /\ ~buffered_packets[i].old
  /\ buffered_packets' = [buffered_packets EXCEPT ![i].old = TRUE]
  /\ UNCHANGED <<mutex, hvars, rconn, mpc, name, shared, exit, sbvars, env,
                 history>>

\* The time of an announcement comes.
GarpDue(v) ==
  /\ send_garp_data[v].announce = "waiting"
  /\ send_garp_data' = [send_garp_data EXCEPT ![v].announce = "due"]
  /\ UNCHANGED <<mutex, hvars, rconn, buffered_packets, mpc, name,
                 put_mac_bindings, buffered_mac_bindings, ipv6_ras, exit, sbvars,
                 env, history>>

RaDue(r) ==
  /\ ipv6_ras[r] = "waiting"
  /\ ipv6_ras' = [ipv6_ras EXCEPT ![r] = "due"]
  /\ UNCHANGED <<mutex, hvars, rconn, buffered_packets, mpc, name,
                 put_mac_bindings, buffered_mac_bindings, send_garp_data, exit,
                 sbvars, env, history>>

\* The configuration of the chassis changes; the main thread sees it from its
\* next pass on.
WorldChanges ==
  /\ mpc # "locked"
  /\ load.changes > 0 /\ load' = [load EXCEPT !.changes = @ - 1]
  /\ \/ \E vs \in SUBSET Vifs, rs \in SUBSET RaPorts :
          /\ <<vs, rs>> # <<world.vifs, world.ras>>
          /\ world' = [world EXCEPT !.vifs = vs, !.ras = rs]
     \/ \E b \in Bridges \ {world.bridge} :
          world' = [world EXCEPT !.bridge = b]
  /\ UNCHANGED <<mutex, hvars, rconn, buffered_packets, mpc, name, shared, exit,
                 sbvars, history>>

Handler ==
  \/ HandlerTop \/ HandlerExit \/ HandlerRecv \/ HandlerInject
  \/ HandlerSleep \/ HandlerWake
Main == MainRun \/ MainUpdate \/ MainExit \/ MainJoin
Environment ==
  \/ SwitchAccepts \/ SwitchConfigReply \/ ConnectionLost
  \/ \E k \in Keys : SwitchPacketIn(k)
  \/ CommitReply \/ WorldChanges
  \/ \E k \in Keys : BindingExpires(k)
  \/ \E i \in Ips : PacketsExpire(i)
  \/ \E v \in Vifs : GarpDue(v)
  \/ \E r \in RaPorts : RaDue(r)
Next == Handler \/ Main \/ Environment

Spec == Init /\ [][Next]_vars

\* Both threads run, a mutex that is free again and again is obtained in the
\* end, a switch that exists accepts and answers, and time goes on.
Fairness ==
  /\ WF_vars(HandlerTop \/ HandlerExit \/ HandlerSleep \/ HandlerWake)
  /\ SF_vars(HandlerRecv) /\ SF_vars(HandlerInject)
  /\ WF_vars(MainRun \/ MainUpdate \/ MainJoin)
  /\ WF_vars(SwitchAccepts) /\ WF_vars(SwitchConfigReply) /\ WF_vars(CommitReply)
  /\ \A i \in Ips : WF_vars(PacketsExpire(i))
  /\ \A v \in Vifs : WF_vars(GarpDue(v))
  /\ \A r \in RaPorts : WF_vars(RaDue(r))

FairSpec == Spec /\ Fairness

-----------------------------------------------------------------------------
(* Properties. *)

\* The shapes of the shared and private data.
TypeOK ==
  /\ mutex \in {"free", "main"} /\ (mutex = "main" <=> mpc = "locked")
  /\ hpc \in {"top", "recv", "sleep", "poll", "exited"}
  /\ mpc \in {"run", "locked", "join", "gone"}
  /\ hwake \in BOOLEAN /\ recvd \in 0 .. MaxRecv /\ exit \in BOOLEAN
  /\ {br_int_name, name, rconn.target} \subseteq Bridges \union {None, Freed}
  /\ rconn.state \in
       {"VOID", "CONNECTING", "CONNECTED", "ASKED", "REPLIED", "ON"}
  /\ DOMAIN buffered_packets \subseteq Ips
  /\ Cardinality(DOMAIN buffered_packets) <= MaxBuffered
  /\ DOMAIN put_mac_bindings \subseteq Keys
  /\ Cardinality(DOMAIN put_mac_bindings) <= MaxPutBindings
  /\ buffered_mac_bindings \subseteq [key : Keys, mac : DOMAIN learnt]
  /\ DOMAIN mac_binding \subseteq Keys /\ DOMAIN txn \subseteq Keys

\* The ring of an address holds the packets pushed since it was last emptied,
\* the most recent ones when there were more than it has room for, oldest
\* first, whatever the wrap-around (buffered_push_packet()).  They leave in
\* the order in which they came and at most once each, rewritten to a MAC
\* address that was learnt for that address, however the bindings and the
\* packets overtake each other on their way between the two threads.
PacketsInOrder ==
  \A i \in Ips :
    /\ i \in DOMAIN buffered_packets =>
         LET n == Len(pushed[i])
             room == BUFFER_QUEUE_DEPTH - 1
         IN Buffered(buffered_packets[i]) =
              SubSeq(pushed[i], IF n > room THEN n - room + 1 ELSE 1, n)
    /\ \A j \in DOMAIN out[i] :
         /\ packets[out[i][j].pkt].ip = i
         /\ learnt[out[i][j].by.mac].ip = i
    /\ \A j, l \in DOMAIN out[i] : j < l => out[i][j].pkt < out[i][l].pkt

\* A buffered packet does not stay: it is sent, makes room or expires, since
\* the connection's timer keeps the handler going even when a notification
\* comes between its work and its seq_read().
PacketsSettle ==
  \A p \in UNION {1 .. l.packets : l \in Loads} :
    (\E i \in DOMAIN buffered_packets : p \in Range(Buffered(buffered_packets[i])))
      ~> ~(\E i \in DOMAIN buffered_packets :
             p \in Range(Buffered(buffered_packets[i])))

\* Once it has had a connection the handler follows the integration bridge,
\* even after it read its name from freed memory, and the connection comes to
\* the point where the switch sends packets up.
BridgeFollowed ==
  \A b \in Bridges :
    (rconn.state # "VOID" /\ name = b)
      ~> \/ exit \/ name # b
         \/ rconn.target = b /\ rconn.state = "ON"

\* Every address that stays is announced until its announcements are over, and
\* a router advert that is due is sent.
Announced ==
  /\ \A v \in Vifs :
       (Connected /\ send_garp_data[v] # NoGarp)
         ~> exit \/ send_garp_data[v].announce = "never"
  /\ \A r \in RaPorts : (Connected /\ ipv6_ras[r] = "due")
                          ~> exit \/ ipv6_ras[r] # "due"

\* pinctrl_destroy() returns: the handler sees the latch wherever it is.
Exits == exit ~> mpc = "gone"
=============================================================================
