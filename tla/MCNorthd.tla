------------------------------- MODULE MCNorthd -------------------------------
(* Instances of Northd for TLC. *)
EXTENDS Northd

Static(ip) == [dynamic |-> FALSE, mac |-> 0, ip |-> ip]
Dynamic(ip) == [dynamic |-> TRUE, mac |-> 0, ip |-> ip]
\* A MAC address of another vendor is asked for.
Foreign == [dynamic |-> TRUE, mac |-> MAC_ADDR_SPACE + 1, ip |-> 0]
Quiet == [switches |-> 0, ports |-> 0, moves |-> 0, specs |-> 0, qos |-> 0,
          claims |-> 0, fails |-> 0, crashes |-> 0, addresses |-> {Static(0)}]

\* Datapath keys come and go, beyond what a uint16_t can hold.
Keys == [Quiet EXCEPT !.switches = 6, !.crashes = 1, !.fails = 1]
\* Ports are added, deleted and moved between two switches.
PortKeys == [Quiet EXCEPT !.switches = 2, !.ports = 3, !.moves = 2, !.fails = 1]
\* Ports ask for QoS and move between chassis.
Queues == [Quiet EXCEPT !.switches = 1, !.ports = 2, !.qos = 3, !.claims = 3]
\* Ports of a switch, or of two, compete for two addresses.  Transactions may
\* have to be tried again.
Addresses == [Quiet EXCEPT !.switches = 1, !.ports = 3, !.specs = 1,
                           !.addresses = {Static(2), Dynamic(0), Dynamic(3)}]
AddressesLost == [Addresses EXCEPT !.ports = 2, !.fails = 1]
Macs == [Quiet EXCEPT !.switches = 2, !.ports = 4, !.addresses = {Dynamic(0)}]
OwnMacs == [Quiet EXCEPT !.switches = 1, !.ports = 2, !.specs = 2,
                         !.addresses = {Dynamic(0), Foreign}]
AllLoads == {Keys, PortKeys, Queues, Addresses, AddressesLost, Macs, OwnMacs}
================================================================================
