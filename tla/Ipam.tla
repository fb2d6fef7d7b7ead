--------------------------------- MODULE Ipam ---------------------------------
(***************************************************************************)
(* The address management of ovn-northd, as a function of the logical      *)
(* switch ports one pass reads: build_ipam gives ports that ask for it an  *)
(* IPv4 address of their switch's subnet and a MAC address that is unique  *)
(* in the deployment (northd/ovn-northd.c).  Module Northd runs it.        *)
(*                                                                         *)
(* Every switch has a subnet of the same size.  Address i >= 1 of a subnet *)
(* stands for start_ipv4 + i - 1, bit i - 1 of its bitmap; 0 is "none".    *)
(* MAC addresses are suffixes under the one mac_prefix, 0 being none; one  *)
(* that has another prefix is greater than MAC_ADDR_SPACE.  A port's       *)
(* 'spec' is its addresses column: a fixed address, or "dynamic" with a    *)
(* MAC or an address that is asked for.  Its 'dyn' is the                  *)
(* dynamic_addresses column.                                               *)
(***************************************************************************)
EXTENDS TunnelKeys

CONSTANTS TotalIpv4s,        \* total_ipv4s, 2^(32 - prefix length) - 1
          ExcludedIps,       \* other_config:exclude_ips
          MAC_ADDR_SPACE     \* 0xffffff, scaled down

\* The bitmap when build_ipam starts: the first address (the router's), the
\* excluded ones, and those of the ports with a fixed address.
InSubnet(ip) == ip \in 1..TotalIpv4s
InPool(mac) == mac \in 1..MAC_ADDR_SPACE
StaticPorts(lsp) == {p \in Ports : lsp[p] # None /\ ~lsp[p].spec.dynamic}
StaticIps(lsp, s) ==
    {ip \in {1} \cup ExcludedIps \cup
            {lsp[p].spec.ip : p \in {r \in StaticPorts(lsp) : lsp[r].sw = s}} :
        InSubnet(ip)}
StaticMacs(lsp) ==
    {mac \in {lsp[p].spec.mac : p \in StaticPorts(lsp)} : InPool(mac)}

\* The bitmap scan leaves out the last bit, the broadcast address.
ipam_get_unused_ip(allocated) ==
    LET free == 1..(TotalIpv4s - 1) \ allocated
    IN  IF free = {} THEN 0 ELSE Least(free)

\* Mutant: the first try is taken untested.
ipam_get_unused_mac_blind(macam, ip) == (ip % (MAC_ADDR_SPACE - 1)) + 1

\* Probing from the low bits of the address.  The test for exhaustion can
\* never be true, so the last MAC tried is returned then.
ipam_get_unused_mac(macam, ip) ==
    LET Suffix(i) == ((ip + i) % (MAC_ADDR_SPACE - 1)) + 1
        tries == 0..(MAC_ADDR_SPACE - 2)
        unused == {i \in tries : Suffix(i) \notin macam}
    IN  Suffix(IF unused = {} THEN Greatest(tries) ELSE Least(unused))

\* Mutant: conflicts with other ports are not looked for.
Unusable_subnet_only(ip, allocated) == ip - 1 > TotalIpv4s

\* An address that is out of the subnet or taken, as the code tests it.
Unusable(ip, allocated) == ip - 1 > TotalIpv4s \/ ip \in allocated

dynamic_mac_changed(spec, cur) ==
    IF spec.mac # 0 THEN IF spec.mac = cur.mac THEN "NONE" ELSE "STATIC"
    ELSE IF InPool(cur.mac) THEN "NONE" ELSE "DYNAMIC"

dynamic_ip4_changed(spec, cur, allocated) ==
    IF cur.ip = 0 \/ Unusable(cur.ip, allocated) THEN "DYNAMIC"
    ELSE IF spec.ip = 0 THEN "NONE"
    ELSE IF Unusable(spec.ip, allocated) THEN "DYNAMIC"
    ELSE IF cur.ip # spec.ip THEN "STATIC" ELSE "NONE"

\* For a port without dynamic addresses yet.
set_dynamic_updates(spec) ==
    [mac |-> IF spec.mac # 0 THEN "STATIC" ELSE "DYNAMIC",
     ip  |-> IF spec.ip # 0 THEN "STATIC" ELSE "DYNAMIC"]

\* The first loop of build_ipam, for one port: what must change of its
\* addresses is decided against the bitmap so far, and what stays is entered.
CheckPort(acc, p, lsp) ==
    LET port == lsp[p]
        cur == port.dyn
        update == IF cur = None THEN set_dynamic_updates(port.spec)
                  ELSE [mac |-> dynamic_mac_changed(port.spec, cur),
                        ip  |-> dynamic_ip4_changed(port.spec, cur,
                                                    acc.ips[port.sw])]
        keptIp == IF update.ip = "NONE" /\ InSubnet(cur.ip) THEN {cur.ip} ELSE {}
        keptMac == IF update.mac = "NONE" /\ InPool(cur.mac) THEN {cur.mac} ELSE {}
    IN  [ips     |-> [acc.ips EXCEPT ![port.sw] = @ \cup keptIp],
         macs    |-> acc.macs \cup keptMac,
         updates |-> IF "NONE" = update.mac /\ "NONE" = update.ip THEN acc.updates
                     ELSE Append(acc.updates,
                                 [port |-> p, mac |-> update.mac, ip |-> update.ip])]

\* The second loop: the new addresses of one port, entered as they are given.
update_dynamic_addresses(acc, update, lsp) ==
    LET p == update.port
        port == lsp[p]
        ip == CASE update.ip = "NONE"    -> port.dyn.ip
                [] update.ip = "STATIC"  -> port.spec.ip
                [] update.ip = "DYNAMIC" -> ipam_get_unused_ip(acc.ips[port.sw])
        mac == CASE update.mac = "NONE"    -> port.dyn.mac
                 [] update.mac = "STATIC"  -> port.spec.mac
                 [] update.mac = "DYNAMIC" -> ipam_get_unused_mac(acc.macs, ip)
    IN  [ips  |-> [acc.ips EXCEPT ![port.sw] =
                      IF InSubnet(ip) THEN @ \cup {ip} ELSE @],
         macs |-> IF InPool(mac) THEN acc.macs \cup {mac} ELSE acc.macs,
         dyn  |-> [acc.dyn EXCEPT ![p] = [mac |-> mac, ip |-> ip]]]

\* The dynamic_addresses column of every port after the pass.  Ports are
\* walked switch by switch.
build_ipam(lsp) ==
    LET dynamic == {p \in Ports : lsp[p] # None /\ lsp[p].spec.dynamic}
        Before(p, q) == lsp[p].sw < lsp[q].sw \/ (lsp[p].sw = lsp[q].sw /\ p < q)
        checked == Loop(LAMBDA acc, p : CheckPort(acc, p, lsp),
                            [ips     |-> [s \in Switches |-> StaticIps(lsp, s)],
                             macs    |-> StaticMacs(lsp),
                             updates |-> <<>>],
                            SetToSortSeq(dynamic, Before))
    IN  Loop(LAMBDA acc, u : update_dynamic_addresses(acc, u, lsp),
                 [ips  |-> checked.ips,
                  macs |-> checked.macs,
                  dyn  |-> [p \in Ports |-> IF p \in dynamic THEN lsp[p].dyn
                                            ELSE None]],
                 checked.updates).dyn

================================================================================
