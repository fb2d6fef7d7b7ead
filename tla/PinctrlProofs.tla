--------------------------- MODULE PinctrlProofs ---------------------------
(***************************************************************************)
(* Proofs about Pinctrl.tla, for every depth of the rings, every set of    *)
(* ports and addresses and every limit on the tables:                      *)
(*                                                                         *)
(*   - PacketsStayInOrder: the packets that wait for an address are kept   *)
(*     in the order in which they came, the most recent ones when the ring *)
(*     is full, and leave in that order, once each, with a MAC address     *)
(*     that was learnt for their address;                                  *)
(*   - TypesAreKept: the shapes of the data, the mutex, and the limits on  *)
(*     the two tables that the switch can fill.                            *)
(*                                                                         *)
(* PacketsInOrder is not inductive.  The ring must hold the last packets   *)
(* that were pushed slot by slot (Holds), and a packet that is pushed must *)
(* be later than all of those pushed or sent before, which follows from    *)
(* the order of the messages under way (Numbered, Received).  A MAC        *)
(* address is one that was learnt while the binding is on its way through  *)
(* put_mac_bindings and buffered_mac_bindings (BindingsInv).               *)
(***************************************************************************)
EXTENDS Pinctrl, FiniteSetTheorems, TLAPS

-----------------------------------------------------------------------------
(* The rings. *)

D == BUFFER_QUEUE_DEPTH

Rings == [data : [Slots -> Nat \union {Freed}], head : Slots, tail : Slots,
          old : BOOLEAN]

(* The slot that is k behind h.                                            *)
At(h, k) == (h + k) % D

(* How many packets of s the ring has.                                     *)
Kept(s) == IF Len(s) > D - 1 THEN D - 1 ELSE Len(s)

(* The ring holds the last packets of s, in their order.                   *)
Holds(bp, s) ==
  /\ bp \in Rings
  /\ bp.tail = At(bp.head, Kept(s))
  /\ \A k \in 1 .. Kept(s) :
        bp.data[At(bp.head, k - 1)] = s[(Len(s) - Kept(s)) + k]

-----------------------------------------------------------------------------
(* The invariant. *)

Arp(m) == m.type = "ACTION_OPCODE_ARP"
PutArp(m) == m.type = "ACTION_OPCODE_PUT_ARP"

(* What the switch sends up, the bindings, the packets sent.               *)
Messages ==
  [type : {"OFPTYPE_GET_CONFIG_REPLY"}] \union
  [type : {"ACTION_OPCODE_ARP", "ACTION_OPCODE_PUT_ARP"}, key : Keys, n : Nat]

Bindings == [key : Keys, mac : Nat]
Outs == [pkt : Nat, by : Bindings]

(* The messages under way are numbered as they were sent.                  *)
Numbered(in, pk, le) ==
  /\ in \in Seq(Messages) /\ pk \in Seq(Keys) /\ le \in Seq(Keys)
  /\ \A a \in 1 .. Len(in) :
        /\ Arp(in[a]) => in[a].n \in 1 .. Len(pk) /\ in[a].key = pk[in[a].n]
        /\ PutArp(in[a]) => in[a].n \in 1 .. Len(le) /\ in[a].key = le[in[a].n]
  /\ \A a, b \in 1 .. Len(in) :
        a < b /\ Arp(in[a]) /\ Arp(in[b]) => in[a].n < in[b].n

(* A binding was learnt.                                                   *)
Known(b, le) == b \in Bindings /\ b.mac \in 1 .. Len(le) /\ le[b.mac] = b.key

(* A packet for the address i that has been received.                      *)
Received(p, i, in, pk) ==
  /\ p \in 1 .. Len(pk) /\ pk[p].ip = i
  /\ \A a \in 1 .. Len(in) : Arp(in[a]) => p < in[a].n

(* What was pushed (pu) and sent (o) for the address i is in order.        *)
InOrder(i, pu, o, in, pk, le) ==
  /\ pu \in Seq(Nat) /\ o \in Seq(Outs)
  /\ \A j \in 1 .. Len(pu) : Received(pu[j], i, in, pk)
  /\ \A j, l \in 1 .. Len(pu) : j < l => pu[j] < pu[l]
  /\ \A j \in 1 .. Len(o) : /\ Received(o[j].pkt, i, in, pk)
                            /\ Known(o[j].by, le) /\ o[j].by.key.ip = i
  /\ \A j, l \in 1 .. Len(o) : j < l => o[j].pkt < o[l].pkt
  /\ \A j \in 1 .. Len(o), l \in 1 .. Len(pu) : o[j].pkt < pu[l]

Connection(r) == r = [target |-> r.target, state |-> r.state, in |-> r.in]

(* What the switch has sent and the handler has not received.              *)
MessagesInv ==
  /\ Connection(rconn)
  /\ Numbered(rconn.in, packets, learnt)

(* The bindings on their way between the threads were learnt.              *)
BindingsInv ==
  /\ \A k \in DOMAIN put_mac_bindings :
        /\ put_mac_bindings[k] \in [mac : Nat, old : BOOLEAN]
        /\ Known([key |-> k, mac |-> put_mac_bindings[k].mac], learnt)
  /\ \A b \in buffered_mac_bindings : Known(b, learnt)

(* One address: its packets and its ring.                                  *)
AddressInv(i) ==
  /\ InOrder(i, pushed[i], out[i], rconn.in, packets, learnt)
  /\ IF i \in DOMAIN buffered_packets
     THEN Holds(buffered_packets[i], pushed[i]) ELSE pushed[i] = <<>>

(* The inductive invariant.                                                *)
PacketsInv ==
  /\ DOMAIN pushed = Ips /\ DOMAIN out = Ips
  /\ MessagesInv /\ BindingsInv
  /\ \A i \in Ips : AddressInv(i)

-----------------------------------------------------------------------------
(* Lemmas on the rings. *)

(* A ring has two slots or more.                                           *)
LEMMA DepthIs == D \in Nat /\ D >= 2 /\ Slots = 0 .. D - 1
BY PinctrlAssumption DEF D, Slots

(* The remainder by the depth, without division.                           *)
LEMMA AtIs ==
  ASSUME NEW h \in Slots, NEW k \in 0 .. D - 1
  PROVE  /\ At(h, k) = IF h + k < D THEN h + k ELSE h + k - D
         /\ At(h, k) \in Slots
<1>1. D \in Nat \ {0} /\ Slots = 0 .. D - 1
  BY DepthIs
<1>2. \A a \in 0 .. D - 1 : a % D = a
  BY <1>1, SMTT(30)
<1>3. \A a \in D .. 2 * D - 1 : a % D = a - D
  BY <1>1, SMTT(30)
<1>4. h + k < D => h + k \in 0 .. D - 1
  BY <1>1
<1>5. ~ (h + k < D) => h + k \in D .. 2 * D - 1 /\ (h + k) - D \in 0 .. D - 1
  BY <1>1
<1>6. CASE h + k < D
  <2>1. At(h, k) = h + k
    BY <1>2, <1>4, <1>6, Zenon DEF At
  <2> QED
    BY <1>1, <1>4, <1>6, <2>1, Zenon
<1>7. CASE ~ (h + k < D)
  <2>1. h + k \in D .. 2 * D - 1
    BY <1>5, <1>7, Zenon
  <2>2. (h + k) % D = (h + k) - D
    BY <1>3, <2>1, Zenon
  <2>3. (h + k) - D = h + k - D
    BY <1>1
  <2> QED
    BY <1>1, <1>5, <1>7, <2>2, <2>3, Zenon DEF At
<1> QED
  BY <1>6, <1>7, Zenon

(* Slots at different distances are different.                             *)
LEMMA AtInjective ==
  ASSUME NEW h \in Slots, NEW k \in 0 .. D - 1, NEW l \in 0 .. D - 1,
         At(h, k) = At(h, l)
  PROVE  k = l
<1>1. h \in 0 .. D - 1 /\ D \in Nat
  BY DepthIs
<1>2. /\ At(h, k) = IF h + k < D THEN h + k ELSE h + k - D
      /\ At(h, l) = IF h + l < D THEN h + l ELSE h + l - D
  BY AtIs
<1>3. (IF h + k < D THEN h + k ELSE h + k - D)
        = (IF h + l < D THEN h + l ELSE h + l - D)
  BY <1>2, Zenon
<1> QED
  BY <1>1, <1>3

(* From the next slot, the distances are one less.                         *)
LEMMA AtNext ==
  ASSUME NEW h \in Slots
  PROVE  /\ At(h, 1) \in Slots
         /\ \A k \in 0 .. D - 2 : At(At(h, 1), k) = At(h, k + 1)
         /\ At(At(h, 1), D - 1) = h
<1>1. h \in 0 .. D - 1 /\ D \in Nat /\ D >= 2 /\ 1 \in 0 .. D - 1
  BY DepthIs
<1>2. At(h, 1) = (IF h + 1 < D THEN h + 1 ELSE h + 1 - D) /\ At(h, 1) \in Slots
  BY <1>1, AtIs
<1>3. \A k \in 0 .. D - 1 : At(At(h, 1), k) = IF At(h, 1) + k < D
                                             THEN At(h, 1) + k
                                             ELSE At(h, 1) + k - D
  BY <1>2, AtIs
<1>4. D - 1 \in 0 .. D - 1
  BY <1>1
<1>5. At(At(h, 1), D - 1) = h
  BY <1>1, <1>2, <1>3, <1>4
<1>6. ASSUME NEW k \in 0 .. D - 2
      PROVE  At(At(h, 1), k) = At(h, k + 1)
  <2>1. k \in 0 .. D - 1 /\ k + 1 \in 0 .. D - 1
    BY <1>1
  <2>2. At(h, k + 1) = IF h + (k + 1) < D THEN h + (k + 1)
                       ELSE h + (k + 1) - D
    BY <2>1, AtIs
  <2> QED
    BY <1>1, <1>2, <1>3, <2>1, <2>2
<1> QED
  BY <1>2, <1>5, <1>6

(* The slot after a slot.                                                  *)
LEMMA AtPlus ==
  ASSUME NEW h \in Slots, NEW k \in 0 .. D - 1
  PROVE  At(At(h, k), 1) = IF k = D - 1 THEN h ELSE At(h, k + 1)
<1>1. h \in 0 .. D - 1 /\ D \in Nat /\ D >= 2 /\ 1 \in 0 .. D - 1
  BY DepthIs
<1>2. /\ At(h, k) = (IF h + k < D THEN h + k ELSE h + k - D)
      /\ At(h, k) \in Slots
  BY AtIs
<1>3. At(At(h, k), 1) = IF At(h, k) + 1 < D THEN At(h, k) + 1
                       ELSE At(h, k) + 1 - D
  BY <1>1, <1>2, AtIs
<1>4. k # D - 1 => /\ k + 1 \in 0 .. D - 1
                   /\ At(h, k + 1) = IF h + (k + 1) < D THEN h + (k + 1)
                                     ELSE h + (k + 1) - D
  BY <1>1, AtIs
<1> QED
  BY <1>1, <1>2, <1>3, <1>4

(* The slot at distance 0.                                                 *)
LEMMA AtZero ==
  ASSUME NEW h \in Slots
  PROVE  At(h, 0) = h
<1>1. h \in 0 .. D - 1 /\ D \in Nat /\ D >= 2 /\ 0 \in 0 .. D - 1 /\ h + 0 = h
  BY DepthIs
<1> QED
  BY <1>1, AtIs

(* The number of packets that are kept, in its cases.                      *)
LEMMA KeptIs ==
  ASSUME NEW s \in Seq(Nat)
  PROVE  /\ Len(s) \in Nat /\ Kept(s) \in 0 .. D - 1 /\ Kept(s) <= Len(s)
         /\ Kept(s) < D - 1 => Kept(s) = Len(s)
         /\ Kept(s) = IF Len(s) > D - 1 THEN D - 1 ELSE Len(s)
<1>1. Len(s) \in Nat
  OBVIOUS
<1> QED
  BY <1>1, DepthIs DEF Kept

(* The fields of a ring.                                                   *)
LEMMA RingFields ==
  ASSUME NEW bp \in Rings
  PROVE  /\ bp = [data |-> bp.data, head |-> bp.head, tail |-> bp.tail,
                  old |-> bp.old]
         /\ bp.data \in [Slots -> Nat \union {Freed}]
         /\ bp.head \in Slots /\ bp.tail \in Slots /\ bp.old \in BOOLEAN
BY DEF Rings

(* An empty ring.                                                          *)
LEMMA EmptyHolds ==
  /\ Holds(NewRing, <<>>)
  /\ \A bp \in Rings : Holds(Emptied(bp), <<>>)
<1>1. Kept(<<>>) = 0 /\ Len(<<>>) = 0
  BY DepthIs DEF Kept
<1>2. 0 \in Slots /\ \A h \in Slots : At(h, 0) = h
  BY AtZero, DepthIs
<1>3. \A k \in 1 .. 0 : FALSE
  OBVIOUS
<1>4. Holds(NewRing, <<>>)
  BY <1>1, <1>2, <1>3 DEF Holds, NewRing, Rings
<1>5. ASSUME NEW bp \in Rings
      PROVE  Holds(Emptied(bp), <<>>)
  <2> DEFINE e == Emptied(bp)
  <2>1. e \in Rings /\ e.head = bp.tail /\ e.tail = bp.tail /\ bp.tail \in Slots
    BY RingFields, Zenon DEF Emptied, Rings
  <2> HIDE DEF e
  <2> QED
    BY <1>1, <1>2, <1>3, <2>1 DEF Holds, e
<1> QED
  BY <1>4, <1>5

(* The age of a ring does not matter.                                      *)
LEMMA OldHolds ==
  ASSUME NEW bp, NEW s, Holds(bp, s), NEW b \in BOOLEAN
  PROVE  Holds([bp EXCEPT !.old = b], s)
<1> DEFINE e == [bp EXCEPT !.old = b]
<1>1. bp \in Rings
  BY DEF Holds
<1>2. /\ e \in Rings
      /\ e.data = bp.data /\ e.head = bp.head /\ e.tail = bp.tail
  BY <1>1 DEF Rings
<1> HIDE DEF e
<1>3. Holds(e, s)
  BY <1>2 DEF Holds
<1> QED
  BY <1>3 DEF e

(* One packet more.                                                        *)
LEMMA KeptAppend ==
  ASSUME NEW s \in Seq(Nat), NEW p \in Nat
  PROVE  /\ Append(s, p) \in Seq(Nat) /\ Len(Append(s, p)) = Len(s) + 1
         /\ Append(s, p)[Len(s) + 1] = p
         /\ \A k \in 1 .. Len(s) : Append(s, p)[k] = s[k]
         /\ Kept(Append(s, p)) = IF Kept(s) = D - 1 THEN D - 1 ELSE Len(s) + 1
<1> DEFINE t == Append(s, p)
<1>1. /\ t \in Seq(Nat) /\ Len(t) = Len(s) + 1 /\ t[Len(s) + 1] = p
      /\ \A k \in 1 .. Len(s) : t[k] = s[k]
  OBVIOUS
<1> HIDE DEF t
<1>2. /\ Len(s) \in Nat
      /\ Kept(s) = IF Len(s) > D - 1 THEN D - 1 ELSE Len(s)
      /\ Kept(t) = IF Len(t) > D - 1 THEN D - 1 ELSE Len(t)
  BY <1>1, KeptIs
<1>3. Kept(t) = IF Kept(s) = D - 1 THEN D - 1 ELSE Len(s) + 1
  BY <1>1, <1>2, DepthIs
<1> QED
  BY <1>1, <1>3 DEF t

(* buffered_push_packet() on a ring that has room ...                      *)
LEMMA PushRoom ==
  ASSUME NEW s \in Seq(Nat), NEW bp, Holds(bp, s), NEW p \in Nat,
         Kept(s) # D - 1
  PROVE  Holds(buffered_push_packet(bp, p), Append(s, p))
<1> DEFINE c == Kept(s)
           n == Len(s)
           t == Append(s, p)
           h == bp.head
           e == buffered_push_packet(bp, p)
<1>0. /\ bp \in Rings /\ bp.tail = At(h, c)
      /\ \A k \in 1 .. c : bp.data[At(h, k - 1)] = s[(n - c) + k]
  BY DEF Holds
<1>1. /\ bp.data \in [Slots -> Nat \union {Freed}]
      /\ h \in Slots /\ bp.tail \in Slots /\ bp.old \in BOOLEAN
      /\ bp = [data |-> bp.data, head |-> h, tail |-> bp.tail, old |-> bp.old]
  BY <1>0, RingFields
<1>2. D \in Nat /\ D >= 2 /\ n \in Nat /\ c = n /\ n < D - 1
  BY DepthIs, KeptIs
<1>3. /\ Len(t) = n + 1 /\ t[n + 1] = p
      /\ \A k \in 1 .. n : t[k] = s[k]
      /\ Kept(t) = n + 1
  BY KeptAppend
<1> HIDE DEF t
<1>5. (bp.tail + 1) % BUFFER_QUEUE_DEPTH = At(bp.tail, 1)
  BY DEF At, D
<1>6. At(bp.tail, 1) = At(h, n + 1)
  <2>1. n \in 0 .. D - 1 /\ n # D - 1
    BY <1>2
  <2> QED
    BY <1>0, <1>1, <1>2, <2>1, AtPlus
<1>7. At(h, n + 1) # h /\ At(h, n + 1) \in Slots
  <2>1. 0 \in 0 .. D - 1 /\ n + 1 \in 0 .. D - 1 /\ n + 1 # 0
    BY <1>2
  <2>2. At(h, 0) = h
    BY <1>1, AtZero
  <2> QED
    BY <1>1, <2>1, <2>2, AtIs, AtInjective
<1>8. e = [data |-> [bp.data EXCEPT ![bp.tail] = p], head |-> h,
           tail |-> At(h, n + 1), old |-> bp.old]
  <2>1. ~ ((bp.tail + 1) % BUFFER_QUEUE_DEPTH = bp.head)
    BY <1>5, <1>6, <1>7
  <2> DEFINE next == (bp.tail + 1) % BUFFER_QUEUE_DEPTH
             stored == [bp.data EXCEPT ![bp.tail] = p]
  <2>2. e = [bp EXCEPT !.data = stored, !.tail = next]
    BY <2>1, Zenon DEF buffered_push_packet
  <2>3. next = At(h, n + 1)
    BY <1>5, <1>6
  <2> HIDE DEF next, e, stored
  <2>4. e = [data |-> stored, head |-> h, tail |-> next, old |-> bp.old]
    BY <1>1, <2>2, Zenon
  <2> QED
    BY <2>3, <2>4 DEF stored
<1> DEFINE data == [bp.data EXCEPT ![bp.tail] = p]
<1>9. /\ data \in [Slots -> Nat \union {Freed}] /\ data[bp.tail] = p
      /\ \A x \in Slots : x # bp.tail => data[x] = bp.data[x]
  BY <1>1
<1> HIDE DEF data
<1>10. /\ e \in Rings /\ e.data = data /\ e.head = h /\ e.tail = At(h, n + 1)
  BY <1>1, <1>7, <1>8, <1>9 DEF Rings, data
<1> HIDE DEF e
<1>11. ASSUME NEW k \in 1 .. n + 1
       PROVE  data[At(h, k - 1)] = t[k]
  <2>1. CASE k = n + 1
    <3>1. k - 1 = n
      BY <1>2, <2>1
    <3> QED
      BY <1>0, <1>2, <1>3, <1>9, <2>1, <3>1
  <2>2. CASE k # n + 1
    <3>1. k \in 1 .. n /\ k - 1 \in 0 .. D - 1 /\ n \in 0 .. D - 1
          /\ k - 1 # n /\ (n - n) + k = k
      BY <1>2, <2>2
    <3>2. At(h, k - 1) # bp.tail /\ At(h, k - 1) \in Slots
      BY <1>0, <1>1, <1>2, <3>1, AtIs, AtInjective
    <3>3. bp.data[At(h, k - 1)] = s[k]
      BY <1>0, <1>2, <3>1
    <3> QED
      BY <1>3, <1>9, <3>1, <3>2, <3>3
  <2> QED
    BY <2>1, <2>2
<1>12. \A k \in 1 .. n + 1 : ((n + 1) - (n + 1)) + k = k
  BY <1>2
<1>14. /\ e.tail = At(e.head, Kept(t))
       /\ \A k \in 1 .. Kept(t) :
             e.data[At(e.head, k - 1)] = t[(Len(t) - Kept(t)) + k]
  BY <1>3, <1>10, <1>11, <1>12
<1> QED
  BY <1>10, <1>14, Zenon DEF Holds, e, t

(* ... and on a full one, whose oldest packet goes.                        *)
LEMMA PushFull ==
  ASSUME NEW s \in Seq(Nat), NEW bp, Holds(bp, s), NEW p \in Nat,
         Kept(s) = D - 1
  PROVE  Holds(buffered_push_packet(bp, p), Append(s, p))
<1> DEFINE n == Len(s)
           t == Append(s, p)
           h == bp.head
           e == buffered_push_packet(bp, p)
           stored == [bp.data EXCEPT ![bp.tail] = p]
           data == [stored EXCEPT ![h] = Freed]
<1>0. /\ bp \in Rings /\ bp.tail = At(h, D - 1)
      /\ \A k \in 1 .. D - 1 : bp.data[At(h, k - 1)] = s[(n - (D - 1)) + k]
  BY DEF Holds
<1>1. /\ bp.data \in [Slots -> Nat \union {Freed}]
      /\ h \in Slots /\ bp.tail \in Slots /\ bp.old \in BOOLEAN
      /\ bp = [data |-> bp.data, head |-> h, tail |-> bp.tail, old |-> bp.old]
  BY <1>0, RingFields
<1>2. D \in Nat /\ D >= 2 /\ n \in Nat /\ n >= D - 1
  BY DepthIs, KeptIs
<1>3. /\ Len(t) = n + 1 /\ t[n + 1] = p
      /\ \A k \in 1 .. n : t[k] = s[k]
      /\ Kept(t) = D - 1
  BY KeptAppend
<1> HIDE DEF t
<1>5. /\ (bp.tail + 1) % BUFFER_QUEUE_DEPTH = At(bp.tail, 1)
      /\ (h + 1) % BUFFER_QUEUE_DEPTH = At(h, 1)
  BY DEF At, D
<1>13. /\ D - 1 \in 0 .. D - 1 /\ 1 \in 0 .. D - 1 /\ 0 \in 0 .. D - 1
       /\ h \in 0 .. D - 1 /\ bp.tail \in 0 .. D - 1
  BY <1>1, <1>2, DepthIs
<1>6. At(bp.tail, 1) = h
  BY <1>0, <1>1, <1>13, AtPlus
<1>7. /\ bp.tail # h
      /\ At(h, 1) \in Slots /\ At(At(h, 1), D - 1) = h
      /\ \A k \in 0 .. D - 2 : At(At(h, 1), k) = At(h, k + 1)
  <2>1. At(h, 0) = h
    BY <1>1, AtZero
  <2>2. D - 1 # 0
    BY <1>2
  <2> QED
    BY <1>0, <1>1, <1>13, <2>1, <2>2, AtInjective, AtNext, SMTT(30)
<1>8. e = [data |-> data, head |-> At(h, 1), tail |-> h, old |-> bp.old]
  <2>1. (bp.tail + 1) % BUFFER_QUEUE_DEPTH = bp.head
    BY <1>5, <1>6
  <2>2. e = [bp EXCEPT !.data = data,
                       !.head = (bp.head + 1) % BUFFER_QUEUE_DEPTH, !.tail = h]
    BY <2>1, Zenon DEF buffered_push_packet
  <2> HIDE DEF e, data
  <2> QED
    BY <1>1, <1>5, <2>2, Zenon
<1>9. /\ data \in [Slots -> Nat \union {Freed}] /\ data[bp.tail] = p
      /\ \A x \in Slots : x # bp.tail /\ x # h => data[x] = bp.data[x]
  BY <1>1, <1>7
<1> HIDE DEF data
<1>10. e \in Rings /\ e.data = data /\ e.head = At(h, 1) /\ e.tail = h
  BY <1>1, <1>7, <1>8, <1>9 DEF Rings
<1> HIDE DEF e
<1>11. ASSUME NEW k \in 1 .. D - 1
       PROVE  data[At(At(h, 1), k - 1)] = t[((n + 1) - (D - 1)) + k]
  <2>1. k - 1 \in 0 .. D - 2 /\ (k - 1) + 1 = k /\ k \in 0 .. D - 1
    BY <1>2
  <2>2. At(At(h, 1), k - 1) = At(h, k)
    BY <1>7, <2>1
  <2>3. CASE k = D - 1
    <3>1. ((n + 1) - (D - 1)) + k = n + 1
      BY <1>2, <2>3
    <3> QED
      BY <1>0, <1>3, <1>9, <2>2, <2>3, <3>1, Zenon
  <2>4. CASE k # D - 1
    <3>1. /\ k + 1 \in 1 .. D - 1 /\ (k + 1) - 1 = k /\ k # 0
          /\ ((n + 1) - (D - 1)) + k = (n - (D - 1)) + (k + 1)
          /\ (n - (D - 1)) + (k + 1) \in 1 .. n
      BY <1>2, <2>4
    <3>2. At(h, k) # bp.tail /\ At(h, k) \in Slots
      BY <1>0, <1>1, <1>13, <2>1, <2>4, AtIs, AtInjective
    <3>3. At(h, k) # h
      <4>1. At(h, 0) = h
        BY <1>1, AtZero
      <4> QED
        BY <1>1, <1>13, <2>1, <3>1, <4>1, AtInjective, Zenon
    <3>4. bp.data[At(h, k)] = s[(n - (D - 1)) + (k + 1)]
      BY <1>0, <3>1, SMTT(30)
    <3> QED
      BY <1>3, <1>9, <2>2, <3>1, <3>2, <3>3, <3>4
  <2> QED
    BY <2>3, <2>4
<1>14. /\ e.tail = At(e.head, Kept(t))
       /\ \A k \in 1 .. Kept(t) :
             e.data[At(e.head, k - 1)] = t[(Len(t) - Kept(t)) + k]
  BY <1>3, <1>7, <1>10, <1>11
<1> QED
  BY <1>10, <1>14, Zenon DEF Holds, e, t

(* buffered_push_packet() keeps the last packets.                          *)
LEMMA PushHolds ==
  ASSUME NEW s \in Seq(Nat), NEW bp, Holds(bp, s), NEW p \in Nat
  PROVE  Holds(buffered_push_packet(bp, p), Append(s, p))
BY PushRoom, PushFull

(* What is read from a ring.                                               *)
LEMMA BufferedIs ==
  ASSUME NEW s \in Seq(Nat), NEW bp, Holds(bp, s)
  PROVE  Buffered(bp) = [j \in 1 .. Kept(s) |-> s[(Len(s) - Kept(s)) + j]]
<1> DEFINE c == Kept(s)
           h == bp.head
           n == Len(s)
<1>1. /\ bp \in Rings /\ bp.tail = At(h, c)
      /\ \A k \in 1 .. c : bp.data[At(h, k - 1)] = s[(n - c) + k]
  BY DEF Holds
<1>2. h \in Slots /\ bp.tail \in Slots
  BY <1>1, RingFields
<1>3. c \in 0 .. D - 1 /\ D \in Nat /\ D >= 2 /\ h \in 0 .. D - 1
  BY <1>2, KeptIs, DepthIs
<1>4. At(h, c) = IF h + c < D THEN h + c ELSE h + c - D
  BY <1>2, <1>3, AtIs
<1> HIDE DEF c, h, n
<1>5. (bp.tail - h) % D = c
  <2>1. \A a \in 0 .. D - 1 : a % D = a
    BY <1>3, SMTT(30)
  <2>2. \A a \in -D .. -1 : a % D = a + D
    BY <1>3, SMTT(30)
  <2>3. CASE h + c < D
    <3>1. bp.tail - h = c
      BY <1>1, <1>3, <1>4, <2>3
    <3> QED
      BY <1>3, <2>1, <3>1
  <2>4. CASE ~(h + c < D)
    <3>1. bp.tail - h = c - D /\ c - D \in -D .. -1 /\ (c - D) + D = c
      BY <1>1, <1>3, <1>4, <2>4
    <3> QED
      BY <2>2, <3>1
  <2> QED
    BY <2>3, <2>4
<1>6. \A j \in 1 .. c : bp.data[(h + j - 1) % D] = s[(n - c) + j]
  <2>1. \A j \in 1 .. c : h + j - 1 = h + (j - 1)
    BY <1>3
  <2> QED
    BY <1>1, <2>1, Zenon DEF At
<1>7. Buffered(bp) = [j \in 1 .. c |-> bp.data[(h + j - 1) % D]]
  BY <1>5 DEF Buffered, h, D
<1> QED
  BY <1>6, <1>7 DEF c, n

(* ... in the words of the property.                                       *)
LEMMA BufferedLast ==
  ASSUME NEW s \in Seq(Nat), NEW bp, Holds(bp, s)
  PROVE  LET n == Len(s)
             room == BUFFER_QUEUE_DEPTH - 1
         IN Buffered(bp) = SubSeq(s, IF n > room THEN n - room + 1 ELSE 1, n)
<1> DEFINE n == Len(s)
           c == Kept(s)
           m == IF n > D - 1 THEN n - (D - 1) + 1 ELSE 1
<1>1. /\ n \in Nat /\ D \in Nat /\ c \in 0 .. D - 1 /\ D >= 2
      /\ c = IF n > D - 1 THEN D - 1 ELSE n
  BY KeptIs, DepthIs
<1>2. \A a \in 1 .. n + 1 :
        SubSeq(s, a, n) = [j \in 1 .. (n - a + 1) |-> s[a + j - 1]]
  <2>1. SUFFICES ASSUME NEW a \in 1 .. n + 1
        PROVE  SubSeq(s, a, n) = [j \in 1 .. (n - a + 1) |-> s[a + j - 1]]
    OBVIOUS
  <2> DEFINE t == SubSeq(s, a, n)
  <2>2. /\ t \in Seq(Nat) /\ Len(t) = n - a + 1
        /\ \A j \in 1 .. n - a + 1 : t[j] = s[a + j - 1]
    BY <1>1
  <2> HIDE DEF t
  <2>3. t = [j \in 1 .. Len(t) |-> t[j]]
    BY <2>2
  <2> QED
    BY <2>2, <2>3 DEF t
<1>3. Buffered(bp) = [j \in 1 .. c |-> s[(n - c) + j]]
  BY BufferedIs
<1> HIDE DEF n, c
<1>4. /\ m \in 1 .. n + 1 /\ n - m + 1 = c
      /\ \A j \in 1 .. c : m + j - 1 = (n - c) + j
  BY <1>1
<1>5. Buffered(bp) = SubSeq(s, m, n)
  <2> HIDE DEF m
  <2>1. SubSeq(s, m, n) = [j \in 1 .. (n - m + 1) |-> s[m + j - 1]]
    BY <1>2, <1>4
  <2>2. SubSeq(s, m, n) = [j \in 1 .. c |-> s[m + j - 1]]
    BY <1>4, <2>1
  <2> QED
    BY <1>3, <1>4, <2>2, Zenon
<1> QED
  BY <1>5 DEF n, m, D

-----------------------------------------------------------------------------
(* The messages and what they leave in order. *)

(* What Tail, Append and the empty sequence hold.                          *)
LEMMA TailOf ==
  ASSUME NEW S, NEW s \in Seq(S), s # <<>>
  PROVE  /\ Len(s) \in Nat \ {0} /\ Head(s) = s[1] /\ Head(s) \in S
         /\ Tail(s) \in Seq(S) /\ Len(Tail(s)) = Len(s) - 1
         /\ \A a \in 1 .. Len(s) - 1 : Tail(s)[a] = s[a + 1]
OBVIOUS

LEMMA AppendOf ==
  ASSUME NEW S, NEW s \in Seq(S), NEW x \in S
  PROVE  /\ Append(s, x) \in Seq(S) /\ Len(Append(s, x)) = Len(s) + 1
         /\ Len(s) \in Nat /\ Append(s, x)[Len(s) + 1] = x
         /\ \A a \in 1 .. Len(s) : Append(s, x)[a] = s[a]
OBVIOUS

LEMMA EmptyOf ==
  /\ \A S : <<>> \in Seq(S)
  /\ \A a \in 1 .. Len(<<>>) : FALSE
OBVIOUS

(* A connection that is lost leaves none.                                  *)
LEMMA NumberedEmpty ==
  ASSUME NEW in, NEW pk, NEW le, Numbered(in, pk, le)
  PROVE  /\ Numbered(<<>>, pk, le)
         /\ \A p, i : Received(p, i, in, pk) => Received(p, i, <<>>, pk)
BY EmptyOf, Zenon DEF Numbered, Received

(* The next message is received.                                           *)
LEMMA NumberedTail ==
  ASSUME NEW in, NEW pk, NEW le, Numbered(in, pk, le), in # <<>>
  PROVE  /\ Numbered(Tail(in), pk, le)
         /\ \A p, i : Received(p, i, in, pk) => Received(p, i, Tail(in), pk)
<1> DEFINE t == Tail(in)
           N == Len(in)
<1>1. in \in Seq(Messages) /\ pk \in Seq(Keys) /\ le \in Seq(Keys)
  BY DEF Numbered
<1>2. /\ N \in Nat \ {0} /\ t \in Seq(Messages) /\ Len(t) = N - 1
      /\ \A a \in 1 .. N - 1 : t[a] = in[a + 1]
  BY <1>1, TailOf
<1> HIDE DEF t, N
<1>3. \A a \in 1 .. Len(t) : a + 1 \in 1 .. N /\ t[a] = in[a + 1]
  BY <1>2
<1>4. \A a \in 1 .. N :
        /\ Arp(in[a]) => in[a].n \in 1 .. Len(pk) /\ in[a].key = pk[in[a].n]
        /\ PutArp(in[a]) => in[a].n \in 1 .. Len(le) /\ in[a].key = le[in[a].n]
  BY Zenon DEF Numbered, N
<1>5. \A a, b \in 1 .. N : a < b /\ Arp(in[a]) /\ Arp(in[b]) => in[a].n < in[b].n
  BY Zenon DEF Numbered, N
<1>6. \A a, b \in 1 .. Len(t) : a < b => a + 1 < b + 1
  BY <1>2
<1>7. Numbered(t, pk, le)
  <2>1. \A a \in 1 .. Len(t) :
          /\ Arp(t[a]) => t[a].n \in 1 .. Len(pk) /\ t[a].key = pk[t[a].n]
          /\ PutArp(t[a]) => t[a].n \in 1 .. Len(le) /\ t[a].key = le[t[a].n]
    BY <1>3, <1>4, Zenon
  <2>2. \A a, b \in 1 .. Len(t) :
          a < b /\ Arp(t[a]) /\ Arp(t[b]) => t[a].n < t[b].n
    BY <1>3, <1>5, <1>6, Zenon
  <2> QED
    BY <1>1, <1>2, <2>1, <2>2, Zenon DEF Numbered
<1>8. \A p, i : Received(p, i, in, pk) => Received(p, i, t, pk)
  BY <1>3, Zenon DEF Received, N
<1> QED
  BY <1>7, <1>8 DEF t

(* The messages of the switch.                                             *)
LEMMA KeyTyped ==
  /\ [type |-> "OFPTYPE_GET_CONFIG_REPLY"] \in Messages
  /\ \A k \in Keys, x \in Nat :
       /\ [type |-> "ACTION_OPCODE_ARP", key |-> k, n |-> x] \in Messages
       /\ [type |-> "ACTION_OPCODE_PUT_ARP", key |-> k, n |-> x] \in Messages
BY DEF Messages

(* A message that comes last.  The histories may grow.                     *)
LEMMA NumberedAppend ==
  ASSUME NEW in, NEW pk, NEW le, Numbered(in, pk, le), NEW m \in Messages,
         NEW qk \in Seq(Keys), NEW me \in Seq(Keys),
         Len(pk) <= Len(qk), \A a \in 1 .. Len(pk) : qk[a] = pk[a],
         Len(le) <= Len(me), \A a \in 1 .. Len(le) : me[a] = le[a],
         Arp(m) => m.n = Len(pk) + 1 /\ m.n \in 1 .. Len(qk) /\ m.key = qk[m.n],
         PutArp(m) => m.n \in 1 .. Len(me) /\ m.key = me[m.n]
  PROVE  /\ Numbered(Append(in, m), qk, me)
         /\ \A p, i : Received(p, i, in, pk) => Received(p, i, Append(in, m), qk)
<1> DEFINE t == Append(in, m)
           N == Len(in)
<1>1. in \in Seq(Messages) /\ Len(pk) \in Nat /\ Len(le) \in Nat
  BY DEF Numbered
<1>2. /\ N \in Nat /\ t \in Seq(Messages) /\ Len(t) = N + 1 /\ t[N + 1] = m
      /\ \A a \in 1 .. N : t[a] = in[a]
  BY <1>1, AppendOf
<1>3. /\ \A a \in 1 .. Len(pk) : a \in 1 .. Len(qk) /\ a < Len(pk) + 1
      /\ \A a \in 1 .. Len(le) : a \in 1 .. Len(me)
  BY <1>1
<1> HIDE DEF t, N
<1>4. /\ \A a \in 1 .. Len(t) : a \in 1 .. N \/ a = N + 1
      /\ \A a, b \in 1 .. Len(t) : a < b => a \in 1 .. N
  BY <1>2
<1>5. \A a \in 1 .. N :
        /\ Arp(in[a]) => in[a].n \in 1 .. Len(pk) /\ in[a].key = pk[in[a].n]
        /\ PutArp(in[a]) => in[a].n \in 1 .. Len(le) /\ in[a].key = le[in[a].n]
  BY Zenon DEF Numbered, N
<1>6. \A a, b \in 1 .. N : a < b /\ Arp(in[a]) /\ Arp(in[b]) => in[a].n < in[b].n
  BY Zenon DEF Numbered, N
<1>7. \A a \in 1 .. Len(t) :
        /\ Arp(t[a]) => t[a].n \in 1 .. Len(qk) /\ t[a].key = qk[t[a].n]
        /\ PutArp(t[a]) => t[a].n \in 1 .. Len(me) /\ t[a].key = me[t[a].n]
  <2>1. SUFFICES ASSUME NEW a \in 1 .. Len(t)
        PROVE /\ Arp(t[a]) => t[a].n \in 1 .. Len(qk) /\ t[a].key = qk[t[a].n]
              /\ PutArp(t[a]) => t[a].n \in 1 .. Len(me) /\ t[a].key = me[t[a].n]
    BY Zenon
  <2>2. CASE a \in 1 .. N
    <3>1. t[a] = in[a]
      BY <1>2, <2>2
    <3>2. Arp(in[a]) => in[a].n \in 1 .. Len(qk) /\ in[a].key = qk[in[a].n]
      BY <1>3, <1>5, <2>2, Zenon
    <3>3. PutArp(in[a]) => in[a].n \in 1 .. Len(me) /\ in[a].key = me[in[a].n]
      BY <1>3, <1>5, <2>2, Zenon
    <3> QED
      BY <3>1, <3>2, <3>3, Zenon
  <2>3. CASE a = N + 1
    BY <1>2, <2>3, Zenon
  <2> QED
    BY <1>4, <2>2, <2>3, Zenon
<1>8. \A a, b \in 1 .. Len(t) : a < b /\ Arp(t[a]) /\ Arp(t[b]) => t[a].n < t[b].n
  <2>1. SUFFICES ASSUME NEW a \in 1 .. Len(t), NEW b \in 1 .. Len(t),
                        a < b, Arp(t[a]), Arp(t[b])
                 PROVE  t[a].n < t[b].n
    BY Zenon
  <2>2. a \in 1 .. N /\ t[a] = in[a]
    BY <1>2, <1>4, <2>1, Zenon
  <2>3. CASE b \in 1 .. N
    BY <1>2, <1>6, <2>1, <2>2, <2>3, Zenon
  <2>4. CASE b = N + 1
    <3>1. in[a].n < Len(pk) + 1
      BY <1>3, <1>5, <2>1, <2>2, Zenon
    <3>2. t[b].n = Len(pk) + 1
      BY <1>2, <2>1, <2>4, Zenon
    <3> QED
      BY <2>2, <3>1, <3>2, Zenon
  <2> QED
    BY <1>4, <2>3, <2>4, Zenon
<1>9. Numbered(t, qk, me)
  BY <1>2, <1>7, <1>8, Zenon DEF Numbered
<1>10. ASSUME NEW p, NEW i, Received(p, i, in, pk)
       PROVE  Received(p, i, t, qk)
  <2>1. p \in 1 .. Len(pk) /\ p \in 1 .. Len(qk) /\ p < Len(pk) + 1 /\ qk[p].ip = i
    BY <1>3, <1>10, Zenon DEF Received
  <2>2. ASSUME NEW a \in 1 .. Len(t), Arp(t[a]) PROVE p < t[a].n
    <3>1. CASE a \in 1 .. N
      BY <1>2, <1>10, <2>2, <3>1, Zenon DEF Received, N
    <3>2. CASE a = N + 1
      BY <1>2, <2>1, <2>2, <3>2, Zenon
    <3> QED
      BY <1>4, <3>1, <3>2, Zenon
  <2> QED
    BY <2>1, <2>2, Zenon DEF Received
<1> QED
  BY <1>9, <1>10 DEF t

(* What was received and learnt stays so.                                  *)
LEMMA OrderStays ==
  ASSUME NEW i, NEW pu, NEW o, NEW in, NEW pk, NEW le, NEW jn, NEW qk, NEW me,
         InOrder(i, pu, o, in, pk, le),
         \A p : Received(p, i, in, pk) => Received(p, i, jn, qk),
         \A b : Known(b, le) => Known(b, me)
  PROVE  InOrder(i, pu, o, jn, qk, me)
BY Zenon DEF InOrder

(* Packets that are dropped leave the rest in order.                       *)
LEMMA OrderEmptied ==
  ASSUME NEW i, NEW pu, NEW o, NEW in, NEW pk, NEW le,
         InOrder(i, pu, o, in, pk, le)
  PROVE  InOrder(i, <<>>, o, in, pk, le)
BY EmptyOf, Zenon DEF InOrder

(* The packet of the next message is pushed.                               *)
LEMMA OrderPushed ==
  ASSUME NEW i, NEW pu, NEW o, NEW in, NEW pk, NEW le,
         InOrder(i, pu, o, in, pk, le), Numbered(in, pk, le),
         in # <<>>, Arp(Head(in)), Head(in).key.ip = i
  PROVE  InOrder(i, Append(pu, Head(in).n), o, Tail(in), pk, le)
<1> DEFINE t == Tail(in)
           N == Len(in)
           x == Head(in).n
           qu == Append(pu, x)
           L == Len(pu)
<1>1. in \in Seq(Messages)
  BY DEF Numbered
<1>2. /\ N \in Nat \ {0} /\ Head(in) = in[1] /\ Len(t) = N - 1
      /\ \A a \in 1 .. N - 1 : t[a] = in[a + 1]
  BY <1>1, TailOf
<1>3. /\ 1 \in 1 .. N
      /\ \A a \in 1 .. Len(t) : a + 1 \in 1 .. N /\ 1 < a + 1 /\ t[a] = in[a + 1]
  BY <1>2
<1> HIDE DEF t, N
<1>4. /\ x \in 1 .. Len(pk) /\ pk[x].ip = i
      /\ \A a \in 1 .. Len(t) : Arp(t[a]) => x < t[a].n
  <2>1. /\ \A a \in 1 .. N : Arp(in[a]) => /\ in[a].n \in 1 .. Len(pk)
                                           /\ in[a].key = pk[in[a].n]
        /\ \A a, b \in 1 .. N : a < b /\ Arp(in[a]) /\ Arp(in[b])
                                  => in[a].n < in[b].n
    BY Zenon DEF Numbered, N
  <2>2. Arp(in[1]) /\ x = in[1].n
    BY <1>2, Zenon
  <2> QED
    BY <1>2, <1>3, <2>1, <2>2, Zenon
<1>5. Received(x, i, t, pk)
  BY <1>4, Zenon DEF Received
<1>6. \A p : Received(p, i, in, pk) => Received(p, i, t, pk) /\ p < x
  <2>1. \A p : Received(p, i, in, pk) => Received(p, i, t, pk)
    BY NumberedTail, Zenon DEF t
  <2>2. \A p : Received(p, i, in, pk) => p < in[1].n
    BY <1>2, <1>3, Zenon DEF Received, N
  <2> QED
    BY <1>2, <2>1, <2>2, Zenon
<1>7. x \in Nat /\ pu \in Seq(Nat) /\ o \in Seq(Outs)
  <2>1. x \in Nat
    BY <1>4
  <2> QED
    BY <2>1, Zenon DEF InOrder
<1> HIDE DEF x
<1>8. /\ qu \in Seq(Nat) /\ Len(qu) = L + 1 /\ L \in Nat /\ qu[L + 1] = x
      /\ \A a \in 1 .. L : qu[a] = pu[a]
  BY <1>7, AppendOf
<1> HIDE DEF qu
<1>9. /\ \A a \in 1 .. Len(qu) : a \in 1 .. L \/ a = L + 1
      /\ \A a, b \in 1 .. Len(qu) : a < b => a \in 1 .. L
  BY <1>8
<1>10. /\ \A j \in 1 .. L : Received(pu[j], i, in, pk)
       /\ \A j, l \in 1 .. L : j < l => pu[j] < pu[l]
       /\ \A j \in 1 .. Len(o) : /\ Received(o[j].pkt, i, in, pk)
                                 /\ Known(o[j].by, le) /\ o[j].by.key.ip = i
       /\ \A j, l \in 1 .. Len(o) : j < l => o[j].pkt < o[l].pkt
       /\ \A j \in 1 .. Len(o), l \in 1 .. L : o[j].pkt < pu[l]
  BY Zenon DEF InOrder
<1> HIDE DEF L
<1>11. \A j \in 1 .. Len(qu) : Received(qu[j], i, t, pk)
  BY <1>5, <1>6, <1>8, <1>9, <1>10, Zenon
<1>12. \A j, l \in 1 .. Len(qu) : j < l => qu[j] < qu[l]
  <2>1. \A j \in 1 .. L : pu[j] < x
    BY <1>6, <1>10, Zenon
  <2> QED
    BY <1>8, <1>9, <1>10, <2>1, Zenon
<1>13. \A j \in 1 .. Len(o) : Received(o[j].pkt, i, t, pk) /\ o[j].pkt < x
  BY <1>6, <1>10, Zenon
<1>14. \A j \in 1 .. Len(o), l \in 1 .. Len(qu) : o[j].pkt < qu[l]
  BY <1>8, <1>9, <1>10, <1>13, Zenon
<1>15. InOrder(i, qu, o, t, pk, le)
  BY <1>7, <1>8, <1>10, <1>11, <1>12, <1>13, <1>14, Zenon DEF InOrder
<1> QED
  BY <1>15 DEF qu, t, x

(* Packets go out that are the last of those pushed.                       *)
LEMMA OrderSent ==
  ASSUME NEW i, NEW pu, NEW o, NEW in, NEW pk, NEW le,
         InOrder(i, pu, o, in, pk, le),
         NEW bp, Holds(bp, pu), NEW b, Known(b, le), b.key.ip = i
  PROVE  InOrder(i, <<>>,
                 o \o [j \in DOMAIN Buffered(bp) |-> [pkt |-> Buffered(bp)[j],
                                                      by |-> b]],
                 in, pk, le)
<1> DEFINE c == Kept(pu)
           n == Len(pu)
           s == [j \in 1 .. c |-> [pkt |-> pu[(n - c) + j], by |-> b]]
           r == o \o s
           L == Len(o)
<1>1. /\ pu \in Seq(Nat) /\ o \in Seq(Outs)
      /\ \A j \in 1 .. n : Received(pu[j], i, in, pk)
      /\ \A j, l \in 1 .. n : j < l => pu[j] < pu[l]
      /\ \A j \in 1 .. L : /\ Received(o[j].pkt, i, in, pk)
                           /\ Known(o[j].by, le) /\ o[j].by.key.ip = i
      /\ \A j, l \in 1 .. L : j < l => o[j].pkt < o[l].pkt
      /\ \A j \in 1 .. L, l \in 1 .. n : o[j].pkt < pu[l]
  BY Zenon DEF InOrder
<1>2. n \in Nat /\ c \in Nat /\ c <= n
  BY <1>1, KeptIs, DepthIs, SMTT(30)
<1>3. Buffered(bp) = [j \in 1 .. c |-> pu[(n - c) + j]]
  BY <1>1, BufferedIs
<1>4. [j \in DOMAIN Buffered(bp) |-> [pkt |-> Buffered(bp)[j], by |-> b]] = s
  BY <1>3
<1>5. b \in Bindings
  BY SMTT(30) DEF Known
<1>6. \A j \in 1 .. c : (n - c) + j \in 1 .. n /\ pu[(n - c) + j] \in Nat
  BY <1>1, <1>2, SMTT(30)
<1>7. /\ s \in Seq(Outs) /\ Len(s) = c
      /\ \A j \in 1 .. c : s[j].pkt = pu[(n - c) + j] /\ s[j].by = b
  <2>1. \A j \in 1 .. c : [pkt |-> pu[(n - c) + j], by |-> b] \in Outs
    BY <1>5, <1>6, SMTT(30) DEF Outs
  <2> HIDE DEF c, n
  <2> QED
    BY <1>2, <2>1
<1> HIDE DEF s
<1>8. /\ r \in Seq(Outs) /\ L \in Nat /\ Len(r) = L + c
      /\ \A j \in 1 .. L : r[j] = o[j]
      /\ \A j \in 1 .. c : r[L + j] = s[j]
  BY <1>1, <1>7
<1> HIDE DEF r, c, n, L
<1>9. \A j \in 1 .. Len(r) : \/ j \in 1 .. L /\ r[j] = o[j]
                             \/ /\ j - L \in 1 .. c
                                /\ r[j].pkt = pu[(n - c) + (j - L)] /\ r[j].by = b
                                /\ (n - c) + (j - L) \in 1 .. n
  <2>1. SUFFICES ASSUME NEW j \in 1 .. Len(r), ~(j \in 1 .. L)
                 PROVE  /\ j - L \in 1 .. c
                        /\ r[j].pkt = pu[(n - c) + (j - L)] /\ r[j].by = b
                        /\ (n - c) + (j - L) \in 1 .. n
    BY <1>8, Zenon
  <2>2. j - L \in 1 .. c /\ L + (j - L) = j
    BY <1>2, <1>8, <2>1
  <2>3. r[j] = s[j - L]
    BY <1>8, <2>2, Zenon
  <2> QED
    BY <1>6, <1>7, <2>2, <2>3, Zenon
<1>10. \A j \in 1 .. Len(r) : /\ Received(r[j].pkt, i, in, pk)
                              /\ Known(r[j].by, le) /\ r[j].by.key.ip = i
  BY <1>1, <1>9, Zenon
<1>11. \A j, l \in 1 .. Len(r) : j < l => r[j].pkt < r[l].pkt
  <2>1. SUFFICES ASSUME NEW j \in 1 .. Len(r), NEW l \in 1 .. Len(r), j < l
                 PROVE  r[j].pkt < r[l].pkt
    BY Zenon
  <2>2. /\ l \in 1 .. L => j \in 1 .. L
        /\ (n - c) + (j - L) < (n - c) + (l - L)
    BY <1>2, <1>8, <2>1
  <2>3. CASE l \in 1 .. L
    <3>1. j \in 1 .. L
      BY <2>2, <2>3
    <3>2. r[j] = o[j] /\ r[l] = o[l]
      BY <1>8, <2>3, <3>1, Zenon
    <3> QED
      BY <1>1, <2>1, <2>3, <3>1, <3>2, Zenon
  <2>4. CASE l \notin 1 .. L
    <3>1. /\ (n - c) + (l - L) \in 1 .. n
          /\ r[l].pkt = pu[(n - c) + (l - L)]
      BY <1>9, <2>4, Zenon
    <3>2. CASE j \in 1 .. L
      <4>1. r[j] = o[j]
        BY <1>8, <3>2, Zenon
      <4> QED
        BY <1>1, <3>1, <3>2, <4>1, Zenon
    <3>3. CASE j \notin 1 .. L
      <4>1. /\ (n - c) + (j - L) \in 1 .. n
            /\ r[j].pkt = pu[(n - c) + (j - L)]
        BY <1>9, <3>3, Zenon
      <4> QED
        BY <1>1, <2>2, <3>1, <4>1, Zenon
    <3> QED
      BY <3>2, <3>3
  <2> QED
    BY <2>3, <2>4
<1>12. InOrder(i, <<>>, r, in, pk, le)
  BY <1>8, <1>10, <1>11, EmptyOf, Zenon DEF InOrder
<1> QED
  BY <1>4, <1>12 DEF r

-----------------------------------------------------------------------------
(* The steps. *)

(* The record of the connection, and what an update of it leaves.          *)
LEMMA ConnectionIs ==
  \A a, b, c : LET r == [target |-> a, state |-> b, in |-> c]
               IN Connection(r) /\ r.target = a /\ r.state = b /\ r.in = c
BY DEF Connection

LEMMA ConnectionForms ==
  ASSUME NEW r, Connection(r), NEW x, NEW q
  PROVE  /\ Connection([r EXCEPT !.state = x]) /\ [r EXCEPT !.state = x].in = r.in
         /\ Connection([r EXCEPT !.in = q]) /\ [r EXCEPT !.in = q].in = q
         /\ Connection([r EXCEPT !.state = x, !.in = q])
         /\ [r EXCEPT !.state = x, !.in = q].in = q
<1>1. PICK A, B, C : r \in [target : A, state : B, in : C] /\ x \in B /\ q \in C
  <2>1. /\ r \in [target : {r.target}, state : {r.state, x}, in : {r.in, q}]
        /\ x \in {r.state, x} /\ q \in {r.in, q}
    BY DEF Connection
  <2> QED
    BY <2>1, Zenon
<1> DEFINE e == [r EXCEPT !.state = x]
           f == [r EXCEPT !.in = q]
           g == [e EXCEPT !.in = q]
<1>2. /\ e = [target |-> r.target, state |-> x, in |-> r.in]
      /\ e \in [target : A, state : B, in : C]
      /\ f = [target |-> r.target, state |-> r.state, in |-> q]
  BY <1>1
<1>3. [r EXCEPT !.state = x, !.in = q] = g
  OBVIOUS
<1> HIDE DEF e, f
<1>4. g = [target |-> r.target, state |-> x, in |-> q]
  BY <1>1, <1>2
<1> HIDE DEF g
<1>5. /\ Connection(e) /\ e.in = r.in
      /\ Connection(f) /\ f.in = q
      /\ Connection(g) /\ g.in = q
  BY <1>2, <1>4, ConnectionIs, Zenon
<1>6. /\ Connection([r EXCEPT !.state = x, !.in = q])
      /\ [r EXCEPT !.state = x, !.in = q].in = q
  BY <1>3, <1>5
<1> QED
  BY <1>5, <1>6 DEF e, f

LEMMA ConnectionFields ==
  ASSUME NEW r, Connection(r), NEW x, NEW q
  PROVE  /\ [r EXCEPT !.state = x].target = r.target
         /\ [r EXCEPT !.state = x].state = x
         /\ [r EXCEPT !.in = q].target = r.target
         /\ [r EXCEPT !.in = q].state = r.state
         /\ [r EXCEPT !.state = x, !.in = q].target = r.target
         /\ [r EXCEPT !.state = x, !.in = q].state = x
<1>1. PICK A, B, C : r \in [target : A, state : B, in : C] /\ x \in B /\ q \in C
  <2>1. /\ r \in [target : {r.target}, state : {r.state, x}, in : {r.in, q}]
        /\ x \in {r.state, x} /\ q \in {r.in, q}
    BY DEF Connection
  <2> QED
    BY <2>1, Zenon
<1> DEFINE e == [r EXCEPT !.state = x]
           f == [r EXCEPT !.in = q]
           g == [e EXCEPT !.in = q]
<1>2. /\ e = [target |-> r.target, state |-> x, in |-> r.in]
      /\ e \in [target : A, state : B, in : C]
      /\ f = [target |-> r.target, state |-> r.state, in |-> q]
  BY <1>1
<1>3. [r EXCEPT !.state = x, !.in = q] = g
  OBVIOUS
<1> HIDE DEF e, f
<1>4. g = [target |-> r.target, state |-> x, in |-> q]
  BY <1>1, <1>2
<1> HIDE DEF g
<1>5. /\ e.target = r.target /\ e.state = x
      /\ f.target = r.target /\ f.state = r.state
      /\ g.target = r.target /\ g.state = x
  BY <1>2, <1>4, ConnectionIs, Zenon
<1>6. /\ [r EXCEPT !.state = x, !.in = q].target = r.target
      /\ [r EXCEPT !.state = x, !.in = q].state = x
  BY <1>3, <1>5
<1> QED
  BY <1>5, <1>6 DEF e, f

LEMMA ConnectionIn ==
  ASSUME NEW r, Connection(r), NEW q
  PROVE  /\ [r EXCEPT !.in = q].target = r.target
         /\ [r EXCEPT !.in = q].state = r.state
BY ConnectionFields

LEMMA ConnectionBoth ==
  ASSUME NEW r, Connection(r), NEW x, NEW q
  PROVE  /\ [r EXCEPT !.state = x, !.in = q].target = r.target
         /\ [r EXCEPT !.state = x, !.in = q].state = x
BY ConnectionFields

(* The packets stay where they are.                                        *)
LEMMA RingsStay ==
  ASSUME PacketsInv, Connection(rconn'), Numbered(rconn'.in, packets', learnt'),
         \A p, i : Received(p, i, rconn.in, packets)
                     => Received(p, i, rconn'.in, packets'),
         \A b : Known(b, learnt) => Known(b, learnt'),
         BindingsInv', UNCHANGED <<buffered_packets, pushed, out>>
  PROVE  PacketsInv'
<1>1. MessagesInv'
  BY Zenon DEF MessagesInv
<1>2. ASSUME NEW i \in Ips PROVE AddressInv(i)'
  <2>1. /\ InOrder(i, pushed[i], out[i], rconn.in, packets, learnt)
        /\ IF i \in DOMAIN buffered_packets
           THEN Holds(buffered_packets[i], pushed[i]) ELSE pushed[i] = <<>>
    BY ZenonT(30) DEF PacketsInv, AddressInv
  <2>2. InOrder(i, pushed[i], out[i], rconn'.in, packets', learnt')
    BY <2>1, OrderStays
  <2> QED
    BY <2>1, <2>2, Zenon DEF AddressInv
<1> QED
  BY <1>1, <1>2, Zenon DEF PacketsInv

(* Only the messages, and with them the histories, change.                 *)
LEMMA MessagesStep ==
  ASSUME PacketsInv, Connection(rconn'), Numbered(rconn'.in, packets', learnt'),
         \A p, i : Received(p, i, rconn.in, packets)
                     => Received(p, i, rconn'.in, packets'),
         \A b : Known(b, learnt) => Known(b, learnt'),
         UNCHANGED <<buffered_packets, pushed, out, put_mac_bindings,
                     buffered_mac_bindings>>
  PROVE  PacketsInv'
<1>1. BindingsInv'
  BY Zenon DEF PacketsInv, BindingsInv
<1> QED
  BY <1>1, RingsStay, Zenon

(* A new connection, one that was lost, or one in another state.           *)
LEMMA ConnectionStep ==
  ASSUME PacketsInv, Connection(rconn'), rconn'.in \in {rconn.in, <<>>},
         UNCHANGED <<buffered_packets, pushed, out, put_mac_bindings,
                     buffered_mac_bindings, packets, learnt>>
  PROVE  PacketsInv'
<1>1. Numbered(rconn.in, packets, learnt)
  BY Zenon DEF PacketsInv, MessagesInv
<1>2. /\ Numbered(<<>>, packets, learnt)
      /\ \A p, i : Received(p, i, rconn.in, packets)
                     => Received(p, i, <<>>, packets)
  BY <1>1, NumberedEmpty, Zenon
<1>3. rconn'.in = rconn.in \/ rconn'.in = <<>>
  BY Zenon
<1>4. /\ Numbered(rconn'.in, packets, learnt)
      /\ \A p, i : Received(p, i, rconn.in, packets)
                     => Received(p, i, rconn'.in, packets)
  BY <1>1, <1>2, <1>3, Zenon
<1> QED
  BY <1>4, MessagesStep, Zenon

(* Each step keeps the invariant.  The handler at the top of its loop:     *)
LEMMA TopStep ==
  ASSUME PacketsInv, HandlerTop
  PROVE  PacketsInv'
<1>1. Connection(rconn)
  BY DEF PacketsInv, MessagesInv
<1>2. \A n : Connection(ConnectTo(n)) /\ ConnectTo(n).in \in {rconn.in, <<>>}
  BY <1>1, ConnectionIs, Zenon DEF ConnectTo
<1>3. \A n : /\ Connection([ConnectTo(n) EXCEPT !.state = "ASKED"])
             /\ [ConnectTo(n) EXCEPT !.state = "ASKED"].in = ConnectTo(n).in
  BY <1>2, ConnectionForms, Zenon
<1>4. Connection(rconn') /\ rconn'.in \in {rconn.in, <<>>}
  BY <1>2, <1>3, Zenon DEF HandlerTop
<1> QED
  BY <1>4, ConnectionStep, Zenon DEF HandlerTop, shared, history

(* The handler exits.                                                      *)
LEMMA ExitStep ==
  ASSUME PacketsInv, HandlerExit
  PROVE  PacketsInv'
<1>1. Connection(rconn') /\ rconn'.in = <<>>
  BY ConnectionIs, Zenon DEF HandlerExit
<1> QED
  BY <1>1, ConnectionStep, Zenon DEF HandlerExit, shared, history

(* The connection is lost.                                                 *)
LEMMA LostStep ==
  ASSUME PacketsInv, ConnectionLost
  PROVE  PacketsInv'
<1>1. Connection(rconn') /\ rconn'.in = <<>>
  BY ConnectionForms, Zenon DEF ConnectionLost, PacketsInv, MessagesInv
<1> QED
  BY <1>1, ConnectionStep, Zenon DEF ConnectionLost, shared, history

(* The switch accepts the connection.                                      *)
LEMMA AcceptsStep ==
  ASSUME PacketsInv, SwitchAccepts
  PROVE  PacketsInv'
<1>1. Connection(rconn') /\ rconn'.in = rconn.in
  BY ConnectionForms, Zenon DEF SwitchAccepts, PacketsInv, MessagesInv
<1> QED
  BY <1>1, ConnectionStep, Zenon DEF SwitchAccepts, shared, history

(* The switch answers with its configuration.                              *)
LEMMA ConfigStep ==
  ASSUME PacketsInv, SwitchConfigReply
  PROVE  PacketsInv'
<1> DEFINE m == [type |-> "OFPTYPE_GET_CONFIG_REPLY"]
<1>1. Connection(rconn) /\ Numbered(rconn.in, packets, learnt)
  BY DEF PacketsInv, MessagesInv
<1>2. Connection(rconn') /\ rconn'.in = Append(rconn.in, m)
  BY <1>1, ConnectionForms, Zenon DEF SwitchConfigReply
<1>3. m \in Messages /\ ~Arp(m) /\ ~PutArp(m)
  BY KeyTyped DEF Arp, PutArp
<1> HIDE DEF m
<1>4. /\ packets \in Seq(Keys) /\ learnt \in Seq(Keys)
      /\ Len(packets) <= Len(packets) /\ Len(learnt) <= Len(learnt)
  BY <1>1 DEF Numbered
<1>5. /\ Numbered(Append(rconn.in, m), packets, learnt)
      /\ \A p, i : Received(p, i, rconn.in, packets)
                     => Received(p, i, Append(rconn.in, m), packets)
  BY <1>1, <1>3, <1>4, NumberedAppend, Zenon
<1>6. UNCHANGED <<packets, learnt, buffered_packets, pushed, out,
                  put_mac_bindings, buffered_mac_bindings>>
  BY Zenon DEF SwitchConfigReply, history, shared
<1>7. /\ Numbered(rconn'.in, packets', learnt')
      /\ \A p, i : Received(p, i, rconn.in, packets)
                     => Received(p, i, rconn'.in, packets')
  BY <1>2, <1>5, <1>6, Zenon
<1> QED
  BY <1>2, <1>6, <1>7, MessagesStep, Zenon

(* The histories grow at their ends.                                       *)
LEMMA HistoryGrows ==
  ASSUME NEW le \in Seq(Keys), NEW k \in Keys
  PROVE  /\ Append(le, k) \in Seq(Keys)
         /\ Len(le) <= Len(Append(le, k)) /\ Len(Append(le, k)) \in Nat
         /\ Len(Append(le, k)) = Len(le) + 1
         /\ Len(Append(le, k)) \in 1 .. Len(Append(le, k))
         /\ Append(le, k)[Len(Append(le, k))] = k
         /\ \A a \in 1 .. Len(le) : Append(le, k)[a] = le[a]
         /\ \A b : Known(b, le) => Known(b, Append(le, k))
<1> DEFINE me == Append(le, k)
<1>1. /\ me \in Seq(Keys) /\ Len(le) \in Nat /\ Len(me) = Len(le) + 1
      /\ me[Len(le) + 1] = k
      /\ \A a \in 1 .. Len(le) : me[a] = le[a]
  BY AppendOf
<1> HIDE DEF me
<1>2. /\ Len(le) <= Len(me) /\ Len(me) \in Nat /\ Len(me) \in 1 .. Len(me)
      /\ me[Len(me)] = k
      /\ \A a \in 1 .. Len(le) : a \in 1 .. Len(me)
  BY <1>1
<1>3. \A b : Known(b, le) => Known(b, me)
  BY <1>1, <1>2, Zenon DEF Known
<1> QED
  BY <1>1, <1>2, <1>3 DEF me

(* The switch sends a packet or an ARP reply up.                           *)
LEMMA PacketInStep ==
  ASSUME PacketsInv, NEW k \in Keys, SwitchPacketIn(k)
  PROVE  PacketsInv'
<1>1. Connection(rconn) /\ Numbered(rconn.in, packets, learnt)
  BY DEF PacketsInv, MessagesInv
<1>2. /\ packets \in Seq(Keys) /\ learnt \in Seq(Keys)
      /\ Len(packets) <= Len(packets) /\ Len(learnt) <= Len(learnt)
  BY <1>1 DEF Numbered
<1>3. UNCHANGED <<buffered_packets, pushed, out, put_mac_bindings,
                  buffered_mac_bindings>>
  BY Zenon DEF SwitchPacketIn, shared
<1>4. CASE /\ packets' = Append(packets, k) /\ learnt' = learnt
           /\ rconn' = [rconn EXCEPT !.in = Append(rconn.in,
                [type |-> "ACTION_OPCODE_ARP", key |-> k, n |-> Len(packets')])]
  <2> DEFINE m == [type |-> "ACTION_OPCODE_ARP", key |-> k, n |-> Len(packets')]
  <2>1. Connection(rconn') /\ rconn'.in = Append(rconn.in, m)
    BY <1>1, <1>4, ConnectionForms, Zenon
  <2>2. /\ packets' \in Seq(Keys) /\ Len(packets) <= Len(packets')
        /\ Len(packets') \in Nat /\ Len(packets') = Len(packets) + 1
        /\ Len(packets') \in 1 .. Len(packets')
        /\ packets'[Len(packets')] = k
        /\ \A a \in 1 .. Len(packets) : packets'[a] = packets[a]
    BY <1>2, <1>4, HistoryGrows, Zenon
  <2>3. m \in Messages /\ Arp(m) /\ ~PutArp(m) /\ m.n = Len(packets') /\ m.key = k
    BY <2>2, KeyTyped, Zenon DEF Arp, PutArp
  <2> HIDE DEF m
  <2>4. /\ m.n = Len(packets) + 1 /\ m.n \in 1 .. Len(packets')
        /\ m.key = packets'[m.n]
    BY <2>2, <2>3, Zenon
  <2>5. /\ Numbered(Append(rconn.in, m), packets', learnt)
        /\ \A p, i : Received(p, i, rconn.in, packets)
                       => Received(p, i, Append(rconn.in, m), packets')
    BY <1>1, <1>2, <2>2, <2>3, <2>4, NumberedAppend, Zenon
  <2>6. /\ Numbered(rconn'.in, packets', learnt')
        /\ \A p, i : Received(p, i, rconn.in, packets)
                       => Received(p, i, rconn'.in, packets')
    BY <1>4, <2>1, <2>5, Zenon
  <2> QED
    BY <1>3, <1>4, <2>1, <2>6, MessagesStep, Zenon
<1>5. CASE /\ learnt' = Append(learnt, k) /\ packets' = packets
           /\ rconn' = [rconn EXCEPT !.in = Append(rconn.in,
                [type |-> "ACTION_OPCODE_PUT_ARP", key |-> k, n |-> Len(learnt')])]
  <2> DEFINE m == [type |-> "ACTION_OPCODE_PUT_ARP", key |-> k, n |-> Len(learnt')]
  <2>1. Connection(rconn') /\ rconn'.in = Append(rconn.in, m)
    BY <1>1, <1>5, ConnectionForms, Zenon
  <2>2. /\ learnt' \in Seq(Keys) /\ Len(learnt) <= Len(learnt')
        /\ Len(learnt') \in Nat /\ Len(learnt') \in 1 .. Len(learnt')
        /\ learnt'[Len(learnt')] = k
        /\ \A a \in 1 .. Len(learnt) : learnt'[a] = learnt[a]
        /\ \A b : Known(b, learnt) => Known(b, learnt')
    BY <1>2, <1>5, HistoryGrows, ZenonT(30)
  <2>3. m \in Messages /\ ~Arp(m) /\ PutArp(m) /\ m.n = Len(learnt') /\ m.key = k
    BY <2>2, KeyTyped, Zenon DEF Arp, PutArp
  <2> HIDE DEF m
  <2>4. m.n \in 1 .. Len(learnt') /\ m.key = learnt'[m.n]
    BY <2>2, <2>3, Zenon
  <2>5. /\ Numbered(Append(rconn.in, m), packets, learnt')
        /\ \A p, i : Received(p, i, rconn.in, packets)
                       => Received(p, i, Append(rconn.in, m), packets)
    BY <1>1, <1>2, <2>2, <2>3, <2>4, NumberedAppend, Zenon
  <2>6. /\ Numbered(rconn'.in, packets', learnt')
        /\ \A p, i : Received(p, i, rconn.in, packets)
                       => Received(p, i, rconn'.in, packets')
    BY <1>5, <2>1, <2>5, Zenon
  <2> QED
    BY <1>3, <2>1, <2>2, <2>6, MessagesStep, Zenon
<1> QED
  BY <1>4, <1>5, Zenon DEF SwitchPacketIn

(* A message is taken off, whatever it is.                                 *)
LEMMA RecvTakes ==
  ASSUME PacketsInv, HandlerRecv
  PROVE  /\ Connection(rconn') /\ rconn'.in = Tail(rconn.in)
         /\ Numbered(rconn.in, packets, learnt) /\ rconn.in # <<>>
         /\ Numbered(rconn'.in, packets', learnt')
         /\ UNCHANGED <<packets, learnt, out, buffered_mac_bindings>>
         /\ \A p, i : Received(p, i, rconn.in, packets)
                        => Received(p, i, rconn'.in, packets')
<1>1. Connection(rconn) /\ Numbered(rconn.in, packets, learnt)
  BY DEF PacketsInv, MessagesInv
<1> DEFINE rc == [rconn EXCEPT !.in = Tail(rconn.in)]
<1>2. rconn.in # <<>> /\ rconn' \in {rc, set_switch_config(rc)}
  BY ZenonT(30) DEF HandlerRecv
<1>3. Connection(rc) /\ rc.in = Tail(rconn.in)
  BY <1>1, ConnectionForms, Zenon
<1> HIDE DEF rc
<1>4. Connection(set_switch_config(rc)) /\ set_switch_config(rc).in = Tail(rconn.in)
  BY <1>3, ConnectionForms, Zenon DEF set_switch_config
<1>5. Connection(rconn') /\ rconn'.in = Tail(rconn.in)
  BY <1>2, <1>3, <1>4, Zenon
<1>6. UNCHANGED <<packets, learnt, out, buffered_mac_bindings>>
  BY Zenon DEF HandlerRecv
<1>7. /\ Numbered(Tail(rconn.in), packets, learnt)
      /\ \A p, i : Received(p, i, rconn.in, packets)
                     => Received(p, i, Tail(rconn.in), packets)
  BY <1>1, <1>2, NumberedTail, Zenon
<1> QED
  BY <1>1, <1>2, <1>5, <1>6, <1>7, Zenon

(* What the next message says.                                             *)
LEMMA HeadSays ==
  ASSUME NEW in, NEW pk, NEW le, Numbered(in, pk, le), in # <<>>
  PROVE  LET m == Head(in)
         IN /\ Arp(m) => m.n \in Nat /\ m.key.ip \in Ips
            /\ PutArp(m) => Known([key |-> m.key, mac |-> m.n], le)
<1> DEFINE m == Head(in)
<1>1. /\ in \in Seq(Messages) /\ pk \in Seq(Keys) /\ le \in Seq(Keys)
      /\ \A a \in 1 .. Len(in) :
           /\ Arp(in[a]) => in[a].n \in 1 .. Len(pk) /\ in[a].key = pk[in[a].n]
           /\ PutArp(in[a]) => in[a].n \in 1 .. Len(le) /\ in[a].key = le[in[a].n]
  BY Zenon DEF Numbered
<1>2. m = in[1] /\ 1 \in 1 .. Len(in)
  <2>1. Head(in) = in[1] /\ Len(in) \in Nat \ {0}
    BY <1>1, TailOf
  <2> QED
    BY <2>1
<1>3. /\ \A a \in 1 .. Len(pk) : pk[a] \in Keys
      /\ \A a \in 1 .. Len(le) : le[a] \in Keys
  BY <1>1
<1>4. /\ \A k \in Keys : k.ip \in Ips
      /\ \A a \in 1 .. Len(pk) : a \in Nat
      /\ \A a \in 1 .. Len(le) : a \in Nat
  BY DEF Keys
<1> HIDE DEF m
<1>5. Arp(m) => m.n \in Nat /\ m.key.ip \in Ips
  BY <1>1, <1>2, <1>3, <1>4, Zenon
<1>6. PutArp(m) => m.n \in 1 .. Len(le) /\ m.key = le[m.n] /\ m.key \in Keys
                     /\ m.n \in Nat
  BY <1>1, <1>2, <1>3, <1>4, Zenon
<1>7. \A k \in Keys, x \in Nat :
        LET b == [key |-> k, mac |-> x]
        IN b \in Bindings /\ b.key = k /\ b.mac = x
  BY DEF Bindings
<1>8. PutArp(m) => Known([key |-> m.key, mac |-> m.n], le)
  BY <1>6, <1>7, Zenon DEF Known
<1> QED
  BY <1>5, <1>8 DEF m

(* The packet goes into the ring of its address.                           *)
LEMMA ArpStep ==
  ASSUME PacketsInv, HandlerRecv, Arp(Head(rconn.in)),
         pinctrl_handle_arp(Head(rconn.in).n, Head(rconn.in).key.ip),
         UNCHANGED put_mac_bindings
  PROVE  PacketsInv'
<1> DEFINE x == Head(rconn.in).n
           ip == Head(rconn.in).key.ip
<1>1. /\ Connection(rconn') /\ rconn'.in = Tail(rconn.in)
      /\ Numbered(rconn.in, packets, learnt) /\ rconn.in # <<>>
      /\ Numbered(rconn'.in, packets', learnt')
      /\ UNCHANGED <<packets, learnt, out, buffered_mac_bindings>>
      /\ \A p, i : Received(p, i, rconn.in, packets)
                     => Received(p, i, rconn'.in, packets')
  BY RecvTakes, SMTT(30)
<1>2. x \in Nat /\ ip \in Ips
  BY <1>1, HeadSays, Zenon
<1>3. CASE UNCHANGED <<buffered_packets, pushed>>
  BY <1>1, <1>3, MessagesStep, Zenon
<1> DEFINE known == ip \in DOMAIN buffered_packets
           bp == IF known THEN buffered_packets[ip] ELSE NewRing
           e == buffered_push_packet([bp EXCEPT !.old = FALSE], x)
<1>4. CASE /\ buffered_packets' =
                [i \in DOMAIN buffered_packets \union {ip} |->
                   IF i = ip THEN e ELSE buffered_packets[i]]
           /\ pushed' = [pushed EXCEPT ![ip] = Append(pushed[ip], x)]
  <2>1. DOMAIN pushed = Ips /\ DOMAIN out = Ips /\ BindingsInv
    BY DEF PacketsInv
  <2>2. \A i \in Ips :
          /\ InOrder(i, pushed[i], out[i], rconn.in, packets, learnt)
          /\ IF i \in DOMAIN buffered_packets
             THEN Holds(buffered_packets[i], pushed[i]) ELSE pushed[i] = <<>>
    BY Zenon DEF PacketsInv, AddressInv
  <2>3. Holds(bp, pushed[ip]) /\ pushed[ip] \in Seq(Nat)
    BY <1>2, <2>2, EmptyHolds, Zenon DEF InOrder
  <2> HIDE DEF bp
  <2>4. Holds(e, Append(pushed[ip], x))
    <3>1. Holds([bp EXCEPT !.old = FALSE], pushed[ip])
      BY <2>3, OldHolds, Zenon
    <3> QED
      BY <1>2, <2>3, <3>1, PushHolds
  <2>5. InOrder(ip, Append(pushed[ip], x), out[ip], Tail(rconn.in), packets, learnt)
    BY <1>1, <1>2, <2>2, OrderPushed, Zenon
  <2> HIDE DEF e, x, ip
  <2>6. /\ DOMAIN pushed' = Ips /\ pushed'[ip] = Append(pushed[ip], x)
        /\ \A i \in Ips \ {ip} : pushed'[i] = pushed[i]
        /\ DOMAIN buffered_packets' = DOMAIN buffered_packets \union {ip}
        /\ buffered_packets'[ip] = e
        /\ \A i \in DOMAIN buffered_packets \ {ip} :
             buffered_packets'[i] = buffered_packets[i]
    BY <1>2, <1>4, <2>1
  <2>7. ASSUME NEW i \in Ips PROVE AddressInv(i)'
    <3>1. CASE i = ip
      BY <1>1, <2>4, <2>5, <2>6, <3>1, Zenon DEF AddressInv
    <3>2. CASE i # ip
      <4>1. InOrder(i, pushed[i], out[i], rconn'.in, packets', learnt')
        BY <1>1, <2>2, OrderStays, Zenon
      <4>2. /\ pushed'[i] = pushed[i]
            /\ i \in DOMAIN buffered_packets' <=> i \in DOMAIN buffered_packets
            /\ i \in DOMAIN buffered_packets =>
                 buffered_packets'[i] = buffered_packets[i]
        BY <2>6, <3>2
      <4> QED
        BY <1>1, <2>2, <4>1, <4>2, Zenon DEF AddressInv
    <3> QED
      BY <3>1, <3>2
  <2>8. MessagesInv' /\ BindingsInv'
    BY <1>1, <2>1, Zenon DEF MessagesInv, BindingsInv
  <2> QED
    BY <1>1, <2>1, <2>6, <2>7, <2>8, Zenon DEF PacketsInv
<1> QED
  BY <1>3, <1>4, Zenon DEF pinctrl_handle_arp

(* The reply goes into put_mac_bindings.                                   *)
LEMMA PutArpStep ==
  ASSUME PacketsInv, HandlerRecv, PutArp(Head(rconn.in)),
         pinctrl_handle_put_mac_binding(Head(rconn.in).key, Head(rconn.in).n),
         UNCHANGED <<buffered_packets, pushed>>
  PROVE  PacketsInv'
<1> DEFINE x == Head(rconn.in).n
           k == Head(rconn.in).key
<1>1. /\ Connection(rconn')
      /\ Numbered(rconn.in, packets, learnt) /\ rconn.in # <<>>
      /\ Numbered(rconn'.in, packets', learnt')
      /\ UNCHANGED <<packets, learnt, out, buffered_mac_bindings>>
      /\ \A p, i : Received(p, i, rconn.in, packets)
                     => Received(p, i, rconn'.in, packets')
  BY RecvTakes, SMTT(30)
<1>2. Known([key |-> k, mac |-> x], learnt)
  BY <1>1, HeadSays
<1>3. BindingsInv
  BY DEF PacketsInv
<1>4. put_mac_bindings' = put_mac_bindings => BindingsInv'
  BY <1>1, <1>3, Zenon DEF BindingsInv
<1> DEFINE b == [mac |-> x, old |-> FALSE]
<1>5. x \in Nat /\ b \in [mac : Nat, old : BOOLEAN] /\ b.mac = x
  <2>1. [key |-> k, mac |-> x] \in Bindings
    BY <1>2 DEF Known
  <2>2. x \in Nat
    BY <2>1 DEF Bindings
  <2> QED
    BY <2>2, SMTT(30)
<1>6. ASSUME put_mac_bindings' =
               [j \in DOMAIN put_mac_bindings \union {k} |->
                  IF j = k THEN b ELSE put_mac_bindings[j]]
      PROVE  BindingsInv'
  <2> HIDE DEF x, k, b
  <2>1. /\ DOMAIN put_mac_bindings' = DOMAIN put_mac_bindings \union {k}
        /\ put_mac_bindings'[k] = b
        /\ \A j \in DOMAIN put_mac_bindings \ {k} :
             put_mac_bindings'[j] = put_mac_bindings[j]
    BY <1>6
  <2>2. ASSUME NEW j \in DOMAIN put_mac_bindings'
        PROVE  /\ put_mac_bindings'[j] \in [mac : Nat, old : BOOLEAN]
               /\ Known([key |-> j, mac |-> put_mac_bindings'[j].mac], learnt')
    <3>1. CASE j = k
      BY <1>1, <1>2, <1>5, <2>1, <3>1, Zenon
    <3>2. CASE j # k
      <4>1. /\ j \in DOMAIN put_mac_bindings
            /\ put_mac_bindings'[j] = put_mac_bindings[j]
        BY <2>1, <3>2
      <4> QED
        BY <1>1, <1>3, <4>1, Zenon DEF BindingsInv
    <3> QED
      BY <3>1, <3>2
  <2> QED
    BY <1>1, <1>3, <2>2, Zenon DEF BindingsInv
<1>7. BindingsInv'
  BY <1>4, <1>6, Zenon DEF pinctrl_handle_put_mac_binding
<1> QED
  BY <1>1, <1>7, RingsStay, ZenonT(30)

(* pinctrl_recv() of any message.                                          *)
LEMMA RecvStep ==
  ASSUME PacketsInv, HandlerRecv
  PROVE  PacketsInv'
<1>1. CASE UNCHANGED <<buffered_packets, pushed, put_mac_bindings>>
  BY <1>1, RecvTakes, MessagesStep, Zenon
<1>2. CASE /\ Arp(Head(rconn.in)) /\ UNCHANGED put_mac_bindings
           /\ pinctrl_handle_arp(Head(rconn.in).n, Head(rconn.in).key.ip)
  BY <1>2, ArpStep
<1>3. CASE /\ PutArp(Head(rconn.in)) /\ UNCHANGED <<buffered_packets, pushed>>
           /\ pinctrl_handle_put_mac_binding(Head(rconn.in).key, Head(rconn.in).n)
  BY <1>3, PutArpStep
<1> QED
  BY <1>1, <1>2, <1>3, Zenon DEF HandlerRecv, Arp, PutArp

(* The rings of some addresses are emptied, or freed.                      *)
LEMMA RingsEmptied ==
  ASSUME PacketsInv, NEW E, BindingsInv',
         UNCHANGED <<rconn, packets, learnt>>,
         pushed' = [i \in Ips |-> IF i \in E THEN <<>> ELSE pushed[i]],
         DOMAIN out' = Ips,
         \A i \in Ips \ E :
            /\ out'[i] = out[i]
            /\ i \in DOMAIN buffered_packets' <=> i \in DOMAIN buffered_packets
            /\ i \in DOMAIN buffered_packets =>
                 buffered_packets'[i] = buffered_packets[i],
         \A i \in Ips \intersect E :
            /\ i \in DOMAIN buffered_packets' => Holds(buffered_packets'[i], <<>>)
            /\ InOrder(i, <<>>, out'[i], rconn.in, packets, learnt)
  PROVE  PacketsInv'
<1>1. MessagesInv'
  BY Zenon DEF PacketsInv, MessagesInv
<1>2. /\ DOMAIN pushed' = Ips
      /\ \A i \in Ips : pushed'[i] = IF i \in E THEN <<>> ELSE pushed[i]
  OBVIOUS
<1>3. ASSUME NEW i \in Ips PROVE AddressInv(i)'
  <2>1. CASE i \in E
    <3>1. pushed'[i] = <<>>
      BY <1>2, <2>1, Zenon
    <3>2. /\ i \in DOMAIN buffered_packets' => Holds(buffered_packets'[i], <<>>)
          /\ InOrder(i, <<>>, out'[i], rconn.in, packets, learnt)
      BY <2>1
    <3> QED
      BY <3>1, <3>2, Zenon DEF AddressInv
  <2>2. CASE i \notin E
    <3>1. /\ pushed'[i] = pushed[i] /\ out'[i] = out[i]
          /\ i \in DOMAIN buffered_packets' <=> i \in DOMAIN buffered_packets
          /\ i \in DOMAIN buffered_packets =>
               buffered_packets'[i] = buffered_packets[i]
      BY <1>2, <2>2, SMTT(30)
    <3>2. AddressInv(i)
      BY DEF PacketsInv
    <3> QED
      BY <3>1, <3>2, Zenon DEF AddressInv
  <2> QED
    BY <2>1, <2>2
<1> QED
  BY <1>1, <1>2, <1>3, Zenon DEF PacketsInv

(* The packets of the addresses with a binding go out.                     *)
LEMMA InjectStep ==
  ASSUME PacketsInv, HandlerInject
  PROVE  PacketsInv'
<1> DEFINE served == {i \in DOMAIN buffered_packets :
                        \E b \in buffered_mac_bindings : b.key.ip = i}
           Sent(i, b) == [j \in DOMAIN Buffered(buffered_packets[i]) |->
                            [pkt |-> Buffered(buffered_packets[i])[j], by |-> b]]
<1>1. PICK first \in [served -> buffered_mac_bindings] :
        /\ \A i \in served : first[i].key.ip = i
        /\ out' = [i \in Ips |-> IF i \notin served THEN out[i]
                                 ELSE out[i] \o Sent(i, first[i])]
        /\ buffered_packets' =
             [i \in DOMAIN buffered_packets |->
                IF i \in served THEN Emptied(buffered_packets[i])
                ELSE buffered_packets[i]]
        /\ pushed' = [i \in Ips |-> IF i \in served THEN <<>> ELSE pushed[i]]
  BY Zenon DEF HandlerInject
<1>2. /\ buffered_mac_bindings' = {}
      /\ UNCHANGED <<rconn, packets, learnt, put_mac_bindings>>
  BY Zenon DEF HandlerInject
<1>3. BindingsInv'
  BY <1>2, Zenon DEF PacketsInv, BindingsInv
<1>4. \A b \in buffered_mac_bindings : Known(b, learnt)
  BY Zenon DEF PacketsInv, BindingsInv
<1>5. ASSUME NEW i \in Ips, i \in served
      PROVE  /\ Holds(Emptied(buffered_packets[i]), <<>>)
             /\ InOrder(i, <<>>, out[i] \o Sent(i, first[i]), rconn.in, packets,
                        learnt)
  <2>1. i \in DOMAIN buffered_packets
    BY <1>5
  <2>2. /\ InOrder(i, pushed[i], out[i], rconn.in, packets, learnt)
        /\ Holds(buffered_packets[i], pushed[i])
    BY <2>1, Zenon DEF PacketsInv, AddressInv
  <2>3. Known(first[i], learnt) /\ first[i].key.ip = i
    BY <1>1, <1>4, <1>5, Zenon
  <2>4. InOrder(i, <<>>, out[i] \o Sent(i, first[i]), rconn.in, packets, learnt)
    BY <2>2, <2>3, OrderSent, SMTT(30)
  <2>5. buffered_packets[i] \in Rings
    BY <2>2 DEF Holds
  <2> QED
    BY <2>4, <2>5, EmptyHolds, Zenon
<1>6. served \subseteq DOMAIN buffered_packets
  OBVIOUS
<1> HIDE DEF served, Sent
<1>7. /\ DOMAIN out' = Ips
      /\ \A i \in Ips : out'[i] = IF i \notin served THEN out[i]
                                  ELSE out[i] \o Sent(i, first[i])
      /\ DOMAIN buffered_packets' = DOMAIN buffered_packets
      /\ \A i \in DOMAIN buffered_packets :
           buffered_packets'[i] = IF i \in served THEN Emptied(buffered_packets[i])
                                  ELSE buffered_packets[i]
  BY <1>1, Zenon
<1>8. \A i \in Ips \ served :
        /\ out'[i] = out[i]
        /\ i \in DOMAIN buffered_packets' <=> i \in DOMAIN buffered_packets
        /\ i \in DOMAIN buffered_packets =>
             buffered_packets'[i] = buffered_packets[i]
  BY <1>7, Zenon
<1>9. \A i \in Ips \intersect served :
        /\ i \in DOMAIN buffered_packets' => Holds(buffered_packets'[i], <<>>)
        /\ InOrder(i, <<>>, out'[i], rconn.in, packets, learnt)
  BY <1>5, <1>6, <1>7, Zenon
<1> QED
  BY <1>1, <1>2, <1>3, <1>7, <1>8, <1>9, RingsEmptied, Zenon

(* buffered_packets_map_gc() frees the rings that are too old.             *)
LEMMA SleepStep ==
  ASSUME PacketsInv, HandlerSleep
  PROVE  PacketsInv'
<1> DEFINE keep == {i \in DOMAIN buffered_packets : ~buffered_packets[i].old}
           E == {i \in Ips : i \notin keep}
<1>1. /\ buffered_packets' = [i \in keep |-> buffered_packets[i]]
      /\ pushed' = [i \in Ips |-> IF i \in keep THEN pushed[i] ELSE <<>>]
      /\ UNCHANGED <<rconn, packets, learnt, out, put_mac_bindings,
                     buffered_mac_bindings>>
  BY Zenon DEF HandlerSleep, buffered_packets_map_gc, shared
<1>2. BindingsInv'
  BY <1>1, Zenon DEF PacketsInv, BindingsInv
<1>3. keep \subseteq DOMAIN buffered_packets
  OBVIOUS
<1> HIDE DEF keep
<1>4. /\ DOMAIN buffered_packets' = keep
      /\ \A i \in keep : buffered_packets'[i] = buffered_packets[i]
      /\ pushed' = [i \in Ips |-> IF i \in E THEN <<>> ELSE pushed[i]]
  BY <1>1
<1>5. DOMAIN out' = Ips
  BY <1>1, Zenon DEF PacketsInv
<1>6. \A i \in Ips \ E :
        /\ out'[i] = out[i]
        /\ i \in DOMAIN buffered_packets' <=> i \in DOMAIN buffered_packets
        /\ i \in DOMAIN buffered_packets =>
             buffered_packets'[i] = buffered_packets[i]
  BY <1>1, <1>3, <1>4, Zenon
<1>7. \A i \in Ips \intersect E :
        /\ i \in DOMAIN buffered_packets' => Holds(buffered_packets'[i], <<>>)
        /\ InOrder(i, <<>>, out'[i], rconn.in, packets, learnt)
  <2>1. \A i \in Ips : InOrder(i, pushed[i], out[i], rconn.in, packets, learnt)
    BY Zenon DEF PacketsInv, AddressInv
  <2>2. \A i \in Ips : InOrder(i, <<>>, out[i], rconn.in, packets, learnt)
    BY <2>1, OrderEmptied, Zenon
  <2> QED
    BY <1>1, <1>4, <2>2, Zenon
<1> HIDE DEF E
<1> QED
  BY <1>1, <1>2, <1>4, <1>5, <1>6, <1>7, RingsEmptied, Zenon

(* pinctrl_destroy() frees all of them.                                    *)
LEMMA JoinStep ==
  ASSUME PacketsInv, MainJoin
  PROVE  PacketsInv'
<1>1. /\ buffered_packets' = <<>> /\ put_mac_bindings' = <<>>
      /\ buffered_mac_bindings' = {} /\ pushed' = [i \in Ips |-> <<>>]
      /\ UNCHANGED <<rconn, packets, learnt, out>>
  BY Zenon DEF MainJoin
<1>2. DOMAIN buffered_packets' = {} /\ DOMAIN put_mac_bindings' = {}
  BY <1>1
<1>3. BindingsInv'
  BY <1>1, <1>2, Zenon DEF BindingsInv
<1>4. /\ pushed' = [i \in Ips |-> IF i \in Ips THEN <<>> ELSE pushed[i]]
      /\ \A i \in Ips \ Ips : FALSE
  BY <1>1
<1>5. DOMAIN out' = Ips
  BY <1>1, Zenon DEF PacketsInv
<1>6. \A i \in Ips \intersect Ips :
        /\ i \in DOMAIN buffered_packets' => Holds(buffered_packets'[i], <<>>)
        /\ InOrder(i, <<>>, out'[i], rconn.in, packets, learnt)
  <2>1. \A i \in Ips : InOrder(i, pushed[i], out[i], rconn.in, packets, learnt)
    BY Zenon DEF PacketsInv, AddressInv
  <2>2. \A i \in Ips : InOrder(i, <<>>, out[i], rconn.in, packets, learnt)
    BY <2>1, OrderEmptied, Zenon
  <2> QED
    BY <1>1, <1>2, <2>2, Zenon
<1> QED
  BY <1>1, <1>3, <1>4, <1>5, <1>6, RingsEmptied, Zenon

(* Only the bindings change.                                               *)
LEMMA BindingsStep ==
  ASSUME PacketsInv, BindingsInv',
         UNCHANGED <<rconn, buffered_packets, packets, learnt, pushed, out>>
  PROVE  PacketsInv'
BY RingsStay, Zenon DEF PacketsInv, MessagesInv

(* run_put_mac_bindings() hands the bindings over.                         *)
LEMMA UpdateStep ==
  ASSUME PacketsInv, MainUpdate
  PROVE  PacketsInv'
<1>1. UNCHANGED <<rconn, buffered_packets, packets, learnt, pushed, out>>
  BY Zenon DEF MainUpdate, history
<1>2. BindingsInv
  BY DEF PacketsInv
<1>3. ASSUME UNCHANGED <<put_mac_bindings, buffered_mac_bindings>>
      PROVE  BindingsInv'
  BY <1>1, <1>2, <1>3, Zenon DEF BindingsInv
<1> DEFINE new == {[key |-> k, mac |-> put_mac_bindings[k].mac] :
                     k \in DOMAIN put_mac_bindings}
<1>4. ASSUME buffered_mac_bindings' = buffered_mac_bindings \union new,
             put_mac_bindings' = <<>>
      PROVE  BindingsInv'
  <2>1. DOMAIN put_mac_bindings' = {}
    BY <1>4
  <2>2. \A b \in new : Known(b, learnt)
    BY <1>2, Zenon DEF BindingsInv
  <2> HIDE DEF new
  <2> QED
    BY <1>1, <1>2, <1>4, <2>1, <2>2, Zenon DEF BindingsInv
<1>5. BindingsInv'
  BY <1>3, <1>4, Zenon DEF MainUpdate, run_put_mac_bindings
<1> QED
  BY <1>1, <1>5, BindingsStep

(* A binding turns old.                                                    *)
LEMMA BindingExpiresStep ==
  ASSUME PacketsInv, NEW k \in Keys, BindingExpires(k)
  PROVE  PacketsInv'
<1>1. UNCHANGED <<rconn, buffered_packets, packets, learnt, pushed, out,
                  buffered_mac_bindings>>
  BY Zenon DEF BindingExpires, history
<1>2. BindingsInv
  BY DEF PacketsInv
<1> DEFINE e == [put_mac_bindings[k] EXCEPT !.old = TRUE]
<1>3. /\ k \in DOMAIN put_mac_bindings
      /\ put_mac_bindings' = [put_mac_bindings EXCEPT ![k] = e]
  BY DEF BindingExpires
<1>4. e \in [mac : Nat, old : BOOLEAN] /\ e.mac = put_mac_bindings[k].mac
  <2>1. put_mac_bindings[k] \in [mac : Nat, old : BOOLEAN]
    BY <1>2, <1>3, Zenon DEF BindingsInv
  <2> QED
    BY <2>1, Zenon
<1> HIDE DEF e
<1>5. /\ DOMAIN put_mac_bindings' = DOMAIN put_mac_bindings
      /\ \A j \in DOMAIN put_mac_bindings :
           put_mac_bindings'[j] = IF j = k THEN e ELSE put_mac_bindings[j]
  BY <1>3
<1>6. BindingsInv'
  BY <1>1, <1>2, <1>3, <1>4, <1>5, Zenon DEF BindingsInv
<1> QED
  BY <1>1, <1>6, BindingsStep

(* The packets of an address turn old.                                     *)
LEMMA PacketsExpireStep ==
  ASSUME PacketsInv, NEW i \in Ips, PacketsExpire(i)
  PROVE  PacketsInv'
<1>1. UNCHANGED <<rconn, packets, learnt, pushed, out, put_mac_bindings,
                  buffered_mac_bindings>>
  BY Zenon DEF PacketsExpire, shared, history
<1> DEFINE e == [buffered_packets[i] EXCEPT !.old = TRUE]
<1>2. /\ i \in DOMAIN buffered_packets
      /\ buffered_packets' = [buffered_packets EXCEPT ![i] = e]
  BY DEF PacketsExpire
<1>3. Holds(buffered_packets[i], pushed[i])
  BY <1>2, Zenon DEF PacketsInv, AddressInv
<1>4. Holds(e, pushed[i])
  BY <1>3, OldHolds, Zenon
<1> HIDE DEF e
<1>5. /\ DOMAIN buffered_packets' = DOMAIN buffered_packets
      /\ \A j \in DOMAIN buffered_packets :
           buffered_packets'[j] = IF j = i THEN e ELSE buffered_packets[j]
  BY <1>2
<1>6. MessagesInv' /\ BindingsInv' /\ DOMAIN pushed' = Ips /\ DOMAIN out' = Ips
  BY <1>1, Zenon DEF PacketsInv, MessagesInv, BindingsInv
<1>7. \A j \in Ips : AddressInv(j)'
  BY <1>1, <1>4, <1>5, Zenon DEF PacketsInv, AddressInv
<1> QED
  BY <1>6, <1>7, Zenon DEF PacketsInv

(* The other steps leave all of it alone.                                  *)
LEMMA QuietStep ==
  ASSUME PacketsInv,
         UNCHANGED <<rconn, buffered_packets, put_mac_bindings,
                     buffered_mac_bindings, packets, learnt, pushed, out>>
  PROVE  PacketsInv'
BY Zenon DEF PacketsInv, MessagesInv, BindingsInv, AddressInv

(* The invariant holds at the start ...                                    *)
LEMMA PacketsInit ==
  ASSUME Init
  PROVE  PacketsInv
<1>1. /\ rconn = [target |-> None, state |-> "VOID", in |-> <<>>]
      /\ buffered_packets = <<>> /\ put_mac_bindings = <<>>
      /\ buffered_mac_bindings = {} /\ learnt = <<>> /\ packets = <<>>
      /\ pushed = [i \in Ips |-> <<>>] /\ out = [i \in Ips |-> <<>>]
  BY Zenon DEF Init
<1>2. Connection(rconn) /\ rconn.in = <<>>
  BY <1>1, ConnectionIs, Zenon
<1>3. DOMAIN buffered_packets = {} /\ DOMAIN put_mac_bindings = {}
  BY <1>1
<1>4. /\ DOMAIN pushed = Ips /\ DOMAIN out = Ips
      /\ \A i \in Ips : pushed[i] = <<>> /\ out[i] = <<>>
  BY <1>1
<1>5. Numbered(<<>>, <<>>, <<>>)
  BY EmptyOf, Zenon DEF Numbered
<1>6. \A i : InOrder(i, <<>>, <<>>, <<>>, <<>>, <<>>)
  BY EmptyOf, Zenon DEF InOrder
<1>7. MessagesInv /\ BindingsInv
  BY <1>1, <1>2, <1>3, <1>5, Zenon DEF MessagesInv, BindingsInv
<1>8. \A i \in Ips : AddressInv(i)
  BY <1>1, <1>2, <1>3, <1>4, <1>6, Zenon DEF AddressInv
<1> QED
  BY <1>4, <1>7, <1>8, Zenon DEF PacketsInv

(* ... and after every step.                                               *)
LEMMA PacketsNext ==
  ASSUME PacketsInv, [Next]_vars
  PROVE  PacketsInv'
<1>1. CASE Handler
  <2>1. CASE HandlerWake
    BY <2>1, QuietStep, Zenon DEF HandlerWake, shared, history
  <2> QED
    BY <1>1, <2>1, TopStep, ExitStep, RecvStep, InjectStep, SleepStep, Zenon
       DEF Handler
<1>2. CASE Main
  <2>1. CASE MainRun
    BY <2>1, QuietStep, Zenon DEF MainRun, shared, history
  <2>2. CASE MainExit
    BY <2>2, QuietStep, Zenon DEF MainExit, shared, history
  <2> QED
    BY <1>2, <2>1, <2>2, UpdateStep, JoinStep, Zenon DEF Main
<1>3. CASE Environment
  <2>1. CASE CommitReply
    BY <2>1, QuietStep, Zenon DEF CommitReply, shared, history
  <2>2. CASE WorldChanges
    BY <2>2, QuietStep, Zenon DEF WorldChanges, shared, history
  <2>3. CASE \E v \in Vifs : GarpDue(v)
    BY <2>3, QuietStep, Zenon DEF GarpDue, history
  <2>4. CASE \E r \in RaPorts : RaDue(r)
    BY <2>4, QuietStep, Zenon DEF RaDue, history
  <2> QED
    BY <1>3, <2>1, <2>2, <2>3, <2>4, AcceptsStep, ConfigStep, LostStep,
       PacketInStep, BindingExpiresStep, PacketsExpireStep, Zenon DEF Environment
<1>4. CASE UNCHANGED vars
  BY <1>4, QuietStep, Zenon DEF vars, shared, history
<1> QED
  BY <1>1, <1>2, <1>3, <1>4, Zenon DEF Next

(* The invariant says what the property does.                              *)
LEMMA InvInOrder ==
  ASSUME PacketsInv
  PROVE  PacketsInOrder
<1>1. ASSUME NEW i \in Ips, i \in DOMAIN buffered_packets
      PROVE  LET n == Len(pushed[i])
                 room == BUFFER_QUEUE_DEPTH - 1
             IN Buffered(buffered_packets[i]) =
                  SubSeq(pushed[i], IF n > room THEN n - room + 1 ELSE 1, n)
  <2>1. pushed[i] \in Seq(Nat) /\ Holds(buffered_packets[i], pushed[i])
    BY <1>1, Zenon DEF PacketsInv, AddressInv, InOrder
  <2> QED
    BY <2>1, BufferedLast, SMTT(30)
<1>2. ASSUME NEW i \in Ips
      PROVE  /\ \A j \in DOMAIN out[i] : /\ packets[out[i][j].pkt].ip = i
                                         /\ learnt[out[i][j].by.mac].ip = i
             /\ \A j, l \in DOMAIN out[i] : j < l => out[i][j].pkt < out[i][l].pkt
  <2>1. InOrder(i, pushed[i], out[i], rconn.in, packets, learnt)
    BY Zenon DEF PacketsInv, AddressInv
  <2>2. /\ out[i] \in Seq(Outs)
        /\ \A j \in 1 .. Len(out[i]) :
             /\ packets[out[i][j].pkt].ip = i
             /\ learnt[out[i][j].by.mac].ip = i
        /\ \A j, l \in 1 .. Len(out[i]) : j < l => out[i][j].pkt < out[i][l].pkt
    BY <2>1, Zenon DEF InOrder, Received, Known
  <2>3. DOMAIN out[i] = 1 .. Len(out[i])
    BY <2>2
  <2> QED
    BY <2>2, <2>3, Zenon
<1> QED
  BY <1>1, <1>2, Zenon DEF PacketsInOrder

(* Whatever the depth of the rings, the number of addresses and the limits *)
(* on the tables: the ring of an address holds the packets pushed since it *)
(* was emptied, the most recent ones in their order, and they leave in     *)
(* that order, once, with a MAC address that was learnt for the address    *)
(* (buffered_push_packet(), send_mac_binding_buffered_pkts()).             *)
THEOREM PacketsStayInOrder == Spec => []PacketsInOrder
<1>1. Init => PacketsInv
  BY PacketsInit
<1>2. PacketsInv /\ [Next]_vars => PacketsInv'
  BY PacketsNext
<1>3. PacketsInv => PacketsInOrder
  BY InvInOrder
<1> QED
  BY <1>1, <1>2, <1>3, PTL DEF Spec

-----------------------------------------------------------------------------
(* Types and limits. *)

(* The two threads and the mutex.                                          *)
ThreadsInv ==
  /\ mutex \in {"free", "main"} /\ (mutex = "main" <=> mpc = "locked")
  /\ hpc \in {"top", "recv", "sleep", "poll", "exited"}
  /\ mpc \in {"run", "locked", "join", "gone"}
  /\ hwake \in BOOLEAN /\ recvd \in 0 .. MaxRecv /\ exit \in BOOLEAN

(* The threads at the start ...                                            *)
LEMMA ThreadsInit == ASSUME Init PROVE ThreadsInv
<1>1. 0 \in 0 .. MaxRecv
  BY PinctrlAssumption
<1> QED
  BY <1>1, Zenon DEF Init, ThreadsInv

(* ... and after every step.                                               *)
LEMMA ThreadsNext ==
  ASSUME ThreadsInv, [Next]_vars
  PROVE  ThreadsInv'
<1>1. CASE HandlerTop
  <2>1. 0 \in 0 .. MaxRecv
    BY PinctrlAssumption
  <2>2. hpc' \in {"sleep", "recv"}
    BY <1>1, Zenon DEF HandlerTop
  <2> QED
    BY <1>1, <2>1, <2>2, Zenon DEF HandlerTop, ThreadsInv
<1>2. CASE HandlerExit
  BY <1>2, Zenon DEF HandlerExit, ThreadsInv
<1>3. CASE HandlerRecv
  <2>1. recvd \in 0 .. MaxRecv /\ recvd < MaxRecv /\ recvd' = recvd + 1
    BY <1>3, Zenon DEF HandlerRecv, ThreadsInv
  <2>2. recvd' \in 0 .. MaxRecv
    BY <2>1, PinctrlAssumption
  <2> QED
    BY <1>3, <2>2, Zenon DEF HandlerRecv, ThreadsInv
<1>4. CASE HandlerInject
  BY <1>4, Zenon DEF HandlerInject, ThreadsInv
<1>5. CASE HandlerSleep
  BY <1>5, Zenon DEF HandlerSleep, ThreadsInv
<1>6. CASE HandlerWake
  BY <1>6, Zenon DEF HandlerWake, ThreadsInv
<1>7. CASE MainRun
  BY <1>7, Zenon DEF MainRun, ThreadsInv, hvars
<1>8. CASE MainUpdate
  BY <1>8, Zenon DEF MainUpdate, ThreadsInv, notify_pinctrl_handler
<1>9. CASE MainExit
  BY <1>9, Zenon DEF MainExit, ThreadsInv, hvars
<1>10. CASE MainJoin
  BY <1>10, Zenon DEF MainJoin, ThreadsInv, hvars
<1>11. CASE Environment \/ UNCHANGED vars
  <2>1. UNCHANGED <<mutex, hpc, hwake, recvd, mpc, exit>>
    BY <1>11, Zenon DEF Environment, SwitchAccepts, SwitchConfigReply,
       ConnectionLost, SwitchPacketIn, CommitReply, WorldChanges, BindingExpires,
       PacketsExpire, GarpDue, RaDue, hvars, vars
  <2> QED
    BY <2>1, Zenon DEF ThreadsInv
<1> QED
  BY <1>1, <1>2, <1>3, <1>4, <1>5, <1>6, <1>7, <1>8, <1>9, <1>10, <1>11, Zenon
     DEF Next, Handler, Main

(* The names of the bridge, and the connection to it.                      *)
Names == Bridges \union {None, Freed}
States == {"VOID", "CONNECTING", "CONNECTED", "ASKED", "REPLIED", "ON"}

NamesInv ==
  /\ br_int_name \in Names /\ name \in Names
  /\ rconn.target \in Names /\ rconn.state \in States
  /\ world \in [bridge : Bridges, vifs : SUBSET Vifs, ras : SUBSET RaPorts]

(* The names at the start ...                                              *)
LEMMA NamesInit == ASSUME Init PROVE NamesInv
<1>1. /\ None \in Names /\ "VOID" \in States
      /\ rconn = [target |-> None, state |-> "VOID", in |-> <<>>]
      /\ br_int_name = None /\ name = None
      /\ world = [bridge |-> CHOOSE b \in Bridges : TRUE, vifs |-> {}, ras |-> {}]
  BY Zenon DEF Init, Names, States
<1>2. (CHOOSE b \in Bridges : TRUE) \in Bridges
  BY PinctrlAssumption, Zenon
<1>3. world \in [bridge : Bridges, vifs : SUBSET Vifs, ras : SUBSET RaPorts]
  BY <1>1, <1>2
<1>4. rconn.target = None /\ rconn.state = "VOID"
  BY <1>1, ConnectionIs, Zenon
<1> QED
  BY <1>1, <1>3, <1>4, Zenon DEF NamesInv

(* ... and after every step.                                               *)
LEMMA NamesNext ==
  ASSUME NamesInv, Connection(rconn), [Next]_vars
  PROVE  NamesInv'
<1>1. /\ None \in Names /\ Freed \in Names /\ Bridges \subseteq Names
      /\ world.bridge \in Bridges
  BY DEF Names, NamesInv
<1>2. CASE HandlerTop
  <2>1. NamesRead \subseteq Names
    BY <1>1, Zenon DEF NamesInv, NamesRead
  <2>2. PICK n \in NamesRead :
          /\ br_int_name' = n
          /\ rconn' = IF ConnectTo(n).state = "CONNECTED"
                      THEN [ConnectTo(n) EXCEPT !.state = "ASKED"] ELSE ConnectTo(n)
    BY <1>2, Zenon DEF HandlerTop
  <2>3. n \in Names
    BY <2>1, <2>2
  <2>4. /\ Connection(ConnectTo(n)) /\ ConnectTo(n).target \in Names
        /\ ConnectTo(n).state \in States
    BY <2>3, ConnectionIs, Zenon DEF ConnectTo, NamesInv, States
  <2>5. /\ [ConnectTo(n) EXCEPT !.state = "ASKED"].target = ConnectTo(n).target
        /\ [ConnectTo(n) EXCEPT !.state = "ASKED"].state = "ASKED"
    BY <2>4, ConnectionFields
  <2>6. rconn'.target \in Names /\ rconn'.state \in States
    BY <2>2, <2>4, <2>5, Zenon DEF States
  <2> QED
    BY <1>2, <2>2, <2>3, <2>6, Zenon DEF HandlerTop, NamesInv, env
<1>3. CASE HandlerExit
  <2>1. rconn'.target \in Names /\ rconn'.state \in States /\ br_int_name' \in Names
    BY <1>1, <1>3, ConnectionIs, Zenon DEF HandlerExit, States
  <2> QED
    BY <1>3, <2>1, Zenon DEF HandlerExit, NamesInv, env
<1>4. CASE HandlerRecv
  <2> DEFINE rc == [rconn EXCEPT !.in = Tail(rconn.in)]
  <2>1. rconn' \in {rc, set_switch_config(rc)}
    BY <1>4, ZenonT(30) DEF HandlerRecv
  <2>2. Connection(rc) /\ rc.target = rconn.target /\ rc.state = rconn.state
    BY ConnectionForms, ConnectionFields, Zenon
  <2> HIDE DEF rc
  <2>3. /\ set_switch_config(rc).target = rc.target
        /\ set_switch_config(rc).state = "ON"
    BY <2>2, ConnectionFields DEF set_switch_config
  <2>4. rconn'.target \in Names /\ rconn'.state \in States
    BY <2>1, <2>2, <2>3, Zenon DEF NamesInv, States
  <2> QED
    BY <1>4, <2>4, Zenon DEF HandlerRecv, NamesInv, env
<1>5. CASE HandlerInject \/ HandlerSleep \/ HandlerWake
  <2>1. UNCHANGED <<br_int_name, name, rconn, world>>
    BY <1>5, Zenon DEF HandlerInject, HandlerSleep, HandlerWake, env
  <2> QED
    BY <2>1, Zenon DEF NamesInv
<1>6. CASE Main
  <2>1. /\ UNCHANGED <<br_int_name, rconn, world>>
        /\ name' \in {name, Freed, world.bridge}
    BY <1>6, Zenon DEF Main, MainRun, MainUpdate, MainExit, MainJoin, hvars, env
  <2>2. name' \in Names
    BY <1>1, <2>1, Zenon DEF NamesInv
  <2> QED
    BY <2>1, <2>2, Zenon DEF NamesInv
<1>7. CASE SwitchAccepts
  <2>1. rconn'.target = rconn.target /\ rconn'.state = "CONNECTED"
    BY <1>7, ConnectionFields, Zenon DEF SwitchAccepts
  <2> QED
    BY <1>7, <2>1, Zenon DEF SwitchAccepts, NamesInv, States, hvars, env
<1>8. CASE SwitchConfigReply
  <2> DEFINE q == Append(rconn.in, [type |-> "OFPTYPE_GET_CONFIG_REPLY"])
  <2>1. rconn' = [rconn EXCEPT !.state = "REPLIED", !.in = q]
    BY <1>8 DEF SwitchConfigReply
  <2> HIDE DEF q
  <2>2. rconn'.target = rconn.target /\ rconn'.state = "REPLIED"
    BY <2>1, ConnectionBoth
  <2> QED
    BY <1>8, <2>2, Zenon DEF SwitchConfigReply, NamesInv, States, hvars, env
<1>9. CASE ConnectionLost
  <2>1. rconn' = [rconn EXCEPT !.state = "CONNECTING", !.in = <<>>]
    BY <1>9 DEF ConnectionLost
  <2>2. rconn'.target = rconn.target /\ rconn'.state = "CONNECTING"
    BY <2>1, ConnectionBoth
  <2> QED
    BY <1>9, <2>2, Zenon DEF ConnectionLost, NamesInv, States, hvars
<1>10. CASE \E k \in Keys : SwitchPacketIn(k)
  <2>1. /\ \E q : rconn' = [rconn EXCEPT !.in = q]
        /\ UNCHANGED <<br_int_name, name, world>>
    BY <1>10, Zenon DEF SwitchPacketIn, hvars
  <2>2. rconn'.target = rconn.target /\ rconn'.state = rconn.state
    BY <2>1, ConnectionIn, ZenonT(30)
  <2> QED
    BY <2>1, <2>2, Zenon DEF NamesInv
<1>11. CASE WorldChanges
  <2>1. UNCHANGED <<br_int_name, name, rconn>>
    BY <1>11, Zenon DEF WorldChanges, hvars
  <2>2. \/ \E vs \in SUBSET Vifs, rs \in SUBSET RaPorts :
             world' = [world EXCEPT !.vifs = vs, !.ras = rs]
        \/ \E b \in Bridges : world' = [world EXCEPT !.bridge = b]
    BY <1>11, Zenon DEF WorldChanges
  <2>3. world' \in [bridge : Bridges, vifs : SUBSET Vifs, ras : SUBSET RaPorts]
    BY <2>2, Zenon DEF NamesInv
  <2> QED
    BY <2>1, <2>3, Zenon DEF NamesInv
<1>12. CASE \/ CommitReply
            \/ \E k \in Keys : BindingExpires(k)
            \/ \E i \in Ips : PacketsExpire(i)
            \/ \E v \in Vifs : GarpDue(v)
            \/ \E r \in RaPorts : RaDue(r)
            \/ UNCHANGED vars
  <2>1. UNCHANGED <<br_int_name, name, rconn, world>>
    BY <1>12, Zenon DEF CommitReply, BindingExpires, PacketsExpire, GarpDue,
       RaDue, hvars, env, vars
  <2> QED
    BY <2>1, Zenon DEF NamesInv
<1> QED
  BY <1>2, <1>3, <1>4, <1>5, <1>6, <1>7, <1>8, <1>9, <1>10, <1>11, <1>12, Zenon
     DEF Next, Handler, Environment

(* The tables and their limits.                                            *)
TablesInv ==
  /\ DOMAIN buffered_packets \subseteq Ips
  /\ IsFiniteSet(DOMAIN buffered_packets)
  /\ Cardinality(DOMAIN buffered_packets) <= MaxBuffered
  /\ DOMAIN put_mac_bindings \subseteq Keys
  /\ IsFiniteSet(DOMAIN put_mac_bindings)
  /\ Cardinality(DOMAIN put_mac_bindings) <= MaxPutBindings
  /\ DOMAIN mac_binding \subseteq Keys /\ DOMAIN txn \subseteq Keys

(* An empty table is within its limits, and so is one with one entry more  *)
(* than a table that is not full.                                          *)
LEMMA NoneInTable ==
  /\ DOMAIN <<>> = {} /\ IsFiniteSet(DOMAIN <<>>)
  /\ Cardinality(DOMAIN <<>>) <= MaxBuffered
  /\ Cardinality(DOMAIN <<>>) <= MaxPutBindings
<1>1. DOMAIN <<>> = {}
  OBVIOUS
<1>2. MaxBuffered \in Nat /\ MaxPutBindings \in Nat
  BY PinctrlAssumption
<1>3. IsFiniteSet({}) /\ Cardinality({}) = 0
  BY FS_EmptySet
<1> QED
  BY <1>1, <1>2, <1>3

LEMMA OneMore ==
  ASSUME NEW S, NEW x, NEW N \in Nat, IsFiniteSet(S), Cardinality(S) <= N,
         x \in S \/ ~(Cardinality(S) >= N)
  PROVE  IsFiniteSet(S \union {x}) /\ Cardinality(S \union {x}) <= N
<1>1. Cardinality(S) \in Nat
  BY FS_CardinalityType
<1>2. /\ IsFiniteSet(S \union {x})
      /\ Cardinality(S \union {x}) = IF x \in S THEN Cardinality(S)
                                     ELSE Cardinality(S) + 1
  BY FS_AddElement
<1> QED
  BY <1>1, <1>2

(* The tables at the start ...                                             *)
LEMMA TablesInit == ASSUME Init PROVE TablesInv
<1>1. /\ buffered_packets = <<>> /\ put_mac_bindings = <<>>
      /\ txn = <<>> /\ mac_binding = <<>>
  BY Zenon DEF Init
<1> QED
  BY <1>1, NoneInTable, Zenon DEF TablesInv

(* ... after a message ...                                                 *)
LEMMA TablesRecv ==
  ASSUME PacketsInv, TablesInv, HandlerRecv
  PROVE  TablesInv'
<1> DEFINE x == Head(rconn.in).n
           k == Head(rconn.in).key
<1>1. rconn.in # <<>> /\ UNCHANGED <<txn, mac_binding>>
  BY Zenon DEF HandlerRecv, sbvars
<1>2. Numbered(rconn.in, packets, learnt)
  BY Zenon DEF PacketsInv, MessagesInv
<1>3. MaxBuffered \in Nat /\ MaxPutBindings \in Nat
  BY PinctrlAssumption
<1>4. CASE UNCHANGED <<buffered_packets, put_mac_bindings>>
  BY <1>1, <1>4, Zenon DEF TablesInv
<1>5. CASE Arp(Head(rconn.in)) /\ pinctrl_handle_arp(x, k.ip)
           /\ UNCHANGED put_mac_bindings
  <2> DEFINE S == DOMAIN buffered_packets
  <2>1. k.ip \in Ips
    BY <1>1, <1>2, <1>5, HeadSays, Zenon
  <2> HIDE DEF x, k
  <2>2. \/ UNCHANGED buffered_packets
        \/ /\ k.ip \in S \/ ~(Cardinality(S) >= MaxBuffered)
           /\ DOMAIN buffered_packets' = S \union {k.ip}
    BY <1>5, Zenon DEF pinctrl_handle_arp
  <2>3. CASE UNCHANGED buffered_packets
    BY <1>4, <1>5, <2>3, Zenon
  <2>4. CASE /\ k.ip \in S \/ ~(Cardinality(S) >= MaxBuffered)
             /\ DOMAIN buffered_packets' = S \union {k.ip}
    <3>1. S \subseteq Ips /\ IsFiniteSet(S) /\ Cardinality(S) <= MaxBuffered
      BY Zenon DEF TablesInv
    <3> HIDE DEF S
    <3>2. /\ IsFiniteSet(S \union {k.ip})
          /\ Cardinality(S \union {k.ip}) <= MaxBuffered
      BY <1>3, <2>4, <3>1, OneMore, Zenon
    <3>3. S \union {k.ip} \subseteq Ips
      BY <2>1, <3>1
    <3> QED
      BY <1>1, <1>5, <2>4, <3>2, <3>3, Zenon DEF TablesInv
  <2> QED
    BY <2>2, <2>3, <2>4, Zenon
<1>6. CASE PutArp(Head(rconn.in)) /\ pinctrl_handle_put_mac_binding(k, x)
           /\ UNCHANGED buffered_packets
  <2> DEFINE S == DOMAIN put_mac_bindings
  <2>1. k \in Keys
    <3>1. Known([key |-> k, mac |-> x], learnt)
      BY <1>1, <1>2, <1>6, HeadSays
    <3> HIDE DEF k, x
    <3> QED
      BY <3>1, SMTT(30) DEF Known, Bindings
  <2> HIDE DEF x, k
  <2>2. \/ UNCHANGED put_mac_bindings
        \/ /\ k \in S \/ ~(Cardinality(S) >= MaxPutBindings)
           /\ DOMAIN put_mac_bindings' = S \union {k}
    BY <1>6, Zenon DEF pinctrl_handle_put_mac_binding
  <2>3. CASE UNCHANGED put_mac_bindings
    BY <1>4, <1>6, <2>3, Zenon
  <2>4. CASE /\ k \in S \/ ~(Cardinality(S) >= MaxPutBindings)
             /\ DOMAIN put_mac_bindings' = S \union {k}
    <3>1. S \subseteq Keys /\ IsFiniteSet(S) /\ Cardinality(S) <= MaxPutBindings
      BY Zenon DEF TablesInv
    <3> HIDE DEF S
    <3>2. /\ IsFiniteSet(S \union {k})
          /\ Cardinality(S \union {k}) <= MaxPutBindings
      BY <1>3, <2>4, <3>1, OneMore, Zenon
    <3>3. S \union {k} \subseteq Keys
      BY <2>1, <3>1
    <3> QED
      BY <1>1, <1>6, <2>4, <3>2, <3>3, Zenon DEF TablesInv
  <2> QED
    BY <2>2, <2>3, <2>4, Zenon
<1> QED
  BY <1>4, <1>5, <1>6, Zenon DEF HandlerRecv, Arp, PutArp

(* ... and after every step.                                               *)
LEMMA TablesNext ==
  ASSUME PacketsInv, TablesInv, [Next]_vars
  PROVE  TablesInv'
<1>1. CASE HandlerInject
  <2>1. /\ DOMAIN buffered_packets' = DOMAIN buffered_packets
        /\ UNCHANGED <<put_mac_bindings, txn, mac_binding>>
    BY <1>1, Zenon DEF HandlerInject, sbvars
  <2> QED
    BY <2>1, Zenon DEF TablesInv
<1>2. CASE HandlerSleep
  <2> DEFINE S == DOMAIN buffered_packets
             T == {i \in S : ~buffered_packets[i].old}
  <2>1. /\ DOMAIN buffered_packets' = T
        /\ UNCHANGED <<put_mac_bindings, txn, mac_binding>>
    BY <1>2, Zenon DEF HandlerSleep, buffered_packets_map_gc, shared, sbvars
  <2>2. T \in SUBSET S
    OBVIOUS
  <2>3. /\ S \subseteq Ips /\ IsFiniteSet(S) /\ Cardinality(S) <= MaxBuffered
        /\ MaxBuffered \in Nat
    BY PinctrlAssumption DEF TablesInv
  <2> HIDE DEF S, T
  <2>4. IsFiniteSet(T) /\ Cardinality(T) <= Cardinality(S)
    BY <2>2, <2>3, FS_Subset, Zenon
  <2>5. Cardinality(T) \in Nat /\ Cardinality(S) \in Nat
    BY <2>3, <2>4, FS_CardinalityType
  <2>6. T \subseteq Ips /\ Cardinality(T) <= MaxBuffered
    BY <2>2, <2>3, <2>4, <2>5
  <2> QED
    BY <2>1, <2>4, <2>6, Zenon DEF TablesInv
<1>3. CASE MainUpdate
  <2>1. UNCHANGED <<buffered_packets, mac_binding>>
    BY <1>3, Zenon DEF MainUpdate
  <2>2. \/ UNCHANGED <<txn, put_mac_bindings>>
        \/ \E known : /\ DOMAIN txn' = Written(known)
                      /\ put_mac_bindings' = <<>>
    BY <1>3, Zenon DEF MainUpdate, run_put_mac_bindings
  <2>3. \A known : Written(known) \subseteq DOMAIN put_mac_bindings
    BY Zenon DEF Written
  <2>4. \/ UNCHANGED <<txn, put_mac_bindings>>
        \/ DOMAIN txn' \subseteq Keys /\ put_mac_bindings' = <<>>
    BY <2>2, <2>3, Zenon DEF TablesInv
  <2> QED
    BY <2>1, <2>4, NoneInTable, Zenon DEF TablesInv
<1>4. CASE MainJoin
  <2>1. /\ buffered_packets' = <<>> /\ put_mac_bindings' = <<>>
        /\ UNCHANGED <<txn, mac_binding>>
    BY <1>4, Zenon DEF MainJoin, sbvars
  <2> QED
    BY <2>1, NoneInTable, Zenon DEF TablesInv
<1>5. CASE CommitReply
  <2>1. /\ UNCHANGED <<buffered_packets, put_mac_bindings>> /\ txn' = <<>>
        /\ \/ DOMAIN mac_binding' = DOMAIN mac_binding \union DOMAIN txn
           \/ UNCHANGED mac_binding
    BY <1>5, Zenon DEF CommitReply, shared
  <2>2. DOMAIN mac_binding' \subseteq Keys /\ DOMAIN txn' \subseteq Keys
    BY <2>1, NoneInTable, Zenon DEF TablesInv
  <2> QED
    BY <2>1, <2>2, Zenon DEF TablesInv
<1>6. CASE \E k \in Keys : BindingExpires(k)
  <2>1. /\ DOMAIN put_mac_bindings' = DOMAIN put_mac_bindings
        /\ UNCHANGED <<buffered_packets, txn, mac_binding>>
    BY <1>6, Zenon DEF BindingExpires, sbvars
  <2> QED
    BY <2>1, Zenon DEF TablesInv
<1>7. CASE \E i \in Ips : PacketsExpire(i)
  <2>1. /\ DOMAIN buffered_packets' = DOMAIN buffered_packets
        /\ UNCHANGED <<put_mac_bindings, txn, mac_binding>>
    BY <1>7, Zenon DEF PacketsExpire, sbvars, shared
  <2> QED
    BY <2>1, Zenon DEF TablesInv
<1>8. CASE \/ HandlerTop \/ HandlerExit \/ HandlerWake \/ MainRun \/ MainExit
           \/ SwitchAccepts \/ SwitchConfigReply \/ ConnectionLost
           \/ \E k \in Keys : SwitchPacketIn(k)
           \/ WorldChanges
           \/ \E v \in Vifs : GarpDue(v)
           \/ \E r \in RaPorts : RaDue(r)
           \/ UNCHANGED vars
  <2>1. UNCHANGED <<buffered_packets, put_mac_bindings, txn, mac_binding>>
    BY <1>8, Zenon DEF HandlerTop, HandlerExit, HandlerWake, MainRun, MainExit,
       SwitchAccepts, SwitchConfigReply, ConnectionLost, SwitchPacketIn,
       WorldChanges, GarpDue, RaDue, shared, sbvars, vars
  <2> QED
    BY <2>1, Zenon DEF TablesInv
<1> QED
  BY <1>1, <1>2, <1>3, <1>4, <1>5, <1>6, <1>7, <1>8, TablesRecv, Zenon
     DEF Next, Handler, Main, Environment

(* Together they are the type invariant.                                   *)
LEMMA TypesFollow ==
  ASSUME PacketsInv, ThreadsInv, NamesInv, TablesInv
  PROVE  TypeOK
<1>1. {br_int_name, name, rconn.target} \subseteq Bridges \union {None, Freed}
  BY DEF NamesInv, Names
<1>2. rconn.state \in
        {"VOID", "CONNECTING", "CONNECTED", "ASKED", "REPLIED", "ON"}
  BY Zenon DEF NamesInv, States
<1>3. buffered_mac_bindings \subseteq [key : Keys, mac : DOMAIN learnt]
  <2>1. DOMAIN learnt = 1 .. Len(learnt)
    <3>1. learnt \in Seq(Keys)
      BY Zenon DEF PacketsInv, MessagesInv, Numbered
    <3> QED
      BY <3>1
  <2>2. \A b \in buffered_mac_bindings : b \in Bindings /\ b.mac \in 1 .. Len(learnt)
    BY Zenon DEF PacketsInv, BindingsInv, Known
  <2> QED
    BY <2>1, <2>2 DEF Bindings
<1> QED
  BY <1>1, <1>2, <1>3, Zenon DEF TypeOK, ThreadsInv, TablesInv

(* The shapes of the data, with what they say of the two threads: the main *)
(* thread holds the mutex exactly while it is in pinctrl_run(), and the    *)
(* addresses with packets and the bindings do not outgrow their limits     *)
(* (pinctrl_handle_buffered_packets(), pinctrl_handle_put_mac_binding()).  *)
THEOREM TypesAreKept == Spec => []TypeOK
<1> DEFINE Inv == PacketsInv /\ ThreadsInv /\ NamesInv /\ TablesInv
<1>1. Init => Inv
  BY PacketsInit, ThreadsInit, NamesInit, TablesInit
<1>2. Inv /\ [Next]_vars => Inv'
  <2>1. PacketsInv => Connection(rconn)
    BY DEF PacketsInv, MessagesInv
  <2> QED
    BY <2>1, PacketsNext, ThreadsNext, NamesNext, TablesNext
<1>3. Inv => TypeOK
  BY TypesFollow
<1> QED
  BY <1>1, <1>2, <1>3, PTL DEF Spec
=============================================================================
