--------------------------- MODULE OfctrlAckProofs ---------------------------
(***************************************************************************)
(* Proofs about what ofctrl.c concludes from the switch's answers.         *)
(*                                                                         *)
(* A barrier's reply says that what was sent ahead of the barrier has been *)
(* done, provided it is the reply to that barrier (XidInv).  For flushes of *)
(* conntrack zones the invariant (FlushInv) follows the barrier: wherever  *)
(* it is, the flush is ahead of it or done.  For the Geneve option (ModInv, *)
(* TlvInv) the mapping is ahead of the barrier, and an error that refuses  *)
(* it comes ahead of the barrier's reply; other controllers may take what  *)
(* is free, and nobody takes OVN's option away.                            *)
(***************************************************************************)
EXTENDS OfctrlProofs

-----------------------------------------------------------------------------
(* Flushes of conntrack zones. *)

(* A flush of zone z is under way ahead of position i.                     *)
FlushAhead(z, i) ==
  \E j \in 1 .. Len(toSwitch) : /\ j < i
                                /\ \E m \in toSwitch[j].msgs :
                                      m.type = "flush" /\ m.zone = z

(* The barrier that an entry waits for confirms the flush of its zone.     *)
BarrierConfirms(e) ==
  /\ e.of_xid \in Nat /\ e.of_xid < next_xid
  /\ \A i \in 1 .. Len(toSwitch) :
        Barrier(e.of_xid) \in toSwitch[i].msgs
          => e.zone \in flushed \/ FlushAhead(e.zone, i)
  /\ \A k \in 1 .. Len(toCtl) :
        toCtl[k].type = "barrier_reply" /\ toCtl[k].xid = e.of_xid
          => e.zone \in flushed

FlushInv ==
  /\ \A e \in pending : e = [zone |-> e.zone, state |-> e.state,
                             of_xid |-> e.of_xid]
  /\ \A e \in pending : e.state = "CT_ZONE_OF_SENT" => BarrierConfirms(e)
  /\ FlushConfirmed

LEMMA ConfirmsSend ==
  ASSUME ChannelInv, NEW e, BarrierConfirms(e), NEW bs, IsQueue(bs), Send(bs),
         next_xid' \in Nat, next_xid' >= next_xid, UNCHANGED flushed,
         Fresh(bs, next_xid, next_xid'), Fewer(toCtl, toCtl')
  PROVE  BarrierConfirms(e)'
<1> DEFINE n == Len(toSwitch)
<1>1. /\ n \in Nat /\ Len(bs) \in Nat
      /\ Len(toSwitch') \in Nat /\ Len(toSwitch') >= n
      /\ \A i \in 1 .. n : toSwitch'[i] = toSwitch[i]
      /\ \A i \in 1 .. Len(toSwitch') : i > n =>
           /\ i - n \in 1 .. Len(bs)
           /\ toSwitch'[i] = bs[i - n]
  BY SendShape DEF ChannelInv
<1> HIDE DEF n
<1>2. e.of_xid \in Nat /\ e.of_xid < next_xid'
  BY DEF BarrierConfirms, ChannelInv
<1>3. ASSUME NEW i \in 1 .. Len(toSwitch'),
             Barrier(e.of_xid) \in toSwitch'[i].msgs
      PROVE  e.zone \in flushed' \/ FlushAhead(e.zone, i)'
  <2>1. i \in 1 .. n
    <3>1. /\ Barrier(e.of_xid).type \in XidTypes
          /\ Barrier(e.of_xid).xid = e.of_xid
      BY DEF Barrier, XidTypes
    <3>2. SUFFICES ASSUME i > n
                   PROVE  FALSE
      BY <1>1
    <3>3. i - n \in 1 .. Len(bs) /\ Barrier(e.of_xid) \in bs[i - n].msgs
      BY <1>1, <1>3, <3>2
    <3>4. next_xid <= e.of_xid
      BY <3>1, <3>3 DEF Fresh
    <3> QED
      BY <3>4 DEF BarrierConfirms, ChannelInv
  <2>2. e.zone \in flushed \/ FlushAhead(e.zone, i)
    BY <1>1, <1>3, <2>1 DEF BarrierConfirms, n
  <2>3. ASSUME FlushAhead(e.zone, i)
        PROVE  FlushAhead(e.zone, i)'
    <3>1. PICK j \in 1 .. n : /\ j < i
                              /\ \E m \in toSwitch[j].msgs :
                                    m.type = "flush" /\ m.zone = e.zone
      BY <2>3 DEF FlushAhead, n
    <3>2. j \in 1 .. Len(toSwitch')
      BY <1>1, <3>1
    <3> QED
      BY <1>1, <3>1, <3>2 DEF FlushAhead
  <2> QED
    BY <2>2, <2>3
<1>4. \A k \in 1 .. Len(toCtl') :
         toCtl'[k].type = "barrier_reply" /\ toCtl'[k].xid = e.of_xid
           => e.zone \in flushed
  BY DEF BarrierConfirms, Fewer
<1> QED
  BY <1>2, <1>3, <1>4, Zenon DEF BarrierConfirms

(* Nothing is sent; a flush of another zone may be asked for.              *)
LEMMA ConfirmsQuiet ==
  ASSUME NEW e, BarrierConfirms(e),
         toSwitch' = toSwitch \/ toSwitch' = <<>>, UNCHANGED next_xid,
         e.zone \in flushed => e.zone \in flushed', Fewer(toCtl, toCtl')
  PROVE  BarrierConfirms(e)'
<1>1. \A k \in 1 .. Len(toCtl') :
         toCtl'[k].type = "barrier_reply" /\ toCtl'[k].xid = e.of_xid
           => e.zone \in flushed'
  BY DEF BarrierConfirms, Fewer
<1>2. CASE toSwitch' = toSwitch
  BY <1>1, <1>2 DEF BarrierConfirms, FlushAhead
<1>3. CASE toSwitch' = <<>>
  <2>1. 1 .. Len(toSwitch') = {}
    BY <1>3, QueueEmpty
  <2> QED
    BY <1>1, <2>1, Zenon DEF BarrierConfirms
<1> QED
  BY <1>2, <1>3

(* The switch answers the barrier when no flush is ahead of it any more.   *)
LEMMA ConfirmsSwitch ==
  ASSUME ChannelInv, XidInv, SwitchStep, NEW e, BarrierConfirms(e)
  PROVE  BarrierConfirms(e)'
<1> DEFINE z == e.zone
<1>1. PICK m, a, o : SwitchTakes(m, a, o)
  BY SwitchShape
<1>2. UNCHANGED next_xid
  BY DEF SwitchStep
<1>3. /\ a \in Answers(m) /\ Shifted(toSwitch, toSwitch', m, o)
      /\ flushed' = IF m.type = "flush" THEN flushed \union {m.zone}
                    ELSE flushed
      /\ \A k \in 1 .. Len(toCtl') :
           \/ k \in 1 .. Len(toCtl) /\ toCtl'[k] = toCtl[k]
           \/ toCtl'[k] = a[1] /\ a[1] # NoReply
  BY <1>1 DEF SwitchTakes
<1>4. ASSUME NEW i \in 1 .. Len(toSwitch'),
             Barrier(e.of_xid) \in toSwitch'[i].msgs
      PROVE  z \in flushed' \/ FlushAhead(z, i)'
  <2>1. /\ i + o \in 1 .. Len(toSwitch)
        /\ Barrier(e.of_xid) \in toSwitch[i + o].msgs
    BY <1>3, <1>4 DEF Shifted
  <2>2. CASE z \in flushed
    BY <1>3, <2>2
  <2>3. CASE FlushAhead(z, i + o)
    <3>1. PICK j \in 1 .. Len(toSwitch) :
             /\ j < i + o
             /\ \E n \in toSwitch[j].msgs : n.type = "flush" /\ n.zone = z
      BY <2>3 DEF FlushAhead
    <3>2. PICK n \in toSwitch[j].msgs : n.type = "flush" /\ n.zone = z
      BY <3>1
    <3>3. CASE j = 1 /\ n = m
      BY <1>3, <3>2, <3>3, Zenon
    <3>4. CASE j - o \in 1 .. Len(toSwitch') /\ n \in toSwitch'[j - o].msgs
      <4>1. j - o < i
        BY <1>3, <3>1 DEF Shifted
      <4> QED
        BY <3>2, <3>4, <4>1, SMTT(30) DEF FlushAhead
    <3> QED
      BY <1>3, <3>3, <3>4 DEF Shifted
  <2> QED
    BY <2>1, <2>2, <2>3 DEF BarrierConfirms
<1>5. ASSUME NEW k \in 1 .. Len(toCtl'),
             toCtl'[k].type = "barrier_reply", toCtl'[k].xid = e.of_xid
      PROVE  z \in flushed'
  <2>1. CASE k \in 1 .. Len(toCtl) /\ toCtl'[k] = toCtl[k]
    BY <1>3, <1>5, <2>1 DEF BarrierConfirms
  <2>2. CASE toCtl'[k] = a[1] /\ a[1] # NoReply
    <3>1. m.type = "barrier" /\ m.type \in XidTypes /\ m.xid = e.of_xid
      BY <1>3, <1>5, <2>2, AnswerForms, ZenonT(30)
    <3>2. 1 \in 1 .. Len(toSwitch) /\ m \in toSwitch[1].msgs
      BY <1>3, Zenon DEF Shifted
    <3>3. m = Barrier(e.of_xid)
      BY <3>1, <3>2, Zenon DEF XidInv
    <3>4. z \in flushed \/ FlushAhead(z, 1)
      BY <3>2, <3>3 DEF BarrierConfirms
    <3>5. ~ FlushAhead(z, 1)
      BY DEF FlushAhead
    <3> QED
      BY <1>3, <3>4, <3>5, Zenon
  <2> QED
    BY <1>3, <2>1, <2>2
<1> QED
  BY <1>2, <1>4, <1>5 DEF BarrierConfirms

(* The entries stay, and so does what their barriers confirm.              *)
LEMMA FlushSame ==
  ASSUME FlushInv, UNCHANGED pending, flushed \subseteq flushed',
         \A e : BarrierConfirms(e) => BarrierConfirms(e)'
  PROVE  FlushInv'
BY DEF FlushInv, FlushConfirmed

(* ofctrl_run() on a new connection: no entry waits for a barrier.         *)
LEMMA RequeueFlush ==
  ASSUME FlushInv, pending' = Requeue(pending), UNCHANGED flushed
  PROVE  FlushInv'
<1>1. ASSUME NEW e \in pending'
      PROVE  \/ e \in pending /\ e.state # "CT_ZONE_OF_SENT"
             \/ \E f \in pending :
                   e = [zone |-> f.zone, state |-> "CT_ZONE_OF_QUEUED",
                        of_xid |-> f.of_xid]
  BY DEF Requeue, FlushInv
<1> QED
  BY <1>1 DEF FlushInv, FlushConfirmed

(* recv_S_UPDATE_FLOWS(): the flush that the reply confirms was done.      *)
LEMMA ConfirmedFlush ==
  ASSUME ChannelInv, FlushInv, toCtl # <<>>, toCtl' = Tail(toCtl),
         Head(toCtl).type = "barrier_reply",
         pending' = Confirmed(pending, Head(toCtl).xid),
         UNCHANGED <<flushed, toSwitch, next_xid>>
  PROVE  FlushInv'
<1>1. Fewer(toCtl, toCtl')
  BY FewerTail DEF ChannelInv
<1>2. \A e : BarrierConfirms(e) => BarrierConfirms(e)'
  BY <1>1, ConfirmsQuiet
<1>3. 1 \in 1 .. Len(toCtl) /\ Head(toCtl) = toCtl[1]
  BY CtlTail DEF ChannelInv
<1>4. ASSUME NEW e \in pending'
      PROVE  \/ e \in pending
             \/ \E f \in pending :
                   /\ f.state = "CT_ZONE_OF_SENT"
                   /\ f.of_xid = Head(toCtl).xid
                   /\ e = [zone |-> f.zone, state |-> "CT_ZONE_DB_QUEUED",
                           of_xid |-> f.of_xid]
  BY DEF Confirmed, FlushInv
<1>5. \A f \in pending :
         f.state = "CT_ZONE_OF_SENT" /\ f.of_xid = Head(toCtl).xid
           => f.zone \in flushed
  BY <1>3 DEF FlushInv, BarrierConfirms
<1> QED
  BY <1>2, <1>4, <1>5 DEF FlushInv, FlushConfirmed

(* ofctrl_put(): the flushes are ahead of the new barrier.                 *)
LEMMA SentFlush ==
  ASSUME ChannelInv, XidInv, FlushInv, Send(PutAll), next_xid' = next_xid + 1,
         pending' = Sent(pending, next_xid), UNCHANGED <<flushed, toCtl>>
  PROVE  FlushInv'
<1> DEFINE x == next_xid
           n == Len(toSwitch)
           q == PutMessages(Desired, sb.nb_cfg)
<1>1. next_xid \in Nat /\ sb.nb_cfg \in Nat /\ next_xid' \in Nat
      /\ next_xid' >= next_xid /\ Fewer(toCtl, toCtl')
  BY FewerTail DEF ChannelInv
<1>2. \A e : BarrierConfirms(e) => BarrierConfirms(e)'
  BY <1>1, PutFresh, ConfirmsSend
<1>3. PutBatches(q, sb.nb_cfg) /\ Carries(q, FlushMessages)
  BY <1>1, PutShape
<1>4. /\ IsQueue(PutAll)
      /\ Len(q) \in Nat /\ Len(PutAll) = Len(q) + 1
      /\ \A i \in 1 .. Len(q) : PutAll[i] = q[i]
      /\ PutAll[Len(q) + 1].msgs = {Barrier(x)}
  BY <1>1, <1>3, BarrieredShape DEF PutAll
<1> HIDE DEF q
<1>5. /\ n \in Nat /\ Len(toSwitch') \in Nat /\ Len(toSwitch') >= n
      /\ \A i \in 1 .. n : toSwitch'[i] = toSwitch[i]
      /\ \A i \in 1 .. Len(toSwitch') : i > n =>
           /\ Len(toSwitch') = n + Len(PutAll)
           /\ i - n \in 1 .. Len(PutAll)
           /\ toSwitch'[i] = PutAll[i - n]
  BY <1>4, SendShape, Zenon DEF ChannelInv
<1>6. /\ Barrier(x).type = "barrier" /\ Barrier(x).type \in XidTypes
      /\ Barrier(x).xid = x
  BY DEF Barrier, XidTypes
<1>7. \A i \in 1 .. Len(toSwitch') : Barrier(x) \in toSwitch'[i].msgs
         => i = n + Len(q) + 1 /\ Len(toSwitch') = n + Len(q) + 1
  <2> SUFFICES ASSUME NEW i \in 1 .. Len(toSwitch'),
                      Barrier(x) \in toSwitch'[i].msgs
               PROVE  i = n + Len(q) + 1 /\ Len(toSwitch') = n + Len(q) + 1
    OBVIOUS
  <2>1. i > n
    BY <1>1, <1>5, <1>6, SMTT(30) DEF XidInv
  <2>2. i - n \notin 1 .. Len(q)
    BY <1>3, <1>4, <1>5, <1>6, <2>1, Zenon DEF PutBatches
  <2> QED
    BY <1>4, <1>5, <2>1, <2>2
<1>8. ASSUME NEW f \in pending, f.state = "CT_ZONE_OF_QUEUED",
             NEW i \in 1 .. Len(toSwitch'), Barrier(x) \in toSwitch'[i].msgs
      PROVE  FlushAhead(f.zone, i)'
  <2> DEFINE m == [type |-> "flush", zone |-> f.zone]
  <2>1. m \in FlushMessages
    BY <1>8 DEF FlushMessages
  <2>2. PICK j \in 1 .. Len(q) : m \in q[j].msgs
    BY <1>3, <2>1 DEF Carries
  <2>3. i = n + Len(q) + 1 /\ Len(toSwitch') = n + Len(q) + 1
    BY <1>7, <1>8
  <2>4. /\ n + j \in 1 .. Len(toSwitch') /\ n + j > n /\ n + j < i
        /\ (n + j) - n = j
    BY <1>4, <1>5, <2>3
  <2>5. m \in toSwitch'[n + j].msgs
    BY <1>4, <1>5, <2>2, <2>4
  <2>6. m.type = "flush" /\ m.zone = f.zone
    OBVIOUS
  <2> HIDE DEF m
  <2> QED
    BY <2>4, <2>5, <2>6 DEF FlushAhead
<1>9. ASSUME NEW e \in pending'
      PROVE  \/ e \in pending
             \/ \E f \in pending :
                   /\ f.state = "CT_ZONE_OF_QUEUED"
                   /\ e = [zone |-> f.zone, state |-> "CT_ZONE_OF_SENT",
                           of_xid |-> x]
  BY Zenon DEF Sent, FlushInv
<1>10. ASSUME NEW f \in pending, f.state = "CT_ZONE_OF_QUEUED", NEW e,
              e.zone = f.zone, e.of_xid = x
       PROVE  BarrierConfirms(e)'
  <2>1. \A k \in 1 .. Len(toCtl') : toCtl'[k].xid # x
    BY <1>1 DEF XidInv
  <2>2. \A i \in 1 .. Len(toSwitch') : Barrier(e.of_xid) \in toSwitch'[i].msgs
           => FlushAhead(e.zone, i)'
    BY <1>8, <1>10
  <2>3. e.of_xid \in Nat /\ e.of_xid < next_xid'
    BY <1>1, <1>10
  <2> QED
    BY <1>10, <2>1, <2>2, <2>3 DEF BarrierConfirms
<1>11. \A e \in pending' : e.state = "CT_ZONE_OF_SENT" => BarrierConfirms(e)'
  <2> SUFFICES ASSUME NEW e \in pending', e.state = "CT_ZONE_OF_SENT"
               PROVE  BarrierConfirms(e)'
    OBVIOUS
  <2>1. CASE e \in pending
    BY <1>2, <2>1 DEF FlushInv
  <2>2. ASSUME NEW f \in pending, f.state = "CT_ZONE_OF_QUEUED",
               e = [zone |-> f.zone, state |-> "CT_ZONE_OF_SENT",
                    of_xid |-> x]
        PROVE  BarrierConfirms(e)'
    <3>1. e.zone = f.zone /\ e.of_xid = x
      BY <2>2
    <3> QED
      BY <1>10, <2>2, <3>1
  <2> QED
    BY <1>9, <2>1, <2>2
<1>12. \A e \in pending' :
         /\ e = [zone |-> e.zone, state |-> e.state, of_xid |-> e.of_xid]
         /\ e.state = "CT_ZONE_DB_QUEUED" => e.zone \in flushed'
  BY <1>9 DEF FlushInv, FlushConfirmed
<1> QED
  BY <1>11, <1>12 DEF FlushInv, FlushConfirmed

LEMMA NextFlush ==
  ASSUME ChannelInv, XidInv, FlushInv, [Next]_vars
  PROVE  FlushInv'
<1> USE DEF loopVars, tlvVars, flowVars, cfgVars, connVars, netVars, swVars
<1>0. /\ next_xid \in Nat /\ sb.nb_cfg \in Nat /\ IsQueue(toSwitch)
      /\ Fewer(toCtl, toCtl) /\ (toCtl # <<>> => Fewer(toCtl, Tail(toCtl)))
  BY FewerTail DEF ChannelInv
<1>1. CASE UNCHANGED <<toSwitch, toCtl, next_xid, pending, flushed>>
  BY <1>0, <1>1, ConfirmsQuiet, FlushSame
<1>2. CASE ofctrl_run_reconnected
  BY <1>2, RequeueFlush DEF ofctrl_run_reconnected
<1>3. CASE run_S_NEW
  <2>1. /\ Send(TlvRequest) /\ next_xid' = next_xid + 1
        /\ UNCHANGED <<toCtl, pending, flushed>>
    BY <1>3 DEF run_S_NEW, TlvRequest
  <2>2. next_xid' \in Nat /\ next_xid' >= next_xid
    BY <1>0, <2>1
  <2>3. \A e : BarrierConfirms(e) => BarrierConfirms(e)'
    BY <1>0, <2>1, <2>2, RequestFresh, ConfirmsSend
  <2> QED
    BY <2>1, <2>3, FlushSame
<1>4. CASE run_S_CLEAR_FLOWS
  <2>1. Send(ClearMessages) /\ UNCHANGED <<next_xid, toCtl, pending, flushed>>
    BY <1>4 DEF run_S_CLEAR_FLOWS
  <2>2. next_xid' \in Nat /\ next_xid' >= next_xid
    BY <1>0, <2>1
  <2>3. \A e : BarrierConfirms(e) => BarrierConfirms(e)'
    BY <1>0, <2>1, <2>2, ClearFresh, ConfirmsSend
  <2> QED
    BY <2>1, <2>3, FlushSame
<1>5. CASE recv_S_TLV_TABLE_REQUESTED
  <2>1. Fewer(toCtl, toCtl') /\ UNCHANGED <<pending, flushed>>
    BY <1>0, <1>5 DEF recv_S_TLV_TABLE_REQUESTED, Received, Ignored
  <2>2. CASE UNCHANGED <<toSwitch, next_xid>>
    <3>1. \A e : BarrierConfirms(e) => BarrierConfirms(e)'
      BY <2>1, <2>2, ConfirmsQuiet
    <3> QED
      BY <2>1, <3>1, FlushSame
  <2>3. ASSUME NEW index, Send(TlvMod(index)), next_xid' = next_xid + 2
        PROVE  FlushInv'
    <3>1. next_xid' \in Nat /\ next_xid' >= next_xid
      BY <1>0, <2>3
    <3>2. \A e : BarrierConfirms(e) => BarrierConfirms(e)'
      BY <1>0, <2>1, <2>3, <3>1, ModFresh, ConfirmsSend
    <3> QED
      BY <2>1, <3>2, FlushSame
  <2> QED
    BY <1>5, <2>2, <2>3, RequestedSends
<1>6. CASE recv_S_TLV_TABLE_MOD_SENT \/ recv_S_UPDATE_FLOWS
  <2>1. /\ toCtl # <<>> /\ toCtl' = Tail(toCtl)
        /\ UNCHANGED <<toSwitch, next_xid, flushed>>
        /\ \/ UNCHANGED pending
           \/ /\ Head(toCtl).type = "barrier_reply"
              /\ pending' = Confirmed(pending, Head(toCtl).xid)
    BY <1>6 DEF recv_S_TLV_TABLE_MOD_SENT, recv_S_UPDATE_FLOWS, Received,
                Ignored
  <2>2. CASE UNCHANGED pending
    <3>1. \A e : BarrierConfirms(e) => BarrierConfirms(e)'
      BY <1>0, <2>1, ConfirmsQuiet
    <3> QED
      BY <2>1, <2>2, <3>1, FlushSame
  <2> QED
    BY <2>1, <2>2, ConfirmedFlush
<1>7. CASE update_ct_zones
  <2>1. PICK z \in Zones :
          /\ \A e \in pending : e.zone # z
          /\ pending' = pending \union
               {[zone |-> z, state |-> "CT_ZONE_OF_QUEUED", of_xid |-> 0]}
          /\ flushed' = flushed \ {z}
    BY <1>7 DEF update_ct_zones
  <2>2. UNCHANGED <<toSwitch, toCtl, next_xid>>
    BY <1>7 DEF update_ct_zones
  <2>3. \A e \in pending : BarrierConfirms(e) => BarrierConfirms(e)'
    BY <1>0, <2>1, <2>2, ConfirmsQuiet
  <2> QED
    BY <2>1, <2>3 DEF FlushInv, FlushConfirmed
<1>8. CASE body_lflow_run
  <2>1. /\ pending' = {e \in pending : e.state # "CT_ZONE_DB_QUEUED"}
        /\ UNCHANGED <<toSwitch, toCtl, next_xid, flushed>>
    BY <1>8 DEF body_lflow_run
  <2>2. \A e : BarrierConfirms(e) => BarrierConfirms(e)'
    BY <1>0, <2>1, ConfirmsQuiet
  <2> QED
    BY <2>1, <2>2 DEF FlushInv, FlushConfirmed
<1>9. CASE ofctrl_put
  <2>1. /\ UNCHANGED <<toCtl, flushed>>
        /\ \/ UNCHANGED <<toSwitch, next_xid, pending>>
           \/ /\ Send(PutAll) /\ next_xid' = next_xid + 1
              /\ pending' = Sent(pending, next_xid)
    BY <1>9 DEF ofctrl_put, Desired, PutAll, Barriered, Barrier
  <2> QED
    BY <1>1, <2>1, SentFlush
<1>10. CASE Disconnect
  <2>1. /\ toSwitch' = <<>> /\ toCtl' = <<>>
        /\ UNCHANGED <<next_xid, pending, flushed>>
    BY <1>10 DEF Disconnect
  <2>2. Fewer(toCtl, toCtl')
    BY <2>1, QueueEmpty DEF Fewer
  <2> QED
    BY <2>1, <2>2, ConfirmsQuiet, FlushSame
<1>11. CASE SwitchStep
  <2>1. UNCHANGED pending /\ flushed \subseteq flushed'
    BY <1>11 DEF SwitchStep
  <2> QED
    BY <1>11, <2>1, ConfirmsSwitch, FlushSame
<1>12. CASE \/ ofctrl_run_connected \/ ofctrl_run_unconnected
            \/ ofctrl_run_done \/ body_skip \/ consider_logical_flow
            \/ SbChange \/ Drain \/ OtherController \/ UNCHANGED vars
  BY <1>1, <1>12, Zenon
     DEF ofctrl_run_connected, ofctrl_run_unconnected, ofctrl_run_done,
         body_skip, consider_logical_flow, SbChange, Drain, OtherController,
         vars
<1> QED
  BY <1>2, <1>3, <1>4, <1>5, <1>6, <1>7, <1>8, <1>9, <1>10, <1>11, <1>12
     DEF Next, Loop, Run

(* A zone is taken for flushed only after the switch flushed it: the       *)
(* barrier reply that recv_S_UPDATE_FLOWS() acts on is that of a barrier   *)
(* sent behind the flush on the same connection, however the connection    *)
(* drops and whatever replies of earlier puts are still under way.         *)
THEOREM FlushesAreConfirmed == Spec => []FlushConfirmed
<1>1. Init => FlushInv
  BY DEF Init, FlushInv, FlushConfirmed
<1>2. ChannelInv /\ XidInv /\ FlushInv /\ [Next]_vars => FlushInv'
  BY NextFlush
<1>3. FlushInv => FlushConfirmed
  BY DEF FlushInv
<1> QED
  BY <1>1, <1>2, <1>3, XidInvariant, PTL DEF Spec

-----------------------------------------------------------------------------
(* The negotiation of the Geneve option. *)

Mapped == sw.tlv[mff_ovn_geneve - 1] = "ovn"

ModSent == [type |-> "tlv_mod", xid |-> xid, index |-> mff_ovn_geneve - 1]

ModAhead(i) ==
  \E j \in 1 .. Len(toSwitch) : j < i /\ ModSent \in toSwitch[j].msgs

(* An error that refuses the mapping is among the first k replies.         *)
RefusedIn(k) ==
  \E l \in 1 .. Len(toCtl) : /\ l <= k
                             /\ toCtl[l].type = "error" /\ toCtl[l].xid = xid

Refused ==
  \E l \in 1 .. Len(toCtl) : toCtl[l].type = "error" /\ toCtl[l].xid = xid

(* While recv_S_TLV_TABLE_MOD_SENT() waits: the barrier reply comes after  *)
(* the mapping was made, or after the error that refused it.               *)
ModInv ==
  /\ mff_ovn_geneve - 1 \in TlvIndexes
  /\ xid # xid2
  /\ \A i \in 1 .. Len(toSwitch) : \A m \in toSwitch[i].msgs :
        m.type \in {"tlv_request", "tlv_mod"} /\ m.xid = xid => m = ModSent
  /\ \A i \in 1 .. Len(toSwitch) :
        Barrier(xid2) \in toSwitch[i].msgs
          => Mapped \/ Refused \/ ModAhead(i)
  /\ \A k \in 1 .. Len(toCtl) :
        toCtl[k].type = "barrier_reply" /\ toCtl[k].xid = xid2
          => Mapped \/ RefusedIn(k - 1)
  /\ ~ left.full =>
       \A k \in 1 .. Len(toCtl) :
          toCtl[k].type = "error" /\ toCtl[k].xid = xid
            => toCtl[k].code \in {"ALREADY_MAPPED", "DUP_ENTRY"}

(* What a reply says of OVN's option stays true.                           *)
RepliesTrue ==
  \A k \in 1 .. Len(toCtl) : toCtl[k].type = "tlv_reply" =>
     \A i \in TlvIndexes : toCtl[k].map[i] = "ovn" => sw.tlv[i] = "ovn"

TlvInv ==
  /\ sw.tlv \in [TlvIndexes -> {"free", "ovn", "other"}]
  /\ mff_ovn_geneve = 0 \/ mff_ovn_geneve - 1 \in TlvIndexes
  /\ RepliesTrue
  /\ state = "S_TLV_TABLE_MOD_SENT" => ModInv
  /\ GeneveOptionIsReal

(* Nobody takes OVN's option away.                                         *)
OvnStays ==
  /\ sw'.tlv \in [TlvIndexes -> {"free", "ovn", "other"}]
  /\ \A i \in TlvIndexes : sw.tlv[i] = "ovn" => sw'.tlv[i] = "ovn"

(* A step that does not wait for the mapping when it is done.              *)
LEMMA TlvOutside ==
  ASSUME TlvInv, UNCHANGED <<sw, left>>, Fewer(toCtl, toCtl'),
         state' # "S_TLV_TABLE_MOD_SENT",
         mff_ovn_geneve' = 0 \/ mff_ovn_geneve' - 1 \in TlvIndexes,
         ~ left.full /\ state' \in {"S_CLEAR_FLOWS", "S_UPDATE_FLOWS"} =>
            mff_ovn_geneve' = 0 \/ sw.tlv[mff_ovn_geneve' - 1] = "ovn"
  PROVE  TlvInv'
<1>1. RepliesTrue'
  BY DEF TlvInv, RepliesTrue, Fewer
<1> QED
  BY <1>1 DEF TlvInv, GeneveOptionIsReal

(* A step that leaves the queues alone or empties them, and may map an     *)
(* option.                                                                 *)
LEMMA TlvQuiet ==
  ASSUME TlvInv, UNCHANGED tlvVars, left'.full = left.full, OvnStays,
         \/ UNCHANGED <<toSwitch, toCtl>>
         \/ toSwitch' = <<>> /\ toCtl' = <<>>
  PROVE  TlvInv'
<1> USE DEF tlvVars
<1>1. mff_ovn_geneve - 1 \in TlvIndexes /\ Mapped => Mapped'
  BY DEF OvnStays, Mapped
<1>2. GeneveOptionIsReal'
  BY <1>1 DEF TlvInv, GeneveOptionIsReal, Mapped
<1>3. CASE UNCHANGED <<toSwitch, toCtl>>
  <2>1. RepliesTrue'
    BY <1>3, SMTT(30) DEF TlvInv, RepliesTrue, OvnStays
  <2>2. ModInv => ModInv'
    BY <1>1, <1>3 DEF ModInv, ModAhead, RefusedIn, Refused, ModSent
  <2> QED
    BY <1>2, <2>1, <2>2 DEF TlvInv, OvnStays
<1>4. CASE toSwitch' = <<>> /\ toCtl' = <<>>
  <2>1. 1 .. Len(toSwitch') = {} /\ 1 .. Len(toCtl') = {}
    BY <1>4, QueueEmpty
  <2>2. RepliesTrue' /\ (ModInv => ModInv')
    BY <2>1, Zenon DEF RepliesTrue, ModInv
  <2> QED
    BY <1>2, <2>2 DEF TlvInv, OvnStays
<1> QED
  BY <1>3, <1>4

(* What the switch and other controllers do to the options.                *)
LEMMA SwitchOvnStays ==
  ASSUME ChannelInv, sw.tlv \in [TlvIndexes -> {"free", "ovn", "other"}],
         NEW m, NEW a, NEW o, SwitchTakes(m, a, o)
  PROVE  OvnStays /\ sw'.tlv = a[2]
<1>1. sw'.tlv = a[2]
  BY ApplyTables DEF SwitchTakes, ChannelInv
<1>2. \/ a[2] = sw.tlv
      \/ a[2] = [sw.tlv EXCEPT ![m.index] = "ovn"]
  BY AnswerForms, Zenon DEF SwitchTakes
<1> QED
  BY <1>1, <1>2 DEF OvnStays

LEMMA OtherOvnStays ==
  ASSUME ChannelInv, sw.tlv \in [TlvIndexes -> {"free", "ovn", "other"}],
         OtherController
  PROVE  OvnStays
<1>1. PICK i \in TlvIndexes, owner \in {"ovn", "other"} :
         sw.tlv[i] = "free" /\ sw' = [sw EXCEPT !.tlv[i] = owner]
  BY Zenon DEF OtherController
<1>2. sw'.tlv = [sw.tlv EXCEPT ![i] = owner]
  BY <1>1 DEF ChannelInv, IsSwitch
<1> QED
  BY <1>1, <1>2 DEF OvnStays

(* The switch makes or refuses the mapping, and then answers the barrier.  *)
LEMMA ModSwitch ==
  ASSUME ChannelInv, XidInv, ModInv, UNCHANGED <<tlvVars, left>>, OvnStays,
         NEW m, NEW a, NEW o, SwitchTakes(m, a, o), sw'.tlv = a[2],
         sw.tlv \in [TlvIndexes -> {"free", "ovn", "other"}]
  PROVE  ModInv'
<1> USE DEF tlvVars
<1>1. /\ a \in Answers(m) /\ Shifted(toSwitch, toSwitch', m, o)
      /\ Len(toCtl) \in Nat
      /\ Len(toCtl') = Len(toCtl) + IF a[1] = NoReply THEN 0 ELSE 1
      /\ \A k \in 1 .. Len(toCtl) : toCtl'[k] = toCtl[k]
      /\ a[1] # NoReply => toCtl'[Len(toCtl) + 1] = a[1]
      /\ \A k \in 1 .. Len(toCtl') :
           \/ k \in 1 .. Len(toCtl) /\ toCtl'[k] = toCtl[k]
           \/ k = Len(toCtl) + 1 /\ toCtl'[k] = a[1] /\ a[1] # NoReply
  BY DEF SwitchTakes
<1>13. /\ Len(toCtl) \in Nat
       /\ Len(toCtl') = Len(toCtl) \/ Len(toCtl') = Len(toCtl) + 1
  <2>1. /\ Len(toCtl) \in Nat
        /\ Len(toCtl') = Len(toCtl) + IF a[1] = NoReply THEN 0 ELSE 1
    BY <1>1, Zenon
  <2> QED
    BY <2>1, SMTT(30)
<1>14. \A l \in 1 .. Len(toCtl) : l \in 1 .. Len(toCtl') /\ l <= Len(toCtl)
  BY <1>13, SMTT(30)
<1>12. /\ a[1] # NoReply => m.type \in XidTypes /\ a[1].xid = m.xid
       /\ a[1].type = "barrier_reply" => m.type = "barrier"
       /\ a[1].type = "error" =>
            /\ m.type \in {"tlv_request", "tlv_mod"}
            /\ m.type = "tlv_mod" /\ ~ left.full
                 => a[1].code \in {"ALREADY_MAPPED", "DUP_ENTRY"}
  BY <1>1, AnswerForms, Zenon
<1>2. ModSent' = ModSent /\ (Mapped => Mapped')
  BY DEF ModSent, Mapped, ModInv, OvnStays
<1>3. 1 \in 1 .. Len(toSwitch) /\ m \in toSwitch[1].msgs
  BY <1>1, Zenon DEF Shifted
<1>4. \A k \in Nat : RefusedIn(k) => RefusedIn(k)'
  <2> SUFFICES ASSUME NEW k \in Nat, RefusedIn(k)
               PROVE  RefusedIn(k)'
    OBVIOUS
  <2>1. PICK l \in 1 .. Len(toCtl) :
          l <= k /\ toCtl[l].type = "error" /\ toCtl[l].xid = xid
    BY DEF RefusedIn
  <2>2. l \in 1 .. Len(toCtl')
    BY <1>14, Zenon
  <2> QED
    BY <1>1, <2>1, <2>2, Zenon DEF RefusedIn
<1>5. PICK L : L = Len(toCtl)
  BY ZenonT(30)
<1>11. Refused => RefusedIn(L)' /\ Refused'
  <2>1. Refused => RefusedIn(L)
    BY <1>5, <1>14, Zenon DEF Refused, RefusedIn
  <2>2. RefusedIn(L)' => Refused'
    BY DEF Refused, RefusedIn
  <2> QED
    BY <1>1, <1>4, <1>5, <2>1, <2>2
<1>6. m = ModSent => Mapped' \/ Refused'
  <2> SUFFICES ASSUME m = ModSent
               PROVE  Mapped' \/ Refused'
    OBVIOUS
  <2>1. m.type = "tlv_mod" /\ m.index = mff_ovn_geneve - 1 /\ m.xid = xid
    BY DEF ModSent
  <2>2. CASE a[1].type = "error"
    <3>1. a[1] # NoReply /\ a[1].xid = xid
      BY <1>1, <2>1, <2>2, AnswerForms, Zenon
    <3>2. Len(toCtl) + 1 \in 1 .. Len(toCtl') /\ Len(toCtl) + 1 <= Len(toCtl')
      BY <1>1, <3>1, SMTT(30)
    <3> QED
      BY <1>1, <2>2, <3>1, <3>2, Zenon DEF Refused
  <2>3. CASE a[2] = [sw.tlv EXCEPT ![m.index] = "ovn"]
    BY <2>1, <2>3, SMTT(30) DEF Mapped, ModInv
  <2> QED
    BY <1>1, <2>1, <2>2, <2>3, AnswerForms, Zenon
<1>7. ASSUME NEW i \in 1 .. Len(toSwitch'), NEW n \in toSwitch'[i].msgs,
             n.type \in {"tlv_request", "tlv_mod"}, n.xid = xid
      PROVE  n = ModSent
  BY <1>1, <1>7, SMTT(30) DEF ModInv, Shifted
<1>8. ASSUME NEW i \in 1 .. Len(toSwitch'),
             Barrier(xid2) \in toSwitch'[i].msgs
      PROVE  Mapped' \/ Refused' \/ ModAhead(i)'
  <2>1. /\ i + o \in 1 .. Len(toSwitch)
        /\ Barrier(xid2) \in toSwitch[i + o].msgs
    BY <1>1, <1>8, SMTT(30) DEF Shifted
  <2>2. Mapped \/ Refused \/ ModAhead(i + o)
    BY <2>1, SMTT(30) DEF ModInv
  <2>3. ASSUME ModAhead(i + o)
        PROVE  m = ModSent \/ ModAhead(i)'
    <3>1. PICK j \in 1 .. Len(toSwitch) :
             j < i + o /\ ModSent \in toSwitch[j].msgs
      BY <2>3, SMTT(30) DEF ModAhead
    <3>2. CASE j - o \in 1 .. Len(toSwitch') /\ ModSent \in toSwitch'[j - o].msgs
      <4>1. j - o < i
        BY <1>1, <3>1, SMTT(30) DEF Shifted
      <4> QED
        BY <1>2, <3>2, <4>1, SMTT(30) DEF ModAhead
    <3> QED
      BY <1>1, <3>1, <3>2 DEF Shifted
  <2> QED
    BY <1>2, <1>6, <1>11, <2>2, <2>3
<1>9. ASSUME NEW k \in 1 .. Len(toCtl'),
             toCtl'[k].type = "barrier_reply", toCtl'[k].xid = xid2
      PROVE  Mapped' \/ RefusedIn(k - 1)'
  <2>1. CASE k \in 1 .. Len(toCtl) /\ toCtl'[k] = toCtl[k]
    <3>1. Mapped \/ RefusedIn(k - 1)
      BY <1>9, <2>1 DEF ModInv
    <3>2. k - 1 \in Nat
      BY <2>1, SMTT(30)
    <3> QED
      BY <1>2, <1>4, <3>1, <3>2
  <2>2. CASE k = Len(toCtl) + 1 /\ toCtl'[k] = a[1] /\ a[1] # NoReply
    <3>1. m.type = "barrier" /\ m.type \in XidTypes /\ m.xid = xid2
      BY <1>9, <1>12, <2>2
    <3>2. m = Barrier(xid2)
      BY <1>3, <3>1, SMTT(30) DEF XidInv
    <3>3. Mapped \/ Refused \/ ModAhead(1)
      BY <1>3, <3>2, SMTT(30) DEF ModInv
    <3>4. ~ ModAhead(1)
      BY SMTT(30) DEF ModAhead
    <3>5. k - 1 = L
      BY <1>1, <1>5, <2>2
    <3> QED
      BY <1>2, <1>11, <3>3, <3>4, <3>5
  <2> QED
    BY <1>1, <2>1, <2>2, Zenon
<1>10. ASSUME ~ left.full, NEW k \in 1 .. Len(toCtl'),
              toCtl'[k].type = "error", toCtl'[k].xid = xid
       PROVE  toCtl'[k].code \in {"ALREADY_MAPPED", "DUP_ENTRY"}
  <2>1. CASE k \in 1 .. Len(toCtl) /\ toCtl'[k] = toCtl[k]
    BY <1>10, <2>1, SMTT(30) DEF ModInv
  <2>2. CASE k = Len(toCtl) + 1 /\ toCtl'[k] = a[1] /\ a[1] # NoReply
    <3>1. m.type \in {"tlv_request", "tlv_mod"} /\ m.xid = xid
      BY <1>10, <1>12, <2>2
    <3>2. m = ModSent
      BY <1>3, <3>1, SMTT(30) DEF ModInv
    <3>3. m.type = "tlv_mod"
      BY <3>2, SMTT(30) DEF ModSent
    <3> QED
      BY <1>10, <1>12, <2>2, <3>3
  <2> QED
    BY <1>1, <2>1, <2>2
<1> QED
  BY <1>2, <1>7, <1>8, <1>9, <1>10, Zenon DEF ModInv

LEMMA TlvSwitch ==
  ASSUME ChannelInv, XidInv, TlvInv, SwitchStep
  PROVE  TlvInv'
<1>1. PICK m, a, o : SwitchTakes(m, a, o)
  BY SwitchShape
<1>2. UNCHANGED <<tlvVars, left>>
  BY DEF SwitchStep
<1>3. OvnStays /\ sw'.tlv = a[2]
  BY <1>1, SwitchOvnStays DEF TlvInv
<1>4. a \in Answers(m) /\ \A k \in 1 .. Len(toCtl') :
         \/ k \in 1 .. Len(toCtl) /\ toCtl'[k] = toCtl[k]
         \/ toCtl'[k] = a[1]
  BY <1>1 DEF SwitchTakes
<1>8. a[1].type = "tlv_reply" => a[1].map = sw.tlv
  BY <1>4, AnswerForms, Zenon
<1>5. RepliesTrue'
  <2> SUFFICES ASSUME NEW k \in 1 .. Len(toCtl'), toCtl'[k].type = "tlv_reply",
                      NEW i \in TlvIndexes, toCtl'[k].map[i] = "ovn"
               PROVE  sw'.tlv[i] = "ovn"
    BY DEF RepliesTrue
  <2>1. CASE k \in 1 .. Len(toCtl) /\ toCtl'[k] = toCtl[k]
    BY <1>3, <2>1, SMTT(30) DEF TlvInv, RepliesTrue, OvnStays
  <2>2. CASE toCtl'[k] = a[1]
    BY <1>3, <1>8, <2>2 DEF OvnStays
  <2> QED
    BY <1>4, <2>1, <2>2
<1>6. ModInv => ModInv'
  BY <1>1, <1>2, <1>3, ModSwitch DEF TlvInv
<1>7. GeneveOptionIsReal'
  BY <1>2, <1>3, SMTT(30) DEF TlvInv, GeneveOptionIsReal, OvnStays, tlvVars
<1> QED
  BY <1>2, <1>3, <1>5, <1>6, <1>7 DEF TlvInv, OvnStays, tlvVars

(* process_tlv_table_reply() asks for the mapping of a free index.         *)
LEMMA ModEnter ==
  ASSUME ChannelInv, XidInv, NEW index \in TlvIndexes, Send(TlvMod(index)),
         Fewer(toCtl, toCtl'), UNCHANGED left,
         mff_ovn_geneve' = MFF(index), xid' = next_xid, xid2' = next_xid + 1
  PROVE  ModInv'
<1> DEFINE m == [type |-> "tlv_mod", xid |-> next_xid, index |-> index]
           b == Barrier(next_xid + 1)
           bs == TlvMod(index)
           n == Len(toSwitch)
<1>1. IsQueue(bs) /\ Len(bs) = 2 /\ bs[1].msgs = {m} /\ bs[2].msgs = {b}
  BY QueuePair, Zenon DEF TlvMod
<1>2. /\ m.type = "tlv_mod" /\ m.xid = next_xid
      /\ b.type = "barrier" /\ b.xid = next_xid + 1
  BY DEF Barrier
<1>3. index \in Nat /\ next_xid \in Nat
  BY BoundsAssumption DEF TlvIndexes, ChannelInv
<1>4. mff_ovn_geneve' - 1 = index /\ ModSent' = m /\ Barrier(xid2') = b
  BY <1>3 DEF MFF, ModSent
<1> HIDE DEF m, b, bs
<1>5. /\ n \in Nat /\ Len(toSwitch') \in Nat /\ Len(toSwitch') >= n
      /\ \A i \in 1 .. n : toSwitch'[i] = toSwitch[i]
      /\ \A i \in 1 .. Len(toSwitch') : i > n =>
           /\ Len(toSwitch') = n + Len(bs)
           /\ i - n \in 1 .. Len(bs)
           /\ toSwitch'[i] = bs[i - n]
  BY <1>1, SendShape, ZenonT(30) DEF ChannelInv, bs
<1>6. \A i \in 1 .. Len(toSwitch') :
         \/ i \in 1 .. n /\ toSwitch'[i] = toSwitch[i]
         \/ i = n + 1 /\ toSwitch'[i].msgs = {m}
         \/ i = n + 2 /\ toSwitch'[i].msgs = {b} /\ n + 1 \in 1 .. Len(toSwitch')
            /\ toSwitch'[n + 1].msgs = {m}
  BY <1>1, <1>5, SMTT(30)
<1>7. \A i \in 1 .. n : \A k \in toSwitch[i].msgs :
         k.type \in XidTypes => k.xid \in Nat /\ k.xid < next_xid
  BY SMTT(30) DEF XidInv
<1>8. /\ \A k \in 1 .. Len(toCtl') : toCtl'[k].xid # xid' /\ toCtl'[k].xid # xid2'
  <2>1. \A k \in 1 .. Len(toCtl') : toCtl'[k].xid \in Nat /\ toCtl'[k].xid < next_xid
    BY SMTT(30) DEF XidInv, Fewer
  <2> QED
    BY <1>3, <2>1, SMTT(30)
<1>9. ASSUME NEW i \in 1 .. Len(toSwitch'), NEW k \in toSwitch'[i].msgs,
             k.type \in {"tlv_request", "tlv_mod"}, k.xid = xid'
      PROVE  k = ModSent'
  BY <1>2, <1>3, <1>4, <1>6, <1>7, <1>9 DEF XidTypes
<1>10. ASSUME NEW i \in 1 .. Len(toSwitch'),
              Barrier(xid2') \in toSwitch'[i].msgs
       PROVE  ModAhead(i)'
  <2>1. ~ (i \in 1 .. n)
    BY <1>2, <1>3, <1>4, <1>6, <1>7, <1>10 DEF XidTypes, n
  <2>2. b # m
    BY <1>2, SMTT(30)
  <2>3. i = n + 2 /\ n + 1 \in 1 .. Len(toSwitch') /\ toSwitch'[n + 1].msgs = {m}
    BY <1>4, <1>6, <1>10, <2>1, <2>2
  <2> QED
    BY <1>4, <1>5, <2>3, SMTT(30) DEF ModAhead
<1>11. xid' # xid2' /\ mff_ovn_geneve' - 1 \in TlvIndexes
  BY <1>3, <1>4, SMTT(30)
<1> QED
  BY <1>8, <1>9, <1>10, <1>11 DEF ModInv

(* rightmost_1bit_idx() of what is free: there is a least free index.      *)
WellOrdered == \A S \in SUBSET Nat : S # {} => \E x \in S : \A y \in S : x <= y

(* recv_S_TLV_TABLE_REQUESTED(): OVN's option is there already, or it can  *)
(* be asked for, or there is none.                                         *)
LEMMA TlvRequested ==
  ASSUME WellOrdered, ChannelInv, XidInv, TlvInv, recv_S_TLV_TABLE_REQUESTED
  PROVE  TlvInv'
<1> USE DEF tlvVars, netVars
<1>1. /\ state = "S_TLV_TABLE_REQUESTED" /\ toCtl # <<>>
      /\ toCtl' = Tail(toCtl) /\ UNCHANGED <<sw, left>>
  BY DEF recv_S_TLV_TABLE_REQUESTED, Received, swVars
<1>2. Fewer(toCtl, toCtl') /\ 1 \in 1 .. Len(toCtl) /\ Head(toCtl) = toCtl[1]
  BY <1>1, FewerTail, CtlTail DEF ChannelInv
<1> DEFINE map == Head(toCtl).map
<1>3. CASE UNCHANGED tlvVars
  BY <1>1, <1>2, <1>3, TlvOutside DEF TlvInv
<1>4. CASE RequestFailed
  <2>1. mff_ovn_geneve' = 0 /\ state' = "S_CLEAR_FLOWS"
    BY <1>4, SMTT(30) DEF RequestFailed
  <2> QED
    BY <1>1, <1>2, <2>1, TlvOutside
<1>5. ASSUME NEW index \in OvnIndexes(map), Head(toCtl).type = "tlv_reply",
             mff_ovn_geneve' = MFF(index), state' = "S_CLEAR_FLOWS"
      PROVE  TlvInv'
  <2>1. index \in TlvIndexes /\ sw.tlv[index] = "ovn"
    BY <1>2, <1>5, SMTT(30) DEF OvnIndexes, TlvInv, RepliesTrue
  <2>2. mff_ovn_geneve' - 1 = index
    BY <1>5, <2>1, BoundsAssumption DEF MFF, TlvIndexes
  <2> QED
    BY <1>1, <1>2, <1>5, <2>1, <2>2, TlvOutside
<1>6. ASSUME NEW index \in FreeIndexes(map), Send(TlvMod(index)),
             mff_ovn_geneve' = MFF(index), xid' = next_xid,
             xid2' = next_xid + 1, state' = "S_TLV_TABLE_MOD_SENT"
      PROVE  TlvInv'
  <2>1. index \in TlvIndexes
    BY <1>6 DEF FreeIndexes
  <2>2. ModInv'
    BY <1>1, <1>2, <1>6, <2>1, ModEnter
  <2>3. mff_ovn_geneve' - 1 = index
    BY <1>6, <2>1, BoundsAssumption DEF MFF, TlvIndexes
  <2>4. RepliesTrue'
    BY <1>1, <1>2, SMTT(30) DEF TlvInv, RepliesTrue, Fewer
  <2> QED
    BY <1>1, <1>6, <2>1, <2>2, <2>3, <2>4 DEF TlvInv, GeneveOptionIsReal
<1>7. ASSUME Head(toCtl).type = "tlv_reply", GeneveOption(map)
      PROVE  TlvInv'
  <2>1. CASE OvnIndexes(map) # {}
    <3> DEFINE index == CHOOSE i \in OvnIndexes(map) : TRUE
    <3>1. index \in OvnIndexes(map)
      BY <2>1, SMTT(30)
    <3>2. \/ mff_ovn_geneve' = MFF(index) /\ state' = "S_CLEAR_FLOWS"
          \/ RequestFailed
      BY <1>7, <2>1 DEF GeneveOption
    <3> HIDE DEF index
    <3> QED
      BY <1>4, <1>5, <1>7, <3>1, <3>2
  <2>2. CASE OvnIndexes(map) = {} /\ FreeIndexes(map) = {}
    BY <1>4, <1>7, <2>2, Zenon DEF GeneveOption
  <2>3. CASE OvnIndexes(map) = {} /\ FreeIndexes(map) # {}
    <3> DEFINE index == Min(FreeIndexes(map))
    <3>1. FreeIndexes(map) \in SUBSET Nat
      BY BoundsAssumption, SMTT(30) DEF FreeIndexes, TlvIndexes
    <3>2. index \in FreeIndexes(map)
      BY <2>3, <3>1 DEF Min, WellOrdered
    <3>3. /\ mff_ovn_geneve' = MFF(index)
          /\ xid' = next_xid /\ xid2' = next_xid + 1
          /\ Send(TlvMod(index)) /\ state' = "S_TLV_TABLE_MOD_SENT"
      BY <1>7, <2>3, Zenon DEF GeneveOption, TlvMod, Barrier
    <3> HIDE DEF index
    <3> QED
      BY <1>6, <3>2, <3>3
  <2> QED
    BY <2>1, <2>2, <2>3
<1> QED
  BY <1>3, <1>4, <1>7 DEF recv_S_TLV_TABLE_REQUESTED, Ignored

(* recv_S_TLV_TABLE_MOD_SENT(): the first of the error and the barrier     *)
(* reply decides.                                                          *)
LEMMA TlvModSent ==
  ASSUME ChannelInv, TlvInv, recv_S_TLV_TABLE_MOD_SENT
  PROVE  TlvInv'
<1>1. /\ state = "S_TLV_TABLE_MOD_SENT" /\ toCtl # <<>>
      /\ toCtl' = Tail(toCtl)
      /\ UNCHANGED <<xid, xid2, mff_ovn_geneve, toSwitch, sw, left>>
  BY DEF recv_S_TLV_TABLE_MOD_SENT, Received, swVars, netVars
<1>2. /\ Fewer(toCtl, toCtl') /\ Len(toCtl) \in Nat
      /\ Len(toCtl') = Len(toCtl) - 1
      /\ 1 \in 1 .. Len(toCtl) /\ Head(toCtl) = toCtl[1]
      /\ \A k \in 1 .. Len(toCtl') : /\ k + 1 \in 1 .. Len(toCtl)
                                     /\ toCtl'[k] = toCtl[k + 1]
  BY <1>1, FewerTail, CtlTail DEF ChannelInv
<1>3. ModInv
  BY <1>1, SMTT(30) DEF TlvInv
<1>4. CASE Head(toCtl).xid \notin {xid, xid2} /\ UNCHANGED state
  <2>1. \A k \in Nat : RefusedIn(k + 1) => RefusedIn(k)'
    <3> SUFFICES ASSUME NEW k \in Nat, RefusedIn(k + 1)
                 PROVE  RefusedIn(k)'
      OBVIOUS
    <3>1. PICK l \in 1 .. Len(toCtl) :
            l <= k + 1 /\ toCtl[l].type = "error" /\ toCtl[l].xid = xid
      BY DEF RefusedIn
    <3>2. l # 1
      BY <1>2, <1>4, <3>1
    <3>3. l - 1 \in 1 .. Len(toCtl') /\ l - 1 <= k /\ (l - 1) + 1 = l
      BY <1>2, <3>1, <3>2
    <3>4. toCtl'[l - 1] = toCtl[l]
      BY <1>2, <3>3, SMTT(30)
    <3> QED
      BY <1>1, <3>1, <3>3, <3>4, Zenon DEF RefusedIn
  <2>2. Refused => Refused'
    <3> SUFFICES ASSUME Refused
                 PROVE  Refused'
      OBVIOUS
    <3>1. PICK l \in 1 .. Len(toCtl) :
            toCtl[l].type = "error" /\ toCtl[l].xid = xid
      BY DEF Refused
    <3>2. l # 1
      BY <1>2, <1>4, <3>1
    <3>3. l - 1 \in 1 .. Len(toCtl') /\ (l - 1) + 1 = l
      BY <1>2, <3>1, <3>2
    <3>4. toCtl'[l - 1] = toCtl[l]
      BY <1>2, <3>3, SMTT(30)
    <3> QED
      BY <1>1, <3>1, <3>3, <3>4 DEF Refused
  <2>3. /\ Mapped' = Mapped /\ ModSent' = ModSent
        /\ \A i : ModAhead(i) => ModAhead(i)'
    BY <1>1, SMTT(30) DEF Mapped, ModSent, ModAhead
  <2>4. ASSUME NEW k \in 1 .. Len(toCtl'),
               toCtl'[k].type = "barrier_reply", toCtl'[k].xid = xid2
        PROVE  Mapped' \/ RefusedIn(k - 1)'
    <3>1. Mapped \/ RefusedIn((k + 1) - 1)
      BY <1>2, <1>3, <2>4, Zenon DEF ModInv
    <3>2. k - 1 \in Nat /\ (k + 1) - 1 = (k - 1) + 1
      BY <1>2, SMTT(30)
    <3> QED
      BY <2>1, <2>3, <3>1, <3>2
  <2>5. ~ left.full =>
         \A k \in 1 .. Len(toCtl') :
            toCtl'[k].type = "error" /\ toCtl'[k].xid = xid
              => toCtl'[k].code \in {"ALREADY_MAPPED", "DUP_ENTRY"}
    BY <1>2, <1>3 DEF ModInv
  <2>6. ModInv'
    BY <1>1, <1>3, <2>2, <2>3, <2>4, <2>5, Zenon DEF ModInv
  <2>7. RepliesTrue'
    BY <1>1, <1>2 DEF TlvInv, RepliesTrue
  <2> QED
    BY <1>1, <1>4, <2>6, <2>7 DEF TlvInv, GeneveOptionIsReal
<1>5. CASE /\ Head(toCtl).xid = xid2 /\ Head(toCtl).type = "barrier_reply"
           /\ state' = "S_CLEAR_FLOWS"
  <2>1. Mapped \/ RefusedIn(1 - 1)
    BY <1>2, <1>3, <1>5 DEF ModInv
  <2>2. ~ RefusedIn(1 - 1)
    BY SMTT(30) DEF RefusedIn
  <2> QED
    BY <1>1, <1>2, <1>5, <2>1, <2>2, TlvOutside, Zenon DEF TlvInv, Mapped
<1>6. CASE /\ Head(toCtl).xid = xid /\ Head(toCtl).type = "error"
           /\ state' = AfterModError(Head(toCtl).code)
  <2>1. state' \in {"S_NEW", "S_CLEAR_FLOWS"}
    BY <1>6, SMTT(30) DEF AfterModError
  <2>2. ~ left.full => state' = "S_NEW"
    BY <1>2, <1>3, <1>6 DEF ModInv, AfterModError
  <2> QED
    BY <1>1, <1>2, <2>1, <2>2, TlvOutside DEF TlvInv
<1> QED
  BY <1>4, <1>5, <1>6 DEF recv_S_TLV_TABLE_MOD_SENT

LEMMA NextTlv ==
  ASSUME WellOrdered, GroupsInv, ChannelInv, XidInv, TlvInv, [Next]_vars
  PROVE  TlvInv'
<1> USE DEF loopVars, tlvVars, flowVars, cfgVars, connVars, netVars, swVars
<1>0. /\ Fewer(toCtl, toCtl) /\ (toCtl # <<>> => Fewer(toCtl, Tail(toCtl)))
      /\ sw.tlv \in [TlvIndexes -> {"free", "ovn", "other"}]
      /\ mff_ovn_geneve = 0 \/ mff_ovn_geneve - 1 \in TlvIndexes
  BY FewerTail, SMTT(30) DEF ChannelInv, TlvInv
<1>1. CASE /\ UNCHANGED <<tlvVars, sw, toSwitch, toCtl>>
           /\ left'.full = left.full
  BY <1>0, <1>1, TlvQuiet DEF OvnStays
<1>2. CASE ofctrl_run_reconnected \/ run_S_NEW
  <2>1. /\ UNCHANGED <<sw, left, toCtl, mff_ovn_geneve>>
        /\ state' \in {"S_NEW", "S_TLV_TABLE_REQUESTED"}
    BY <1>2, SMTT(30) DEF ofctrl_run_reconnected, run_S_NEW
  <2> QED
    BY <1>0, <2>1, TlvOutside
<1>3. CASE run_S_CLEAR_FLOWS
  <2>1. /\ UNCHANGED <<sw, left, toCtl, mff_ovn_geneve>>
        /\ state = "S_CLEAR_FLOWS" /\ state' = "S_UPDATE_FLOWS"
    BY <1>3 DEF run_S_CLEAR_FLOWS
  <2> QED
    BY <1>0, <2>1, TlvOutside DEF TlvInv, GeneveOptionIsReal
<1>4. CASE recv_S_TLV_TABLE_REQUESTED
  BY <1>4, TlvRequested
<1>5. CASE recv_S_TLV_TABLE_MOD_SENT
  BY <1>5, TlvModSent, SMTT(30)
<1>6. CASE recv_S_UPDATE_FLOWS \/ ofctrl_put
  <2>1. /\ UNCHANGED <<sw, left, tlvVars>> /\ state = "S_UPDATE_FLOWS"
        /\ Fewer(toCtl, toCtl')
    BY <1>0, <1>6, Zenon DEF recv_S_UPDATE_FLOWS, Received, Ignored,
       ofctrl_put,
                      ofctrl_can_put
  <2> QED
    BY <1>0, <2>1, TlvOutside DEF TlvInv, GeneveOptionIsReal
<1>7. CASE SbChange \/ update_ct_zones \/ Disconnect
  <2>1. left'.full = left.full
    BY <1>7, SMTT(30) DEF SbChange, update_ct_zones, Disconnect, GroupsInv,
       Load
  <2>2. UNCHANGED <<tlvVars, sw>>
    BY <1>7, SMTT(30) DEF SbChange, update_ct_zones, Disconnect
  <2>3. \/ UNCHANGED <<toSwitch, toCtl>>
        \/ toSwitch' = <<>> /\ toCtl' = <<>>
    BY <1>7 DEF SbChange, update_ct_zones, Disconnect
  <2> QED
    BY <1>0, <2>1, <2>2, <2>3, TlvQuiet DEF OvnStays
<1>8. CASE SwitchStep
  BY <1>8, TlvSwitch, SMTT(30)
<1>9. CASE OtherController
  <2>1. UNCHANGED <<tlvVars, left, toSwitch, toCtl>>
    BY <1>9 DEF OtherController
  <2> QED
    BY <1>0, <1>9, <2>1, OtherOvnStays, TlvQuiet
<1>10. CASE \/ ofctrl_run_connected \/ ofctrl_run_unconnected
            \/ ofctrl_run_done \/ body_skip \/ body_lflow_run
            \/ consider_logical_flow \/ Drain \/ UNCHANGED vars
  BY <1>1, <1>10, Zenon
     DEF ofctrl_run_connected, ofctrl_run_unconnected, ofctrl_run_done,
         body_skip, body_lflow_run, consider_logical_flow, Drain, vars
<1> QED
  BY <1>2, <1>3, <1>4, <1>5, <1>6, <1>7, <1>8, <1>9, <1>10
     DEF Next, Loop, Run

LEMMA InitTlv == Init => TlvInv
<1> SUFFICES ASSUME Init
             PROVE  TlvInv
  BY SMTT(30)
<1>1. /\ sw.tlv \in left.tlvs /\ left \in Loads /\ toCtl = <<>>
      /\ mff_ovn_geneve = 0 /\ state = "S_NEW"
  BY DEF Init
<1>2. sw.tlv \in [TlvIndexes -> {"free", "ovn", "other"}]
  BY <1>1, LoadsAssumption, Zenon DEF Load, TlvTable
<1>3. RepliesTrue
  BY <1>1, QueueEmpty DEF RepliesTrue
<1> QED
  BY <1>1, <1>2, <1>3 DEF TlvInv, GeneveOptionIsReal

GroupTable == INSTANCE ExtendTableProofs WITH table <- groups,
                                              Names <- GroupNames

(* When ofctrl.c clears and updates the flows, the switch maps the option  *)
(* that they will use, whatever other controllers map at the same time,    *)
(* however often the negotiation starts again, and whatever late answers   *)
(* it meets.                                                               *)
THEOREM GeneveOptionHolds == Spec => []GeneveOptionIsReal
<1>1. WellOrdered
  BY GroupTable!LeastElement, BoundsAssumption DEF WellOrdered
<1>2. GroupsInv /\ ChannelInv /\ XidInv /\ TlvInv /\ [Next]_vars => TlvInv'
  BY <1>1, NextTlv
<1>3. TlvInv => GeneveOptionIsReal
  BY DEF TlvInv
<1> QED
  BY <1>2, <1>3, InitTlv, XidInvariant, PTL DEF Spec
=============================================================================
