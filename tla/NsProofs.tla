------------------------------ MODULE NsProofs ------------------------------
(***************************************************************************)
(* The NS-VC records stay well typed and the supervision of the link never *)
(* stops, for every number of retries, every set of addresses and every    *)
(* combination and number of faults.                                       *)
(*                                                                         *)
(* Two facts make it inductive.  Tns-alive never runs with its retries     *)
(* used up.  And as long as the operator does not intervene, only the      *)
(* proxy unblocks, so no UNBLOCK ACK reaches the SGSN: it would make a     *)
(* dead NS-VC alive without starting a timer.                              *)
(***************************************************************************)
EXTENDS Ns, TLAPS

\* op: has the operator intervened?
PdusTo(e, op) ==
    {p \in Pdus : op \/ p # (IF e = "proxy" THEN "UNBLOCK" ELSE "UNBLOCK_ACK")}

FineNsvc(e, v, op) ==
    /\ v \in Nsvc
    /\ v.timer = "alive" => v.alive_retries <= AliveRetries
    /\ e = "proxy" => v.timer # "none"
    /\ e = "sgsn" /\ ~op /\ v.known /\ v.alive => v.timer # "none"

FineReply(e, r, op) ==
    /\ FineNsvc(e, r.nsvc, op)
    /\ r.pdus \in Seq(PdusTo(Other(e), op))

MsgTo(e, op) == [pdu : PdusTo(e, op), addr : Addrs]

Op == "operator" \in seen

\* The inductive invariant.
IInv ==
    /\ nsvc \in [Ends -> Nsvc]
    /\ chan \in [Ends -> Seq(Msg)]
    /\ addr \in Addrs
    /\ faults \in 0..MaxFaults
    /\ seen \subseteq FaultKinds
    /\ refused \in BOOLEAN
    /\ \A e \in Ends : FineNsvc(e, nsvc[e], Op) /\ chan[e] \in Seq(MsgTo(e, Op))

-----------------------------------------------------------------------------

LEMMA EndsOther == ASSUME NEW e \in Ends PROVE Other(e) \in Ends /\ Other(e) # e
  BY DEF Ends, Other

LEMMA ShortSeqs ==
  ASSUME NEW S
  PROVE  <<>> \in Seq(S) /\ \A p \in S : <<p>> \in Seq(S)
  OBVIOUS

\* Every handler of a message leaves an NS-VC that is supervised.
LEMMA HandleFine ==
  ASSUME NEW e \in Ends, NEW op \in BOOLEAN, NEW v, FineNsvc(e, v, op),
         NEW pdu \in PdusTo(e, op)
  PROVE  FineReply(e, Handle(e, v, pdu), op)
<1> USE NsAssumption
<1>1. CASE pdu = "RESET"
  <2>1. Handle(e, v, pdu) = gprs_ns_rx_reset(v)
    BY <1>1, Zenon DEF Handle
  <2>2. gprs_ns_rx_reset(v).pdus \in Seq(PdusTo(Other(e), op))
    BY <1>1 DEF gprs_ns_rx_reset, Reply, nsvc_start_timer, BlockedAndAlive, PdusTo, Pdus, Other, Ends
  <2>3. FineNsvc(e, gprs_ns_rx_reset(v).nsvc, op)
    BY <1>1 DEF gprs_ns_rx_reset, Reply, nsvc_start_timer, BlockedAndAlive, FineNsvc, Nsvc
  <2> QED  BY <2>1, <2>2, <2>3 DEF FineReply
<1>2. CASE pdu = "RESET_ACK"
  <2>1. Handle(e, v, pdu) = RxResetAck(v)
    BY <1>2, Zenon DEF Handle
  <2>2. RxResetAck(v).pdus \in Seq(PdusTo(Other(e), op))
    BY <1>2 DEF RxResetAck, Reply, nsvc_start_timer, BlockedAndAlive, PdusTo, Pdus, Other, Ends
  <2>3. FineNsvc(e, RxResetAck(v).nsvc, op)
    BY <1>2 DEF RxResetAck, Reply, nsvc_start_timer, BlockedAndAlive, FineNsvc, Nsvc
  <2> QED  BY <2>1, <2>2, <2>3 DEF FineReply
<1>3. CASE pdu = "ALIVE"
  <2>1. Handle(e, v, pdu) = RxAlive(v)
    BY <1>3, Zenon DEF Handle
  <2>2. RxAlive(v).pdus \in Seq(PdusTo(Other(e), op))
    <3>1. {"RESET", "ALIVE_ACK"} \subseteq PdusTo(Other(e), op)
      BY DEF PdusTo, Pdus, Other
    <3>2. RxAlive(v).pdus \in {<<"RESET">>, <<"ALIVE_ACK">>}
      BY DEF RxAlive, Reply
    <3> QED  BY <3>1, <3>2, ShortSeqs
  <2>3. FineNsvc(e, RxAlive(v).nsvc, op)
    BY <1>3 DEF RxAlive, Reply, FineNsvc, Nsvc
  <2> QED  BY <2>1, <2>2, <2>3 DEF FineReply
<1>4. CASE pdu = "ALIVE_ACK"
  <2>1. Handle(e, v, pdu) = RxAliveAck(e, v)
    BY <1>4, Zenon DEF Handle
  <2>2. RxAliveAck(e, v).pdus \in Seq(PdusTo(Other(e), op))
    <3>1. CASE e = "proxy"
      <4>1. "UNBLOCK" \in PdusTo(Other(e), op)
        BY <3>1 DEF PdusTo, Pdus, Other
      <4>2. RxAliveAck(e, v).pdus \in {<<>>, <<"UNBLOCK">>}
        BY DEF RxAliveAck, Reply
      <4> QED  BY <4>1, <4>2, ShortSeqs
    <3>2. CASE e # "proxy"
      <4>1. RxAliveAck(e, v).pdus = <<>>
        BY <3>2 DEF RxAliveAck, Reply
      <4> QED  BY <4>1, ShortSeqs
    <3> QED  BY <3>1, <3>2
  <2>3. FineNsvc(e, RxAliveAck(e, v).nsvc, op)
    BY <1>4 DEF RxAliveAck, Reply, nsvc_start_timer, FineNsvc, Nsvc
  <2> QED  BY <2>1, <2>2, <2>3 DEF FineReply
<1>5. CASE pdu = "UNBLOCK"
  <2>1. Handle(e, v, pdu) = RxUnblock(v)
    BY <1>5, Zenon DEF Handle
  <2>2. RxUnblock(v).pdus \in Seq(PdusTo(Other(e), op))
    BY <1>5 DEF RxUnblock, Reply, PdusTo, Pdus, Other, Ends
  <2>3. FineNsvc(e, RxUnblock(v).nsvc, op)
    BY <1>5 DEF RxUnblock, Reply, FineNsvc, Nsvc, PdusTo
  <2> QED  BY <2>1, <2>2, <2>3 DEF FineReply
<1>6. CASE pdu = "UNBLOCK_ACK"
  <2>1. Handle(e, v, pdu) = RxUnblockAck(v)
    BY <1>6, Zenon DEF Handle
  <2>2. RxUnblockAck(v).pdus \in Seq(PdusTo(Other(e), op))
    BY <1>6 DEF RxUnblockAck, Reply, PdusTo, Pdus, Other, Ends
  <2>3. FineNsvc(e, RxUnblockAck(v).nsvc, op)
    BY <1>6 DEF RxUnblockAck, Reply, FineNsvc, Nsvc, PdusTo
  <2> QED  BY <2>1, <2>2, <2>3 DEF FineReply
<1>7. CASE pdu = "BLOCK"
  <2>1. Handle(e, v, pdu) = gprs_ns_rx_block(v)
    BY <1>7, Zenon DEF Handle
  <2>2. gprs_ns_rx_block(v).pdus \in Seq(PdusTo(Other(e), op))
    BY <1>7 DEF gprs_ns_rx_block, Reply, PdusTo, Pdus, Other, Ends
  <2>3. FineNsvc(e, gprs_ns_rx_block(v).nsvc, op)
    BY <1>7 DEF gprs_ns_rx_block, Reply, FineNsvc, Nsvc
  <2> QED  BY <2>1, <2>2, <2>3 DEF FineReply
<1>8. CASE pdu \in {"BLOCK_ACK", "UNITDATA"}
  <2>1. Handle(e, v, pdu) = Reply(v, <<>>)
    BY <1>8, Zenon DEF Handle
  <2> QED  BY <2>1 DEF FineReply, Reply
<1> QED  BY <1>1, <1>2, <1>3, <1>4, <1>5, <1>6, <1>7, <1>8 DEF PdusTo, Pdus

\* An NS-VC just created may be dead without a timer only at the SGSN.
LEMMA CreateTyped ==
  ASSUME NEW a \in Addrs
  PROVE  /\ nsvc_create(a) \in Nsvc /\ ~nsvc_create(a).alive
         /\ nsvc_create(a).timer = "none"
  BY NsAssumption DEF nsvc_create, Nsvc

LEMMA UnknownFine ==
  ASSUME NEW a \in Addrs, NEW op \in BOOLEAN
  PROVE  FineNsvc("sgsn", [nsvc_create(a) EXCEPT !.known = FALSE], op)
<1>1. \A v \in Nsvc : /\ [v EXCEPT !.known = FALSE] \in Nsvc
                      /\ [v EXCEPT !.known = FALSE].timer = v.timer
                      /\ ~[v EXCEPT !.known = FALSE].known
  BY DEF Nsvc
<1> DEFINE w == [nsvc_create(a) EXCEPT !.known = FALSE]
<1>2. w \in Nsvc /\ w.timer = "none" /\ ~w.known
  BY <1>1, CreateTyped
<1> HIDE DEF w
<1>3. FineNsvc("sgsn", w, op)
  BY <1>2 DEF FineNsvc
<1> QED  BY <1>3 DEF w

LEMMA ResetFine ==
  ASSUME NEW e \in Ends, NEW op \in BOOLEAN, NEW v \in Nsvc
  PROVE  FineReply(e, gprs_nsvc_reset(v), op)
<1>1. gprs_nsvc_reset(v).pdus \in Seq(PdusTo(Other(e), op))
  BY DEF gprs_nsvc_reset, Reply, PdusTo, Pdus, Other
<1> QED
  BY <1>1, NsAssumption
  DEF gprs_nsvc_reset, Reply, nsvc_start_timer, FineReply, FineNsvc, Nsvc

LEMMA TimerFine ==
  ASSUME NEW e \in Ends, NEW op \in BOOLEAN, NEW v, FineNsvc(e, v, op), v.timer # "none"
  PROVE  FineReply(e, gprs_ns_timer_cb(e, v), op)
<1> USE NsAssumption
<1>1. CASE v.timer = "alive"
  <2> DEFINE w == [v EXCEPT !.alive_retries = @ + 1]
  <2>1. w \in Nsvc /\ w.alive_retries = v.alive_retries + 1
    BY <1>1 DEF FineNsvc, Nsvc
  <2>2. CASE w.alive_retries > AliveRetries
    <3> DEFINE dead == [w EXCEPT !.blocked = TRUE, !.alive = FALSE, !.timer = "none"]
    <3>1. dead \in Nsvc /\ ~dead.alive /\ dead.timer = "none"
      BY <2>1 DEF Nsvc
    <3>2. AliveExpired(e, w) = IF e = "proxy" THEN gprs_nsvc_reset(dead)
                               ELSE Reply(dead, <<>>)
      BY DEF AliveExpired
    <3>3. FineReply(e, AliveExpired(e, w), op)
      <4>1. CASE e = "proxy"  BY <4>1, <3>1, <3>2, ResetFine
      <4>2. CASE e # "proxy"
        <5> HIDE DEF dead
        <5>1. FineNsvc(e, dead, op)
          BY <4>2, <3>1 DEF FineNsvc
        <5>2. AliveExpired(e, w) = Reply(dead, <<>>)
          BY <4>2, <3>2
        <5>3. FineReply(e, Reply(dead, <<>>), op)
          BY <5>1, ShortSeqs DEF FineReply, Reply
        <5> QED  BY <5>2, <5>3
      <4> QED  BY <4>1, <4>2
    <3>4. gprs_ns_timer_cb(e, v) = AliveExpired(e, w)
      BY <1>1, <2>2, Zenon DEF gprs_ns_timer_cb
    <3> QED  BY <3>3, <3>4
  <2>3. CASE ~(w.alive_retries > AliveRetries)
    <3>1. gprs_ns_timer_cb(e, v) = Reply(nsvc_start_timer(w, "alive"), <<"ALIVE">>)
      BY <1>1, <2>3, Zenon DEF gprs_ns_timer_cb
    <3>2. nsvc_start_timer(w, "alive") \in Nsvc
          /\ nsvc_start_timer(w, "alive").alive_retries = w.alive_retries
          /\ nsvc_start_timer(w, "alive").timer = "alive"
      BY <2>1 DEF nsvc_start_timer, Nsvc
    <3>3. w.alive_retries <= AliveRetries
      BY <2>1, <2>3 DEF Nsvc
    <3>4. <<"ALIVE">> \in Seq(PdusTo(Other(e), op))
      BY DEF PdusTo, Pdus, Other
    <3> QED  BY <3>1, <3>2, <3>3, <3>4 DEF Reply, FineReply, FineNsvc
  <2> QED  BY <2>2, <2>3
<1>2. CASE v.timer = "test"
  <2> DEFINE w == nsvc_start_timer([v EXCEPT !.alive_retries = 0], "alive")
  <2>1. gprs_ns_timer_cb(e, v) = Reply(w, <<"ALIVE">>)
    BY <1>2, Zenon DEF gprs_ns_timer_cb
  <2>2. w \in Nsvc /\ w.alive_retries = 0 /\ w.timer = "alive"
    <3>1. [v EXCEPT !.alive_retries = 0] \in Nsvc
          /\ [v EXCEPT !.alive_retries = 0].alive_retries = 0
      BY DEF Nsvc, FineNsvc
    <3>2. \A u \in Nsvc : nsvc_start_timer(u, "alive") \in Nsvc
            /\ nsvc_start_timer(u, "alive").alive_retries = u.alive_retries
            /\ nsvc_start_timer(u, "alive").timer = "alive"
      BY DEF nsvc_start_timer, Nsvc
    <3> QED  BY <3>1, <3>2
  <2>3. <<"ALIVE">> \in Seq(PdusTo(Other(e), op))
    BY DEF PdusTo, Pdus, Other
  <2> QED  BY <2>1, <2>2, <2>3 DEF Reply, FineReply, FineNsvc
<1>3. CASE v.timer = "reset"
  <2>1. gprs_ns_timer_cb(e, v) = Reply(nsvc_start_timer(v, "reset"), <<"RESET">>)
    BY <1>3, Zenon DEF gprs_ns_timer_cb
  <2>2. nsvc_start_timer(v, "reset") \in Nsvc /\ nsvc_start_timer(v, "reset").timer = "reset"
    BY DEF nsvc_start_timer, Nsvc, FineNsvc
  <2>3. <<"RESET">> \in Seq(PdusTo(Other(e), op))
    BY DEF PdusTo, Pdus, Other
  <2> QED  BY <2>1, <2>2, <2>3 DEF Reply, FineReply, FineNsvc
<1> QED  BY <1>1, <1>2, <1>3 DEF FineNsvc, Nsvc

\* What an end receives, from its peer or from an address it does not know.
LEMMA ReceiveFine ==
  ASSUME IInv, NEW e \in Ends, NEW m \in MsgTo(e, Op)
  PROVE  FineReply(e, gprs_ns_rcvmsg(e, m), Op)
<1> DEFINE v == nsvc[e]
<1>0. FineNsvc(e, v, Op) /\ Op \in BOOLEAN /\ m.pdu \in PdusTo(e, Op) /\ m.addr \in Addrs
  <2>1. FineNsvc(e, v, Op)  BY DEF IInv
  <2>2. Op \in BOOLEAN  BY DEF Op
  <2>3. m.pdu \in PdusTo(e, Op) /\ m.addr \in Addrs  BY DEF MsgTo
  <2> QED  BY <2>1, <2>2, <2>3
<1>1. CASE Knows(e, m)
  <2>1. gprs_ns_rcvmsg(e, m) = Handle(e, v, m.pdu)
    BY <1>1, Zenon DEF gprs_ns_rcvmsg
  <2> QED  BY <1>0, <2>1, HandleFine
<1>2. CASE ~Knows(e, m) /\ e = "sgsn" /\ m.pdu = "RESET"
  <2> DEFINE w == IF v.known THEN [v EXCEPT !.addr = m.addr] ELSE nsvc_create(m.addr)
  <2>1. gprs_ns_rcvmsg(e, m) = gprs_ns_rx_reset(w)
    BY <1>2, Zenon DEF gprs_ns_rcvmsg
  <2>2. FineNsvc(e, w, Op)
    <3>1. CASE v.known
      BY <1>0, <1>2, <3>1 DEF FineNsvc, Nsvc
    <3>2. CASE ~v.known
      BY <1>0, <1>2, <3>2, CreateTyped DEF FineNsvc
    <3> QED  BY <3>1, <3>2
  <2>3. Handle(e, w, "RESET") = gprs_ns_rx_reset(w)
    BY Zenon DEF Handle
  <2>4. FineReply(e, Handle(e, w, "RESET"), Op)
    <3> HIDE DEF w
    <3> QED  BY <1>0, <1>2, <2>2, HandleFine
  <2> QED  BY <2>1, <2>3, <2>4
<1>3. CASE ~Knows(e, m) /\ ~(e = "sgsn" /\ m.pdu = "RESET")
  <2>1. gprs_ns_rcvmsg(e, m) = Reply(v, <<>>)
    BY <1>3, Zenon DEF gprs_ns_rcvmsg
  <2> QED  BY <1>0, <2>1, ShortSeqs DEF FineReply, Reply
<1> QED  BY <1>1, <1>2, <1>3

-----------------------------------------------------------------------------
(* The link *)

LEMMA MsgToGrows ==
  ASSUME NEW e \in Ends, NEW op \in BOOLEAN, NEW new \in BOOLEAN, op => new,
         NEW q \in Seq(MsgTo(e, op))
  PROVE  q \in Seq(MsgTo(e, new)) /\ q \in Seq(Msg)
<1>1. MsgTo(e, op) \subseteq MsgTo(e, new) /\ MsgTo(e, op) \subseteq Msg
  BY DEF MsgTo, PdusTo, Msg
<1>2. \A T : MsgTo(e, op) \subseteq T => q \in Seq(T)
  OBVIOUS
<1> QED  BY <1>1, <1>2

\* A fine reply keeps the invariant, whatever of its kind is left under way.
LEMMA ContinueKeeps ==
  ASSUME IInv, NEW e \in Ends, NEW r, NEW q, Continue(e, r, q),
         Op => Op', FineReply(e, r, Op'), q \in Seq(MsgTo(e, Op)),
         addr' = addr, faults' \in 0..MaxFaults, seen' \subseteq FaultKinds,
         refused' \in BOOLEAN
  PROVE  IInv'
<1> DEFINE o == Other(e)
           s == Sent(e, r)
<1>0. Op \in BOOLEAN /\ Op' \in BOOLEAN /\ o \in Ends /\ o # e
      /\ \A x \in Ends : x = e \/ x = o
  BY DEF Op, Ends, Other
<1>1. s \in Seq(MsgTo(o, Op'))
  <2>1. r.pdus \in Seq(PdusTo(o, Op')) /\ r.nsvc.addr \in Addrs /\ addr \in Addrs
    BY DEF FineReply, FineNsvc, Nsvc, IInv
  <2>2. Len(r.pdus) \in Nat /\ \A i \in 1..Len(r.pdus) : r.pdus[i] \in PdusTo(o, Op')
    BY <2>1
  <2>3. s \in [1..Len(r.pdus) -> MsgTo(o, Op')]
    BY <2>1, <2>2 DEF Sent, MsgTo
  <2> QED  BY <2>2, <2>3
<1>2. nsvc' = [nsvc EXCEPT ![e] = r.nsvc] /\ nsvc \in [Ends -> Nsvc]
      /\ chan' = [chan EXCEPT ![e] = q, ![o] = @ \o s] /\ chan \in [Ends -> Seq(Msg)]
  BY DEF Continue, IInv
<1>3. nsvc'[e] = r.nsvc /\ nsvc'[o] = nsvc[o] /\ chan'[e] = q /\ chan'[o] = chan[o] \o s
  BY <1>0, <1>2
<1>4. FineNsvc(e, nsvc'[e], Op') /\ FineNsvc(o, nsvc'[o], Op')
  <2>1. FineNsvc(e, r.nsvc, Op')  BY DEF FineReply
  <2>2. FineNsvc(o, nsvc[o], Op)  BY <1>0 DEF IInv
  <2>3. FineNsvc(o, nsvc[o], Op')  BY <2>2 DEF FineNsvc
  <2> QED  BY <1>3, <2>1, <2>3
<1>5. chan'[e] \in Seq(MsgTo(e, Op')) /\ chan'[o] \in Seq(MsgTo(o, Op'))
  <2>1. q \in Seq(MsgTo(e, Op'))  BY <1>0, MsgToGrows
  <2>2. chan[o] \in Seq(MsgTo(o, Op))  BY <1>0 DEF IInv
  <2>3. chan[o] \in Seq(MsgTo(o, Op'))  BY <1>0, <2>2, MsgToGrows
  <2>4. chan[o] \o s \in Seq(MsgTo(o, Op'))  BY <1>1, <2>3
  <2> QED  BY <1>3, <2>1, <2>4
<1>6. nsvc' \in [Ends -> Nsvc]
  BY <1>2 DEF FineReply, FineNsvc
<1>7. chan' \in [Ends -> Seq(Msg)]
  <2>1. chan'[e] \in Seq(Msg) /\ chan'[o] \in Seq(Msg)
    BY <1>0, <1>5, MsgToGrows
  <2> QED  BY <1>0, <1>2, <1>3, <2>1
<1>8. \A x \in Ends : FineNsvc(x, nsvc'[x], Op') /\ chan'[x] \in Seq(MsgTo(x, Op'))
  BY <1>0, <1>4, <1>5
<1> QED  BY <1>6, <1>7, <1>8 DEF IInv

LEMMA WithoutIn ==
  ASSUME NEW S, NEW q \in Seq(S), NEW i \in DOMAIN q
  PROVE  Without(q, i) \in Seq(S) /\ q[i] \in S
<1>1. i \in 1..Len(q) /\ Len(q) \in Nat
  OBVIOUS
<1>2. SubSeq(q, 1, i - 1) \in Seq(S)
  BY <1>1
<1>3. SubSeq(q, i + 1, Len(q)) \in Seq(S)
  BY <1>1
<1> QED  BY <1>1, <1>2, <1>3 DEF Without

LEMMA ReceiveKeeps ==
  ASSUME IInv, NEW e \in Ends, NEW m \in MsgTo(e, Op), NEW q \in Seq(MsgTo(e, Op)),
         Receive(e, m, q), Op' = Op, faults' \in 0..MaxFaults, seen' \subseteq FaultKinds
  PROVE  IInv'
<1>1. FineReply(e, gprs_ns_rcvmsg(e, m), Op)
  BY ReceiveFine
<1>2. refused' \in BOOLEAN
  BY DEF Receive, IInv, Refuses
<1>3. Continue(e, gprs_ns_rcvmsg(e, m), q) /\ addr' = addr
  BY DEF Receive
<1> QED  BY <1>1, <1>2, <1>3, ContinueKeeps

LEMMA FaultTyped ==
  ASSUME IInv, NEW kind \in FaultKinds, Fault(kind)
  PROVE  /\ faults' \in 0..MaxFaults /\ seen' \subseteq FaultKinds
         /\ Op => Op'
         /\ kind # "operator" => Op' = Op
<1>1. faults' \in 0..MaxFaults
  BY NsAssumption DEF IInv, Fault
<1>2. seen' = seen \cup {kind}
  BY DEF Fault
<1> QED  BY <1>1, <1>2 DEF IInv, Op

LEMMA InitKeeps == Init => IInv
<1> SUFFICES ASSUME Init PROVE IInv
  OBVIOUS
<1> USE NsAssumption
<1> DEFINE p == gprs_nsvc_reset(nsvc_create(addr)).nsvc
           s == [nsvc_create(addr) EXCEPT !.known = FALSE]
<1>1. Op = FALSE /\ addr \in Addrs
  BY DEF Init, Op
<1>2. FineNsvc("proxy", p, Op)
  <2>1. "proxy" \in Ends /\ Op \in BOOLEAN  BY <1>1 DEF Ends
  <2> QED  BY <1>1, <2>1, CreateTyped, ResetFine DEF FineReply
<1>3. FineNsvc("sgsn", s, Op)
  BY <1>1, UnknownFine
<1>4. nsvc = [e \in Ends |-> IF e = "proxy" THEN p ELSE s]
  BY DEF Init
<1>5. nsvc["proxy"] = p /\ nsvc["sgsn"] = s /\ nsvc \in [Ends -> Nsvc]
  <2> HIDE DEF p, s
  <2> QED  BY <1>2, <1>3, <1>4 DEF Ends, FineNsvc
<1>6. [pdu |-> "RESET", addr |-> addr] \in MsgTo("sgsn", Op)
  BY <1>1 DEF MsgTo, PdusTo, Pdus
<1>7. chan["proxy"] = <<>> /\ chan["sgsn"] = <<[pdu |-> "RESET", addr |-> addr]>>
      /\ chan = [e \in Ends |-> chan[e]]
  BY DEF Init, Ends
<1>8. chan["proxy"] \in Seq(MsgTo("proxy", Op)) /\ chan["sgsn"] \in Seq(MsgTo("sgsn", Op))
  BY <1>6, <1>7, ShortSeqs
<1>9. chan["proxy"] \in Seq(Msg) /\ chan["sgsn"] \in Seq(Msg)
  <2>1. "proxy" \in Ends /\ "sgsn" \in Ends /\ Op \in BOOLEAN  BY <1>1 DEF Ends
  <2> QED  BY <1>8, <2>1, MsgToGrows
<1>10. chan \in [Ends -> Seq(Msg)]
  BY <1>7, <1>9 DEF Ends
<1>11. \A e \in Ends : FineNsvc(e, nsvc[e], Op) /\ chan[e] \in Seq(MsgTo(e, Op))
  <2> HIDE DEF p, s
  <2> QED  BY <1>2, <1>3, <1>5, <1>8 DEF Ends
<1>12. faults \in 0..MaxFaults /\ seen \subseteq FaultKinds /\ refused \in BOOLEAN
  <2>1. faults = MaxFaults /\ seen = {} /\ refused = FALSE  BY DEF Init
  <2>2. MaxFaults \in Nat  OBVIOUS
  <2>3. faults \in 0..MaxFaults  BY <2>1, <2>2
  <2> QED  BY <2>1, <2>3
<1> QED  BY <1>1, <1>5, <1>10, <1>11, <1>12 DEF IInv

\* A step that changes neither NS-VC and only takes messages away, or moves the proxy.
LEMMA QuietKeeps ==
  ASSUME IInv, nsvc' = nsvc, addr' \in Addrs, faults' \in 0..MaxFaults,
         seen' \subseteq FaultKinds, refused' = refused, Op' = Op,
         chan' \in [Ends -> Seq(Msg)], \A e \in Ends : chan'[e] \in Seq(MsgTo(e, Op))
  PROVE  IInv'
  BY DEF IInv

LEMMA StepKeeps == IInv /\ [Next]_vars => IInv'
<1> SUFFICES ASSUME IInv, [Next]_vars PROVE IInv'
  OBVIOUS
<1> USE NsAssumption
<1>0. /\ Op \in BOOLEAN /\ addr \in Addrs /\ refused \in BOOLEAN
      /\ faults \in 0..MaxFaults /\ seen \subseteq FaultKinds
      /\ \A e \in Ends : chan[e] \in Seq(MsgTo(e, Op)) /\ FineNsvc(e, nsvc[e], Op)
                         /\ nsvc[e] \in Nsvc
  <2>1. Op \in BOOLEAN  BY DEF Op
  <2> QED  BY <2>1 DEF IInv
<1>1. ASSUME NEW e \in Ends, Deliver(e) PROVE IInv'
  <2>1. Head(chan[e]) \in MsgTo(e, Op) /\ Tail(chan[e]) \in Seq(MsgTo(e, Op))
    BY <1>0, <1>1 DEF Deliver
  <2>2. Receive(e, Head(chan[e]), Tail(chan[e])) /\ faults' = faults /\ seen' = seen
    BY <1>1 DEF Deliver
  <2>3. Op' = Op  BY <2>2 DEF Op
  <2> QED  BY <1>0, <2>1, <2>2, <2>3, ReceiveKeeps
<1>2. ASSUME NEW e \in Ends, Timer(e) PROVE IInv'
  <2>1. FineReply(e, gprs_ns_timer_cb(e, nsvc[e]), Op)
    BY <1>0, <1>2, TimerFine DEF Timer
  <2>2. Continue(e, gprs_ns_timer_cb(e, nsvc[e]), chan[e])
        /\ UNCHANGED <<addr, faults, seen, refused>>
    BY <1>2 DEF Timer
  <2>3. Op' = Op  BY <2>2 DEF Op
  <2> QED  BY <1>0, <2>1, <2>2, <2>3, ContinueKeeps
<1>3. ASSUME NEW e \in Ends, gprs_ns_sendmsg(e) PROVE IInv'
  <2>1. "UNITDATA" \in PdusTo(Other(e), Op)
    BY DEF PdusTo, Pdus, Other
  <2>2. FineReply(e, Reply(nsvc[e], <<"UNITDATA">>), Op)
    BY <1>0, <2>1, ShortSeqs DEF FineReply, Reply
  <2>3. Continue(e, Reply(nsvc[e], <<"UNITDATA">>), chan[e])
        /\ UNCHANGED <<addr, faults, seen, refused>>
    BY <1>3 DEF gprs_ns_sendmsg
  <2>4. Op' = Op  BY <2>3 DEF Op
  <2> QED  BY <1>0, <2>2, <2>3, <2>4, ContinueKeeps
<1>4. ASSUME NEW e \in Ends, Lose(e) PROVE IInv'
  <2>1. "loss" \in FaultKinds /\ Fault("loss") /\ UNCHANGED <<nsvc, addr, refused>>
    BY <1>4 DEF Lose, FaultKinds
  <2>2. faults' \in 0..MaxFaults /\ seen' \subseteq FaultKinds /\ Op' = Op
    BY <2>1, FaultTyped
  <2>3. PICK i \in DOMAIN chan[e] : chan' = [chan EXCEPT ![e] = Without(@, i)]
    BY <1>4 DEF Lose
  <2>4. Without(chan[e], i) \in Seq(MsgTo(e, Op))
    BY <1>0, <2>3, WithoutIn
  <2>5. Without(chan[e], i) \in Seq(Msg)
    BY <1>0, <2>4, MsgToGrows
  <2>6. chan' \in [Ends -> Seq(Msg)] /\ \A x \in Ends : chan'[x] \in Seq(MsgTo(x, Op))
    BY <1>0, <2>3, <2>4, <2>5 DEF IInv
  <2> QED  BY <1>0, <2>1, <2>2, <2>6, QuietKeeps
<1>5. ASSUME NEW e \in Ends, Duplicate(e) PROVE IInv'
  <2>1. "dup" \in FaultKinds /\ Fault("dup") /\ chan[e] # <<>>
        /\ Receive(e, Head(chan[e]), chan[e])
    BY <1>5 DEF Duplicate, FaultKinds
  <2>2. faults' \in 0..MaxFaults /\ seen' \subseteq FaultKinds /\ Op' = Op
    BY <2>1, FaultTyped
  <2>3. Head(chan[e]) \in MsgTo(e, Op) /\ chan[e] \in Seq(MsgTo(e, Op))
    BY <1>0, <2>1
  <2> QED  BY <2>1, <2>2, <2>3, ReceiveKeeps
<1>6. ASSUME NEW e \in Ends, OutOfOrder(e) PROVE IInv'
  <2>1. "reorder" \in FaultKinds /\ Fault("reorder")
    BY <1>6 DEF OutOfOrder, FaultKinds
  <2>2. faults' \in 0..MaxFaults /\ seen' \subseteq FaultKinds /\ Op' = Op
    BY <2>1, FaultTyped
  <2>3. PICK i \in DOMAIN chan[e] \ {1} : Receive(e, chan[e][i], Without(chan[e], i))
    BY <1>6 DEF OutOfOrder
  <2>4. chan[e][i] \in MsgTo(e, Op) /\ Without(chan[e], i) \in Seq(MsgTo(e, Op))
    BY <1>0, <2>3, WithoutIn
  <2> QED  BY <2>2, <2>3, <2>4, ReceiveKeeps
<1>7. ASSUME NEW e \in Ends, EarlyTimer(e) PROVE IInv'
  <2>1. "early" \in FaultKinds /\ Fault("early") /\ UNCHANGED <<addr, refused>>
        /\ Continue(e, gprs_ns_timer_cb(e, nsvc[e]), chan[e]) /\ nsvc[e].timer # "none"
    BY <1>7 DEF EarlyTimer, FaultKinds
  <2>2. faults' \in 0..MaxFaults /\ seen' \subseteq FaultKinds /\ Op' = Op
    BY <2>1, FaultTyped
  <2>3. FineReply(e, gprs_ns_timer_cb(e, nsvc[e]), Op)
    BY <1>0, <2>1, TimerFine
  <2> QED  BY <1>0, <2>1, <2>2, <2>3, ContinueKeeps
<1>8. ASSUME NEW e \in Ends, Operator(e) PROVE IInv'
  <2>1. "operator" \in FaultKinds /\ Fault("operator") /\ UNCHANGED <<addr, refused>>
    BY <1>8 DEF Operator, FaultKinds
  <2>2. faults' \in 0..MaxFaults /\ seen' \subseteq FaultKinds /\ (Op => Op')
    BY <2>1, FaultTyped
  <2>3. Op'  BY <2>1 DEF Fault, Op
  <2>4. PdusTo(Other(e), Op') = Pdus  BY <2>3 DEF PdusTo
  <2>5. FineNsvc(e, nsvc[e], Op')  BY <1>0, <2>3 DEF FineNsvc
  <2>6. CASE Continue(e, gprs_ns_tx_block(nsvc[e]), chan[e])
    <3>1. FineNsvc(e, gprs_ns_tx_block(nsvc[e]).nsvc, Op')
      BY <2>3, <2>5 DEF gprs_ns_tx_block, Reply, FineNsvc, Nsvc
    <3>2. gprs_ns_tx_block(nsvc[e]).pdus \in Seq(PdusTo(Other(e), Op'))
      BY <2>4, ShortSeqs DEF gprs_ns_tx_block, Reply, Pdus
    <3> QED  BY <1>0, <2>1, <2>2, <2>6, <3>1, <3>2, ContinueKeeps DEF FineReply
  <2>7. CASE Continue(e, Reply(nsvc[e], <<"UNBLOCK">>), chan[e])
    <3>1. FineReply(e, Reply(nsvc[e], <<"UNBLOCK">>), Op')
      BY <2>4, <2>5, ShortSeqs DEF FineReply, Reply, Pdus
    <3> QED  BY <1>0, <2>1, <2>2, <2>7, <3>1, ContinueKeeps
  <2>8. CASE Continue(e, gprs_nsvc_reset(nsvc[e]), chan[e])
    <3>1. FineReply(e, gprs_nsvc_reset(nsvc[e]), Op')
      BY <1>0, <2>3, ResetFine
    <3> QED  BY <1>0, <2>1, <2>2, <2>8, <3>1, ContinueKeeps
  <2> QED  BY <1>8, <2>6, <2>7, <2>8 DEF Operator
<1>9. CASE SgsnRestarts
  <2> DEFINE w == [nsvc_create(addr) EXCEPT !.known = FALSE]
  <2>1. "sgsn" \in FaultKinds /\ Fault("sgsn") /\ UNCHANGED <<chan, addr, refused>>
        /\ nsvc' = [nsvc EXCEPT !["sgsn"] = w]
    BY <1>9 DEF SgsnRestarts, FaultKinds
  <2>2. faults' \in 0..MaxFaults /\ seen' \subseteq FaultKinds /\ Op' = Op
    BY <2>1, FaultTyped
  <2>3. FineNsvc("sgsn", w, Op)  BY <1>0, UnknownFine
  <2> HIDE DEF w
  <2>4. nsvc' \in [Ends -> Nsvc] /\ \A x \in Ends : FineNsvc(x, nsvc'[x], Op)
    BY <1>0, <2>1, <2>3 DEF IInv, FineNsvc
  <2> QED  BY <1>0, <2>1, <2>2, <2>4 DEF IInv
<1>10. CASE ProxyRestarts
  <2>1. "proxy" \in FaultKinds /\ Fault("proxy") /\ UNCHANGED <<addr, refused>>
        /\ Continue("proxy", gprs_nsvc_reset(nsvc_create(addr)), chan["proxy"])
    BY <1>10 DEF ProxyRestarts, FaultKinds
  <2>2. faults' \in 0..MaxFaults /\ seen' \subseteq FaultKinds /\ Op' = Op
    BY <2>1, FaultTyped
  <2>3. "proxy" \in Ends  BY DEF Ends
  <2>4. FineReply("proxy", gprs_nsvc_reset(nsvc_create(addr)), Op)
    BY <1>0, <2>3, CreateTyped, ResetFine
  <2> QED  BY <1>0, <2>1, <2>2, <2>3, <2>4, ContinueKeeps
<1>11. CASE ProxyMoves
  <2>1. "move" \in FaultKinds /\ Fault("move") /\ addr' \in Addrs
        /\ UNCHANGED <<nsvc, chan, refused>>
    BY <1>11 DEF ProxyMoves, FaultKinds
  <2>2. faults' \in 0..MaxFaults /\ seen' \subseteq FaultKinds /\ Op' = Op
    BY <2>1, FaultTyped
  <2>3. chan' \in [Ends -> Seq(Msg)] /\ \A e \in Ends : chan'[e] \in Seq(MsgTo(e, Op))
    BY <1>0, <2>1 DEF IInv
  <2> QED  BY <2>1, <2>2, <2>3, QuietKeeps
<1>12. CASE UNCHANGED vars
  BY <1>12 DEF IInv, vars, Op
<1> QED
  BY <1>1, <1>2, <1>3, <1>4, <1>5, <1>6, <1>7, <1>8, <1>9, <1>10, <1>11, <1>12 DEF Next

-----------------------------------------------------------------------------

LEMMA IInvImplies == IInv => TypeOK /\ Supervised
<1>1. IInv => TypeOK  BY DEF IInv, TypeOK
<1>2. IInv => Supervised
  BY DEF IInv, Supervised, FineNsvc, Ends, Op
<1> QED  BY <1>1, <1>2

\* gprs_ns.c keeps the NS-VC at both ends and what is under way between them well
\* typed: in particular Tns-alive is given up after AliveRetries retries.
THEOREM NsTypeCorrect == Spec => []TypeOK
<1>1. IInv => TypeOK  BY IInvImplies
<1> QED  BY <1>1, InitKeeps, StepKeeps, PTL DEF Spec

\* The supervision of the link by Tns-test, Tns-alive and Tns-reset never stops: the
\* one timer of an NS-VC is restarted by every handler that ends it.
THEOREM AlwaysSupervised == Spec => []Supervised
<1>1. IInv => Supervised  BY IInvImplies
<1> QED  BY <1>1, InitKeeps, StepKeeps, PTL DEF Spec

\* Both, as the run Ns checks them: whatever the network loses, doubles, delays or reorders and whichever end
\* restarts, the NS-VCs stay well formed and supervised.
THEOREM NsAlwaysSound == Spec => []NsSound
<1>1. TypeOK /\ Supervised => NsSound  BY DEF NsSound
<1> QED  BY <1>1, NsTypeCorrect, AlwaysSupervised, PTL

=============================================================================
