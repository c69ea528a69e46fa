--------------------------------- MODULE Ns ---------------------------------
(***************************************************************************)
(* The network service of the Gb interface (gprs_ns.c) between its two     *)
(* users in this repository: the Gb proxy, on the side of the BSS, which   *)
(* restarts the RESET procedure when the SGSN does not answer any more     *)
(* (gbprox_signal()), and osmo-sgsn, which waits to be reset.  They talk   *)
(* over UDP.                                                               *)
(*                                                                         *)
(* Every fault uses up some of a budget, so that what must happen once     *)
(* faults stop can be stated.  A timer that expires while a message is     *)
(* still under way counts as a fault: the timers take seconds.             *)
(***************************************************************************)
EXTENDS Naturals, Sequences, FiniteSets

CONSTANTS
    AliveRetries,   \* timeout[NS_TOUT_TNS_ALIVE_RETRIES] (10)
    Addrs,          \* addresses the proxy may have, as the SGSN sees them
    MaxFaults,      \* bound: faults in a behaviour
    MaxMsgs,        \* bound: messages under way when a timer adds another one
    Faults          \* sets of kinds of fault that happen together

FaultKinds == {
    "loss", "dup", "reorder",   \* of UDP
    "early",      \* timers expire before the answer is there
    "sgsn",       \* osmo-sgsn is restarted
    "proxy",      \* the proxy is restarted
    "move",       \* the address of the proxy changes
    "operator"}   \* nsvc nsei (block|unblock|reset)

ASSUME NsAssumption ==
    /\ AliveRetries \in Nat /\ MaxFaults \in Nat /\ MaxMsgs \in Nat
    /\ Addrs # {} /\ Faults \subseteq SUBSET FaultKinds

Ends == {"proxy", "sgsn"}
Other(e) == IF e = "proxy" THEN "sgsn" ELSE "proxy"

Pdus == {"RESET", "RESET_ACK", "ALIVE", "ALIVE_ACK", "UNBLOCK", "UNBLOCK_ACK",
         "BLOCK", "BLOCK_ACK", "UNITDATA"}

VARIABLES
    nsvc,     \* the NS-VC at each end
    chan,     \* messages under way to each end
    addr,     \* where the proxy is
    faults,   \* faults left
    seen,     \* history: kinds of fault that have happened
    refused   \* history: data was answered by STATUS

vars == <<nsvc, chan, addr, faults, seen, refused>>

\* state is the pair of bits NSE_S_BLOCKED and NSE_S_ALIVE; remote_state is only
\* shown to the operator.  known: the entity has the NS-VC in its list.
Nsvc == [known : BOOLEAN, blocked : BOOLEAN, alive : BOOLEAN,
         timer : {"none", "test", "alive", "reset"},
         alive_retries : 0..(AliveRetries + 1), addr : Addrs]

Msg == [pdu : Pdus, addr : Addrs]

TypeOK ==
    /\ nsvc \in [Ends -> Nsvc]
    /\ chan \in [Ends -> Seq(Msg)]
    /\ addr \in Addrs
    /\ faults \in 0..MaxFaults
    /\ seen \subseteq FaultKinds
    /\ refused \in BOOLEAN

Quiet == \A e \in Ends : chan[e] = <<>>
Room == Len(chan["proxy"]) + Len(chan["sgsn"]) < MaxMsgs
Up(e) == nsvc[e].known /\ nsvc[e].alive /\ ~nsvc[e].blocked

-----------------------------------------------------------------------------
(* The functions of gprs_ns.c.  Those that send give the NS-VC and the PDUs. *)

Reply(v, pdus) == [nsvc |-> v, pdus |-> pdus]

nsvc_start_timer(v, mode) == [v EXCEPT !.timer = mode]

nsvc_create(a) ==
    [known |-> TRUE, blocked |-> TRUE, alive |-> FALSE, timer |-> "none",
     alive_retries |-> 0, addr |-> a]

gprs_ns_tx_block(v) == Reply([v EXCEPT !.blocked = TRUE], <<"BLOCK">>)

gprs_nsvc_reset(v) ==
    Reply(nsvc_start_timer([v EXCEPT !.blocked = TRUE, !.alive = FALSE], "reset"), <<"RESET">>)

BlockedAndAlive(v) == [v EXCEPT !.blocked = TRUE, !.alive = TRUE]

gprs_ns_rx_reset(v) ==
    Reply(nsvc_start_timer(BlockedAndAlive(v), "test"), <<"ALIVE", "RESET_ACK">>)

RxResetAck(v) == Reply(nsvc_start_timer(BlockedAndAlive(v), "test"), <<"ALIVE">>)

\* Mutant: a dead NS-VC answers as well.
RxAlive_answers(v) == Reply(v, <<"ALIVE_ACK">>)

\* "If we're dead and blocked and suddenly receive a NS-ALIVE out of the blue ... send
\* a NS-RESET".
RxAlive(v) == Reply(v, IF v.blocked /\ ~v.alive THEN <<"RESET">> ELSE <<"ALIVE_ACK">>)

\* Mutant: Tns-alive is stopped and Tns-test not started.
RxAliveAck_stops(e, v) ==
    Reply([v EXCEPT !.timer = "none"],
          IF e = "proxy" /\ v.blocked THEN <<"UNBLOCK">> ELSE <<>>)

\* Only the proxy has remote_end_is_sgsn.
RxAliveAck(e, v) ==
    Reply(nsvc_start_timer(v, "test"),
          IF e = "proxy" /\ v.blocked THEN <<"UNBLOCK">> ELSE <<>>)

RxUnblock(v) == Reply([v EXCEPT !.blocked = FALSE], <<"UNBLOCK_ACK">>)

RxUnblockAck(v) == Reply([v EXCEPT !.blocked = FALSE, !.alive = TRUE], <<>>)

gprs_ns_rx_block(v) == Reply([v EXCEPT !.blocked = TRUE], <<"BLOCK_ACK">>)

\* STATUS is only logged by its receiver and left out.
Handle(e, v, pdu) ==
    CASE pdu = "RESET"       -> gprs_ns_rx_reset(v)
      [] pdu = "RESET_ACK"   -> RxResetAck(v)
      [] pdu = "ALIVE"       -> RxAlive(v)
      [] pdu = "ALIVE_ACK"   -> RxAliveAck(e, v)
      [] pdu = "UNBLOCK"     -> RxUnblock(v)
      [] pdu = "UNBLOCK_ACK" -> RxUnblockAck(v)
      [] pdu = "BLOCK"       -> gprs_ns_rx_block(v)
      [] OTHER               -> Reply(v, <<>>)

\* Does e find the NS-VC by the address of the sender?  What is sent to an address
\* the proxy has left does not arrive.
Knows(e, m) ==
    IF e = "proxy" THEN m.addr = addr ELSE nsvc[e].known /\ nsvc[e].addr = m.addr

\* Otherwise only RESET is taken, and the NS-VC looked up by its NSEI.
gprs_ns_rcvmsg(e, m) ==
    CASE Knows(e, m) -> Handle(e, nsvc[e], m.pdu)
      [] ~Knows(e, m) /\ e = "sgsn" /\ m.pdu = "RESET" ->
            gprs_ns_rx_reset(IF nsvc[e].known THEN [nsvc[e] EXCEPT !.addr = m.addr]
                             ELSE nsvc_create(m.addr))
      [] OTHER -> Reply(nsvc[e], <<>>)

\* Data on a blocked or unknown NS-VC is answered by STATUS.
Refuses(e, m) ==
    /\ m.pdu = "UNITDATA"
    /\ IF Knows(e, m) THEN nsvc[e].blocked ELSE e = "sgsn"

\* Tns-alive expired too often; gbprox_signal() calls nsip_connect().
AliveExpired(e, v) ==
    LET dead == [v EXCEPT !.blocked = TRUE, !.alive = FALSE, !.timer = "none"]
    IN  IF e = "proxy" THEN gprs_nsvc_reset(dead) ELSE Reply(dead, <<>>)

gprs_ns_timer_cb(e, v) ==
    CASE v.timer = "alive" ->
            LET w == [v EXCEPT !.alive_retries = @ + 1]
            IN  IF w.alive_retries > AliveRetries THEN AliveExpired(e, w)
                ELSE Reply(nsvc_start_timer(w, "alive"), <<"ALIVE">>)
      [] v.timer = "test" ->
            Reply(nsvc_start_timer([v EXCEPT !.alive_retries = 0], "alive"), <<"ALIVE">>)
      [] v.timer = "reset" -> Reply(nsvc_start_timer(v, "reset"), <<"RESET">>)

-----------------------------------------------------------------------------
(* The link *)

\* What goes out bears the address of the proxy: its own, or the one the SGSN knows.
Sent(e, r) ==
    [i \in 1..Len(r.pdus) |->
        [pdu |-> r.pdus[i], addr |-> IF e = "proxy" THEN addr ELSE r.nsvc.addr]]

\* End e goes on with reply r; q is left under way to it.
Continue(e, r, q) ==
    /\ nsvc' = [nsvc EXCEPT ![e] = r.nsvc]
    /\ chan' = [chan EXCEPT ![e] = q, ![Other(e)] = @ \o Sent(e, r)]

Receive(e, m, q) ==
    /\ Continue(e, gprs_ns_rcvmsg(e, m), q)
    /\ refused' = (refused \/ Refuses(e, m))
    /\ UNCHANGED addr

Without(q, i) == SubSeq(q, 1, i - 1) \o SubSeq(q, i + 1, Len(q))

Init ==
    /\ addr \in Addrs
    /\ nsvc = [e \in Ends |-> IF e = "proxy" THEN gprs_nsvc_reset(nsvc_create(addr)).nsvc
                              ELSE [nsvc_create(addr) EXCEPT !.known = FALSE]]
    /\ chan = [e \in Ends |-> IF e = "sgsn" THEN <<[pdu |-> "RESET", addr |-> addr]>> ELSE <<>>]
    /\ faults = MaxFaults /\ seen = {}
    /\ refused = FALSE

Deliver(e) ==
    /\ chan[e] # <<>>
    /\ Receive(e, Head(chan[e]), Tail(chan[e]))
    /\ UNCHANGED <<faults, seen>>

Timer(e) ==
    /\ nsvc[e].timer # "none" /\ Quiet
    /\ Continue(e, gprs_ns_timer_cb(e, nsvc[e]), chan[e])
    /\ UNCHANGED <<addr, faults, seen, refused>>

\* gprs_ns_sendmsg()
gprs_ns_sendmsg(e) ==
    /\ Up(e) /\ Room
    /\ \A i \in DOMAIN chan[Other(e)] : chan[Other(e)][i].pdu # "UNITDATA"
    /\ Continue(e, Reply(nsvc[e], <<"UNITDATA">>), chan[e])
    /\ UNCHANGED <<addr, faults, seen, refused>>

Fault(kind) ==
    /\ faults > 0 /\ \E F \in Faults : seen \cup {kind} \subseteq F
    /\ faults' = faults - 1 /\ seen' = seen \cup {kind}

Lose(e) ==
    /\ Fault("loss")
    /\ \E i \in DOMAIN chan[e] : chan' = [chan EXCEPT ![e] = Without(@, i)]
    /\ UNCHANGED <<nsvc, addr, refused>>

Duplicate(e) ==
    /\ Fault("dup") /\ Room /\ chan[e] # <<>>
    /\ Receive(e, Head(chan[e]), chan[e])

OutOfOrder(e) ==
    /\ Fault("reorder")
    /\ \E i \in DOMAIN chan[e] \ {1} : Receive(e, chan[e][i], Without(chan[e], i))

EarlyTimer(e) ==
    /\ Fault("early") /\ nsvc[e].timer # "none" /\ ~Quiet /\ Room
    /\ Continue(e, gprs_ns_timer_cb(e, nsvc[e]), chan[e])
    /\ UNCHANGED <<addr, refused>>

SgsnRestarts ==
    /\ Fault("sgsn")
    /\ nsvc' = [nsvc EXCEPT !["sgsn"] = [nsvc_create(addr) EXCEPT !.known = FALSE]]
    /\ UNCHANGED <<chan, addr, refused>>

\* gbprox_reset_persistent_nsvcs()
ProxyRestarts ==
    /\ Fault("proxy") /\ Room
    /\ Continue("proxy", gprs_nsvc_reset(nsvc_create(addr)), chan["proxy"])
    /\ UNCHANGED <<addr, refused>>

ProxyMoves ==
    /\ Fault("move")
    /\ addr' \in Addrs \ {addr}
    /\ UNCHANGED <<nsvc, chan, refused>>

Operator(e) ==
    /\ Fault("operator") /\ Room /\ nsvc[e].known
    /\ \/ Continue(e, gprs_ns_tx_block(nsvc[e]), chan[e])
       \/ Continue(e, Reply(nsvc[e], <<"UNBLOCK">>), chan[e])
       \/ Continue(e, gprs_nsvc_reset(nsvc[e]), chan[e])
    /\ UNCHANGED <<addr, refused>>

Next ==
    \/ \E e \in Ends :
        \/ Deliver(e) \/ Timer(e) \/ gprs_ns_sendmsg(e)
        \/ Lose(e) \/ Duplicate(e) \/ OutOfOrder(e) \/ EarlyTimer(e) \/ Operator(e)
    \/ SgsnRestarts \/ ProxyRestarts \/ ProxyMoves

Spec == Init /\ [][Next]_vars

\* Messages that are not lost arrive.  A timer runs out although messages of the other
\* end are under way again and again.
FairSpec == Spec /\ \A e \in Ends : WF_vars(Deliver(e)) /\ SF_vars(Timer(e))

-----------------------------------------------------------------------------
(* Properties *)

\* The proxy always has a timer running, and so has an SGSN that takes its NS-VC for
\* alive: no loss, duplicate, late or early message stops the supervision of the link.
\* (UNBLOCK of the operator on an NS-VC that the SGSN has given up does: the answer
\* marks it alive, and no timer is started.)
Supervised ==
    /\ nsvc["proxy"].timer # "none"
    /\ "operator" \notin seen /\ nsvc["sgsn"].known /\ nsvc["sgsn"].alive
        => nsvc["sgsn"].timer # "none"

\* The NS-VCs are well formed and supervised, whatever the network does to the messages.
NsSound == TypeOK /\ Supervised

\* Before the first fault data finds the NS-VC unblocked at the other end, and when
\* nothing is under way both ends are up.
Handshake ==
    seen = {} => ~refused /\ (Quiet => Up("proxy") /\ Up("sgsn"))

\* What the link always recovers from.  After a restart together with a loss, after
\* several early timers or after messages out of order the SGSN may keep its NS-VC
\* blocked while the proxy takes it for unblocked: RxAliveAck() sends UNBLOCK only
\* when the proxy's own end is blocked, and STATUS is only logged.
Harmless == {{}, {"loss"}, {"dup"}, {"sgsn"}, {"proxy"}, {"sgsn", "proxy"}, {"move"}}

\* gprs_ns_rcvmsg(): "... might have been re-started and should send a NS-RESET to make
\* sure everything recovers fine".  After lost or doubled messages, restarts of either
\* end or a new address of the proxy, both ends come up and stay so.
Recovers == <>[](seen \in Harmless => Up("proxy") /\ Up("sgsn"))

\* The link comes up in order, and comes up again.
LinkComesUp == []Handshake /\ Recovers

=============================================================================
