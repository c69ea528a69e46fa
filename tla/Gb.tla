----------------------------------- MODULE Gb -----------------------------------
(***************************************************************************)
(* BSSGP between base station subsystems, the Gb proxy (gb_proxy.c) and    *)
(* the SGSN (libgb/gprs_bssgp.c).  BSS b has one NS-VC to the proxy, one   *)
(* point-to-point BVC (BVCI b) and one routeing area; the proxy has one    *)
(* NS-VC to the SGSN (NS-VC 0).  A message between proxy and SGSN is       *)
(* queued and may be lost; a message of a BSS is handled as it is sent.    *)
(***************************************************************************)
EXTENDS Naturals, Sequences, FiniteSets, SequencesExt

CONSTANTS
    Bss,        \* the base station subsystems, a set of positive numbers
    MaxQueue,   \* messages under way between proxy and SGSN
    Bmax,       \* largest flow control bucket, in units of PDU length
    GbEnvs      \* the surroundings to consider

GbFaults == {
    "loss",           \* a message between proxy and SGSN is lost
    "early_data",     \* the SGSN sends data for a BVC the proxy has not seen a RESET of
    "reset_blocked",  \* a blocked BVC is reset
    "burst"}          \* downlink PDUs come faster than the bucket allows
\* sign: the SGSN knows the signalling BVC of the proxy's NSE; flow: the flow control of one
\* MS is looked at, not the blocking and suspending.
GbEnv == [faults : SUBSET GbFaults, sign : BOOLEAN, flow : BOOLEAN]

ASSUME GbBounds == Bss \subseteq Nat \ {0} /\ {MaxQueue, Bmax} \subseteq Nat
ASSUME GbEnvAssumption == GbEnvs \subseteq GbEnv

VARIABLES gb, gbEnv
gbVars == <<gb, gbEnv>>
GbHas(fault) == fault \in gbEnv.faults

Bvc == [used : BOOLEAN, blocked : BOOLEAN, ra : {0} \cup Bss, bmax : 0..Bmax, rate : 0..1]
Peer == [used : BOOLEAN, blocked : BOOLEAN, nsvc : {0} \cup Bss, ra : {0} \cup Bss]
\* since: units of time since the last PDU; real: the level the BSS sees.
Fc == [max : 0..Bmax, rate : 0..1, counter : 0..Bmax, since : 0..Bmax, real : 0..(2 * Bmax)]
GbMsgs == [t : {"RESET", "BLOCK", "UNBLOCK", "SUSPEND", "RESUME", "UL_UD", "DL_UD", "RESET_ACK", "BLOCK_ACK",
                "UNBLOCK_ACK", "SUSPEND_ACK", "STATUS", "PAGING", "FC_ACK", "FC_BVC", "FC_MS", "LLC_DISC"},
           b : {0} \cup Bss]

PtpTypes == {"UL_UD", "FC_BVC", "FC_MS"}

GbInit ==
    /\ gbEnv \in GbEnvs
    /\ gb = [bvc |-> [b \in Bss |-> [used |-> FALSE, blocked |-> FALSE, ra |-> 0, bmax |-> 0, rate |-> 0]],
             peer |-> [b \in Bss |-> [used |-> FALSE, blocked |-> FALSE, nsvc |-> 0, ra |-> 0]],
             fc |-> [max |-> 0, rate |-> 0, counter |-> 0, since |-> Bmax, real |-> 0],
             up |-> <<>>, down |-> <<>>,
             strayed |-> FALSE, bad |-> FALSE]

-----------------------------------------------------------------------------
(* The SGSN: what is queued for the proxy *)

bssgp_tx(S, t, b) == [S EXCEPT !.down = Append(@, [t |-> t, b |-> b])]
bssgp_tx_simple_bvci(S, t, b) == bssgp_tx(S, t, b)
bssgp_tx_status(S, b) == bssgp_tx(S, "STATUS", b)
bssgp_tx_fc_bvc_ack(S, b) == bssgp_tx(S, "FC_ACK", b)
bssgp_tx_suspend_ack(S, b) == bssgp_tx(S, "SUSPEND_ACK", b)
bssgp_tx_resume_ack(S, b) == bssgp_tx(S, "SUSPEND_ACK", b)
gprs_bssgp_tx_paging(S, b) == bssgp_tx(S, "PAGING", b)

\* A RESET makes the context and unblocks it.
bssgp_rx_bvc_reset(S, b) ==
    bssgp_tx_simple_bvci([S EXCEPT !.bvc[b].used = TRUE, !.bvc[b].blocked = FALSE, !.bvc[b].ra = b],
                         "RESET_ACK", b)
\* Mutant: a BVC-BLOCK is acknowledged and forgotten.
bssgp_rx_bvc_block_forgets(S, b) ==
    IF ~S.bvc[b].used THEN bssgp_tx_status(S, b) ELSE bssgp_tx_simple_bvci(S, "BLOCK_ACK", b)
bssgp_rx_bvc_block(S, b) ==
    IF ~S.bvc[b].used THEN bssgp_tx_status(S, b)
    ELSE bssgp_tx_simple_bvci([S EXCEPT !.bvc[b].blocked = TRUE], "BLOCK_ACK", b)
bssgp_rx_bvc_unblock(S, b) ==
    IF ~S.bvc[b].used THEN bssgp_tx_status(S, b)
    ELSE bssgp_tx_simple_bvci([S EXCEPT !.bvc[b].blocked = FALSE], "UNBLOCK_ACK", b)
bssgp_rx_suspend(S, b) == bssgp_tx_suspend_ack(S, b)
bssgp_rx_resume(S, b) == bssgp_tx_resume_ack(S, b)
bssgp_rx_fc_bvc(S, b) == bssgp_tx_fc_bvc_ack([S EXCEPT !.bvc[b].bmax = Bmax, !.bvc[b].rate = 1], b)
bssgp_tx_fc_ms_ack(S, b) == bssgp_tx(S, "FC_ACK", b)
bssgp_rx_fc_ms(S, b) == bssgp_tx_fc_ms_ack(S, b)     \* the MS's own bucket is not looked at
bssgp_rx_llc_disc(S, b) == S                         \* counted
bssgp_rx_ul_ud(S, b) == S                            \* to LLC

gprs_bssgp_rx_sign(S, m) ==
    CASE m.t = "RESET" -> bssgp_rx_bvc_reset(S, m.b)
      [] m.t = "BLOCK" -> bssgp_rx_bvc_block(S, m.b)
      [] m.t = "UNBLOCK" -> bssgp_rx_bvc_unblock(S, m.b)
      [] m.t = "SUSPEND" -> bssgp_rx_suspend(S, m.b)
      [] m.t = "RESUME" -> bssgp_rx_resume(S, m.b)
      [] m.t = "LLC_DISC" -> bssgp_rx_llc_disc(S, m.b)
gprs_bssgp_rx_ptp(S, m) ==
    IF S.bvc[m.b].blocked THEN bssgp_tx_status(S, m.b)
    ELSE CASE m.t = "UL_UD" -> bssgp_rx_ul_ud(S, m.b)
           [] m.t = "FC_MS" -> bssgp_rx_fc_ms(S, m.b)
           [] m.t = "FC_BVC" -> bssgp_rx_fc_bvc(S, m.b)

\* Only a RESET makes a context, also for the signalling BVC.
gprs_bssgp_rcvmsg(S, m) ==
    LET ptp == m.t \in PtpTypes
        known == IF ptp THEN S.bvc[m.b].used ELSE gbEnv.sign
    IN  IF ~known /\ m.t # "RESET" THEN bssgp_tx_status(S, m.b)
        ELSE IF ptp THEN gprs_bssgp_rx_ptp(S, m) ELSE gprs_bssgp_rx_sign(S, m)

-----------------------------------------------------------------------------
(* Flow control of the downlink of one MS *)

bssgp_fc_ms_init(S, b) ==
    IF ~S.bvc[b].used THEN S ELSE [S EXCEPT !.fc.max = S.bvc[b].bmax, !.fc.rate = S.bvc[b].rate]

Leaked(f) == f.since * f.rate
\* bucket_predicted, which may be below the length of the PDU.
Underflows(f) == f.counter < Leaked(f)
bssgp_fc_needs_queueing(f, len) == ~Underflows(f) /\ f.counter + len - Leaked(f) > f.max
Drained(f) == IF f.real > Leaked(f) THEN f.real - Leaked(f) ELSE 0

\* The level is not stored when the bucket would underflow.
FcPassed(f, len) ==
    [f EXCEPT !.counter = IF Underflows(f) THEN @ ELSE @ + len - Leaked(f), !.since = 0,
              !.real = IF Drained(f) + len > 2 * Bmax THEN 2 * Bmax ELSE Drained(f) + len]

\* fc_enqueue(): the queue was never initialised, so it does not come back from there.
fc_enqueue(S) == [S EXCEPT !.bad = TRUE]
bssgp_fc_in(S, b, len) ==
    IF bssgp_fc_needs_queueing(S.fc, len) THEN fc_enqueue(S)
    ELSE bssgp_tx([S EXCEPT !.fc = FcPassed(S.fc, len)], "DL_UD", b)
gprs_bssgp_tx_dl_ud(S, b, len) == IF S.bvc[b].used THEN bssgp_fc_in(S, b, len) ELSE S

-----------------------------------------------------------------------------
(* The proxy *)

peer_by_nsvc(S, n) == {b \in Bss : S.peer[b].used /\ S.peer[b].nsvc = n}
peer_by_rac(S, r) == {b \in Bss : S.peer[b].used /\ S.peer[b].ra = r}
peer_alloc(S, b, n) == [S EXCEPT !.peer[b] = [used |-> TRUE, blocked |-> FALSE, nsvc |-> n, ra |-> 0]]

gbprox_relay2sgsn(S, m) == [S EXCEPT !.up = Append(@, m)]
\* What is meant for BSS b has gone to the NS-VC of peer p.
gbprox_relay2peer(S, p, b) == [S EXCEPT !.strayed = @ \/ S.peer[p].nsvc # b]
gbprox_relay2bvci(S, b) == IF S.peer[b].used THEN gbprox_relay2peer(S, b, b) ELSE S
block_unblock_peer(S, b, on) == IF S.peer[b].used THEN [S EXCEPT !.peer[b].blocked = on] ELSE S

\* Mutant: the peer of a BVCI is the one found by its NS-VC.
gbprox_rx_sig_from_bss_any(S, m) ==
    CASE m.t \in {"SUSPEND", "RESUME"} -> gbprox_relay2sgsn(S, m)
      [] m.t = "RESET" -> LET T == IF S.peer[m.b].used THEN S ELSE peer_alloc(S, m.b, CHOOSE n \in Bss : TRUE)
                          IN  gbprox_relay2sgsn([T EXCEPT !.peer[m.b].ra = m.b], m)
      [] m.t \in {"BLOCK", "UNBLOCK", "LLC_DISC"} -> gbprox_relay2sgsn(S, m)

gbprox_rx_sig_from_bss(S, m) ==
    LET from == peer_by_nsvc(S, m.b)
    IN  CASE m.t \in {"SUSPEND", "RESUME"} ->
               IF from = {} THEN S     \* STATUS to the BSS
               ELSE gbprox_relay2sgsn([S EXCEPT !.peer[CHOOSE p \in from : TRUE].ra = m.b], m)
          [] m.t = "RESET" ->
               LET T == IF S.peer[m.b].used THEN S ELSE peer_alloc(S, m.b, m.b)
               IN  gbprox_relay2sgsn([T EXCEPT !.peer[m.b].ra = m.b], m)
          [] m.t \in {"BLOCK", "UNBLOCK", "LLC_DISC"} -> gbprox_relay2sgsn(S, m)

\* A paging with a BVCI is never routed, one with a routeing area is.
gbprox_rx_paging(S, ra) ==
    IF peer_by_rac(S, ra) = {} THEN S
    ELSE gbprox_relay2peer(S, CHOOSE p \in peer_by_rac(S, ra) : TRUE, ra)
\* The signalling BVC is shared: its RESET goes to every peer, each on the peer's NS-VC.
rx_reset_from_sgsn(S, b) == IF b # 0 THEN gbprox_relay2bvci(S, b) ELSE S
gbprox_rx_sig_from_sgsn(S, m) ==
    CASE m.t = "RESET" -> rx_reset_from_sgsn(S, m.b)
      [] m.t = "RESET_ACK" -> gbprox_relay2bvci(S, m.b)
      [] m.t = "PAGING" -> gbprox_rx_paging(S, m.b)
      [] m.t = "STATUS" -> S
      [] m.t = "SUSPEND_ACK" -> gbprox_rx_paging(S, m.b)
      [] m.t = "BLOCK_ACK" -> gbprox_relay2bvci(block_unblock_peer(S, m.b, TRUE), m.b)
      [] m.t = "UNBLOCK_ACK" -> gbprox_relay2bvci(block_unblock_peer(S, m.b, FALSE), m.b)

\* A message of the SGSN: point-to-point data makes a peer where there is none.
gbprox_rcvmsg(S, m) ==
    IF m.t \notin {"DL_UD", "FC_ACK"} THEN gbprox_rx_sig_from_sgsn(S, m)
    ELSE LET T == IF S.peer[m.b].used THEN S ELSE peer_alloc(S, m.b, 0)
         IN  IF T.peer[m.b].blocked THEN T ELSE gbprox_relay2peer(T, m.b, m.b)

-----------------------------------------------------------------------------
GbBecomes(S) == gb' = S /\ UNCHANGED gbEnv /\ Len(S.up) + Len(S.down) <= MaxQueue /\ ~gb.bad

BssSends(b, t) ==
    /\ t = "RESET" /\ (gb.bvc[b].blocked \/ [t |-> "BLOCK", b |-> b] \in Range(gb.up)) => GbHas("reset_blocked")
    /\ t # "RESET" => gb.peer[b].used
    /\ t \in (IF gbEnv.flow THEN {"RESET", "FC_BVC", "FC_MS", "LLC_DISC"}
               ELSE {"RESET", "BLOCK", "UNBLOCK", "SUSPEND", "RESUME", "UL_UD"})
    /\ LET m == [t |-> t, b |-> b]
       IN  GbBecomes(IF t \in PtpTypes THEN gbprox_relay2sgsn(gb, m) ELSE gbprox_rx_sig_from_bss(gb, m))
SgsnReceives == gb.up # <<>> /\ GbBecomes([gprs_bssgp_rcvmsg(gb, Head(gb.up)) EXCEPT !.up = Tail(@)])
ProxyReceives == gb.down # <<>> /\ GbBecomes([gbprox_rcvmsg(gb, Head(gb.down)) EXCEPT !.down = Tail(@)])
GbLoses ==
    /\ GbHas("loss")
    /\ \/ gb.up # <<>> /\ GbBecomes([gb EXCEPT !.up = Tail(@)])
       \/ gb.down # <<>> /\ GbBecomes([gb EXCEPT !.down = Tail(@)])
SgsnPages(b) == GbBecomes(gprs_bssgp_tx_paging(gb, b))
\* An SGSN that starts anew resets its BVCs; osmo-sgsn never does.
SgsnResets(b) == ~gbEnv.flow /\ ~gbEnv.sign /\ GbBecomes(bssgp_tx(gb, "RESET", b))
AttachedAt(b) == gbEnv.flow /\ gb.bvc[b].bmax > gb.fc.max /\ GbBecomes(bssgp_fc_ms_init(gb, b))
SgsnData(b, len) ==
    /\ gb.bvc[b].used \/ GbHas("early_data")
    /\ IF gbEnv.flow THEN ~bssgp_fc_needs_queueing(gb.fc, len) \/ GbHas("burst") ELSE len = 1
    /\ GbBecomes(IF gb.bvc[b].used /\ gbEnv.flow THEN gprs_bssgp_tx_dl_ud(gb, b, len)
                 ELSE bssgp_tx(gb, "DL_UD", b))     \* with allowance enough
TimePasses == gbEnv.flow /\ gb.fc.since < Bmax /\ GbBecomes([gb EXCEPT !.fc.since = @ + 1])

GbNext ==
    \/ \E b \in Bss, t \in {"RESET", "BLOCK", "UNBLOCK", "SUSPEND", "RESUME", "UL_UD", "FC_BVC", "FC_MS", "LLC_DISC"} : BssSends(b, t)
    \/ SgsnReceives \/ ProxyReceives \/ GbLoses \/ TimePasses
    \/ \E b \in {0} \cup Bss : SgsnResets(b)
    \/ \E b \in Bss : SgsnPages(b) \/ AttachedAt(b)
    \/ \E b \in Bss, len \in 1..2 : SgsnData(b, len)
GbSpec == GbInit /\ [][GbNext]_gbVars

-----------------------------------------------------------------------------
(* Properties *)

\* What the SGSN sends for a BVC reaches the NS-VC of the BSS that has it, as long as the
\* BSS has reset the BVC before the SGSN uses it: the proxy never corrects a peer.
NothingStrays == gb.strayed => GbHas("early_data")

\* With nothing under way, proxy and SGSN agree on which BVCs are blocked; the proxy drops
\* downlink data by its own idea.  A RESET of a blocked BVC unblocks it in the SGSN alone.
BlockedAgreed ==
    gb.up = <<>> /\ gb.down = <<>> /\ gbEnv.faults \cap {"loss", "reset_blocked"} = {} =>
        \A b \in Bss : gb.bvc[b].blocked = gb.peer[b].blocked

\* The level the SGSN reckons with never is below what the BSS sees.
BucketHonest == gb.fc.real <= gb.fc.counter
=============================================================================
