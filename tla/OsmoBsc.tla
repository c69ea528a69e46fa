--------------------------------- MODULE OsmoBsc ---------------------------------
(***************************************************************************)
(* osmo-bsc towards its MSC: the TCP link and its supervision (bsc_msc.c,  *)
(* osmo_bsc_msc.c), one SCCP connection per radio connection               *)
(* (osmo_bsc_sccp.c), BSSMAP on it (osmo_bsc_api.c, osmo_bsc_bssap.c), and *)
(* switching the transmitters with a grace period (osmo_bsc_rf.c).         *)
(*                                                                         *)
(* What the BSC sends waits in `wire' until the MSC reads it; what the MSC *)
(* sends is handled when it is sent.  A message carries its number on its  *)
(* connection, for the properties only.                                    *)
(***************************************************************************)
EXTENDS Naturals, Sequences

CONSTANTS
    Radio,      \* radio connections
    Sccps,      \* SCCP connections
    ObMaxMsg,   \* messages of one SCCP connection
    ObMaxWire,  \* messages the MSC has not read; the length of a full write queue (100 in the code)
    ObLimit,    \* more than this many queued messages of a connection: dropped (10 in the code)
    ObEnvs      \* the surroundings to consider

ObFaults == {
    "link_loss",    \* the link breaks, or the operator closes it
    "silent",       \* the MSC no longer reads, nor answers
    "slow_msc",     \* the connection is not confirmed in time
    "no_socket",    \* socket() fails
    "full"}         \* more is written than the write queue holds
\* pong_short: the pong timeout is shorter than the ping timeout (5 s and 20 s by default);
\* pings: the ping timeout is not negative, which switches the supervision off; rf: the transmitters are switched on and off.
ObEnv == [faults : SUBSET ObFaults, pong_short : BOOLEAN, pings : BOOLEAN, rf : BOOLEAN]

ASSUME ObBounds == {ObMaxMsg, ObMaxWire, ObLimit} \subseteq Nat /\ ObMaxMsg > 2 /\ 0 \notin Radio \cup Sccps
ASSUME ObEnvAssumption == ObEnvs \subseteq ObEnv

VARIABLES ob, obEnv
obVars == <<ob, obEnv>>
ObHas(fault) == fault \in obEnv.faults

ObMsg == [s : Sccps, t : {"CR", "DT", "CLEAR_REQ", "CLEAR_COMPL"}, n : 1..ObMaxMsg]
ObSccp == [st : {"free", "request", "established"}, conn : {0} \cup Radio, q : Seq(ObMsg), qs : Nat,
           cc : BOOLEAN, ciph : BOOLEAN,
           n : 0..ObMaxMsg, mute : BOOLEAN]    \* messages so far; the CLEAR REQUEST or CLEAR COMPLETE was dropped
NoSccp == [st |-> "free", conn |-> 0, q |-> <<>>, qs |-> 0, cc |-> FALSE, ciph |-> FALSE, n |-> 0, mute |-> FALSE]
ObRf == [policy : {"ON", "GRACE", "OFF"}, req : {"D_OFF", "ON", "OFF"}, delay : BOOLEAN, grace : BOOLEAN,
         check : BOOLEAN, locked : BOOLEAN, ok : BOOLEAN, oml : BOOLEAN]

ObInit ==
    /\ obEnv \in ObEnvs
    /\ ob = [link |-> "connecting", auth |-> FALSE, ping |-> FALSE, pong |-> FALSE, timeout |-> TRUE, reconnect |-> FALSE,
             sccp |-> [s \in Sccps |-> NoSccp], radio |-> [c \in Radio |-> 0],
             rf |-> [policy |-> "ON", req |-> "ON", delay |-> FALSE, grace |-> FALSE, check |-> FALSE,
                     locked |-> FALSE, ok |-> TRUE, oml |-> TRUE],
             wire |-> <<>>, alive |-> TRUE,                                        \* the MSC
             msc |-> [s \in Sccps |-> "none"], got |-> [s \in Sccps |-> 0]]

-----------------------------------------------------------------------------
(* The SCCP connections *)

Clearing == {"CLEAR_REQ", "CLEAR_COMPL"}
\* How many of k messages the write queue takes; the others are dropped, and nobody looks at the result.
Takes(w, k) == IF ~ObHas("full") \/ Len(w) + k <= ObMaxWire THEN k ELSE IF Len(w) <= ObMaxWire THEN ObMaxWire - Len(w) ELSE 0
msc_queue_write(S, s, t, n) ==
    IF Takes(S.wire, 1) = 1 THEN [S EXCEPT !.wire = Append(@, [s |-> s, t |-> t, n |-> n])]
    ELSE [S EXCEPT !.sccp[s].mute = @ \/ t \in Clearing]
\* Mutant: the length of the queue is not kept up to date.
send_queued_counts(S, s) == [S EXCEPT !.wire = @ \o S.sccp[s].q, !.sccp[s].q = <<>>]
send_queued(S, s) ==
    LET sc == S.sccp[s]
        k  == Takes(S.wire, Len(sc.q))
    IN  [S EXCEPT !.wire = S.wire \o SubSeq(sc.q, 1, k),
                  !.sccp[s] = [sc EXCEPT !.q = <<>>, !.qs = sc.qs - Len(sc.q),
                                         !.mute = @ \/ \E i \in k + 1..Len(sc.q) : sc.q[i].t \in Clearing]]
free_queued(S, s) == [S EXCEPT !.sccp[s] = [@ EXCEPT !.q = <<>>, !.qs = 0]]
bsc_delete_connection(S, s) == [S EXCEPT !.sccp[s] = NoSccp]
\* gsm0808_clear() and subscr_con_free()
FreeRadio(S, c) == IF c = 0 THEN S ELSE [S EXCEPT !.radio[c] = 0]
bsc_sccp_force_free(S, s) == bsc_delete_connection(free_queued(FreeRadio(S, S.sccp[s].conn), s), s)
bsc_close_connections(S) ==
    LET open == {s \in Sccps : S.sccp[s].st # "free"}
        conns == {S.sccp[s].conn : s \in open}
    IN  [S EXCEPT !.sccp = [s \in Sccps |-> NoSccp],
                  !.radio = [c \in Radio |-> IF c \in conns THEN 0 ELSE S.radio[c]]]

\* Mutant: a message is put before those that wait.
bsc_queue_for_msc_front(S, s, t) ==
    LET n == S.sccp[s].n + 1
        T == [S EXCEPT !.sccp[s].n = n]
    IN  IF S.sccp[s].st = "established" /\ S.sccp[s].qs = 0 THEN msc_queue_write(T, s, t, n)
        ELSE [T EXCEPT !.sccp[s].qs = @ + 1, !.sccp[s].q = <<[s |-> s, t |-> t, n |-> n]>> \o @]
bsc_queue_for_msc(S, s, t) ==
    LET sc == [S.sccp[s] EXCEPT !.n = @ + 1]
        msg == [s |-> s, t |-> t, n |-> sc.n]
    IN  IF sc.st = "established" /\ sc.qs = 0 THEN msc_queue_write([S EXCEPT !.sccp[s] = sc], s, t, sc.n)
        ELSE IF sc.qs > ObLimit THEN [S EXCEPT !.sccp[s] = [sc EXCEPT !.mute = @ \/ t = "CLEAR_REQ"]]
        ELSE [S EXCEPT !.sccp[s] = [sc EXCEPT !.qs = @ + 1, !.q = Append(@, msg)]]

bsc_grace_allow_new_connection(S) == S.rf.policy = "ON"
bsc_create_new_connection(S, c, s) == [S EXCEPT !.sccp[s] = [NoSccp EXCEPT !.conn = c], !.radio[c] = s]
bsc_open_connection(S, s) ==
    msc_queue_write([S EXCEPT !.sccp[s] = [@ EXCEPT !.cc = TRUE, !.st = "request", !.n = 1], !.got[s] = 0], s, "CR", 1)
MayConnect(S) == S.auth /\ bsc_grace_allow_new_connection(S)
bsc_compl_l3(S, c, s) == bsc_open_connection(bsc_create_new_connection(S, c, s), s)

\* What libosmo-sccp reports: the connection is confirmed, or gone.
msc_outgoing_sccp_state(S, s, state) ==
    IF state = "gone" THEN bsc_delete_connection(free_queued(FreeRadio(S, S.sccp[s].conn), s), s)
    ELSE send_queued([S EXCEPT !.sccp[s] = [@ EXCEPT !.st = "established", !.cc = FALSE]], s)
sccp_cc_timeout(S, s) == IF S.sccp[s].st = "established" THEN S ELSE bsc_sccp_force_free(S, s)

-----------------------------------------------------------------------------
(* BSSMAP: calls of the BSC API, and messages of the MSC *)

bsc_dtap(S, c) == bsc_queue_for_msc(S, S.radio[c], "DT")
bsc_assign_compl(S, c) == bsc_queue_for_msc(S, S.radio[c], "DT")
bsc_assign_fail(S, c) == bsc_queue_for_msc(S, S.radio[c], "DT")
bsc_cipher_mode_compl(S, c) == bsc_queue_for_msc(S, S.radio[c], "DT")
bsc_sapi_n_reject(S, c) == bsc_queue_for_msc(S, S.radio[c], "DT")
bsc_clear_request(S, c) ==
    bsc_queue_for_msc([S EXCEPT !.sccp[S.radio[c]].conn = 0, !.radio[c] = 0], S.radio[c], "CLEAR_REQ")

bssmap_handle_clear_command(S, s) ==
    bsc_queue_for_msc([FreeRadio(S, S.sccp[s].conn) EXCEPT !.sccp[s].conn = 0], s, "CLEAR_COMPL")
\* ok: the ciphering asked for is allowed here.
bssmap_handle_cipher_mode(S, s, ok) ==
    IF S.sccp[s].conn = 0 \/ S.sccp[s].ciph THEN bsc_queue_for_msc(S, s, "DT")
    ELSE LET T == [S EXCEPT !.sccp[s].ciph = TRUE] IN IF ok THEN T ELSE bsc_queue_for_msc(T, s, "DT")
\* ok: the channel type and the codecs asked for are supported.
bssmap_handle_assignm_req(S, s, ok) == IF S.sccp[s].conn = 0 \/ ok THEN S ELSE bsc_queue_for_msc(S, s, "DT")
dtap_rcvmsg(S, s) == S      \* to the radio connection, if there is one
bssmap_rcvmsg_dt1(S, s, t, ok) ==
    CASE t = "CLEAR_CMD" -> bssmap_handle_clear_command(S, s)
      [] t = "CIPHER_MODE_CMD" -> bssmap_handle_cipher_mode(S, s, ok)
      [] t = "ASSIGMENT_RQST" -> bssmap_handle_assignm_req(S, s, ok)
bsc_handle_dt1(S, s, t, ok) == IF t = "DTAP" THEN dtap_rcvmsg(S, s) ELSE bssmap_rcvmsg_dt1(S, s, t, ok)

-----------------------------------------------------------------------------
(* The link *)

bsc_msc_schedule_connect(S) == [S EXCEPT !.reconnect = TRUE]
\* Mutant: the SCCP connections stay.
msc_connection_was_lost_keeps(S) == bsc_msc_schedule_connect([S EXCEPT !.ping = FALSE, !.pong = FALSE, !.auth = FALSE])
msc_connection_was_lost(S) ==
    bsc_msc_schedule_connect([bsc_close_connections([S EXCEPT !.ping = FALSE, !.pong = FALSE]) EXCEPT !.auth = FALSE])
\* With the socket, what the MSC knows is gone too.
connection_loss(S) ==
    msc_connection_was_lost([S EXCEPT !.link = "down", !.msc = [s \in Sccps |-> "none"]])
bsc_msc_lost(S) == connection_loss([S EXCEPT !.wire = <<>>, !.timeout = FALSE])
\* Mutant: no timer waits for the answer.
msc_ping_timeout_cb_trusts(S) == [S EXCEPT !.ping = TRUE]
msc_ping_timeout_cb(S) == IF obEnv.pings THEN [S EXCEPT !.ping = TRUE, !.pong = TRUE] ELSE S
msc_connection_connected(S) == msc_ping_timeout_cb(S)
Connected(S) == msc_connection_connected([S EXCEPT !.link = "up", !.timeout = FALSE, !.alive = TRUE])
bsc_msc_connect(S, how) ==
    LET T == [S EXCEPT !.reconnect = FALSE]
    IN  CASE how = "in progress" -> [T EXCEPT !.link = "connecting", !.timeout = TRUE]
          [] how = "refused" -> connection_loss(T)
          [] how = "at once" -> Connected(T)
          [] how = "no socket" -> T
initialize_if_needed(S) == IF S.auth THEN S ELSE [S EXCEPT !.auth = TRUE]    \* and a BSSMAP RESET is sent

-----------------------------------------------------------------------------
(* Switching the transmitters *)

lock_each_trx(S, lock) == [S EXCEPT !.rf.locked = lock]
send_signal(S, val) == [S EXCEPT !.rf.policy = val]
switch_rf_off(S) == send_signal(lock_each_trx(S, TRUE), "OFF")
grace_timeout(S) == switch_rf_off([S EXCEPT !.rf.grace = FALSE])
enter_grace(S) == send_signal([S EXCEPT !.rf.grace = TRUE], "GRACE")
\* Mutant: switching on leaves the grace timer running.
rf_delay_cmd_cb_late(S) ==
    CASE S.rf.req = "D_OFF" -> switch_rf_off([S EXCEPT !.rf.check = FALSE, !.rf.grace = FALSE])
      [] S.rf.req = "ON" -> [send_signal(lock_each_trx(S, FALSE), "ON") EXCEPT !.rf.check = TRUE]
      [] S.rf.req = "OFF" -> enter_grace([S EXCEPT !.rf.check = FALSE])
rf_delay_cmd_cb(S) ==
    CASE S.rf.req = "D_OFF" -> switch_rf_off([S EXCEPT !.rf.check = FALSE, !.rf.grace = FALSE])
      [] S.rf.req = "ON" ->
           [send_signal(lock_each_trx([S EXCEPT !.rf.grace = FALSE], FALSE), "ON") EXCEPT !.rf.check = TRUE]
      [] S.rf.req = "OFF" -> enter_grace([S EXCEPT !.rf.check = FALSE])
rf_read_cmd(S, cmd) == [S EXCEPT !.rf.req = cmd, !.rf.delay = TRUE]
rf_check_cb(S) ==
    [S EXCEPT !.rf.check = FALSE, !.rf.oml = @ /\ S.rf.ok /\ ~S.rf.locked]
set_net_rf_lock(S, locked) == lock_each_trx(S, locked)

-----------------------------------------------------------------------------
ObBecomes(S) == ob' = S /\ UNCHANGED obEnv
\* Bound: with the transmitters switched, a connection is only opened and cleared; three numbers and places are kept for CR, CLEAR REQUEST and CLEAR COMPLETE.
ObRoom(s) == ~obEnv.rf /\ ob.sccp[s].n + 2 < ObMaxMsg /\ (ObHas("full") \/ Len(ob.wire) < ObMaxWire)

\* A number of an SCCP connection is not used again while a message with it is under way.
Unused(s) == ob.sccp[s].st = "free" /\ ob.msc[s] = "none" /\ \A i \in 1..Len(ob.wire) : ob.wire[i].s # s
ComplL3(c) == ob.radio[c] = 0 /\ MayConnect(ob) /\ \E s \in Sccps : Unused(s) /\ ObBecomes(bsc_compl_l3(ob, c, s))
RadioSends(c) ==
    /\ ob.radio[c] # 0 /\ ObRoom(ob.radio[c])
    /\ \/ ObBecomes(bsc_dtap(ob, c))
       \/ ObBecomes(bsc_assign_compl(ob, c))
       \/ ObBecomes(bsc_assign_fail(ob, c))
       \/ ob.sccp[ob.radio[c]].ciph /\ ObBecomes(bsc_cipher_mode_compl(ob, c))
       \/ ObBecomes(bsc_sapi_n_reject(ob, c))
RadioLost(c) == ob.radio[c] # 0 /\ ObBecomes(bsc_clear_request(ob, c))
\* An MSC that is alive and not slow confirms in time, if the CR has reached it.
CcTimeout(s) ==
    /\ ob.sccp[s].cc
    /\ ob.alive => ObHas("slow_msc") \/ (ob.msc[s] = "none" /\ \A i \in 1..Len(ob.wire) : ob.wire[i].s # s)
    /\ ObBecomes(sccp_cc_timeout(ob, s))

MscReads ==
    /\ ob.link = "up" /\ ob.alive /\ ob.wire # <<>>
    /\ LET m == Head(ob.wire)
           state == CASE m.t = "CR" -> "asked"
                      [] m.t = "CLEAR_REQ" /\ ob.msc[m.s] = "up" -> "clear"
                      [] m.t = "CLEAR_COMPL" /\ ob.msc[m.s] \in {"up", "clear", "cleared"} -> "done"
                      [] OTHER -> ob.msc[m.s]
       IN  ObBecomes([ob EXCEPT !.wire = Tail(@), !.got[m.s] = m.n, !.msc[m.s] = state])
\* The MSC confirms or refuses; a confirmation finds the connection gone after the timeout.
MscConfirms(s, ok) ==
    /\ ob.link = "up" /\ ob.alive /\ ob.msc[s] = "asked"
    /\ LET T == [ob EXCEPT !.msc[s] = IF ok /\ ob.sccp[s].st = "request" THEN "up" ELSE "none"]
       IN  ObBecomes(IF ob.sccp[s].st # "request" THEN T
                     ELSE msc_outgoing_sccp_state(T, s, IF ok THEN "established" ELSE "gone"))
MscSends(s, t, ok) ==
    /\ ob.link = "up" /\ ob.alive /\ ob.msc[s] \in {"up", "clear"}
    /\ t # "CLEAR_CMD" => ObRoom(s)
    /\ LET T == IF t = "CLEAR_CMD" THEN [ob EXCEPT !.msc[s] = "cleared"] ELSE ob
       IN  ObBecomes(bsc_handle_dt1(T, s, t, ok))
MscReleases(s) ==
    /\ ob.link = "up" /\ ob.alive /\ ob.msc[s] = "done"
    /\ ObBecomes(msc_outgoing_sccp_state([ob EXCEPT !.msc[s] = "none"], s, "gone"))

IdAck == ob.link = "up" /\ ob.alive /\ ~ob.auth /\ ObBecomes(initialize_if_needed(ob))
Pong == ob.link = "up" /\ ob.alive /\ ob.pong /\ ObBecomes([ob EXCEPT !.pong = FALSE])
\* A pong timer that is not the shorter one is started anew by every ping.
PingTimeout == ob.ping /\ (obEnv.pong_short => ~ob.pong) /\ ObBecomes(msc_ping_timeout_cb([ob EXCEPT !.ping = FALSE]))
PongTimeout == ob.pong /\ ~ob.alive /\ obEnv.pong_short /\ ObBecomes(bsc_msc_lost([ob EXCEPT !.pong = FALSE]))
LinkLost == ObHas("link_loss") /\ ob.link = "up" /\ ObBecomes(bsc_msc_lost(ob))
GoesSilent == ObHas("silent") /\ ob.link = "up" /\ ob.alive /\ ObBecomes([ob EXCEPT !.alive = FALSE])
ConnectEnds ==
    /\ ob.link = "connecting"
    /\ \/ ObBecomes(Connected(ob))
       \/ ObHas("link_loss") /\ ObBecomes(connection_loss([ob EXCEPT !.timeout = FALSE]))
ConTimeout == ObHas("link_loss") /\ ob.timeout /\ ObBecomes(bsc_msc_lost(ob))
Reconnect ==
    /\ ob.reconnect
    /\ \E how \in {"in progress", "refused", "at once", "no socket"} :
          (how = "no socket" => ObHas("no_socket")) /\ ObBecomes(bsc_msc_connect(ob, how))

RfCommand(cmd) == obEnv.rf /\ ObBecomes(rf_read_cmd(ob, cmd))
RfDelayed == ob.rf.delay /\ ObBecomes(rf_delay_cmd_cb([ob EXCEPT !.rf.delay = FALSE]))
GraceTimeout == ob.rf.grace /\ ObBecomes(grace_timeout(ob))
RfCheck == ob.rf.check /\ ObBecomes(rf_check_cb(ob))
CtrlLock(locked) == obEnv.rf /\ ObBecomes(set_net_rf_lock(ob, locked))
OmlChanges == obEnv.rf /\ (ObBecomes([ob EXCEPT !.rf.oml = TRUE]) \/ ObBecomes([ob EXCEPT !.rf.ok = ~@]))

ObNext ==
    \/ \E c \in Radio : ComplL3(c) \/ RadioSends(c) \/ RadioLost(c)
    \/ \E s \in Sccps : CcTimeout(s) \/ MscReleases(s) \/ \E ok \in BOOLEAN : MscConfirms(s, ok)
    \/ \E s \in Sccps, t \in {"CLEAR_CMD", "CIPHER_MODE_CMD", "ASSIGMENT_RQST", "DTAP"}, ok \in BOOLEAN : MscSends(s, t, ok)
    \/ MscReads \/ IdAck \/ Pong \/ PingTimeout \/ PongTimeout \/ LinkLost \/ GoesSilent
    \/ ConnectEnds \/ ConTimeout \/ Reconnect
    \/ \E cmd \in {"D_OFF", "ON", "OFF"} : RfCommand(cmd)
    \/ \E locked \in BOOLEAN : CtrlLock(locked)
    \/ RfDelayed \/ GraceTimeout \/ RfCheck \/ OmlChanges

\* Timers expire, the link is served; an MSC that is alive reads, confirms what it read, and
\* answers a CLEAR REQUEST and a CLEAR COMPLETE.
ObFairness ==
    /\ WF_obVars(PingTimeout) /\ WF_obVars(PongTimeout) /\ WF_obVars(MscReads)
    /\ \A s \in Sccps : /\ WF_obVars(CcTimeout(s)) /\ WF_obVars(MscConfirms(s, TRUE)) /\ WF_obVars(MscReleases(s))
                        /\ WF_obVars(ob.msc[s] = "clear" /\ MscSends(s, "CLEAR_CMD", TRUE))
ObSpec == ObInit /\ [][ObNext]_obVars /\ ObFairness

-----------------------------------------------------------------------------
(* Properties *)

\* The messages of a connection, queued until it is confirmed or not, reach the MSC in order.
Numbers(w, s) == {w[i].n : i \in {j \in 1..Len(w) : w[j].s = s}}
Link == INSTANCE FifoLink WITH
    FlCons <- Sccps, FlMsgs <- 1..ObMaxMsg, got <- ob.got,
    chan <- [s \in Sccps |-> Numbers(ob.wire, s) \cup Numbers(ob.sccp[s].q, s)]
InOrderToMsc == Link!FlSpec

\* Without the link no SCCP connection, no radio connection that thinks it has one and no
\* supervision timer is left, and something is under way to bring the link back.
LossFreesAll ==
    /\ \A c \in Radio : ob.radio[c] # 0 => ob.sccp[ob.radio[c]].conn = c
    /\ \A s \in Sccps : ob.sccp[s].conn # 0 => ob.radio[ob.sccp[s].conn] = s
    /\ ob.link # "up" =>
          /\ \A s \in Sccps : ob.sccp[s].st = "free"
          /\ ~ob.auth /\ ~ob.ping /\ ~ob.pong
          /\ ob.reconnect \/ ob.timeout \/ ObHas("no_socket")

\* An MSC that no longer answers is noticed, if the pong timeout is the shorter one and pings are sent.
Supervises == obEnv.pings /\ obEnv.pong_short
SilenceNoticed == (ob.link = "up" /\ ~ob.alive /\ Supervises) ~> (ob.link # "up")

\* An SCCP connection that has lost its radio connection ends, by the MSC or, where silence is noticed, with the link;
\* unless its CLEAR REQUEST or CLEAR COMPLETE is dropped by a queue that is full: nobody sends it again.
LostRadioEnds ==
    \A s \in Sccps :
        (ob.sccp[s].st # "free" /\ ob.sccp[s].conn = 0 /\ Supervises) ~>
            (ob.sccp[s].st = "free" \/ ob.sccp[s].conn # 0 \/ ob.sccp[s].mute)

\* The last command wins: transmitters that are on are not switched off by an older one.
RfFollows ==
    /\ ob.rf.grace <=> ob.rf.policy = "GRACE"
    /\ ob.rf.check => ob.rf.policy = "ON"
    /\ ~ob.rf.delay => ob.rf.policy \in (CASE ob.rf.req = "ON" -> {"ON"} [] ob.rf.req = "D_OFF" -> {"OFF"}
                                           [] ob.rf.req = "OFF" -> {"GRACE", "OFF"})
=============================================================================
