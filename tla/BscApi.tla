-------------------------------- MODULE BscApi --------------------------------
(***************************************************************************)
(* Subscriber connections and the channels they hold: bsc_api.c and        *)
(* handover_logic.c on top of LchanOps.  A connection has a main channel,  *)
(* during an assignment a secondary channel, during a handover a handover  *)
(* channel; channels point back at their connection, and handover records  *)
(* name channels.  The module is about those pointers.                     *)
(*                                                                         *)
(* The functions of the two files are operators on one record, net, since  *)
(* a single message may run through several of them.  net.bad collects the *)
(* lines the program must not reach: a null pointer followed, a message    *)
(* the code itself calls a bug.  After one the program is gone (Crashed).  *)
(*                                                                         *)
(* Guard timers, RLL requests and a silent BTS are the subject of module   *)
(* Lchan and left out: the BTS answers, data links are those of SAPI 0.    *)
(***************************************************************************)
EXTENDS LchanOps, FiniteSets

CONSTANTS
    Lchans, Pchan,   \* channels, and the configuration of their slot
    NoLchan,         \* the null pointer for channels
    Envs,            \* the surroundings to consider, a subset of Env
    MaxOut           \* bound: commands under way to the BTS on one channel

FaultKinds == {
    "nack",          \* the BTS refuses an activation
    "radio",         \* CONNECTION FAILURE on a channel in use
    "slow_bts",      \* a channel is given up before the BTS has activated it
    "late_ms",       \* the MS answers an order after its timer has expired
    "reassign",      \* the MSC asks for an assignment while one is going on
    "early_ho"}      \* a measurement report of a channel the MS is only moving to
                     \* starts a handover

\* nitb: the MSC side is osmo-nitb's msc_handler, not osmo-bsc's bsc_handler;
\* assignments: the MSC side asks for them.
Env == [nitb : BOOLEAN, assignments : BOOLEAN, faults : SUBSET FaultKinds]

ASSUME ApiPchanAssumption == Pchan \in [Lchans -> {"SDCCH", "TCH_F"}]
ASSUME ApiNullAssumption == NoLchan \notin Lchans
ASSUME ApiEnvAssumption == Envs \subseteq Env
ASSUME ApiBoundsAssumption == MaxOut \in Nat

VARIABLES
    net,   \* [lc, conn, ho, bad]
    bts,   \* [Lchans -> [active, main]]: channel active, main link of an MS up
    ms,    \* [Conns -> set of orders the MS has been given]
    env    \* the surroundings; they do not change

vars == <<net, bts, ms, env>>

Nitb == env.nitb
Assignments == env.assignments
Faults == env.faults

MaybeLchan == Lchans \cup {NoLchan}
Conn == [alive : BOOLEAN, lchan : MaybeLchan, secondary_lchan : MaybeLchan,
         ho_lchan : MaybeLchan, T10 : BOOLEAN]
Handover == [old_lchan : Lchans, new_lchan : Lchans, T3103 : BOOLEAN]
Order == [cmd : {"ASS", "HO", "MOD"}, old : Lchans, new : Lchans]
Bad == {"lost_state", "not_cleared",                     \* the code calls it a bug
        "null_assign_fail", "null_lchan", "null_old_conn", "null_new_conn"}

NoConnection == [alive |-> FALSE, lchan |-> NoLchan, secondary_lchan |-> NoLchan,
                 ho_lchan |-> NoLchan, T10 |-> FALSE]

TypeOK ==
    /\ net.lc \in [Lchans -> Lchan]
    /\ net.conn \in [Conns -> Conn]
    /\ net.ho \subseteq Handover
    /\ net.bad \subseteq Bad
    /\ bts \in [Lchans -> [active : BOOLEAN, main : BOOLEAN]]
    /\ ms \in [Conns -> SUBSET Order]
    /\ env \in Envs

Init ==
    /\ net = [lc |-> [l \in Lchans |-> LchanInit], conn |-> [k \in Conns |-> NoConnection],
              ho |-> {}, bad |-> {}]
    /\ bts = [l \in Lchans |-> [active |-> FALSE, main |-> FALSE]]
    /\ ms = [k \in Conns |-> {}]
    /\ env \in Envs

Fails(S, what) == [S EXCEPT !.bad = @ \cup {what}]

-----------------------------------------------------------------------------
(* bsc_api.c and handover_logic.c as operators *)

Release(S, l, sach_deact, reason) ==
    [S EXCEPT !.lc[l] = lchan_release(@, sach_deact, reason)]

\* msc_handler has no assign_fail(), and no caller but that of CHANNEL MODE MODIFY
\* ACKNOWLEDGE looks.
assign_fail(S) == IF Nitb THEN Fails(S, "null_assign_fail") ELSE S

subscr_con_allocate(S, k, l) ==
    [S EXCEPT !.conn[k] = [NoConnection EXCEPT !.alive = TRUE, !.lchan = l], !.lc[l].conn = k]

Held(S, k) == {S.conn[k].lchan, S.conn[k].secondary_lchan, S.conn[k].ho_lchan} \ {NoLchan}

subscr_con_free(S, k) ==
    LET T == IF Held(S, k) = {} THEN S ELSE Fails(S, "not_cleared") IN
    [T EXCEPT !.conn[k] = NoConnection,
              !.lc = [l \in Lchans |->
                        IF l \in Held(S, k) THEN [@[l] EXCEPT !.conn = NoConn] ELSE @[l]]]

bsc_clear_handover(S, k, free_lchan) ==
    LET new == S.conn[k].ho_lchan
        hs  == {h \in S.ho : h.new_lchan = new}
        T   == [S EXCEPT !.lc[new].conn = NoConn, !.conn[k].ho_lchan = NoLchan, !.ho = @ \ hs]
    IN  IF hs = {} THEN Fails(S, "lost_state")
        ELSE IF free_lchan THEN Release(T, new, FALSE, "LOCAL_END") ELSE T

\* gsm0808_clear() gives up the handover, the secondary and the main channel.
ClearHandover(S, k) ==
    IF S.conn[k].ho_lchan = NoLchan THEN S ELSE bsc_clear_handover(S, k, TRUE)
ClearSecondary(S, k) ==
    IF S.conn[k].secondary_lchan = NoLchan THEN S
    ELSE Release(S, S.conn[k].secondary_lchan, FALSE, "LOCAL_END")
ClearMain(S, k) ==
    IF S.conn[k].lchan = NoLchan THEN S ELSE Release(S, S.conn[k].lchan, TRUE, "NORMAL")

\* Mutant: the pointer to the secondary channel stays.
gsm0808_clear_keeps_secondary(S, k) ==
    [ClearMain(ClearSecondary(ClearHandover(S, k), k), k) EXCEPT
        !.conn[k].lchan = NoLchan, !.conn[k].T10 = FALSE]

gsm0808_clear(S, k) ==
    [ClearMain(ClearSecondary(ClearHandover(S, k), k), k) EXCEPT
        !.conn[k].lchan = NoLchan, !.conn[k].secondary_lchan = NoLchan,
        !.conn[k].ho_lchan = NoLchan, !.conn[k].T10 = FALSE]

\* S_LCHAN_UNEXPECTED_RELEASE: channel l of connection k is being freed.  Both
\* MSC sides answer clear_request() with 1: the connection goes.
handle_release(S, k, l) ==
    LET S1 == IF S.conn[k].secondary_lchan # l THEN S
              ELSE assign_fail([S EXCEPT !.conn[k].T10 = FALSE,
                                         !.conn[k].secondary_lchan = NoLchan])
        S2 == IF S1.conn[k].lchan = l THEN [S1 EXCEPT !.conn[k].lchan = NoLchan] ELSE S1
        S3 == IF S2.conn[k].ho_lchan # l THEN S2
              ELSE [bsc_clear_handover(S2, k, FALSE) EXCEPT !.conn[k].ho_lchan = NoLchan]
    IN  IF S1.bad # {} THEN S1
        ELSE subscr_con_free(gsm0808_clear([S3 EXCEPT !.lc[l].conn = NoConn], k), k)

\* lchan_free() with its signal; c is what LchanOps makes of the channel.
Freed(S, l, c) ==
    LET T == [S EXCEPT !.lc[l] = c] IN
    IF S.lc[l].conn = NoConn THEN T ELSE handle_release(T, S.lc[l].conn, l)

\* handle_chan_nack() and ho_chan_activ_nack(); T10 runs on.
ActivateNack(S, l) ==
    LET k  == S.lc[l].conn
        hs == {h \in S.ho : h.new_lchan = l}
        S1 == IF k # NoConn /\ S.conn[k].secondary_lchan = l
              THEN [S EXCEPT !.lc[l].conn = NoConn, !.conn[k].secondary_lchan = NoLchan] ELSE S
    IN  IF hs = {} THEN S1
        ELSE IF S1.lc[l].conn = NoConn THEN Fails(S1, "null_new_conn")
        ELSE [S1 EXCEPT !.conn[S1.lc[l].conn].ho_lchan = NoLchan, !.lc[l].conn = NoConn,
                        !.ho = @ \ hs]

\* handle_chan_ack() and ho_chan_activ_ack(): the orders they send to the MS ...
OrdersOnAck(S, l) ==
    LET k == S.lc[l].conn IN
    (IF k # NoConn /\ S.conn[k].secondary_lchan = l
     THEN {[cmd |-> "ASS", old |-> S.conn[k].lchan, new |-> l]} ELSE {})
    \cup {[cmd |-> "HO", old |-> h.old_lchan, new |-> l] : h \in {g \in S.ho : g.new_lchan = l}}

\* ... and T3103.
ActivateAck(S, l) ==
    [S EXCEPT !.ho = {IF h.new_lchan = l THEN [h EXCEPT !.T3103 = TRUE] ELSE h : h \in @}]

handle_new_assignment(S, k, l) ==
    [S EXCEPT !.lc[l] = rsl_lchan_set_state(
                            rsl_chan_activate_lchan([lchan_take(@, Pchan[l]) EXCEPT !.conn = k]),
                            "ACT_REQ"),
              !.conn[k].secondary_lchan = l]

bsc_handover_start(S, old, l) ==
    LET k == S.lc[old].conn IN
    [S EXCEPT !.lc[l] = rsl_lchan_set_state(
                            rsl_chan_activate_lchan([lchan_take(@, Pchan[l]) EXCEPT !.conn = k]),
                            "ACT_REQ"),
              !.conn[k].ho_lchan = l,
              !.ho = @ \cup {[old_lchan |-> old, new_lchan |-> l, T3103 |-> FALSE]}]

\* Mutant: the secondary channel is dropped without being released.
assignment_t10_timeout_no_release(S, k) ==
    LET T == IF S.conn[k].secondary_lchan = NoLchan THEN S
             ELSE [S EXCEPT !.lc[S.conn[k].secondary_lchan].conn = NoConn]
    IN  assign_fail([T EXCEPT !.conn[k].secondary_lchan = NoLchan, !.conn[k].T10 = FALSE])

assignment_t10_timeout(S, k) ==
    LET T == IF S.conn[k].secondary_lchan = NoLchan THEN S
             ELSE Release(S, S.conn[k].secondary_lchan, FALSE, "LOCAL_END")
    IN  assign_fail([T EXCEPT !.conn[k].secondary_lchan = NoLchan, !.conn[k].T10 = FALSE])

\* ASSIGNMENT COMPLETE on channel l.
handle_ass_compl(S, k, l) ==
    IF S.conn[k].secondary_lchan # l THEN S
    ELSE LET T == Release(S, S.conn[k].lchan, FALSE, "LOCAL_END") IN
         [T EXCEPT !.conn[k].lchan = l, !.conn[k].secondary_lchan = NoLchan, !.conn[k].T10 = FALSE]

\* ASSIGNMENT FAILURE on channel l.
handle_ass_fail(S, k, l) ==
    IF S.conn[k].lchan # l THEN S
    ELSE IF S.conn[k].secondary_lchan = NoLchan THEN Fails(S, "null_lchan")
    ELSE LET T == Release(S, S.conn[k].secondary_lchan, FALSE, "LOCAL_END") IN
         assign_fail([T EXCEPT !.conn[k].secondary_lchan = NoLchan, !.conn[k].T10 = FALSE])

\* The end of a handover without success: ho_T3103_cb() and ho_gsm48_ho_fail().
HandoverFailed(S, h) ==
    LET l == h.new_lchan
        T == [S EXCEPT !.ho = @ \ {h}]
    IN  IF S.lc[l].conn = NoConn THEN Fails(S, "null_new_conn")
        ELSE Release([T EXCEPT !.conn[S.lc[l].conn].ho_lchan = NoLchan], l, FALSE, "LOCAL_END")

ho_gsm48_ho_compl(S, h) ==
    LET l == h.new_lchan
        k == S.lc[l].conn
        T == [S EXCEPT !.conn[k].ho_lchan = NoLchan, !.conn[k].lchan = l, !.ho = @ \ {h}]
    IN  IF k = NoConn THEN Fails(S, "null_new_conn")
        ELSE IF S.lc[h.old_lchan].conn = NoConn THEN Fails(S, "null_old_conn")
        ELSE Release(T, h.old_lchan, FALSE, "LOCAL_END")

-----------------------------------------------------------------------------
(* Guards *)

Queue(l) == net.lc[l].out
Room(l) == Len(Queue(l)) < MaxOut
AllRoom == \A l \in Lchans : Room(l)
Running == net.bad = {}
Free(type) == {l \in Lchans : Pchan[l] = type /\ LchanIsFree(net.lc[l]) /\ Room(l)}

\* A channel that may be released now without overtaking its activation.
Settled(k) == \A l \in Held(net, k) : net.lc[l].state # "ACT_REQ" \/ "slow_bts" \in Faults

\* A step of the program.  Orders die with the connection they were sent on.
Becomes(S) == net' = S
Orders(f) == ms' = [k \in Conns |-> IF net'.conn[k].alive THEN f[k] ELSE {}]

-----------------------------------------------------------------------------
(* Channel requests and the BTS *)

rsl_rx_chan_rqd(type) ==
    /\ Running
    /\ \E l \in Free(type) :
        Becomes([net EXCEPT !.lc[l] = rsl_chan_activate_lchan(
                    [lchan_take(@, Pchan[l]) EXCEPT
                        !.state = "ACT_REQ", !.rqd_ref = TRUE, !.act_timer = "act"])])
    /\ UNCHANGED <<bts, ms, env>>

Cmd(l, mt) == Running /\ Queue(l) # <<>> /\ Head(Queue(l)).mt = mt
Pop(l) == [net EXCEPT !.lc[l].out = Tail(@)]

ChanActivAck(l) ==
    LET S == [Pop(l) EXCEPT !.lc[l] = rsl_rx_chan_act_ack(@)]
        k == S.lc[l].conn
    IN
    /\ Cmd(l, "CHAN_ACTIV") /\ ~bts[l].active
    /\ bts' = [bts EXCEPT ![l] = [active |-> TRUE, main |-> FALSE]]
    /\ Becomes(ActivateAck(S, l))
    /\ ms' = IF k = NoConn THEN ms ELSE [ms EXCEPT ![k] = @ \cup OrdersOnAck(S, l)]
    /\ UNCHANGED env

ChanActivNack(l) ==
    /\ Cmd(l, "CHAN_ACTIV") /\ ("nack" \in Faults \/ bts[l].active)
    /\ LET S == ActivateNack(Pop(l), l) IN
       Becomes(Freed(S, l, rsl_rx_chan_act_nack(S.lc[l],
                               IF bts[l].active THEN "ALR_ACTV" ELSE "OTHER")))
    /\ Orders(ms)
    /\ UNCHANGED <<bts, env>>

RfChanRelAck(l) ==
    /\ Cmd(l, "RF_CHAN_REL")
    /\ bts' = [bts EXCEPT ![l] = [active |-> FALSE, main |-> FALSE]]
    /\ Becomes(Freed(Pop(l), l, rsl_rx_rf_chan_rel_ack(Pop(l).lc[l])))
    /\ Orders(ms)
    /\ UNCHANGED env

\* A local end release is confirmed in any state of the link.
RelConf(l) ==
    LET local == Head(Queue(l)).mode = "LOCAL_END" IN
    /\ Cmd(l, "REL_REQ")
    /\ IF bts[l].active /\ (local \/ bts[l].main)
       THEN /\ bts' = [bts EXCEPT ![l].main = FALSE]
            /\ Becomes([Pop(l) EXCEPT !.lc[l] = rll_rel_conf(@, 0)])
       ELSE Becomes(Pop(l)) /\ UNCHANGED bts
    /\ UNCHANGED <<ms, env>>

\* The MS answers CHANNEL RELEASE by leaving.
RrChanRel(l) ==
    /\ Cmd(l, "RR_CHAN_REL")
    /\ IF bts[l].main
       THEN /\ bts' = [bts EXCEPT ![l].main = FALSE]
            /\ Becomes([Pop(l) EXCEPT !.lc[l] = rll_rel_ind(@, 0)])
       ELSE Becomes(Pop(l)) /\ UNCHANGED bts
    /\ UNCHANGED <<ms, env>>

ConnFail(l) ==
    /\ Running /\ "radio" \in Faults /\ bts[l].active /\ Room(l)
    /\ net.lc[l].state = "ACTIVE"
    /\ Becomes([net EXCEPT !.lc[l] = rsl_rx_conn_fail(@)])
    /\ UNCHANGED <<bts, ms, env>>

BtsAnswers(l) ==
    ChanActivAck(l) \/ ChanActivNack(l) \/ RfChanRelAck(l) \/ RelConf(l) \/ RrChanRel(l)

-----------------------------------------------------------------------------
(* The mobile station *)

\* First message on a channel without connection: gsm0408_rcvmsg() asks the MSC
\* side, which always accepts in osmo-nitb.  The MS comes where IMMEDIATE ASSIGNMENT
\* told it to, while T3101 waits for it.
MsAccess(l, k) ==
    LET S == [net EXCEPT !.lc[l] = rll_est_ind(@, 0)] IN
    /\ Running /\ bts[l].active /\ ~bts[l].main /\ Room(l)
    /\ net.lc[l].state = "ACTIVE" /\ net.lc[l].conn = NoConn /\ net.lc[l].T3101
    /\ ~net.conn[k].alive
    /\ bts' = [bts EXCEPT ![l].main = TRUE]
    /\ \/ Becomes(subscr_con_allocate(S, k, l))
       \/ ~Nitb /\ Becomes(Release(S, l, FALSE, "NORMAL"))
    /\ UNCHANGED <<ms, env>>

\* The MS obeys an order and sets up its link on the new channel ...
MsMoves(k, o) ==
    /\ Running /\ o \in ms[k] /\ o.cmd \in {"ASS", "HO"}
    /\ bts[o.new].active /\ ~bts[o.new].main /\ net.lc[o.new].state = "ACTIVE"
    /\ bts' = [bts EXCEPT ![o.new].main = TRUE]
    /\ Becomes([net EXCEPT !.lc[o.new] = rll_est_ind(@, 0)])
    /\ UNCHANGED <<ms, env>>

Done(k, o) == Orders([ms EXCEPT ![k] = @ \ {o}])

\* A layer 3 message that gets through gsm0408_rcvmsg() to connection k.
Delivered(l, k) ==
    Running /\ bts[l].main /\ net.lc[l].state = "ACTIVE" /\ net.lc[l].conn = k /\ AllRoom

\* ... and reports there,
MsCompletes(k, o) ==
    /\ o \in ms[k] /\ o.cmd \in {"ASS", "HO"} /\ Delivered(o.new, k)
    /\ \/ o.cmd = "ASS" /\ Becomes(handle_ass_compl(net, k, o.new))
       \/ /\ o.cmd = "HO"
          /\ \/ \E h \in {g \in net.ho : g.new_lchan = o.new} : Becomes(ho_gsm48_ho_compl(net, h))
             \/ (\A h \in net.ho : h.new_lchan # o.new) /\ Becomes(net)
    /\ Done(k, o)
    /\ UNCHANGED <<bts, env>>

\* or reports a failure on the old one, to which it has gone back,
MsFails(k, o) ==
    /\ o \in ms[k] /\ o.cmd \in {"ASS", "HO"} /\ Delivered(o.old, k)
    /\ \/ o.cmd = "ASS" /\ Becomes(handle_ass_fail(net, k, o.old))
       \/ /\ o.cmd = "HO"
          /\ \/ \E h \in {g \in net.ho : g.old_lchan = o.old} : Becomes(HandoverFailed(net, h))
             \/ (\A h \in net.ho : h.old_lchan # o.old) /\ Becomes(net)
    /\ Done(k, o)
    /\ UNCHANGED <<bts, env>>

\* or acknowledges CHANNEL MODE MODIFY; whatever the mode, T10 is stopped,
MsModifies(k, o) ==
    /\ o \in ms[k] /\ o.cmd = "MOD" /\ Delivered(o.old, k)
    /\ Becomes([net EXCEPT !.conn[k].T10 = FALSE])
    /\ Done(k, o)
    /\ UNCHANGED <<bts, env>>

\* or never reports.
MsIgnores(k, o) ==
    /\ Running /\ o \in ms[k]
    /\ Becomes(net) /\ Done(k, o)
    /\ UNCHANGED <<bts, env>>

-----------------------------------------------------------------------------
(* The MSC side and the handover decision *)

gsm0808_assign_req(k) ==
    LET main == net.conn[k].lchan IN
    /\ Running /\ Assignments /\ net.conn[k].alive /\ main # NoLchan
    /\ ~net.conn[k].T10 \/ "reassign" \in Faults
    /\ \/ /\ net.lc[main].type = "SDCCH"
          /\ \/ \E l \in Free("TCH_F") :
                  Becomes([handle_new_assignment(net, k, l) EXCEPT !.conn[k].T10 = TRUE])
             \/ Free("TCH_F") = {} /\ Becomes(assign_fail(net))
          /\ UNCHANGED ms
       \/ /\ net.lc[main].type # "SDCCH"
          /\ Becomes([net EXCEPT !.conn[k].T10 = TRUE])
          /\ ms' = [ms EXCEPT ![k] = @ \cup {[cmd |-> "MOD", old |-> main, new |-> main]}]
    /\ UNCHANGED <<bts, env>>

\* CLEAR COMMAND, loss of the SCCP connection, or msc_release_connection().
MscClears(k) ==
    /\ Running /\ net.conn[k].alive /\ AllRoom /\ Settled(k)
    /\ Becomes(subscr_con_free(gsm0808_clear(net, k), k))
    /\ Orders(ms)
    /\ UNCHANGED <<bts, env>>

\* A measurement report of a traffic channel makes attempt_handover() start one;
\* only osmo-nitb loads the handover decision.
StartHandover(old) ==
    LET k == net.lc[old].conn IN
    /\ Running /\ Nitb /\ bts[old].main
    /\ net.lc[old].type = "TCH_F" /\ k # NoConn
    /\ net.conn[k].lchan = old \/ "early_ho" \in Faults
    /\ \A h \in net.ho : h.old_lchan # old
    /\ \E l \in Free("TCH_F") : Becomes(bsc_handover_start(net, old, l))
    /\ UNCHANGED <<bts, ms, env>>

-----------------------------------------------------------------------------
(* Timers *)

T10Expires(k) ==
    /\ Running /\ net.conn[k].T10 /\ AllRoom /\ Settled(k)
    /\ ms[k] = {} \/ "late_ms" \in Faults
    /\ Becomes(assignment_t10_timeout(net, k))
    /\ Orders(ms)
    /\ UNCHANGED <<bts, env>>

T3103Expires(h) ==
    /\ Running /\ h \in net.ho /\ h.T3103 /\ AllRoom
    /\ (\A k \in Conns : \A o \in ms[k] : o.new # h.new_lchan) \/ "late_ms" \in Faults
    /\ Becomes(HandoverFailed(net, h))
    /\ Orders(ms)
    /\ UNCHANGED <<bts, env>>

ChannelTimer(l) ==
    /\ Running /\ Room(l)
    /\ \/ net.lc[l].T3101 /\ Becomes([net EXCEPT !.lc[l] = t3101_expired(@)])
       \/ net.lc[l].T3111 /\ Becomes([net EXCEPT !.lc[l] = t3111_expired(@)])
       \/ /\ net.lc[l].error_timer /\ \A i \in DOMAIN Queue(l) : Queue(l)[i].mt # "RF_CHAN_REL"
          /\ Becomes([net EXCEPT !.lc[l] = error_timeout_cb(@)])
    /\ UNCHANGED <<bts, ms, env>>

\* A null pointer was followed.
Crashed == ~Running /\ UNCHANGED vars

-----------------------------------------------------------------------------

Next ==
    \/ \E type \in {"SDCCH", "TCH_F"} : rsl_rx_chan_rqd(type)
    \/ \E l \in Lchans :
        \/ BtsAnswers(l) \/ ConnFail(l) \/ ChannelTimer(l) \/ StartHandover(l)
        \/ \E k \in Conns : MsAccess(l, k)
    \/ \E k \in Conns :
        \/ gsm0808_assign_req(k) \/ MscClears(k) \/ T10Expires(k)
        \/ \E o \in ms[k] : \/ MsMoves(k, o) \/ MsCompletes(k, o) \/ MsFails(k, o)
                            \/ MsModifies(k, o) \/ MsIgnores(k, o)
    \/ \E h \in net.ho : T3103Expires(h)
    \/ Crashed

Spec == Init /\ [][Next]_vars

\* The BTS answers and timers run out; the MS answers its orders or loses them,
\* so that the timers waiting for it may expire.
Fairness ==
    /\ \A l \in Lchans : WF_vars(BtsAnswers(l)) /\ WF_vars(ChannelTimer(l))
    /\ \A k \in Conns : WF_vars(T10Expires(k))
    /\ \A k \in Conns : WF_vars(\E o \in ms[k] : MsCompletes(k, o) \/ MsIgnores(k, o))
    /\ \A l \in Lchans : WF_vars(\E h \in net.ho : h.new_lchan = l /\ T3103Expires(h))

FairSpec == Spec /\ Fairness

-----------------------------------------------------------------------------
(* Properties *)

\* Pointers between connections and channels are mutual: a channel names the
\* connection that holds it, and no channel names one that is gone.
PointersMutual ==
    \A l \in Lchans, k \in Conns :
        net.lc[l].conn = k <=> net.conn[k].alive /\ l \in Held(net, k)

\* A handover record leads from a channel of a living connection to the handover
\* channel of the same connection, so that T3103, HANDOVER COMPLETE and HANDOVER
\* FAIL find what they follow.
HandoverAnchored ==
    \A h \in net.ho :
        LET k == net.lc[h.new_lchan].conn IN
        /\ k # NoConn
        /\ net.conn[k].ho_lchan = h.new_lchan
        /\ net.lc[h.old_lchan].conn = k

\* The two null pointers the code does follow, and when.  osmo-nitb's msc_handler
\* has no assign_fail() (osmo_msc.c:63), which bsc_api.c calls whenever an assignment
\* fails; and handle_ass_fail() releases the secondary channel that T10 has already
\* taken when the MS reports ASSIGNMENT FAILURE late (bsc_api.c:405; the T10 handler
\* itself does look).  No other null pointer is followed, and no line reached that the
\* code calls a bug.
OnlyKnownCrashes ==
    /\ net.bad \subseteq {"null_assign_fail", "null_lchan"}
    /\ "null_assign_fail" \in net.bad => Nitb /\ Assignments
    /\ "null_lchan" \in net.bad => Assignments /\ "late_ms" \in Faults

\* bsc_api.c, handle_new_assignment(): "make sure that it is completed within T10":
\* a connection with a secondary channel has T10 running.
AssignmentTimed ==
    \A k \in Conns : net.conn[k].secondary_lchan # NoLchan => net.conn[k].T10

\* One assignment at a time, and handovers from the main channel.  The code looks at
\* neither: a second assignment overwrites secondary_lchan (bsc_api.c:212), a handover
\* from another channel ho_lchan (handover_logic.c:131), and the channel that was
\* there keeps a pointer to the connection which outlives it.
OneAtATime == Faults \cap {"reassign", "early_ho"} = {}

\* All of it, whatever the BTS, the MS and the timers do, with one assignment at a
\* time: the program stops only at the two known places, and until it does pointers
\* are mutual, handovers anchored, assignments timed.
PointersSound ==
    OneAtATime => /\ TypeOK /\ OnlyKnownCrashes
                  /\ Running => PointersMutual /\ HandoverAnchored /\ AssignmentTimed

\* An assignment ends, in success or failure.
AssignmentEnds ==
    \A k \in Conns : net.conn[k].T10 ~> ~net.conn[k].T10

\* A handover ends, in success or failure: its record does not stay.
HandoverEnds ==
    \A l \in Lchans :
        (\E h \in net.ho : h.new_lchan = l) ~> (\A h \in net.ho : h.new_lchan # l)

\* bsc_api.c, gsm0808_clear(): "Release all occupied RF Channels": a channel no
\* connection holds and whose random access is over does not stay occupied.
AllReleased ==
    \A l \in Lchans :
        net.lc[l].type # "NONE" /\ net.lc[l].conn = NoConn
            ~> LchanIsFree(net.lc[l]) \/ net.lc[l].conn # NoConn

\* Whatever was begun ends: assignments, handovers, and the occupation of channels nobody holds.
ProceduresEnd == AssignmentEnds /\ HandoverEnds /\ AllReleased

=============================================================================
