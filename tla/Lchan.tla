-------------------------------- MODULE Lchan --------------------------------
(***************************************************************************)
(* Allocation, activation and release of the logical channels of one TRX:  *)
(* chan_alloc.c, the dedicated-channel and RLL parts of abis_rsl.c, the    *)
(* link-loss handler of bsc_init.c, with the BTS at the far end of the RSL *)
(* link.                                                                   *)
(*                                                                         *)
(* The RSL link is FIFO in both directions.  A step of the BTS that sends  *)
(* a message is taken together with the BSC's handling of that message;    *)
(* until then the command it answers stays in lc[l].out.  Delaying the BTS *)
(* so changes nothing the BSC can observe, and one queue is enough.        *)
(*                                                                         *)
(* The layer above (bsc_api.c and the MSC) appears as the calls it makes:  *)
(* it accepts or refuses a new connection, asks for a channel for an       *)
(* assignment or a handover, asks for a data link, releases a channel.     *)
(***************************************************************************)
EXTENDS LchanOps

CONSTANTS
    Lchans,        \* the logical channels of the TRX
    Pchan,         \* [Lchans -> {"SDCCH", "TCH_F", "TCH_H"}], the slot's configuration
    MaxOut,        \* bound: commands under way to the BTS on one channel
    MaxRllr,       \* bound: pending RLL requests on one data link
    Faults         \* what may go wrong around the BSC, a subset of FaultKinds

FaultKinds == {
    "late_answer",    \* a guard timer expires although the BTS will still answer
    "no_answer",      \* the BTS drops CHAN ACTIV or RF CHAN REL without an answer
    "late_rel_ind",   \* the BTS sends RLL release indications after a channel release
    "idle_confirm",   \* the BTS confirms the normal release of a link that is not up
    "collision",      \* the MS leaves on its own, or while the BSC releases the channel
    "early_release",  \* the owner gives a channel up while the BTS still has to answer
    "radio",          \* CONNECTION FAILURE, T200 expiry
    "link"}           \* the signalling link of the TRX goes down

ASSUME PchanAssumption == Pchan \in [Lchans -> {"SDCCH", "TCH_F", "TCH_H"}]
ASSUME BoundsAssumption == MaxOut \in Nat /\ MaxRllr \in Nat
ASSUME FaultsAssumption == Faults \subseteq FaultKinds

VARIABLES
    lc,    \* [Lchans -> Lchan], the BSC's records
    bts,   \* [Lchans -> BtsChan], the radio channel and its data links
    up     \* the RSL link is up and the TRX usable

vars == <<lc, bts, up>>

BtsChan == [active : BOOLEAN, rll : SUBSET Sapis, deaf : BOOLEAN]

TypeOK ==
    /\ lc \in [Lchans -> Lchan]
    /\ bts \in [Lchans -> BtsChan]
    /\ up \in BOOLEAN

\* Whether the BTS may drop commands for a channel; it does not change.
Deafness == {d \in BOOLEAN : d => "no_answer" \in Faults}

Init ==
    /\ lc = [l \in Lchans |-> LchanInit]
    /\ bts \in [Lchans -> {[active |-> FALSE, rll |-> {}, deaf |-> d] : d \in Deafness}]
    /\ up = TRUE

\* A handler that leaves channel l in c; nothing is sent while the link is down.
Set(l, c) ==
    lc' = [lc EXCEPT ![l] = IF up THEN c ELSE [c EXCEPT !.out = <<>>]]

Queued(l, mt) == \E i \in DOMAIN lc[l].out : lc[l].out[i].mt = mt

Room(l) == Len(lc[l].out) < MaxOut

-----------------------------------------------------------------------------
(* Allocation *)

\* The physical configurations lchan_alloc() tries, in order.
Preference(type, allow_bigger) ==
    CASE type = "SDCCH" -> IF allow_bigger THEN <<"SDCCH", "TCH_H", "TCH_F">>
                                           ELSE <<"SDCCH">>
      [] type = "TCH_H" -> <<"TCH_H", "TCH_F">>
      [] type = "TCH_F" -> <<"TCH_F">>

Free(p) == {l \in Lchans : Pchan[l] = p /\ LchanIsFree(lc[l])}

\* The channels lchan_alloc() may return: of the first configuration that has one.
lchan_alloc(type, allow_bigger) ==
    LET pref == Preference(type, allow_bigger) IN
    UNION {Free(pref[i]) : i \in {j \in DOMAIN pref :
                                    \A k \in 1..(j - 1) : Free(pref[k]) = {}}}

\* CHANNEL REQUIRED from the RACH.  Without a free channel only a reject is sent.
rsl_rx_chan_rqd(type, is_lu) ==
    /\ up
    /\ \E l \in lchan_alloc(type, is_lu) :
        /\ Room(l)
        /\ Set(l, rsl_chan_activate_lchan(
                    [lchan_take(lc[l], Pchan[l]) EXCEPT
                        !.state = "ACT_REQ", !.rqd_ref = TRUE, !.act_timer = "act"]))
    /\ UNCHANGED <<bts, up>>

\* handle_new_assignment() and bsc_handover_start(): no RACH data, no guard timer.
ActivateForConn(type, k) ==
    /\ up
    /\ \E l \in lchan_alloc(type, FALSE) :
        /\ Room(l)
        /\ Set(l, rsl_lchan_set_state(
                    rsl_chan_activate_lchan([lchan_take(lc[l], Pchan[l]) EXCEPT !.conn = k]),
                    "ACT_REQ"))
    /\ UNCHANGED <<bts, up>>

-----------------------------------------------------------------------------
(* The BTS handles the oldest command; what it sends back is handled by the BSC *)

\* Whether an ERROR INDICATION may report T200 expired.
T200Causes == {t \in BOOLEAN : t => "radio" \in Faults}

Cmd(l, mt) == up /\ lc[l].out # <<>> /\ Head(lc[l].out).mt = mt
Rest(l)    == [lc[l] EXCEPT !.out = Tail(@)]

Bts(l, active, rll) ==
    bts' = [bts EXCEPT ![l] = [active |-> active, rll |-> rll, deaf |-> bts[l].deaf]]

ChanActivAck(l) ==
    /\ Cmd(l, "CHAN_ACTIV") /\ ~bts[l].active
    /\ Bts(l, TRUE, {})
    /\ Set(l, rsl_rx_chan_act_ack(Rest(l)))
    /\ UNCHANGED up

ChanActivNack(l) ==
    /\ Cmd(l, "CHAN_ACTIV")
    /\ Set(l, rsl_rx_chan_act_nack(Rest(l), IF bts[l].active THEN "ALR_ACTV" ELSE "OTHER"))
    /\ UNCHANGED <<bts, up>>

RfChanRelAck(l) ==
    /\ Cmd(l, "RF_CHAN_REL")
    /\ \E rll \in {{}} \cup (IF "late_rel_ind" \in Faults THEN {bts[l].rll} ELSE {}) : Bts(l, FALSE, rll)
    /\ Set(l, rsl_rx_rf_chan_rel_ack(Rest(l)))
    /\ UNCHANGED up

\* The command is lost, or carried out without an answer.
Forget(l) ==
    /\ bts[l].deaf
    /\ Cmd(l, "CHAN_ACTIV") \/ Cmd(l, "RF_CHAN_REL")
    /\ \/ UNCHANGED bts
       \/ Bts(l, Cmd(l, "CHAN_ACTIV"), {})
    /\ Set(l, Rest(l))
    /\ UNCHANGED up

EstConf(l) ==
    LET s == Head(lc[l].out).sapi IN
    /\ Cmd(l, "EST_REQ") /\ bts[l].active
    /\ Bts(l, TRUE, bts[l].rll \cup {s})
    /\ Set(l, rll_est_conf(Rest(l), s))
    /\ UNCHANGED up

\* The MS does not take up the data link: T200 expires, or it answers DM.
EstFail(l) ==
    LET s == Head(lc[l].out).sapi IN
    /\ Cmd(l, "EST_REQ") /\ bts[l].active /\ s \notin bts[l].rll
    /\ \/ \E t200 \in T200Causes : Set(l, rsl_rx_rll_err_ind(Rest(l), s, t200))
       \/ Set(l, rll_rel_ind(Rest(l), s))
    /\ UNCHANGED <<bts, up>>

\* A local end release is confirmed in any state of the data link.
Confirms(l) ==
    LET m == Head(lc[l].out) IN
    bts[l].active /\ (m.mode = "LOCAL_END" \/ m.sapi \in bts[l].rll \/ "idle_confirm" \in Faults)

RelConf(l) ==
    LET s == Head(lc[l].out).sapi IN
    /\ Cmd(l, "REL_REQ") /\ Confirms(l)
    /\ Bts(l, TRUE, bts[l].rll \ {s})
    /\ Set(l, rll_rel_conf(Rest(l), s))
    /\ UNCHANGED up

\* The MS obeys CHANNEL RELEASE and disconnects its main link ...
RrChanRel(l) ==
    /\ Cmd(l, "RR_CHAN_REL") /\ 0 \in bts[l].rll
    /\ Bts(l, bts[l].active, bts[l].rll \ {0})
    /\ Set(l, rll_rel_ind(Rest(l), 0))
    /\ UNCHANGED up

\* ... or is gone already; an RLL command for a channel that is not active is
\* dropped as well.
NoAnswer(l) ==
    /\ \/ Cmd(l, "RR_CHAN_REL") /\ (0 \in bts[l].rll => "collision" \in Faults)
       \/ Cmd(l, "REL_REQ") /\ ~Confirms(l)
       \/ Cmd(l, "EST_REQ") /\ ~bts[l].active
    /\ Set(l, Rest(l))
    /\ UNCHANGED <<bts, up>>

BtsAnswers(l) ==
    \/ ChanActivAck(l) \/ ChanActivNack(l) \/ RfChanRelAck(l) \/ Forget(l)
    \/ EstConf(l) \/ EstFail(l) \/ RelConf(l) \/ RrChanRel(l) \/ NoAnswer(l)

-----------------------------------------------------------------------------
(* What the mobile station and the radio do on their own *)

\* ESTABLISH INDICATION; with a layer 3 message on board gsm0408_rcvmsg() opens
\* a connection on an ACTIVE channel that has none, and the MSC side accepts it
\* or has the channel released.
MsEstablish(l, s) ==
    LET c == rll_est_ind(lc[l], s) IN
    /\ up /\ bts[l].active /\ s \notin bts[l].rll
    /\ s = 0 \/ 0 \in bts[l].rll
    /\ lc[l].state = "REL_REQ" => "collision" \in Faults
    /\ Bts(l, TRUE, bts[l].rll \cup {s})
    /\ \/ Set(l, c)
       \/ /\ c.state = "ACTIVE" /\ c.conn = NoConn
          /\ \/ \E k \in Conns : Set(l, [c EXCEPT !.conn = k])
             \/ Room(l) /\ Set(l, lchan_release(c, FALSE, "NORMAL"))
    /\ UNCHANGED up

MsDisconnect(l, s) ==
    /\ up /\ s \in bts[l].rll /\ Room(l)
    /\ "collision" \in Faults \/ (s # 0 /\ lc[l].state # "REL_REQ")
    /\ Bts(l, bts[l].active, bts[l].rll \ {s})
    /\ Set(l, rll_rel_ind(lc[l], s))
    /\ UNCHANGED up

ConnFail(l) ==
    /\ "radio" \in Faults /\ up /\ bts[l].active /\ Room(l)
    /\ Set(l, rsl_rx_conn_fail(lc[l]))
    /\ UNCHANGED <<bts, up>>

ErrInd(l, s) ==
    /\ up /\ s \in bts[l].rll /\ Room(l)
    /\ \E t200 \in T200Causes : Set(l, rsl_rx_rll_err_ind(lc[l], s, t200))
    /\ UNCHANGED <<bts, up>>

-----------------------------------------------------------------------------
(* Calls from the layer above, for a channel that has a connection *)

\* gsm0808_clear() on the main channel, all others on a channel given up.
ReleaseByOwner(l, sach_deact) ==
    /\ lc[l].conn # NoConn /\ Room(l)
    /\ lc[l].state = "ACT_REQ" \/ Queued(l, "EST_REQ") => "early_release" \in Faults
    /\ sach_deact => "collision" \in Faults \/ lc[l].sapis[0] # "UNUSED"
    /\ Set(l, lchan_release(lc[l], sach_deact, IF sach_deact THEN "NORMAL" ELSE "LOCAL_END"))
    /\ UNCHANGED <<bts, up>>

\* gsm0808_submit_dtap() on a SAPI that is not up.  DTAP is for the main channel,
\* where the MS has its main link.
RllEstablish(l, s) ==
    /\ lc[l].conn # NoConn /\ lc[l].sapis[s] = "UNUSED"
    /\ "collision" \in Faults \/ lc[l].sapis[0] # "UNUSED"
    /\ lc[l].rllr[s] < MaxRllr /\ Room(l)
    /\ Set(l, rll_establish(lc[l], s))
    /\ UNCHANGED <<bts, up>>

-----------------------------------------------------------------------------
(* Timers *)

\* Without "late_answer" the guards (4 s, 2 s + T3111) expire only when no answer can come.
ActTimer(l) ==
    \/ /\ lc[l].act_timer = "act"
       /\ "late_answer" \in Faults \/ ~Queued(l, "CHAN_ACTIV")
       /\ Set(l, lchan_act_tmr_cb(lc[l]))
       /\ UNCHANGED <<bts, up>>
    \/ /\ lc[l].act_timer = "deact"
       /\ "late_answer" \in Faults \/ (~Queued(l, "RF_CHAN_REL") /\ ~lc[l].T3111)
       /\ Set(l, lchan_deact_tmr_cb(lc[l]))
       /\ UNCHANGED <<bts, up>>

ErrorTimer(l) ==
    /\ lc[l].error_timer
    /\ "late_answer" \in Faults \/ ~Queued(l, "RF_CHAN_REL")
    /\ Set(l, error_timeout_cb(lc[l]))
    /\ UNCHANGED <<bts, up>>

T3101Expires(l) ==
    /\ lc[l].T3101 /\ Room(l)
    /\ Set(l, t3101_expired(lc[l]))
    /\ UNCHANGED <<bts, up>>

T3111Expires(l) ==
    /\ lc[l].T3111 /\ Room(l)
    /\ Set(l, t3111_expired(lc[l]))
    /\ UNCHANGED <<bts, up>>

\* timer_cb() of bsc_rll.c: 10 s without an answer.
RllTimer(l, s) ==
    /\ lc[l].rllr[s] > 0
    /\ Set(l, rll_indication(lc[l], s))
    /\ UNCHANGED <<bts, up>>

TimerExpires(l) ==
    \/ ActTimer(l) \/ ErrorTimer(l) \/ T3101Expires(l) \/ T3111Expires(l)
    \/ \E s \in Sapis : RllTimer(l, s)

-----------------------------------------------------------------------------
(* S_L_INP_TEI_DN: free what is in use, then reset everything.  The BTS drops *)
(* its channels, and what was under way is gone.                              *)
LinkDown ==
    /\ "link" \in Faults /\ up
    /\ lc' = [l \in Lchans |->
                LET c == IF lc[l].state # "NONE" THEN lchan_free(lc[l]) ELSE lc[l]
                IN  [lchan_reset(c) EXCEPT !.out = <<>>]]
    /\ bts' = [l \in Lchans |-> [active |-> FALSE, rll |-> {}, deaf |-> bts[l].deaf]]
    /\ up' = FALSE

LinkUp == ~up /\ up' = TRUE /\ UNCHANGED <<lc, bts>>

-----------------------------------------------------------------------------

Next ==
    \/ \E type \in {"SDCCH", "TCH_F", "TCH_H"} :
        \/ \E is_lu \in BOOLEAN : rsl_rx_chan_rqd(type, is_lu)
        \/ \E k \in Conns : ActivateForConn(type, k)
    \/ \E l \in Lchans :
        \/ BtsAnswers(l)
        \/ TimerExpires(l)
        \/ ConnFail(l)
        \/ \E s \in Sapis : MsEstablish(l, s) \/ MsDisconnect(l, s) \/ ErrInd(l, s)
        \/ \E sd \in BOOLEAN : ReleaseByOwner(l, sd)
        \/ \E s \in Sapis : RllEstablish(l, s)
    \/ LinkDown \/ LinkUp

Spec == Init /\ [][Next]_vars

\* The BTS answers what it does not drop, and the select() loop runs every timer
\* that has expired.
Fairness ==
    \A l \in Lchans :
        /\ WF_vars(BtsAnswers(l))
        /\ WF_vars(ActTimer(l)) /\ WF_vars(ErrorTimer(l))
        /\ WF_vars(T3101Expires(l)) /\ WF_vars(T3111Expires(l))

FairSpec == Spec /\ Fairness

-----------------------------------------------------------------------------
(* Properties *)

\* A channel waiting for the BTS to activate it is watched: either the 4 s guard
\* of rsl_rx_chan_rqd() runs on it or a connection owns it.
ActReqKept ==
    \A l \in Lchans : lc[l].state = "ACT_REQ" =>
        \/ lc[l].rqd_ref /\ lc[l].act_timer # "off"
        \/ lc[l].conn # NoConn

\* With a BTS that answers: a channel chan_alloc.c counts as in use is active in the
\* BTS or its activation is still under way: nothing waits for ever on a channel
\* the BTS has closed.
BusyIsReal ==
    \A l \in Lchans : lc[l].type # "NONE" /\ ~bts[l].deaf =>
        bts[l].active \/ Queued(l, "CHAN_ACTIV")

\* With a BTS that answers: once the activation has been answered, lchan->sapis[] names exactly the data
\* links that are up in the BTS, whoever set them up or took them down.
LinksAgree ==
    \A l \in Lchans :
        lc[l].type # "NONE" /\ bts[l].active /\ ~Queued(l, "CHAN_ACTIV") /\ ~bts[l].deaf
            => UsedSapis(lc[l]) = bts[l].rll

\* The BSC's record of a channel is true whatever fails around it: well formed, watched while it waits for the
\* BTS, and, with a BTS that answers, in agreement with the BTS on the channel and on its data links.
LchanSound == TypeOK /\ ActReqKept /\ BusyIsReal /\ LinksAgree

\* What chan_alloc.c would hand out is closed in the BTS, has no owner, no timer
\* that could hit the next user and nothing under way.
ReallyFree ==
    \A l \in Lchans : lc[l].type = "NONE" =>
        /\ lc[l].state = "NONE" /\ lc[l].conn = NoConn /\ lc[l].out = <<>>
        /\ lc[l].act_timer = "off" /\ ~lc[l].T3101 /\ ~lc[l].T3111
        /\ ~bts[l].active

\* A channel whose release has begun becomes free.
ReleaseCompletes ==
    \A l \in Lchans : lc[l].state = "REL_REQ" ~> LchanIsFree(lc[l])

\* A RACH request is served or given up: its data does not stay on the channel.
RachResolved ==
    \A l \in Lchans : lc[l].rqd_ref ~> ~lc[l].rqd_ref

\* abis_rsl.c on CHAN REL ACK: "we have an error timer pending to release that":
\* a channel in REL_ERR stays there until the error timer or the loss of the link
\* ends it.
QuarantineKept ==
    [][\A l \in Lchans : lc[l].state = "REL_ERR" /\ lc'[l].state # "REL_ERR" =>
            ~lc'[l].error_timer]_vars

=============================================================================
