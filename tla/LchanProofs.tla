---------------------------- MODULE LchanProofs ----------------------------
(***************************************************************************)
(* What Lchan guarantees for every set of channels, SAPIs and connections, *)
(* every bound and every combination of faults.                            *)
(*                                                                         *)
(* The argument works on one channel at a time: each function of LchanOps  *)
(* is shown to keep the record well typed and to relate the record before  *)
(* it to the record after it as Keeps says; the steps of Lchan are         *)
(* compositions of those functions.                                        *)
(*                                                                         *)
(* That a free channel is free at the BTS as well (FreeAlwaysReally) needs *)
(* the whole course of a channel: it is idle, opening, serving, quarantined*)
(* or releasing, and each phase says what the BSC, the BTS and the commands*)
(* between them look like (Phased).                                        *)
(***************************************************************************)
EXTENDS Lchan, TLAPS

\* An activation of the channel is still to be handled by the BTS.
HasActiv(c) == \E i \in DOMAIN c.out : c.out[i].mt = "CHAN_ACTIV"

\* What a function that starts no activation does to a channel: it leaves a
\* pending activation as it was, or ends it; it leaves the type, and then loses
\* no CHAN ACTIV under way, or frees the channel.
Keeps(c, d) ==
    /\ d \in Lchan
    /\ d.state = "ACT_REQ" =>
        /\ c.state = "ACT_REQ" /\ d.rqd_ref = c.rqd_ref /\ d.conn = c.conn
        /\ c.act_timer # "off" => d.act_timer # "off"
    /\ d.type # "NONE" => d.type = c.type /\ (HasActiv(c) => HasActiv(d))

\* Functions with the Keeps property can be composed.
LEMMA KeepsTrans ==
    ASSUME NEW c, NEW d, NEW e, Keeps(c, d), Keeps(d, e)
    PROVE  Keeps(c, e)
  BY DEF Keeps

-----------------------------------------------------------------------------
(* Updates of the structured fields *)

\* Replacing the queue towards the BTS.
LEMMA SetOut ==
    ASSUME NEW c \in Lchan, NEW o \in Seq(RslMsgs)
    PROVE  /\ [c EXCEPT !.out = o] \in Lchan
           /\ [c EXCEPT !.out = o].out = o
  BY DEF Lchan

\* Replacing the counts of RLL requests.
LEMMA SetRllr ==
    ASSUME NEW c \in Lchan, NEW r \in [Sapis -> Nat]
    PROVE  [c EXCEPT !.rllr = r] \in Lchan
  BY DEF Lchan

\* Replacing the table of data links.
LEMMA SetSapis ==
    ASSUME NEW c \in Lchan, NEW f \in [Sapis -> SapiStates]
    PROVE  /\ [c EXCEPT !.sapis = f] \in Lchan
           /\ [c EXCEPT !.sapis = f].sapis = f
  BY DEF Lchan

\* A queue that grows loses no message.
LEMMA AppendHasActiv ==
    ASSUME NEW q \in Seq(RslMsgs), NEW m \in RslMsgs
    PROVE  /\ Append(q, m) \in Seq(RslMsgs)
           /\ \A i \in DOMAIN q : i \in DOMAIN Append(q, m) /\ Append(q, m)[i] = q[i]
           /\ Len(q) + 1 \in DOMAIN Append(q, m)
           /\ Append(q, m)[Len(q) + 1] = m
  OBVIOUS

\* Sending an RLL command changes the queue only.
LEMMA SendKeeps ==
    ASSUME NEW c \in Lchan, NEW mt \in RslTypes, NEW s \in Sapis, NEW mode \in ReleaseModes
    PROVE  /\ Keeps(c, SendRll(c, mt, s, mode))
           /\ SendRll(c, mt, s, mode).sapis = c.sapis
           /\ SendRll(c, mt, s, mode).type = c.type
           /\ SendRll(c, mt, s, mode).state = c.state
           /\ SendRll(c, mt, s, mode).conn = c.conn
           /\ SendRll(c, mt, s, mode).rqd_ref = c.rqd_ref
           /\ SendRll(c, mt, s, mode).act_timer = c.act_timer
           /\ mt = "CHAN_ACTIV" => HasActiv(SendRll(c, mt, s, mode))
  <1> DEFINE m == [mt |-> mt, sapi |-> s, mode |-> mode]
             q == Append(c.out, m)
             d == SendRll(c, mt, s, mode)
  <1>1. m \in RslMsgs /\ m.mt = mt
    BY DEF RslMsgs
  <1>2. c.out \in Seq(RslMsgs)
    BY DEF Lchan
  <1>3. q \in Seq(RslMsgs)
    BY <1>1, <1>2, AppendHasActiv
  <1>4. d = [c EXCEPT !.out = q]
    BY DEF SendRll
  <1>5. d \in Lchan /\ d.out = q
    BY <1>3, <1>4, SetOut
  <1>6. /\ d.sapis = c.sapis /\ d.type = c.type /\ d.state = c.state
        /\ d.conn = c.conn /\ d.rqd_ref = c.rqd_ref /\ d.act_timer = c.act_timer
    BY <1>4 DEF Lchan
  <1>7. HasActiv(c) => HasActiv(d)
    <2> HIDE DEF d, q, m
    <2>1. \A i \in DOMAIN c.out : i \in DOMAIN q /\ q[i] = c.out[i]
      BY <1>1, <1>2, AppendHasActiv DEF q
    <2> QED BY <2>1, <1>5 DEF HasActiv
  <1>8. mt = "CHAN_ACTIV" => HasActiv(d)
    <2> HIDE DEF d, q, m
    <2>1. Len(c.out) + 1 \in DOMAIN q /\ q[Len(c.out) + 1] = m
      BY <1>1, <1>2, AppendHasActiv DEF q
    <2> QED BY <2>1, <1>1, <1>5 DEF HasActiv
  <1> HIDE DEF d
  <1> QED BY <1>5, <1>6, <1>7, <1>8 DEF Keeps, d

\* The same for a command that names no data link.
LEMMA PlainSendKeeps ==
    ASSUME NEW c \in Lchan, NEW mt \in RslTypes
    PROVE  /\ Keeps(c, Send(c, mt))
           /\ Send(c, mt).sapis = c.sapis
           /\ Send(c, mt).type = c.type
           /\ Send(c, mt).state = c.state
           /\ Send(c, mt).conn = c.conn
           /\ Send(c, mt).rqd_ref = c.rqd_ref
           /\ Send(c, mt).act_timer = c.act_timer
           /\ mt = "CHAN_ACTIV" => HasActiv(Send(c, mt))
  <1>1. 0 \in Sapis /\ "NORMAL" \in ReleaseModes
    BY SapisAssumption DEF ReleaseModes
  <1> QED BY <1>1, SendKeeps DEF Send

-----------------------------------------------------------------------------
(* chan_alloc.c *)

\* lchan_free() ends a pending activation and makes the channel free.
LEMMA FreeKeeps ==
    ASSUME NEW c \in Lchan
    PROVE  /\ Keeps(c, lchan_free(c))
           /\ lchan_free(c).type = "NONE" /\ lchan_free(c).state = "NONE"
           /\ lchan_free(c).out = c.out
  <1>1. lchan_free(c) \in Lchan
    BY DEF lchan_free, Lchan, LchanTypes, LchanStates, ReleaseModes
  <1>2. lchan_free(c).type = "NONE" /\ lchan_free(c).state = "NONE"
    BY DEF lchan_free, Lchan
  <1>3. lchan_free(c).out = c.out
    BY DEF lchan_free, Lchan
  <1> QED BY <1>1, <1>2, <1>3 DEF Keeps

\* lchan_reset() keeps the record well typed and makes it free.
LEMMA ResetTyped ==
    ASSUME NEW c \in Lchan
    PROVE  /\ lchan_reset(c) \in Lchan
           /\ lchan_reset(c).type = "NONE" /\ lchan_reset(c).state = "NONE"
  BY DEF lchan_reset, Lchan, LchanTypes, LchanStates

\* rsl_lchan_set_state() to anything but ACT_REQ.
LEMMA SetStateKeeps ==
    ASSUME NEW c \in Lchan, NEW st \in LchanStates, st # "ACT_REQ"
    PROVE  /\ Keeps(c, rsl_lchan_set_state(c, st))
           /\ rsl_lchan_set_state(c, st).sapis = c.sapis
           /\ rsl_lchan_set_state(c, st).state = st
  BY DEF Keeps, HasActiv, rsl_lchan_set_state, Lchan

\* The lowest of a non-empty set of SAPIs exists.
LEMMA LowestExists ==
    ASSUME NEW U \in SUBSET Sapis, U # {}
    PROVE  \E s \in U : \A t \in U : s <= t
  <1>1. U \subseteq 0..7
    BY SapisAssumption
  <1>2. \E s \in U : \A t \in U : s <= t
    <2>1. CASE 0 \in U BY <2>1, <1>1
    <2>2. CASE 0 \notin U /\ 1 \in U BY <2>2, <1>1
    <2>3. CASE U \cap 0..1 = {} /\ 2 \in U BY <2>3, <1>1
    <2>4. CASE U \cap 0..2 = {} /\ 3 \in U BY <2>4, <1>1
    <2>5. CASE U \cap 0..3 = {} /\ 4 \in U BY <2>5, <1>1
    <2>6. CASE U \cap 0..4 = {} /\ 5 \in U BY <2>6, <1>1
    <2>7. CASE U \cap 0..5 = {} /\ 6 \in U BY <2>7, <1>1
    <2>8. CASE U \cap 0..6 = {}
      <3>1. PICK u \in U : TRUE OBVIOUS
      <3>2. u \in 0..7 /\ u \notin 0..6 BY <2>8, <1>1
      <3>3. u = 7 BY <3>2
      <3> QED BY <3>3, <1>1
    <2> QED BY <2>1, <2>2, <2>3, <2>4, <2>5, <2>6, <2>7, <2>8
  <1> QED BY <1>2

\* The lowest SAPI that CHOOSE picks is a SAPI.
LEMMA LowestSapi ==
    ASSUME NEW U \in SUBSET Sapis, U # {}
    PROVE  (CHOOSE s \in U : \A t \in U : s <= t) \in Sapis
  BY LowestExists

\* _lchan_handle_release() leaves the data links for the BTS to report.
LEMMA HandleReleaseKeeps ==
    ASSUME NEW c \in Lchan
    PROVE  /\ Keeps(c, lchan_handle_release(c))
           /\ lchan_handle_release(c).sapis = c.sapis
  <1> DEFINE upper == UsedSapis(c) \ {0}
             low == CHOOSE s \in upper : \A t \in upper : s <= t
  <1>0. c.release_reason \in ReleaseModes /\ 0 \in Sapis
    BY SapisAssumption DEF Lchan
  <1>1. CASE upper # {}
    <2>1. upper \in SUBSET Sapis
      BY DEF UsedSapis
    <2>2. low \in Sapis
      BY <1>1, <2>1, LowestSapi
    <2>3. lchan_handle_release(c) = SendRll(c, "REL_REQ", low, c.release_reason)
      BY <1>1 DEF lchan_handle_release, rsl_release_request
    <2> HIDE DEF low
    <2> QED BY <2>2, <2>3, <1>0, SendKeeps DEF RslTypes
  <1>2. CASE upper = {} /\ c.sach_deact
    BY <1>2, PlainSendKeeps DEF lchan_handle_release, gsm48_send_rr_release, RslTypes
  <1>3. CASE upper = {} /\ ~c.sach_deact
    <2> DEFINE d == SendRll(c, "REL_REQ", 0, c.release_reason)
    <2>1. Keeps(c, d) /\ d.sapis = c.sapis
      BY <1>0, SendKeeps DEF RslTypes
    <2>2. d \in Lchan
      BY <2>1 DEF Keeps
    <2>3. lchan_handle_release(c) = rsl_lchan_set_state(d, "REL_REQ")
      BY <1>3 DEF lchan_handle_release, rsl_release_request
    <2> HIDE DEF d
    <2>4. /\ Keeps(d, rsl_lchan_set_state(d, "REL_REQ"))
          /\ rsl_lchan_set_state(d, "REL_REQ").sapis = d.sapis
      BY <2>2, SetStateKeeps DEF LchanStates
    <2> QED BY <2>1, <2>3, <2>4, KeepsTrans
  <1> QED BY <1>1, <1>2, <1>3

\* rsl_lchan_rll_release() goes on with the release or does nothing.
LEMMA RllReleaseKeeps ==
    ASSUME NEW c \in Lchan, NEW s \in Sapis
    PROVE  /\ Keeps(c, rsl_lchan_rll_release(c, s))
           /\ rsl_lchan_rll_release(c, s).sapis = c.sapis
  <1>1. Keeps(c, c)
    BY DEF Keeps
  <1> QED BY <1>1, HandleReleaseKeeps DEF rsl_lchan_rll_release

\* lchan_release() ends a pending activation by leaving ACT_REQ.
LEMMA ReleaseKeeps ==
    ASSUME NEW c \in Lchan, NEW sd \in BOOLEAN, NEW reason \in ReleaseModes
    PROVE  /\ Keeps(c, lchan_release(c, sd, reason))
           /\ lchan_release(c, sd, reason).sapis = c.sapis
  <1> DEFINE d == [c EXCEPT !.state = "REL_REQ", !.conn = NoConn,
                            !.release_reason = reason, !.sach_deact = sd]
  <1>1. d \in Lchan
    BY DEF Lchan, LchanStates
  <1>2. d.state = "REL_REQ" /\ d.sapis = c.sapis /\ d.type = c.type /\ d.out = c.out
    BY DEF Lchan
  <1>3. lchan_release(c, sd, reason) = lchan_handle_release(d)
    BY DEF lchan_release
  <1> HIDE DEF d
  <1>4. Keeps(c, d)
    BY <1>1, <1>2 DEF Keeps, HasActiv
  <1> QED BY <1>1, <1>2, <1>3, <1>4, HandleReleaseKeeps, KeepsTrans

\* What lchan_alloc() returned, on its way to rsl_chan_activate_lchan().
LEMMA TakeTyped ==
    ASSUME NEW c \in Lchan, NEW t \in LchanTypes
    PROVE  /\ lchan_take(c, t) \in Lchan
           /\ lchan_take(c, t).type = t
           /\ UsedSapis(lchan_take(c, t)) = {}
           /\ lchan_take(c, t).out = c.out
  <1> DEFINE f == [s \in Sapis |-> "UNUSED"]
  <1>1. f \in [Sapis -> SapiStates]
    BY DEF SapiStates
  <1>2. lchan_take(c, t) = [c EXCEPT !.type = t, !.sapis = f]
    BY DEF lchan_take
  <1> HIDE DEF f
  <1>3. lchan_take(c, t) \in Lchan /\ lchan_take(c, t).sapis = f
    BY <1>1, <1>2 DEF Lchan
  <1>4. lchan_take(c, t).type = t /\ lchan_take(c, t).out = c.out
    BY <1>2 DEF Lchan
  <1>5. UsedSapis(lchan_take(c, t)) = {}
    BY <1>3 DEF UsedSapis, f
  <1> QED BY <1>3, <1>4, <1>5

-----------------------------------------------------------------------------
(* bsc_rll.c *)

\* rll_establish() counts a request and sends ESTABLISH REQUEST.
LEMMA EstablishKeeps ==
    ASSUME NEW c \in Lchan, NEW s \in Sapis
    PROVE  /\ Keeps(c, rll_establish(c, s))
           /\ rll_establish(c, s).sapis = c.sapis
  <1> DEFINE r == [c.rllr EXCEPT ![s] = @ + 1]
             d == [c EXCEPT !.rllr = r]
  <1>1. r \in [Sapis -> Nat]
    <2>1. c.rllr \in [Sapis -> Nat] BY DEF Lchan
    <2> QED BY <2>1
  <1>2. rll_establish(c, s) = SendRll(d, "EST_REQ", s, "NORMAL")
    BY DEF rll_establish
  <1> HIDE DEF r
  <1>3. d \in Lchan
    BY <1>1, SetRllr
  <1>4. Keeps(c, d) /\ d.sapis = c.sapis
    BY <1>3 DEF Keeps, HasActiv, Lchan
  <1> HIDE DEF d
  <1> QED BY <1>2, <1>3, <1>4, SendKeeps, KeepsTrans DEF RslTypes, ReleaseModes

\* rll_indication() changes the counts of requests only.
LEMMA IndicationKeeps ==
    ASSUME NEW c \in Lchan, NEW s \in Sapis
    PROVE  /\ Keeps(c, rll_indication(c, s))
           /\ rll_indication(c, s).sapis = c.sapis
  <1> DEFINE r == [c.rllr EXCEPT ![s] = IF @ > 0 THEN @ - 1 ELSE 0]
             d == [c EXCEPT !.rllr = r]
  <1>1. r \in [Sapis -> Nat]
    <2>1. c.rllr \in [Sapis -> Nat] BY DEF Lchan
    <2> QED BY <2>1
  <1>2. rll_indication(c, s) = d
    BY DEF rll_indication
  <1> HIDE DEF r
  <1>3. d \in Lchan
    BY <1>1, SetRllr
  <1>4. Keeps(c, d) /\ d.sapis = c.sapis
    BY <1>3 DEF Keeps, HasActiv, Lchan
  <1> QED BY <1>2, <1>4

-----------------------------------------------------------------------------
(* abis_rsl.c: requests and timers *)

\* rsl_rf_chan_release() keeps the activation guard or replaces it by the release guard.
LEMMA RfReleaseKeeps ==
    ASSUME NEW c \in Lchan, NEW error \in BOOLEAN
    PROVE  /\ Keeps(c, rsl_rf_chan_release(c, error))
           /\ rsl_rf_chan_release(c, error).sapis = c.sapis
  <1>1. CASE c.state = "REL_ERR"
    BY <1>1 DEF rsl_rf_chan_release, Keeps
  <1>2. CASE c.state # "REL_ERR"
    <2> DEFINE q == IF error
                    THEN [c EXCEPT !.state = "REL_ERR", !.error_timer = TRUE]
                    ELSE c
               d == [q EXCEPT !.act_timer = "deact"]
    <2>1. /\ q \in Lchan /\ q.sapis = c.sapis /\ q.type = c.type /\ q.out = c.out
          /\ q.state = "ACT_REQ" => q = c
      BY ZenonT(80) DEF Lchan, LchanStates
    <2> HIDE DEF q
    <2>2. /\ d \in Lchan /\ d.sapis = q.sapis /\ d.type = q.type /\ d.out = q.out
          /\ d.state = q.state /\ d.rqd_ref = q.rqd_ref /\ d.conn = q.conn
          /\ d.act_timer # "off"
      BY <2>1 DEF Lchan
    <2>3. rsl_rf_chan_release(c, error) = Send(d, "RF_CHAN_REL")
      BY <1>2 DEF rsl_rf_chan_release, q
    <2> HIDE DEF d
    <2>4. Keeps(c, d)
      BY <2>1, <2>2 DEF Keeps, HasActiv
    <2> QED BY <2>1, <2>2, <2>3, <2>4, PlainSendKeeps, KeepsTrans DEF RslTypes
  <1> QED BY <1>1, <1>2

\* The timer callbacks.
LEMMA TimersKeep ==
    ASSUME NEW c \in Lchan
    PROVE  /\ Keeps(c, lchan_act_tmr_cb(c)) /\ lchan_act_tmr_cb(c).type = "NONE"
           /\ Keeps(c, lchan_deact_tmr_cb(c)) /\ lchan_deact_tmr_cb(c).type = "NONE"
           /\ Keeps(c, error_timeout_cb(c)) /\ error_timeout_cb(c).sapis = c.sapis
           /\ Keeps(c, t3101_expired(c)) /\ t3101_expired(c).sapis = c.sapis
           /\ Keeps(c, t3111_expired(c)) /\ t3111_expired(c).sapis = c.sapis
  <1>1. /\ Keeps(c, lchan_act_tmr_cb(c)) /\ lchan_act_tmr_cb(c).type = "NONE"
        /\ Keeps(c, lchan_deact_tmr_cb(c)) /\ lchan_deact_tmr_cb(c).type = "NONE"
    <2> DEFINE d == [c EXCEPT !.act_timer = "off"]
    <2>1. d \in Lchan
      BY DEF Lchan
    <2>2. lchan_act_tmr_cb(c) = lchan_free(d) /\ lchan_deact_tmr_cb(c) = lchan_free(d)
      BY DEF lchan_act_tmr_cb, lchan_deact_tmr_cb
    <2> HIDE DEF d
    <2> QED BY <2>1, <2>2, FreeKeeps DEF Keeps
  <1>2. Keeps(c, error_timeout_cb(c)) /\ error_timeout_cb(c).sapis = c.sapis
    BY DEF error_timeout_cb, Keeps, HasActiv, Lchan, LchanStates
  <1>3. Keeps(c, t3101_expired(c)) /\ t3101_expired(c).sapis = c.sapis
    <2> DEFINE d == [c EXCEPT !.T3101 = FALSE]
    <2>1. d \in Lchan /\ Keeps(c, d) /\ d.sapis = c.sapis
      BY DEF Lchan, Keeps, HasActiv
    <2>2. t3101_expired(c) = rsl_rf_chan_release(d, TRUE)
      BY DEF t3101_expired
    <2> HIDE DEF d
    <2> QED BY <2>1, <2>2, RfReleaseKeeps, KeepsTrans
  <1>4. Keeps(c, t3111_expired(c)) /\ t3111_expired(c).sapis = c.sapis
    <2> DEFINE d == [c EXCEPT !.T3111 = FALSE]
    <2>1. d \in Lchan /\ Keeps(c, d) /\ d.sapis = c.sapis
      BY DEF Lchan, Keeps, HasActiv
    <2>2. t3111_expired(c) = rsl_rf_chan_release(d, FALSE)
      BY DEF t3111_expired
    <2> HIDE DEF d
    <2> QED BY <2>1, <2>2, RfReleaseKeeps, KeepsTrans
  <1> QED BY <1>1, <1>2, <1>3, <1>4

-----------------------------------------------------------------------------
(* abis_rsl.c: what the BTS sends *)

\* CHAN ACTIV ACK ends the wait for the activation.
LEMMA ActAckKeeps ==
    ASSUME NEW c \in Lchan
    PROVE  /\ Keeps(c, rsl_rx_chan_act_ack(c))
           /\ rsl_rx_chan_act_ack(c).type = c.type
           /\ rsl_rx_chan_act_ack(c).sapis = c.sapis
  BY DEF rsl_rx_chan_act_ack, Keeps, HasActiv, Lchan, LchanStates

\* CHAN ACTIV NACK frees the channel.
LEMMA ActNackFrees ==
    ASSUME NEW c \in Lchan, NEW cause
    PROVE  /\ Keeps(c, rsl_rx_chan_act_nack(c, cause))
           /\ rsl_rx_chan_act_nack(c, cause).type = "NONE"
  <1> DEFINE q == [c EXCEPT !.act_timer = "off"]
             d == IF cause = "ALR_ACTV" THEN rsl_rf_chan_release(q, TRUE)
                  ELSE rsl_lchan_set_state(q, "NONE")
  <1>1. q \in Lchan
    BY DEF Lchan
  <1>2. rsl_rx_chan_act_nack(c, cause) = lchan_free(d)
    BY DEF rsl_rx_chan_act_nack
  <1> HIDE DEF q
  <1>3. d \in Lchan
    BY <1>1, RfReleaseKeeps, SetStateKeeps DEF Keeps, LchanStates
  <1> HIDE DEF d
  <1> QED BY <1>2, <1>3, FreeKeeps DEF Keeps

\* RF CHAN REL ACK frees the channel.
LEMMA RelAckFrees ==
    ASSUME NEW c \in Lchan
    PROVE  /\ Keeps(c, rsl_rx_rf_chan_rel_ack(c))
           /\ rsl_rx_rf_chan_rel_ack(c).type = "NONE"
  <1> DEFINE d == [c EXCEPT !.act_timer = "off", !.T3111 = FALSE]
  <1>1. d \in Lchan
    BY DEF Lchan
  <1>2. rsl_rx_rf_chan_rel_ack(c) = lchan_free(d)
    BY DEF rsl_rx_rf_chan_rel_ack
  <1> HIDE DEF d
  <1> QED BY <1>1, <1>2, FreeKeeps DEF Keeps

\* ERROR INDICATION leaves the data links.
LEMMA ErrIndKeeps ==
    ASSUME NEW c \in Lchan, NEW s \in Sapis, NEW t200 \in BOOLEAN
    PROVE  /\ Keeps(c, rsl_rx_rll_err_ind(c, s, t200))
           /\ rsl_rx_rll_err_ind(c, s, t200).sapis = c.sapis
  <1> DEFINE q == rll_indication(c, s)
  <1>1. q \in Lchan /\ Keeps(c, q) /\ q.sapis = c.sapis
    BY IndicationKeeps DEF Keeps
  <1> HIDE DEF q
  <1> QED BY <1>1, RfReleaseKeeps, KeepsTrans DEF rsl_rx_rll_err_ind, q

\* rsl_handle_release() at most starts T3111.
LEMMA HandleRelKeeps ==
    ASSUME NEW c \in Lchan
    PROVE  /\ Keeps(c, rsl_handle_release(c))
           /\ rsl_handle_release(c).sapis = c.sapis
  BY DEF rsl_handle_release, Keeps, HasActiv, Lchan

\* One entry of lchan->sapis[] changes.
LEMMA SapiChange ==
    ASSUME NEW c \in Lchan, NEW s \in Sapis, NEW v \in SapiStates
    PROVE  LET d == [c EXCEPT !.sapis[s] = v] IN
           /\ Keeps(c, d)
           /\ UsedSapis(d) = IF v = "UNUSED" THEN UsedSapis(c) \ {s} ELSE UsedSapis(c) \cup {s}
  <1> DEFINE f == [c.sapis EXCEPT ![s] = v]
             d == [c EXCEPT !.sapis[s] = v]
  <1>1. c.sapis \in [Sapis -> SapiStates]
    BY DEF Lchan
  <1>2. f \in [Sapis -> SapiStates] /\ \A t \in Sapis : f[t] = IF t = s THEN v ELSE c.sapis[t]
    BY <1>1
  <1>3. d = [c EXCEPT !.sapis = f]
    OBVIOUS
  <1> HIDE DEF d, f
  <1>4. d \in Lchan /\ d.sapis = f
    BY <1>2, <1>3, SetSapis
  <1>5. /\ d.type = c.type /\ d.state = c.state /\ d.out = c.out /\ d.conn = c.conn
        /\ d.rqd_ref = c.rqd_ref /\ d.act_timer = c.act_timer
    BY <1>3 DEF Lchan
  <1>6. Keeps(c, d)
    BY <1>4, <1>5 DEF Keeps, HasActiv
  <1>7. UsedSapis(d) = IF v = "UNUSED" THEN UsedSapis(c) \ {s} ELSE UsedSapis(c) \cup {s}
    BY <1>2, <1>4 DEF UsedSapis
  <1> QED BY <1>6, <1>7 DEF d

\* ESTABLISH INDICATION adds one data link.
LEMMA EstIndKeeps ==
    ASSUME NEW c \in Lchan, NEW s \in Sapis
    PROVE  /\ Keeps(c, rll_est_ind(c, s))
           /\ UsedSapis(rll_est_ind(c, s)) = UsedSapis(c) \cup {s}
  <1> DEFINE d == [c EXCEPT !.sapis[s] = "MS"]
  <1>1. Keeps(c, d) /\ UsedSapis(d) = UsedSapis(c) \cup {s}
    BY SapiChange DEF SapiStates
  <1>2. rll_est_ind(c, s) = [d EXCEPT !.T3101 = FALSE]
    BY DEF rll_est_ind, Lchan
  <1> HIDE DEF d
  <1>3. d \in Lchan
    BY <1>1 DEF Keeps
  <1>4. Keeps(d, rll_est_ind(c, s)) /\ rll_est_ind(c, s).sapis = d.sapis
    BY <1>2, <1>3, ZenonT(80) DEF Keeps, HasActiv, Lchan
  <1> QED BY <1>1, <1>4, KeepsTrans DEF UsedSapis

\* ESTABLISH CONFIRM adds one data link.
LEMMA EstConfKeeps ==
    ASSUME NEW c \in Lchan, NEW s \in Sapis
    PROVE  /\ Keeps(c, rll_est_conf(c, s))
           /\ UsedSapis(rll_est_conf(c, s)) = UsedSapis(c) \cup {s}
  <1> DEFINE d == [c EXCEPT !.sapis[s] = "NET"]
  <1>1. Keeps(c, d) /\ UsedSapis(d) = UsedSapis(c) \cup {s}
    BY SapiChange DEF SapiStates
  <1>2. rll_est_conf(c, s) = rll_indication(d, s)
    BY DEF rll_est_conf
  <1> HIDE DEF d
  <1>3. Keeps(d, rll_est_conf(c, s)) /\ rll_est_conf(c, s).sapis = d.sapis
    BY <1>1, <1>2, IndicationKeeps DEF Keeps
  <1> QED BY <1>1, <1>3, KeepsTrans DEF UsedSapis

\* RELEASE INDICATION and RELEASE CONFIRM take one data link away.
LEMMA RelKeeps ==
    ASSUME NEW c \in Lchan, NEW s \in Sapis
    PROVE  /\ Keeps(c, rll_rel_conf(c, s))
           /\ UsedSapis(rll_rel_conf(c, s)) = UsedSapis(c) \ {s}
           /\ Keeps(c, rll_rel_ind(c, s))
           /\ UsedSapis(rll_rel_ind(c, s)) = UsedSapis(c) \ {s}
  <1> DEFINE d == [c EXCEPT !.sapis[s] = "UNUSED"]
             e == rll_indication(d, s)
             End(x) == rsl_lchan_rll_release(rsl_handle_release(x), s)
  <1>1. d \in Lchan /\ Keeps(c, d) /\ UsedSapis(d) = UsedSapis(c) \ {s}
    BY SapiChange DEF SapiStates, Keeps
  <1>2. rll_rel_conf(c, s) = End(d) /\ rll_rel_ind(c, s) = End(e)
    BY DEF rll_rel_conf, rll_rel_ind
  <1> HIDE DEF d
  <1>3. e \in Lchan /\ Keeps(c, e) /\ e.sapis = d.sapis
    BY <1>1, IndicationKeeps, KeepsTrans DEF Keeps
  <1> HIDE DEF e
  <1>4. ASSUME NEW x \in Lchan
        PROVE  Keeps(x, End(x)) /\ End(x).sapis = x.sapis
    <2> DEFINE y == rsl_handle_release(x)
    <2>1. y \in Lchan /\ Keeps(x, y) /\ y.sapis = x.sapis
      BY <1>4, HandleRelKeeps DEF Keeps
    <2> HIDE DEF y
    <2>2. Keeps(y, rsl_lchan_rll_release(y, s)) /\ rsl_lchan_rll_release(y, s).sapis = y.sapis
      BY <2>1, RllReleaseKeeps
    <2> QED BY <2>1, <2>2, KeepsTrans DEF y
  <1> HIDE DEF End
  <1>5. Keeps(c, End(d)) /\ UsedSapis(End(d)) = UsedSapis(d)
    BY <1>1, <1>4, KeepsTrans DEF UsedSapis
  <1>6. Keeps(c, End(e)) /\ UsedSapis(End(e)) = UsedSapis(d)
    BY <1>3, <1>4, KeepsTrans DEF UsedSapis
  <1> QED BY <1>1, <1>2, <1>5, <1>6

-----------------------------------------------------------------------------
(* The inductive invariant, one channel at a time *)

Watched(c) ==
    c.state = "ACT_REQ" => (c.rqd_ref /\ c.act_timer # "off") \/ c.conn # NoConn

\* The BSC's record against the channel in the BTS.  The case of an activation
\* under way to a BTS whose channel is still active (it will be refused) is the
\* one where the data links may differ.
Agree(c, b) ==
    c.type # "NONE" =>
        IF b.active THEN ~HasActiv(c) => UsedSapis(c) = b.rll
                    ELSE HasActiv(c) /\ UsedSapis(c) = {}

Good(c, b) ==
    /\ c \in Lchan /\ b \in BtsChan
    /\ Watched(c)
    /\ ~b.deaf => Agree(c, b)

IInv ==
    /\ TypeOK
    /\ \A l \in Lchans : Good(lc[l], bts[l])
    /\ \A l \in Lchans : ~up => lc[l].type = "NONE"

\* A function with the Keeps property and the same data links preserves Good.
LEMMA KeepsGood ==
    ASSUME NEW c, NEW b, NEW d, Good(c, b), Keeps(c, d),
           d.type # "NONE" => UsedSapis(d) = UsedSapis(c)
    PROVE  Good(d, b) /\ (c.type = "NONE" => d.type = "NONE")
  <1>1. d \in Lchan /\ b \in BtsChan
    BY DEF Good, Keeps
  <1>2. Watched(d)
    BY DEF Good, Keeps, Watched
  <1>3. Agree(c, b) => Agree(d, b)
    BY DEF Keeps, Agree
  <1> QED BY <1>1, <1>2, <1>3 DEF Good, Keeps

\* Equal tables of data links have the same links in use.
LEMMA SameSapis ==
    ASSUME NEW c, NEW d, d.sapis = c.sapis
    PROVE  UsedSapis(d) = UsedSapis(c)
  BY DEF UsedSapis

\* Emptying the queue of a free channel.
LEMMA EmptyGood ==
    ASSUME NEW d, NEW b, Good(d, b), d.type = "NONE"
    PROVE  /\ Good([d EXCEPT !.out = <<>>], b)
           /\ [d EXCEPT !.out = <<>>].type = "NONE"
  <1> DEFINE e == [d EXCEPT !.out = <<>>]
  <1>0. d \in Lchan
    BY DEF Good
  <1>1. e \in Lchan
    <2>1. <<>> \in Seq(RslMsgs) OBVIOUS
    <2> QED BY <1>0, <2>1, SetOut
  <1>2. /\ e.type = d.type /\ e.state = d.state /\ e.rqd_ref = d.rqd_ref
        /\ e.act_timer = d.act_timer /\ e.conn = d.conn
    BY <1>0 DEF Lchan
  <1> HIDE DEF e
  <1>3. Good(e, b)
    BY <1>1, <1>2 DEF Good, Watched, Agree
  <1> QED BY <1>2, <1>3 DEF e

\* A step on one channel that leaves it in a good state preserves the invariant.
LEMMA StepOn ==
    ASSUME NEW l \in Lchans, NEW d, NEW b, IInv, Good(d, b), Set(l, d),
           ~up => d.type = "NONE",
           bts' = [bts EXCEPT ![l] = b], UNCHANGED up
    PROVE  IInv'
  <1> DEFINE e == IF up THEN d ELSE [d EXCEPT !.out = <<>>]
  <1>1. lc' = [lc EXCEPT ![l] = e]
    BY DEF Set
  <1>2. Good(e, b) /\ (~up => e.type = "NONE")
    BY EmptyGood
  <1>3. e \in Lchan /\ b \in BtsChan
    BY <1>2 DEF Good
  <1> HIDE DEF e
  <1>4. /\ lc \in [Lchans -> Lchan] /\ bts \in [Lchans -> BtsChan] /\ up \in BOOLEAN
        /\ \A k \in Lchans : Good(lc[k], bts[k]) /\ (~up => lc[k].type = "NONE")
    BY DEF IInv, TypeOK
  <1>5. TypeOK'
    BY <1>1, <1>3, <1>4 DEF TypeOK
  <1>6. ASSUME NEW k \in Lchans
        PROVE  Good(lc'[k], bts'[k]) /\ (~up' => lc'[k].type = "NONE")
    <2>1. CASE k = l
      BY <2>1, <1>1, <1>2, <1>4
    <2>2. CASE k # l
      <3>1. lc'[k] = lc[k] /\ bts'[k] = bts[k]
        BY <2>2, <1>1, <1>4
      <3> QED BY <3>1, <1>4
    <2> QED BY <2>1, <2>2
  <1>7. (\A k \in Lchans : Good(lc[k], bts[k]))'
    BY <1>6 DEF Good, Watched, Agree, HasActiv, UsedSapis
  <1> QED BY <1>5, <1>6, <1>7 DEF IInv

\* The same for a function that has the Keeps property and touches no data link.
LEMMA KeepStep ==
    ASSUME NEW l \in Lchans, NEW d, IInv, Keeps(lc[l], d), Set(l, d),
           d.type # "NONE" => d.sapis = lc[l].sapis, UNCHANGED <<bts, up>>
    PROVE  IInv'
  <1>1. Good(lc[l], bts[l]) /\ (~up => lc[l].type = "NONE")
    BY DEF IInv
  <1>2. Good(d, bts[l]) /\ (~up => d.type = "NONE")
    BY <1>1, KeepsGood, SameSapis
  <1>3. bts' = [bts EXCEPT ![l] = bts[l]]
    BY DEF IInv, TypeOK
  <1> QED BY <1>2, <1>3, StepOn

-----------------------------------------------------------------------------
(* The BTS takes a command from the queue *)

\* Taking a command other than CHAN ACTIV off the queue.
LEMMA PopKeeps ==
    ASSUME NEW l \in Lchans, NEW mt, IInv, Cmd(l, mt)
    PROVE  /\ up
           /\ Head(lc[l].out).sapi \in Sapis
           /\ Rest(l) \in Lchan
           /\ Rest(l).sapis = lc[l].sapis
           /\ mt # "CHAN_ACTIV" => Keeps(lc[l], Rest(l))
           /\ Watched(Rest(l))
           /\ Rest(l).type = lc[l].type
  <1> DEFINE q == lc[l].out
             d == Rest(l)
  <1>1. lc[l] \in Lchan /\ q \in Seq(RslMsgs) /\ Watched(lc[l])
    BY DEF IInv, Good, Lchan
  <1>2. up /\ q # <<>> /\ Head(q).mt = mt
    BY DEF Cmd
  <1>3. /\ Tail(q) \in Seq(RslMsgs) /\ Head(q) \in RslMsgs /\ q[1] = Head(q)
        /\ \A i \in DOMAIN q : i # 1 => i - 1 \in DOMAIN Tail(q) /\ Tail(q)[i - 1] = q[i]
    BY <1>1, <1>2
  <1>4. d \in Lchan /\ d.out = Tail(q)
    <2>1. d = [lc[l] EXCEPT !.out = Tail(q)]
      BY DEF Rest
    <2> QED BY <2>1, <1>1, <1>3, SetOut, ZenonT(80)
  <1>5. /\ d.type = lc[l].type /\ d.state = lc[l].state /\ d.rqd_ref = lc[l].rqd_ref
        /\ d.act_timer = lc[l].act_timer /\ d.conn = lc[l].conn /\ d.sapis = lc[l].sapis
    BY <1>1 DEF Rest, Lchan
  <1>6. Head(q).sapi \in Sapis
    BY <1>3 DEF RslMsgs
  <1>7. mt # "CHAN_ACTIV" /\ HasActiv(lc[l]) => HasActiv(d)
    BY <1>2, <1>3, <1>4 DEF HasActiv
  <1> HIDE DEF d, q
  <1>8. Watched(d) /\ (mt # "CHAN_ACTIV" => Keeps(lc[l], d))
    BY <1>1, <1>4, <1>5, <1>7 DEF Watched, Keeps
  <1> QED BY <1>2, <1>4, <1>5, <1>6, <1>8 DEF d, q

\* Popping a command, then a function with the Keeps property.
LEMMA PopStep ==
    ASSUME NEW l \in Lchans, NEW mt, IInv, Cmd(l, mt), mt # "CHAN_ACTIV",
           NEW d, Keeps(Rest(l), d), Set(l, d),
           d.type # "NONE" => d.sapis = Rest(l).sapis, UNCHANGED <<bts, up>>
    PROVE  IInv'
  <1>1. Keeps(lc[l], d) /\ (d.type # "NONE" => d.sapis = lc[l].sapis)
    BY PopKeeps, KeepsTrans
  <1> QED BY <1>1, KeepStep

\* A data link changes on both sides.
LEMMA LinkStep ==
    ASSUME NEW l \in Lchans, NEW d, NEW b \in BtsChan, IInv, Set(l, d),
           Keeps(lc[l], d), b.active = bts[l].active, b.deaf = bts[l].deaf,
           bts' = [bts EXCEPT ![l] = b], UNCHANGED up,
           UsedSapis(lc[l]) = bts[l].rll => UsedSapis(d) = b.rll,
           ~b.active /\ UsedSapis(lc[l]) = {} => UsedSapis(d) = {}
    PROVE  IInv'
  <1>1. Good(lc[l], bts[l]) /\ (~up => lc[l].type = "NONE")
    BY DEF IInv
  <1>2. d \in Lchan /\ Watched(d) /\ (~up => d.type = "NONE")
    BY <1>1 DEF Good, Watched, Keeps
  <1>3. Agree(lc[l], bts[l]) => Agree(d, b)
    BY DEF Agree, Keeps
  <1>4. Good(d, b)
    BY <1>1, <1>2, <1>3 DEF Good
  <1> QED BY <1>2, <1>4, StepOn

\* What an update of one channel of the BTS is.
LEMMA BtsFact ==
    ASSUME NEW l \in Lchans, NEW a \in BOOLEAN, NEW r \in SUBSET Sapis, Bts(l, a, r), bts[l] \in BtsChan
    PROVE  /\ [active |-> a, rll |-> r, deaf |-> bts[l].deaf] \in BtsChan
           /\ bts' = [bts EXCEPT ![l] = [active |-> a, rll |-> r, deaf |-> bts[l].deaf]]
  BY DEF Bts, BtsChan

-----------------------------------------------------------------------------
(* The steps of Lchan *)

\* The invariant holds initially: every channel is free.
LEMMA InitIInv == Init => IInv
  <1> SUFFICES ASSUME Init PROVE IInv
    OBVIOUS
  <1>1. LchanInit \in Lchan /\ LchanInit.type = "NONE" /\ LchanInit.state = "NONE"
    <2>1. [s \in Sapis |-> "UNUSED"] \in [Sapis -> SapiStates]
      BY DEF SapiStates
    <2>2. [s \in Sapis |-> 0] \in [Sapis -> Nat] /\ <<>> \in Seq(RslMsgs)
      OBVIOUS
    <2> QED BY <2>1, <2>2 DEF LchanInit, Lchan, LchanTypes, LchanStates, ReleaseModes
  <1>2. bts \in [Lchans -> BtsChan]
    <2>1. \A d \in Deafness : [active |-> FALSE, rll |-> {}, deaf |-> d] \in BtsChan
      BY DEF Deafness, BtsChan
    <2> QED BY <2>1 DEF Init
  <1>3. \A b \in BtsChan : Good(LchanInit, b)
    BY <1>1 DEF Good, Watched, Agree
  <1> HIDE DEF LchanInit
  <1> QED BY <1>1, <1>2, <1>3 DEF Init, IInv, TypeOK

\* A channel that lchan_alloc() may return is a channel.
LEMMA AllocFrom ==
    ASSUME NEW type, NEW bigger, NEW l \in lchan_alloc(type, bigger)
    PROVE  l \in Lchans /\ Pchan[l] \in LchanTypes /\ Pchan[l] # "NONE"
  <1>1. l \in Lchans
    BY DEF lchan_alloc, Free
  <1> QED BY <1>1, PchanAssumption DEF LchanTypes

\* The record an activation starts from, and the record it leaves.
LEMMA ActivationGood ==
    ASSUME NEW c \in Lchan, NEW b \in BtsChan, Watched(c), UsedSapis(c) = {}
    PROVE  Good(rsl_chan_activate_lchan(c), b)
  <1> DEFINE d == Send(c, "CHAN_ACTIV")
  <1>1. /\ Keeps(c, d) /\ d.sapis = c.sapis /\ d.state = c.state /\ d.conn = c.conn
        /\ d.rqd_ref = c.rqd_ref /\ d.act_timer = c.act_timer /\ HasActiv(d)
    BY PlainSendKeeps DEF RslTypes
  <1> HIDE DEF d
  <1>2. UsedSapis(d) = {}
    BY <1>1 DEF UsedSapis
  <1>3. Good(d, b)
    BY <1>1, <1>2 DEF Good, Keeps, Watched, Agree
  <1> QED BY <1>3 DEF rsl_chan_activate_lchan, d

\* CHANNEL REQUIRED preserves the invariant.
LEMMA ChanRqdStep ==
    ASSUME IInv, NEW type, NEW is_lu, rsl_rx_chan_rqd(type, is_lu)
    PROVE  IInv'
  <1>1. PICK l \in lchan_alloc(type, is_lu) :
            Set(l, rsl_chan_activate_lchan(
                    [lchan_take(lc[l], Pchan[l]) EXCEPT
                        !.state = "ACT_REQ", !.rqd_ref = TRUE, !.act_timer = "act"]))
    BY DEF rsl_rx_chan_rqd
  <1>2. l \in Lchans /\ Pchan[l] \in LchanTypes
    BY AllocFrom
  <1>3. up /\ UNCHANGED <<bts, up>> /\ lc[l] \in Lchan /\ bts[l] \in BtsChan
        /\ bts' = [bts EXCEPT ![l] = bts[l]]
    BY <1>2 DEF rsl_rx_chan_rqd, IInv, Good, TypeOK
  <1> DEFINE t == lchan_take(lc[l], Pchan[l])
             c == [t EXCEPT !.state = "ACT_REQ", !.rqd_ref = TRUE, !.act_timer = "act"]
  <1>4. t \in Lchan /\ UsedSapis(t) = {}
    BY <1>2, <1>3, TakeTyped
  <1>5. Set(l, rsl_chan_activate_lchan(c))
    BY <1>1
  <1> HIDE DEF t
  <1>6. c \in Lchan /\ c.sapis = t.sapis /\ c.rqd_ref /\ c.act_timer # "off"
    BY <1>4 DEF Lchan, LchanStates
  <1> HIDE DEF c
  <1>7. Watched(c) /\ UsedSapis(c) = {}
    BY <1>4, <1>6 DEF Watched, UsedSapis
  <1>8. Good(rsl_chan_activate_lchan(c), bts[l])
    BY <1>3, <1>6, <1>7, ActivationGood
  <1> QED BY <1>2, <1>3, <1>5, <1>8, StepOn

\* The activation for an assignment or a handover preserves the invariant.
LEMMA ActivateForConnStep ==
    ASSUME IInv, NEW type, NEW k \in Conns, ActivateForConn(type, k)
    PROVE  IInv'
  <1>1. PICK l \in lchan_alloc(type, FALSE) :
            Set(l, rsl_lchan_set_state(
                    rsl_chan_activate_lchan([lchan_take(lc[l], Pchan[l]) EXCEPT !.conn = k]),
                    "ACT_REQ"))
    BY DEF ActivateForConn
  <1>2. l \in Lchans /\ Pchan[l] \in LchanTypes
    BY AllocFrom
  <1>3. up /\ UNCHANGED <<bts, up>> /\ lc[l] \in Lchan /\ bts[l] \in BtsChan
        /\ bts' = [bts EXCEPT ![l] = bts[l]]
    BY <1>2 DEF ActivateForConn, IInv, Good, TypeOK
  <1> DEFINE t == lchan_take(lc[l], Pchan[l])
             c == [t EXCEPT !.conn = k]
             d == rsl_chan_activate_lchan(c)
             e == rsl_lchan_set_state(d, "ACT_REQ")
  <1>4. t \in Lchan /\ UsedSapis(t) = {}
    BY <1>2, <1>3, TakeTyped
  <1>5. Set(l, e)
    BY <1>1
  <1> HIDE DEF t
  <1>6. c \in Lchan /\ c.sapis = t.sapis /\ c.conn = k
    BY <1>4 DEF Lchan
  <1> HIDE DEF c
  <1>7. d \in Lchan /\ d.sapis = c.sapis /\ HasActiv(d) /\ d.conn = k
    BY <1>6, PlainSendKeeps DEF rsl_chan_activate_lchan, RslTypes, Keeps
  <1> HIDE DEF d
  <1>8. e \in Lchan /\ e.sapis = d.sapis /\ e.out = d.out /\ e.conn = k
    BY <1>7 DEF rsl_lchan_set_state, Lchan, LchanStates
  <1> HIDE DEF e
  <1>9. UsedSapis(e) = {} /\ HasActiv(e) /\ e.conn # NoConn
    BY <1>4, <1>6, <1>7, <1>8, ConnAssumption DEF UsedSapis, HasActiv
  <1>10. Good(e, bts[l])
    BY <1>3, <1>8, <1>9 DEF Good, Watched, Agree
  <1> QED BY <1>2, <1>3, <1>5, <1>10, StepOn

\* Each answer of the BTS preserves the invariant.
LEMMA AnswerStep ==
    ASSUME IInv, NEW l \in Lchans, BtsAnswers(l)
    PROVE  IInv'
  <1>0. lc[l] \in Lchan /\ bts[l] \in BtsChan /\ Good(lc[l], bts[l])
    BY DEF IInv, Good
  <1>b. bts[l].active \in BOOLEAN /\ bts[l].rll \in SUBSET Sapis
    BY <1>0 DEF BtsChan
  <1>1. CASE ChanActivAck(l)
    <2> DEFINE b == [active |-> TRUE, rll |-> {}, deaf |-> bts[l].deaf]
               d == rsl_rx_chan_act_ack(Rest(l))
    <2>1. Cmd(l, "CHAN_ACTIV") /\ ~bts[l].active /\ Bts(l, TRUE, {}) /\ Set(l, d) /\ UNCHANGED up
      BY <1>1 DEF ChanActivAck
    <2>2. /\ up /\ Rest(l) \in Lchan /\ Rest(l).sapis = lc[l].sapis
          /\ Rest(l).type = lc[l].type /\ Watched(Rest(l))
      BY <2>1, PopKeeps
    <2>3. Keeps(Rest(l), d) /\ d.type = Rest(l).type /\ d.sapis = Rest(l).sapis
      BY <2>2, ActAckKeeps
    <2>4. b \in BtsChan /\ bts' = [bts EXCEPT ![l] = b]
      BY <1>0, <2>1, BtsFact
    <2> HIDE DEF d
    <2>5. Watched(d) /\ d \in Lchan
      BY <2>2, <2>3 DEF Watched, Keeps
    <2>6. Agree(lc[l], bts[l]) => Agree(d, b)
      BY <2>1, <2>2, <2>3 DEF Agree, UsedSapis
    <2>7. Good(d, b)
      BY <1>0, <2>4, <2>5, <2>6 DEF Good
    <2> QED BY <2>1, <2>2, <2>4, <2>7, StepOn
  <1>2. CASE ChanActivNack(l)
    <2> DEFINE cause == IF bts[l].active THEN "ALR_ACTV" ELSE "OTHER"
               d == rsl_rx_chan_act_nack(Rest(l), cause)
    <2>1. Cmd(l, "CHAN_ACTIV") /\ Set(l, d) /\ UNCHANGED <<bts, up>>
      BY <1>2 DEF ChanActivNack
    <2>2. Rest(l) \in Lchan /\ Watched(Rest(l))
      BY <2>1, PopKeeps
    <2> HIDE DEF cause
    <2>3. Keeps(Rest(l), d) /\ d.type = "NONE"
      BY <2>2, ActNackFrees
    <2> HIDE DEF d
    <2>4. Good(d, bts[l])
      BY <1>0, <2>2, <2>3 DEF Good, Keeps, Watched, Agree
    <2>5. bts' = [bts EXCEPT ![l] = bts[l]]
      BY <2>1 DEF IInv, TypeOK
    <2> QED BY <2>1, <2>3, <2>4, <2>5, StepOn
  <1>3. CASE RfChanRelAck(l)
    <2> DEFINE d == rsl_rx_rf_chan_rel_ack(Rest(l))
    <2>1. Cmd(l, "RF_CHAN_REL") /\ Set(l, d) /\ UNCHANGED up
      BY <1>3 DEF RfChanRelAck
    <2>2. PICK r \in {{}, bts[l].rll} : Bts(l, FALSE, r)
      BY <1>3 DEF RfChanRelAck
    <2>3. Rest(l) \in Lchan /\ Watched(Rest(l))
      BY <2>1, PopKeeps
    <2>4. Keeps(Rest(l), d) /\ d.type = "NONE"
      BY <2>3, RelAckFrees
    <2> HIDE DEF d
    <2> DEFINE b == [active |-> FALSE, rll |-> r, deaf |-> bts[l].deaf]
    <2>5. b \in BtsChan /\ bts' = [bts EXCEPT ![l] = b]
      BY <1>0, <1>b, <2>2, BtsFact
    <2> HIDE DEF b
    <2>6. Good(d, b)
      BY <2>3, <2>4, <2>5 DEF Good, Keeps, Watched, Agree
    <2> QED BY <2>1, <2>4, <2>5, <2>6, StepOn
  <1>4. CASE Forget(l)
    <2>1. bts[l].deaf /\ Set(l, Rest(l)) /\ UNCHANGED up
      BY <1>4 DEF Forget
    <2>2. PICK mt : Cmd(l, mt)
      BY <1>4 DEF Forget
    <2>3. up /\ Rest(l) \in Lchan /\ Watched(Rest(l))
      BY <2>2, PopKeeps
    <2>4. PICK b \in BtsChan : bts' = [bts EXCEPT ![l] = b] /\ b.deaf
      <3>1. CASE UNCHANGED bts
        <4>1. bts' = [bts EXCEPT ![l] = bts[l]]
          BY <3>1 DEF IInv, TypeOK
        <4> QED BY <1>0, <2>1, <4>1
      <3>2. CASE Bts(l, Cmd(l, "CHAN_ACTIV"), {})
        <4> DEFINE a == Cmd(l, "CHAN_ACTIV")
        <4>1. a \in BOOLEAN
          BY <2>3 DEF Cmd
        <4>2. Bts(l, a, {})
          BY <3>2
        <4> HIDE DEF a
        <4>3. [active |-> a, rll |-> {}, deaf |-> bts[l].deaf] \in BtsChan
          BY <1>0, <4>1 DEF BtsChan
        <4> QED BY <2>1, <4>2, <4>3 DEF Bts
      <3> QED BY <3>1, <3>2, <1>4 DEF Forget
    <2>5. Good(Rest(l), b)
      BY <2>3, <2>4 DEF Good
    <2> QED BY <2>1, <2>3, <2>4, <2>5, StepOn
  <1>5. CASE EstConf(l)
    <2> DEFINE s == Head(lc[l].out).sapi
               d == rll_est_conf(Rest(l), s)
               b == [active |-> TRUE, rll |-> bts[l].rll \cup {s}, deaf |-> bts[l].deaf]
    <2>1. /\ Cmd(l, "EST_REQ") /\ bts[l].active /\ Bts(l, TRUE, bts[l].rll \cup {s})
          /\ Set(l, d) /\ UNCHANGED up
      BY <1>5 DEF EstConf
    <2>2. /\ s \in Sapis /\ Rest(l) \in Lchan /\ Rest(l).sapis = lc[l].sapis
          /\ Keeps(lc[l], Rest(l))
      BY <2>1, PopKeeps
    <2> HIDE DEF s
    <2>3. Keeps(lc[l], d) /\ UsedSapis(d) = UsedSapis(lc[l]) \cup {s}
      BY <2>2, EstConfKeeps, KeepsTrans, SameSapis
    <2>4. b \in BtsChan /\ bts' = [bts EXCEPT ![l] = b]
      BY <1>0, <1>b, <2>1, <2>2, BtsFact, ZenonT(80)
    <2>5. b.active /\ b.rll = bts[l].rll \cup {s} /\ b.deaf = bts[l].deaf
      OBVIOUS
    <2> HIDE DEF d, b
    <2> QED BY <2>1, <2>3, <2>4, <2>5, <1>b, LinkStep
  <1>6. CASE EstFail(l)
    <2> DEFINE s == Head(lc[l].out).sapi
    <2>1. Cmd(l, "EST_REQ") /\ bts[l].active /\ s \notin bts[l].rll /\ UNCHANGED <<bts, up>>
      BY <1>6 DEF EstFail
    <2>2. /\ s \in Sapis /\ Rest(l) \in Lchan /\ Rest(l).sapis = lc[l].sapis
          /\ Keeps(lc[l], Rest(l))
      BY <2>1, PopKeeps
    <2>3. CASE \E t200 \in T200Causes : Set(l, rsl_rx_rll_err_ind(Rest(l), s, t200))
      <3>1. PICK t200 \in T200Causes : Set(l, rsl_rx_rll_err_ind(Rest(l), s, t200))
        BY <2>3
      <3>2. t200 \in BOOLEAN
        BY <3>1 DEF T200Causes
      <3> HIDE DEF s
      <3> QED BY <2>1, <2>2, <3>1, <3>2, ErrIndKeeps, PopStep
    <2>4. CASE Set(l, rll_rel_ind(Rest(l), s))
      <3> DEFINE d == rll_rel_ind(Rest(l), s)
      <3> HIDE DEF s
      <3>1. Keeps(lc[l], d) /\ UsedSapis(d) = UsedSapis(lc[l]) \ {s}
        BY <2>2, RelKeeps, KeepsTrans, SameSapis
      <3>2. bts' = [bts EXCEPT ![l] = bts[l]]
        BY <2>1 DEF IInv, TypeOK
      <3>3. Set(l, d)
        BY <2>4
      <3> HIDE DEF d
      <3>4. UsedSapis(lc[l]) = bts[l].rll => UsedSapis(d) = bts[l].rll
        BY <2>1, <3>1
      <3> QED BY <1>0, <2>1, <3>1, <3>2, <3>3, <3>4, LinkStep
    <2> QED BY <1>6, <2>3, <2>4 DEF EstFail
  <1>7. CASE RelConf(l)
    <2> DEFINE s == Head(lc[l].out).sapi
               d == rll_rel_conf(Rest(l), s)
               b == [active |-> TRUE, rll |-> bts[l].rll \ {s}, deaf |-> bts[l].deaf]
    <2>1. /\ Cmd(l, "REL_REQ") /\ bts[l].active /\ Bts(l, TRUE, bts[l].rll \ {s})
          /\ Set(l, d) /\ UNCHANGED up
      BY <1>7 DEF RelConf, Confirms
    <2>2. /\ s \in Sapis /\ Rest(l) \in Lchan /\ Rest(l).sapis = lc[l].sapis
          /\ Keeps(lc[l], Rest(l))
      BY <2>1, PopKeeps
    <2> HIDE DEF s
    <2>3. Keeps(lc[l], d) /\ UsedSapis(d) = UsedSapis(lc[l]) \ {s}
      BY <2>2, RelKeeps, KeepsTrans, SameSapis
    <2>4. b \in BtsChan /\ bts' = [bts EXCEPT ![l] = b]
      BY <1>0, <1>b, <2>1, <2>2, BtsFact
    <2>5. b.active /\ b.rll = bts[l].rll \ {s} /\ b.deaf = bts[l].deaf
      OBVIOUS
    <2> HIDE DEF d, b
    <2> QED BY <2>1, <2>3, <2>4, <2>5, <1>b, LinkStep
  <1>8. CASE RrChanRel(l)
    <2> DEFINE d == rll_rel_ind(Rest(l), 0)
               b == [active |-> bts[l].active, rll |-> bts[l].rll \ {0}, deaf |-> bts[l].deaf]
    <2>1. /\ Cmd(l, "RR_CHAN_REL") /\ Bts(l, bts[l].active, bts[l].rll \ {0})
          /\ Set(l, d) /\ UNCHANGED up
      BY <1>8 DEF RrChanRel
    <2>2. /\ 0 \in Sapis /\ Rest(l) \in Lchan /\ Rest(l).sapis = lc[l].sapis
          /\ Keeps(lc[l], Rest(l))
      BY <2>1, PopKeeps, SapisAssumption
    <2>3. Keeps(lc[l], d) /\ UsedSapis(d) = UsedSapis(lc[l]) \ {0}
      BY <2>2, RelKeeps, KeepsTrans, SameSapis
    <2>4. b \in BtsChan /\ bts' = [bts EXCEPT ![l] = b]
      BY <1>0, <1>b, <2>1, <2>2, BtsFact, ZenonT(80)
    <2>5. b.active = bts[l].active /\ b.rll = bts[l].rll \ {0} /\ b.deaf = bts[l].deaf
      OBVIOUS
    <2> HIDE DEF d, b
    <2> QED BY <2>1, <2>3, <2>4, <2>5, LinkStep
  <1>9. CASE NoAnswer(l)
    <2>1. PICK mt : Cmd(l, mt) /\ mt # "CHAN_ACTIV"
      BY <1>9 DEF NoAnswer
    <2>2. Set(l, Rest(l)) /\ UNCHANGED <<bts, up>>
      BY <1>9 DEF NoAnswer
    <2>3. Keeps(Rest(l), Rest(l))
      BY <2>1, PopKeeps DEF Keeps
    <2> QED BY <2>1, <2>2, <2>3, PopStep
  <1> QED BY <1>1, <1>2, <1>3, <1>4, <1>5, <1>6, <1>7, <1>8, <1>9 DEF BtsAnswers

\* Each timer preserves the invariant.
LEMMA TimerStep ==
    ASSUME IInv, NEW l \in Lchans, TimerExpires(l)
    PROVE  IInv'
  <1>0. lc[l] \in Lchan
    BY DEF IInv, Good
  <1>1. CASE ActTimer(l)
    BY <1>0, <1>1, TimersKeep, KeepStep DEF ActTimer
  <1>2. CASE ErrorTimer(l)
    BY <1>0, <1>2, TimersKeep, KeepStep DEF ErrorTimer
  <1>3. CASE T3101Expires(l)
    BY <1>0, <1>3, TimersKeep, KeepStep DEF T3101Expires
  <1>4. CASE T3111Expires(l)
    BY <1>0, <1>4, TimersKeep, KeepStep DEF T3111Expires
  <1>5. CASE \E s \in Sapis : RllTimer(l, s)
    BY <1>0, <1>5, IndicationKeeps, KeepStep DEF RllTimer
  <1> QED BY <1>1, <1>2, <1>3, <1>4, <1>5 DEF TimerExpires

\* Radio failures preserve the invariant.
LEMMA RadioStep ==
    ASSUME IInv, NEW l \in Lchans, ConnFail(l) \/ \E s \in Sapis : ErrInd(l, s)
    PROVE  IInv'
  <1>0. lc[l] \in Lchan
    BY DEF IInv, Good
  <1>1. CASE ConnFail(l)
    BY <1>0, <1>1, RfReleaseKeeps, KeepStep DEF ConnFail, rsl_rx_conn_fail
  <1>2. ASSUME NEW s \in Sapis, ErrInd(l, s)
        PROVE  IInv'
    <2>1. PICK t200 \in T200Causes : Set(l, rsl_rx_rll_err_ind(lc[l], s, t200))
      BY <1>2 DEF ErrInd
    <2>2. t200 \in BOOLEAN
      BY <2>1 DEF T200Causes
    <2>3. UNCHANGED <<bts, up>>
      BY <1>2 DEF ErrInd
    <2> QED BY <1>0, <2>1, <2>2, <2>3, ErrIndKeeps, KeepStep
  <1> QED BY <1>1, <1>2

\* The connection is noted on a channel whose activation has been answered.
LEMMA OwnKeeps ==
    ASSUME NEW c \in Lchan, NEW k \in Conns, c.state = "ACTIVE"
    PROVE  /\ Keeps(c, [c EXCEPT !.conn = k])
           /\ [c EXCEPT !.conn = k].sapis = c.sapis
  BY DEF Keeps, HasActiv, Lchan, LchanStates

\* An MS that sets up a data link, accepted or refused, preserves the invariant.
LEMMA MsEstablishStep ==
    ASSUME IInv, NEW l \in Lchans, NEW s \in Sapis, MsEstablish(l, s)
    PROVE  IInv'
  <1> DEFINE c == rll_est_ind(lc[l], s)
             b == [active |-> TRUE, rll |-> bts[l].rll \cup {s}, deaf |-> bts[l].deaf]
  <1>0. lc[l] \in Lchan /\ bts[l] \in BtsChan
    BY DEF IInv, Good
  <1>1. Keeps(lc[l], c) /\ c \in Lchan /\ UsedSapis(c) = UsedSapis(lc[l]) \cup {s}
    BY <1>0, EstIndKeeps DEF Keeps
  <1>2. bts[l].active /\ UNCHANGED up /\ Bts(l, TRUE, bts[l].rll \cup {s})
    BY DEF MsEstablish
  <1>3. b \in BtsChan /\ bts' = [bts EXCEPT ![l] = b]
    BY <1>0, <1>2 DEF BtsChan, Bts
  <1>4. b.active = bts[l].active /\ b.rll = bts[l].rll \cup {s} /\ b.deaf = bts[l].deaf
    BY <1>0, <1>2 DEF BtsChan
  <1>5. \/ Set(l, c)
        \/ c.state = "ACTIVE" /\ \E k \in Conns : Set(l, [c EXCEPT !.conn = k])
        \/ Set(l, lchan_release(c, FALSE, "NORMAL"))
    BY DEF MsEstablish
  <1> HIDE DEF c, b
  <1>6. PICK d : Set(l, d) /\ Keeps(c, d) /\ d.sapis = c.sapis
    <2>1. CASE Set(l, c)
      BY <2>1, <1>1 DEF Keeps
    <2>2. CASE c.state = "ACTIVE" /\ \E k \in Conns : Set(l, [c EXCEPT !.conn = k])
      <3>1. PICK k \in Conns : Set(l, [c EXCEPT !.conn = k])
        BY <2>2
      <3> QED BY <2>2, <3>1, <1>1, OwnKeeps
    <2>3. CASE Set(l, lchan_release(c, FALSE, "NORMAL"))
      <3>1. "NORMAL" \in ReleaseModes
        BY DEF ReleaseModes
      <3> QED BY <2>3, <3>1, <1>1, ReleaseKeeps
    <2> QED BY <1>5, <2>1, <2>2, <2>3
  <1>7. Keeps(lc[l], d) /\ UsedSapis(d) = UsedSapis(lc[l]) \cup {s}
    BY <1>1, <1>6, KeepsTrans, SameSapis
  <1> QED BY <1>2, <1>3, <1>4, <1>6, <1>7, LinkStep

\* An MS that takes a data link down preserves the invariant.
LEMMA MsDisconnectStep ==
    ASSUME IInv, NEW l \in Lchans, NEW s \in Sapis, MsDisconnect(l, s)
    PROVE  IInv'
  <1> DEFINE d == rll_rel_ind(lc[l], s)
             b == [active |-> bts[l].active, rll |-> bts[l].rll \ {s}, deaf |-> bts[l].deaf]
  <1>0. lc[l] \in Lchan /\ bts[l] \in BtsChan
    BY DEF IInv, Good
  <1>1. Keeps(lc[l], d) /\ UsedSapis(d) = UsedSapis(lc[l]) \ {s}
    BY <1>0, RelKeeps
  <1>2. Set(l, d) /\ UNCHANGED up /\ bts' = [bts EXCEPT ![l] = b]
    BY DEF MsDisconnect, Bts
  <1>3. b \in BtsChan /\ b.active = bts[l].active /\ b.rll = bts[l].rll \ {s} /\ b.deaf = bts[l].deaf
    BY <1>0 DEF BtsChan
  <1> HIDE DEF d, b
  <1> QED BY <1>1, <1>2, <1>3, LinkStep

\* The calls of the layer above preserve the invariant.
LEMMA OwnerStep ==
    ASSUME IInv, NEW l \in Lchans,
           \/ \E sd \in BOOLEAN : ReleaseByOwner(l, sd)
           \/ \E s \in Sapis : RllEstablish(l, s)
    PROVE  IInv'
  <1>0. lc[l] \in Lchan
    BY DEF IInv, Good
  <1>1. ASSUME NEW sd \in BOOLEAN, ReleaseByOwner(l, sd)
        PROVE  IInv'
    <2> DEFINE reason == IF sd THEN "NORMAL" ELSE "LOCAL_END"
    <2>1. reason \in ReleaseModes
      BY DEF ReleaseModes
    <2>2. Set(l, lchan_release(lc[l], sd, reason)) /\ UNCHANGED <<bts, up>>
      BY <1>1 DEF ReleaseByOwner
    <2> HIDE DEF reason
    <2> QED BY <1>0, <2>1, <2>2, ReleaseKeeps, KeepStep
  <1>2. ASSUME NEW s \in Sapis, RllEstablish(l, s)
        PROVE  IInv'
    BY <1>0, <1>2, EstablishKeeps, KeepStep DEF RllEstablish
  <1> QED BY <1>1, <1>2

\* The loss of the link preserves the invariant: every channel becomes free.
LEMMA LinkDownStep ==
    ASSUME IInv, LinkDown
    PROVE  IInv'
  <1> DEFINE c(l) == IF lc[l].state # "NONE" THEN lchan_free(lc[l]) ELSE lc[l]
             e(l) == [lchan_reset(c(l)) EXCEPT !.out = <<>>]
             b(l) == [active |-> FALSE, rll |-> {}, deaf |-> bts[l].deaf]
  <1>1. \A l \in Lchans : b(l) \in BtsChan
    BY DEF IInv, TypeOK, BtsChan
  <1>2. lc' = [l \in Lchans |-> e(l)] /\ bts' = [l \in Lchans |-> b(l)] /\ up' = FALSE
    BY DEF LinkDown
  <1>3. ASSUME NEW l \in Lchans
        PROVE  Good(e(l), b(l)) /\ e(l).type = "NONE"
    <2>1. lc[l] \in Lchan
      BY DEF IInv, Good
    <2>2. c(l) \in Lchan
      BY <2>1, FreeKeeps DEF Keeps
    <2> HIDE DEF c
    <2>3. /\ lchan_reset(c(l)) \in Lchan
          /\ lchan_reset(c(l)).type = "NONE" /\ lchan_reset(c(l)).state = "NONE"
      BY <2>2, ResetTyped
    <2>4. Good(lchan_reset(c(l)), b(l))
      BY <1>1, <2>3 DEF Good, Watched, Agree
    <2> HIDE DEF b
    <2> QED BY <2>3, <2>4, EmptyGood
  <1> HIDE DEF e, b
  <1>4. \A l \in Lchans : e(l) \in Lchan
    BY <1>3 DEF Good
  <1>5. TypeOK'
    BY <1>1, <1>2, <1>4 DEF TypeOK
  <1>6. \A l \in Lchans : Good(lc'[l], bts'[l]) /\ lc'[l].type = "NONE"
    BY <1>2, <1>3
  <1>7. (\A l \in Lchans : Good(lc[l], bts[l]))'
    BY <1>6 DEF Good, Watched, Agree, HasActiv, UsedSapis
  <1> QED BY <1>5, <1>6, <1>7 DEF IInv

\* The return of the link preserves the invariant.
LEMMA LinkUpStep ==
    ASSUME IInv, LinkUp
    PROVE  IInv'
  BY DEF LinkUp, IInv, TypeOK, Good, Watched, Agree, HasActiv, UsedSapis

\* A step that changes nothing preserves the invariant.
LEMMA StutterStep ==
    ASSUME IInv, UNCHANGED vars
    PROVE  IInv'
  BY DEF vars, IInv, TypeOK, Good, Watched, Agree, HasActiv, UsedSapis

\* Every step preserves the invariant.
LEMMA NextIInv ==
    ASSUME IInv, [Next]_vars
    PROVE  IInv'
  <1>1. ASSUME NEW type \in {"SDCCH", "TCH_F", "TCH_H"}, NEW is_lu \in BOOLEAN,
               rsl_rx_chan_rqd(type, is_lu)
        PROVE  IInv'
    BY <1>1, ChanRqdStep
  <1>2. ASSUME NEW type \in {"SDCCH", "TCH_F", "TCH_H"}, NEW k \in Conns,
               ActivateForConn(type, k)
        PROVE  IInv'
    BY <1>2, ActivateForConnStep
  <1>3. ASSUME NEW l \in Lchans, BtsAnswers(l) PROVE IInv'
    BY <1>3, AnswerStep
  <1>4. ASSUME NEW l \in Lchans, TimerExpires(l) PROVE IInv'
    BY <1>4, TimerStep
  <1>5. ASSUME NEW l \in Lchans, ConnFail(l) \/ \E s \in Sapis : ErrInd(l, s) PROVE IInv'
    BY <1>5, RadioStep
  <1>6. ASSUME NEW l \in Lchans, NEW s \in Sapis, MsEstablish(l, s) PROVE IInv'
    BY <1>6, MsEstablishStep
  <1>7. ASSUME NEW l \in Lchans, NEW s \in Sapis, MsDisconnect(l, s) PROVE IInv'
    BY <1>7, MsDisconnectStep
  <1>8. ASSUME NEW l \in Lchans,
               \/ \E sd \in BOOLEAN : ReleaseByOwner(l, sd)
               \/ \E s \in Sapis : RllEstablish(l, s)
        PROVE  IInv'
    BY <1>8, OwnerStep
  <1> QED BY <1>1, <1>2, <1>3, <1>4, <1>5, <1>6, <1>7, <1>8,
             LinkDownStep, LinkUpStep, StutterStep DEF Next

\* IInv is an invariant of the specification.
LEMMA SpecIInv == Spec => []IInv
  BY InitIInv, NextIInv, PTL DEF Spec

-----------------------------------------------------------------------------
(* The results *)

\* The channel records, the data link tables and the queues keep their types:
\* no handler of chan_alloc.c, abis_rsl.c or bsc_rll.c leaves the enumerations.
THEOREM TypeCorrect == Spec => []TypeOK
  <1>1. IInv => TypeOK
    BY DEF IInv
  <1> QED BY <1>1, SpecIInv, PTL

\* Whatever fails, and also when the BTS never answers, a channel in ACT_REQ has
\* the guard timer of rsl_rx_chan_rqd() running or a connection that owns it.
THEOREM ActReqAlwaysKept == Spec => []ActReqKept
  <1>1. IInv => ActReqKept
    BY DEF IInv, Good, Watched, ActReqKept
  <1> QED BY <1>1, SpecIInv, PTL

\* When the BTS answers every CHAN ACTIV and RF CHAN REL, and whatever else goes
\* wrong, an allocated channel is active in the BTS or about to be.
THEOREM BusyAlwaysReal ==
    Spec => []BusyIsReal
  <1>1. IInv => BusyIsReal
    BY DEF IInv, Good, Agree, BusyIsReal, HasActiv, Queued
  <1> QED BY <1>1, SpecIInv, PTL

\* On such a channel the BSC's table of data links is the BTS's.
THEOREM LinksAlwaysAgree ==
    Spec => []LinksAgree
  <1>1. IInv => LinksAgree
    BY DEF IInv, Good, Agree, LinksAgree, HasActiv, Queued
  <1> QED BY <1>1, SpecIInv, PTL

\* All four together, as the run Lchan_faults checks them: the BSC's record of a channel
\* is true whatever fails around it.
THEOREM LchanAlwaysSound == Spec => []LchanSound
  <1>1. TypeOK /\ ActReqKept /\ BusyIsReal /\ LinksAgree => LchanSound
    BY DEF LchanSound
  <1> QED BY <1>1, TypeCorrect, ActReqAlwaysKept, BusyAlwaysReal, LinksAlwaysAgree, PTL

-----------------------------------------------------------------------------
(* When BTS, MS and the layer above follow the procedures *)

OrderlyFaults == Faults \subseteq {"late_rel_ind", "idle_confirm"}

\* The one command under way.
Only(c, mt) == Len(c.out) = 1 /\ c.out[1].mt = mt

\* What chan_alloc.c may hand out.
Idle(c, b) ==
    /\ c.type = "NONE" /\ c.state = "NONE" /\ c.conn = NoConn /\ c.out = <<>> /\ c.act_timer = "off"
    /\ ~c.T3101 /\ ~c.T3111 /\ ~c.rqd_ref /\ ~b.active
\* CHAN ACTIV is under way.
Opening(c, b) ==
    /\ c.type # "NONE" /\ c.state = "ACT_REQ" /\ Only(c, "CHAN_ACTIV") /\ ~b.active
    /\ c.act_timer # "deact" /\ ~c.T3101 /\ ~c.T3111 /\ UsedSapis(c) = {} /\ (c.rqd_ref => c.conn = NoConn)
\* The channel is in use; only its owner asks for data links, beside the main one.
Serving(c, b) ==
    /\ c.type # "NONE" /\ c.state = "ACTIVE" /\ b.active /\ c.act_timer = "off" /\ ~c.T3111 /\ ~c.rqd_ref
    /\ \A i \in DOMAIN c.out : c.out[i].mt = "EST_REQ" /\ c.out[i].sapi # 0
    /\ c.conn = NoConn => c.out = <<>>
    /\ c.T3101 => c.conn = NoConn /\ UsedSapis(c) = {}
    /\ (UsedSapis(c) # {} \/ c.out # <<>>) => 0 \in UsedSapis(c)
\* T3101 has expired and RF CHAN REL is under way.
Quarantined(c, b) ==
    /\ c.type # "NONE" /\ c.state = "REL_ERR" /\ b.active /\ c.conn = NoConn /\ ~c.rqd_ref
    /\ ~c.T3101 /\ ~c.T3111 /\ c.act_timer = "deact" /\ Only(c, "RF_CHAN_REL")
\* The data links go one by one, the main one last; T3111; RF CHAN REL.
Releasing(c, b) ==
    /\ c.type # "NONE" /\ c.state = "REL_REQ" /\ b.active /\ c.conn = NoConn /\ ~c.rqd_ref /\ ~c.T3101
    /\ \/ /\ c.act_timer = "off" /\ ~c.T3111 /\ Only(c, "REL_REQ")
          /\ IF c.out[1].sapi = 0 THEN UsedSapis(c) \subseteq {0} ELSE 0 \in UsedSapis(c)
       \/ c.act_timer = "off" /\ ~c.T3111 /\ Only(c, "RR_CHAN_REL") /\ UsedSapis(c) \subseteq {0}
       \/ c.act_timer = "off" /\ c.out = <<>>
       \/ c.act_timer = "deact" /\ ~c.T3111 /\ Only(c, "RF_CHAN_REL")
InPhase(c, b) == Idle(c, b) \/ Opening(c, b) \/ Serving(c, b) \/ Quarantined(c, b) \/ Releasing(c, b)
Phased == up /\ \A l \in Lchans : ~bts[l].deaf /\ InPhase(lc[l], bts[l])

\* The fields the phases are about.
Alike(c, d) ==
    /\ d \in Lchan
    /\ d.type = c.type /\ d.state = c.state /\ d.conn = c.conn /\ d.rqd_ref = c.rqd_ref /\ d.act_timer = c.act_timer
    /\ d.T3101 = c.T3101 /\ d.T3111 = c.T3111 /\ d.sapis = c.sapis /\ d.out = c.out

\* Records alike are in the same phase.
LEMMA AlikePhase ==
    ASSUME NEW c, NEW d, NEW b, Alike(c, d), InPhase(c, b)
    PROVE  InPhase(d, b)
  <1>1. UsedSapis(d) = UsedSapis(c)
    BY DEF Alike, UsedSapis
  <1> QED BY <1>1 DEF Alike, InPhase, Idle, Opening, Serving, Quarantined, Releasing, Only

\* rll_indication() only counts.
LEMMA IndicationAlike ==
    ASSUME NEW c \in Lchan, NEW s \in Sapis
    PROVE  Alike(c, rll_indication(c, s))
  <1>1. PICK r : r = [c.rllr EXCEPT ![s] = IF @ > 0 THEN @ - 1 ELSE 0]
    OBVIOUS
  <1>2. rll_indication(c, s) = [c EXCEPT !.rllr = r]
    BY <1>1 DEF rll_indication
  <1>3. rll_indication(c, s) \in Lchan
    BY IndicationKeeps DEF Keeps
  <1> QED BY <1>2, <1>3 DEF Alike, Lchan

\* The same fields, with one more command in the queue.
Sent(c, d, mt, s) ==
    /\ d \in Lchan
    /\ d.type = c.type /\ d.state = c.state /\ d.conn = c.conn /\ d.rqd_ref = c.rqd_ref /\ d.act_timer = c.act_timer
    /\ d.T3101 = c.T3101 /\ d.T3111 = c.T3111 /\ d.sapis = c.sapis
    /\ Len(d.out) = Len(c.out) + 1 /\ d.out[Len(c.out) + 1].mt = mt /\ d.out[Len(c.out) + 1].sapi = s
    /\ \A i \in 1..Len(c.out) : d.out[i] = c.out[i]

\* What SendRll() does.
LEMMA SendSent ==
    ASSUME NEW c \in Lchan, NEW mt \in RslTypes, NEW s \in Sapis, NEW mode \in ReleaseModes, NEW d,
           d = SendRll(c, mt, s, mode)
    PROVE  Sent(c, d, mt, s)
  <1>1. PICK m : m = [mt |-> mt, sapi |-> s, mode |-> mode]
    OBVIOUS
  <1>2. m \in RslMsgs /\ m.mt = mt /\ m.sapi = s
    BY <1>1 DEF RslMsgs
  <1>3. c.out \in Seq(RslMsgs)
    BY DEF Lchan
  <1>4. PICK q : q = Append(c.out, m)
    OBVIOUS
  <1>5. /\ q \in Seq(RslMsgs) /\ Len(q) = Len(c.out) + 1 /\ q[Len(c.out) + 1] = m
        /\ \A i \in 1..Len(c.out) : q[i] = c.out[i]
    BY <1>2, <1>3, <1>4
  <1>6. d = [c EXCEPT !.out = q]
    BY <1>1, <1>4 DEF SendRll
  <1>7. d \in Lchan
    BY <1>5, <1>6, SetOut
  <1>8. /\ d.type = c.type /\ d.state = c.state /\ d.conn = c.conn /\ d.rqd_ref = c.rqd_ref /\ d.act_timer = c.act_timer
        /\ d.T3101 = c.T3101 /\ d.T3111 = c.T3111 /\ d.sapis = c.sapis /\ d.out = q
    BY <1>6 DEF Lchan
  <1> QED BY <1>2, <1>5, <1>7, <1>8 DEF Sent

\* The first command of an empty queue is the only one.
LEMMA SentOnly ==
    ASSUME NEW c, c.out = <<>>, NEW d, NEW mt, NEW s, Sent(c, d, mt, s)
    PROVE  Only(d, mt) /\ d.out[1].sapi = s /\ UsedSapis(d) = UsedSapis(c)
  <1>1. UsedSapis(d) = UsedSapis(c)
    BY DEF Sent, UsedSapis
  <1>2. Len(c.out) = 0
    OBVIOUS
  <1> QED BY <1>1, <1>2 DEF Sent, Only

\* The release of a channel goes on: with nothing else under way, and with the main link up
\* while another one is.
LEMMA HandleReleasePhase ==
    ASSUME NEW c \in Lchan, NEW b, b.active, c.type # "NONE", c.state = "REL_REQ", c.conn = NoConn, ~c.rqd_ref, ~c.T3101,
           c.act_timer = "off", ~c.T3111, c.out = <<>>, UsedSapis(c) \subseteq {0} \/ 0 \in UsedSapis(c), NEW d,
           d = lchan_handle_release(c)
    PROVE  Releasing(d, b)
  <1>0. c.release_reason \in ReleaseModes /\ 0 \in Sapis /\ "NORMAL" \in ReleaseModes
    BY SapisAssumption DEF Lchan, ReleaseModes
  <1>1. CASE UsedSapis(c) \ {0} # {}
    <2>1. PICK U : U = UsedSapis(c) \ {0}
      OBVIOUS
    <2>2. PICK s : s = CHOOSE x \in U : \A t \in U : x <= t
      OBVIOUS
    <2>3. U \in SUBSET Sapis /\ U # {} /\ 0 \notin U
      BY <1>1, <2>1 DEF UsedSapis
    <2>4. s \in Sapis
      BY <2>2, <2>3, LowestSapi
    <2>5. d = SendRll(c, "REL_REQ", s, c.release_reason)
      BY <1>1, <2>1, <2>2 DEF lchan_handle_release, rsl_release_request
    <2>6. Sent(c, d, "REL_REQ", s)
      BY <1>0, <2>4, <2>5, SendSent DEF RslTypes
    <2>7. Only(d, "REL_REQ") /\ d.out[1].sapi = s /\ UsedSapis(d) = UsedSapis(c)
      BY <2>6, SentOnly
    <2>8. 0 \in UsedSapis(c)
      BY <1>1
    <2>9. s # 0
      <3>1. \E x \in U : \A t \in U : x <= t
        BY <2>3, LowestExists
      <3> QED BY <2>2, <2>3, <3>1
    <2> QED BY <2>6, <2>7, <2>8, <2>9 DEF Releasing, Sent
  <1>2. CASE UsedSapis(c) \ {0} = {} /\ c.sach_deact
    <2>1. d = SendRll(c, "RR_CHAN_REL", 0, "NORMAL")
      BY <1>2 DEF lchan_handle_release, gsm48_send_rr_release, Send
    <2>2. Sent(c, d, "RR_CHAN_REL", 0)
      BY <1>0, <2>1, SendSent DEF RslTypes
    <2>3. Only(d, "RR_CHAN_REL") /\ UsedSapis(d) = UsedSapis(c)
      BY <2>2, SentOnly
    <2> QED BY <1>2, <2>2, <2>3 DEF Releasing, Sent
  <1>3. CASE UsedSapis(c) \ {0} = {} /\ ~c.sach_deact
    <2>1. PICK e : e = SendRll(c, "REL_REQ", 0, c.release_reason)
      OBVIOUS
    <2>2. d = [e EXCEPT !.state = "REL_REQ"]
      BY <1>3, <2>1 DEF lchan_handle_release, rsl_release_request, rsl_lchan_set_state
    <2>3. Sent(c, e, "REL_REQ", 0)
      BY <1>0, <2>1, SendSent DEF RslTypes
    <2>4. Only(e, "REL_REQ") /\ e.out[1].sapi = 0 /\ UsedSapis(e) = UsedSapis(c)
      BY <2>3, SentOnly
    <2>5. d = e
      BY <2>2, <2>3 DEF Sent, Lchan
    <2> QED BY <1>3, <2>3, <2>4, <2>5 DEF Releasing, Sent
  <1> QED BY <1>1, <1>2, <1>3

\* A channel in use with nothing under way is released.
LEMMA ReleasePhase ==
    ASSUME NEW c \in Lchan, NEW b, Serving(c, b), c.out = <<>>, ~c.T3101, NEW sd \in BOOLEAN, NEW reason \in ReleaseModes,
           NEW d, d = lchan_release(c, sd, reason)
    PROVE  Releasing(d, b)
  <1>1. PICK e : e = [c EXCEPT !.state = "REL_REQ", !.conn = NoConn, !.release_reason = reason, !.sach_deact = sd]
    OBVIOUS
  <1>2. e \in Lchan
    BY <1>1 DEF Lchan, LchanStates
  <1>3. /\ e.type = c.type /\ e.state = "REL_REQ" /\ e.conn = NoConn /\ e.rqd_ref = c.rqd_ref /\ e.act_timer = c.act_timer
        /\ e.T3101 = c.T3101 /\ e.T3111 = c.T3111 /\ e.sapis = c.sapis /\ e.out = c.out
    BY <1>1 DEF Lchan
  <1>4. UsedSapis(e) = UsedSapis(c)
    BY <1>3 DEF UsedSapis
  <1>5. d = lchan_handle_release(e)
    BY <1>1 DEF lchan_release
  <1>6. /\ b.active /\ e.type # "NONE" /\ ~e.rqd_ref /\ ~e.T3101 /\ e.act_timer = "off" /\ ~e.T3111 /\ e.out = <<>>
        /\ (UsedSapis(e) \subseteq {0} \/ 0 \in UsedSapis(e))
    BY <1>3, <1>4 DEF Serving
  <1> QED BY <1>2, <1>3, <1>5, <1>6, HandleReleasePhase

\* A step on one channel that leaves it in a phase keeps all channels in theirs.
LEMMA PhaseOn ==
    ASSUME IInv, Phased, NEW l \in Lchans, NEW d, NEW b, Set(l, d), InPhase(d, b), ~b.deaf,
           bts' = [bts EXCEPT ![l] = b], UNCHANGED up
    PROVE  Phased'
  <1>1. up /\ lc' = [lc EXCEPT ![l] = d]
    BY DEF Phased, Set
  <1>2. lc \in [Lchans -> Lchan] /\ bts \in [Lchans -> BtsChan]
    BY DEF IInv, TypeOK
  <1>3. ASSUME NEW k \in Lchans
        PROVE  ~bts'[k].deaf /\ InPhase(lc'[k], bts'[k])
    <2>1. CASE k = l
      BY <1>1, <1>2, <2>1
    <2>2. CASE k # l
      <3>1. lc'[k] = lc[k] /\ bts'[k] = bts[k]
        BY <1>1, <1>2, <2>2
      <3> QED BY <3>1 DEF Phased
    <2> QED BY <2>1, <2>2
  <1>4. (\A k \in Lchans : InPhase(lc[k], bts[k]))'
    BY <1>3 DEF InPhase, Idle, Opening, Serving, Quarantined, Releasing, Only, UsedSapis
  <1> QED BY <1>1, <1>3, <1>4 DEF Phased

\* The same when the BTS does nothing.
LEMMA PhaseHere ==
    ASSUME IInv, Phased, NEW l \in Lchans, NEW d, Set(l, d), InPhase(d, bts[l]), UNCHANGED <<bts, up>>
    PROVE  Phased'
  <1>1. bts' = [bts EXCEPT ![l] = bts[l]]
    BY DEF IInv, TypeOK
  <1>2. ~bts[l].deaf
    BY DEF Phased
  <1> QED BY <1>1, <1>2, PhaseOn

\* What is known of a channel.
LEMMA ChannelFacts ==
    ASSUME IInv, Phased, NEW l \in Lchans
    PROVE  /\ lc[l] \in Lchan /\ bts[l] \in BtsChan /\ up /\ ~bts[l].deaf /\ InPhase(lc[l], bts[l])
           /\ lc[l].out \in Seq(RslMsgs)
           /\ Agree(lc[l], bts[l])
  BY DEF IInv, Good, Phased, Lchan

\* A channel in use or being released has the data links the BTS has.
LEMMA PhaseLinks ==
    ASSUME NEW c \in Lchan, NEW b, Agree(c, b), InPhase(c, b), c.state \in {"ACTIVE", "REL_REQ"}
    PROVE  UsedSapis(c) = b.rll /\ b.active /\ c.type # "NONE"
  <1>0. c.out \in Seq(RslMsgs)
    BY DEF Lchan
  <1>1. CASE Serving(c, b)
    BY <1>1 DEF Serving, Agree, HasActiv
  <1>2. CASE Releasing(c, b)
    <2>1. ~HasActiv(c)
      <3>1. c.out = <<>> \/ (Len(c.out) = 1 /\ c.out[1].mt # "CHAN_ACTIV")
        BY <1>2 DEF Releasing, Only
      <3> QED BY <1>0, <3>1 DEF HasActiv
    <2> QED BY <1>2, <2>1 DEF Releasing, Agree
  <1> QED BY <1>1, <1>2 DEF InPhase, Idle, Opening, Quarantined

\* An answer is for the only command under way.
LEMMA OnlyHead ==
    ASSUME NEW q \in Seq(RslMsgs), q # <<>>
    PROVE  /\ Head(q) = q[1] /\ 1 \in DOMAIN q /\ Head(q) \in RslMsgs /\ Head(q).sapi \in Sapis
           /\ Tail(q) \in Seq(RslMsgs) /\ Len(q) > 0 /\ Len(q) \in Nat
           /\ Len(q) = 1 => Tail(q) = <<>>
           /\ \A i \in DOMAIN Tail(q) : i + 1 \in DOMAIN q /\ Tail(q)[i] = q[i + 1]
  <1>1. /\ Head(q) = q[1] /\ 1 \in DOMAIN q /\ Head(q) \in RslMsgs
        /\ Tail(q) \in Seq(RslMsgs) /\ Len(q) > 0 /\ Len(q) \in Nat
        /\ \A i \in DOMAIN Tail(q) : i + 1 \in DOMAIN q /\ Tail(q)[i] = q[i + 1]
    OBVIOUS
  <1>2. ASSUME Len(q) = 1
        PROVE  Tail(q) = <<>>
    <2>1. PICK t : t = Tail(q)
      OBVIOUS
    <2>2. t \in Seq(RslMsgs) /\ Len(t) = 0
      BY <1>2, <2>1
    <2>3. t = <<>>
      BY <2>2
    <2> QED BY <2>1, <2>3
  <1>3. Head(q).sapi \in Sapis
    BY <1>1 DEF RslMsgs
  <1> QED BY <1>1, <1>2, <1>3

\* Taking a command off the queue changes nothing else.
Popped(c, d) ==
    /\ d \in Lchan
    /\ d.type = c.type /\ d.state = c.state /\ d.conn = c.conn /\ d.rqd_ref = c.rqd_ref /\ d.act_timer = c.act_timer
    /\ d.T3101 = c.T3101 /\ d.T3111 = c.T3111 /\ d.sapis = c.sapis /\ d.out = Tail(c.out)
    /\ d.release_reason = c.release_reason /\ d.sach_deact = c.sach_deact

\* What is left of a channel when the BTS takes the first command.
LEMMA RestPopped ==
    ASSUME NEW l, lc[l] \in Lchan, lc[l].out # <<>>, NEW d, d = Rest(l)
    PROVE  Popped(lc[l], d)
  <1>1. PICK c, q : c = lc[l] /\ q = Tail(c.out)
    OBVIOUS
  <1>2. c \in Lchan /\ q \in Seq(RslMsgs)
    <2>1. c.out \in Seq(RslMsgs) /\ c.out # <<>>
      BY <1>1 DEF Lchan
    <2> QED BY <1>1, <2>1
  <1>3. d = [c EXCEPT !.out = q]
    BY <1>1 DEF Rest
  <1>4. d \in Lchan
    BY <1>2, <1>3, SetOut
  <1> QED BY <1>1, <1>2, <1>3, <1>4 DEF Popped, Lchan

\* lchan_free() with the guard timer and T3111 stopped and nothing under way makes the channel idle.
LEMMA FreeIdle ==
    ASSUME NEW c \in Lchan, c.out = <<>>, c.act_timer = "off", ~c.T3111, NEW b, ~b.active
    PROVE  Idle(lchan_free(c), b)
  BY DEF lchan_free, Lchan, Idle

-----------------------------------------------------------------------------
(* Activation *)

\* What lchan_alloc() returns is free.
LEMMA AllocFree ==
    ASSUME NEW type, NEW bigger, NEW l \in lchan_alloc(type, bigger)
    PROVE  l \in Lchans /\ lc[l].type = "NONE" /\ Pchan[l] \in {"SDCCH", "TCH_F", "TCH_H"}
  BY PchanAssumption DEF lchan_alloc, Free, LchanIsFree

\* CHAN ACTIV on a channel just taken.
LEMMA TakeIdle ==
    ASSUME NEW c \in Lchan, NEW b, Idle(c, b), NEW t \in {"SDCCH", "TCH_F", "TCH_H"}, NEW d, d = lchan_take(c, t)
    PROVE  /\ d \in Lchan /\ d.type = t /\ d.state = "NONE" /\ d.conn = NoConn /\ d.out = <<>> /\ d.act_timer = "off"
           /\ ~d.T3101 /\ ~d.T3111 /\ ~d.rqd_ref /\ UsedSapis(d) = {}
  <1>1. t \in LchanTypes
    BY DEF LchanTypes
  <1>2. d \in Lchan /\ d.type = t /\ UsedSapis(d) = {} /\ d.out = c.out
    BY <1>1, TakeTyped
  <1>3. PICK f : f = [s \in Sapis |-> "UNUSED"]
    OBVIOUS
  <1>4. d = [c EXCEPT !.type = t, !.sapis = f]
    BY <1>3 DEF lchan_take
  <1>5. /\ d.state = c.state /\ d.conn = c.conn /\ d.act_timer = c.act_timer /\ d.T3101 = c.T3101 /\ d.T3111 = c.T3111
        /\ d.rqd_ref = c.rqd_ref
    BY <1>4 DEF Lchan
  <1> QED BY <1>2, <1>5 DEF Idle

\* A channel asked for on the RACH is opened.
LEMMA ChanRqdPhase ==
    ASSUME IInv, Phased, NEW type, NEW is_lu, rsl_rx_chan_rqd(type, is_lu)
    PROVE  Phased'
  <1>1. PICK l \in lchan_alloc(type, is_lu) :
            Set(l, rsl_chan_activate_lchan([lchan_take(lc[l], Pchan[l]) EXCEPT
                        !.state = "ACT_REQ", !.rqd_ref = TRUE, !.act_timer = "act"]))
    BY DEF rsl_rx_chan_rqd
  <1>2. UNCHANGED <<bts, up>>
    BY DEF rsl_rx_chan_rqd
  <1>3. l \in Lchans /\ lc[l].type = "NONE" /\ Pchan[l] \in {"SDCCH", "TCH_F", "TCH_H"}
    BY <1>1, AllocFree
  <1>4. lc[l] \in Lchan /\ Idle(lc[l], bts[l])
    <2>1. lc[l] \in Lchan /\ InPhase(lc[l], bts[l])
      BY <1>3, ChannelFacts
    <2> QED BY <1>3, <2>1 DEF InPhase, Opening, Serving, Quarantined, Releasing
  <1>5. PICK c : c = lchan_take(lc[l], Pchan[l])
    OBVIOUS
  <1>6. /\ c \in Lchan /\ c.type = Pchan[l] /\ c.state = "NONE" /\ c.conn = NoConn /\ c.out = <<>> /\ c.act_timer = "off"
        /\ ~c.T3101 /\ ~c.T3111 /\ ~c.rqd_ref /\ UsedSapis(c) = {}
    BY <1>3, <1>4, <1>5, TakeIdle
  <1>7. PICK e : e = [c EXCEPT !.state = "ACT_REQ", !.rqd_ref = TRUE, !.act_timer = "act"]
    OBVIOUS
  <1>8. e \in Lchan
    BY <1>6, <1>7 DEF Lchan, LchanStates
  <1>9. /\ e.type = c.type /\ e.state = "ACT_REQ" /\ e.conn = c.conn /\ e.out = c.out /\ e.act_timer = "act"
        /\ e.T3101 = c.T3101 /\ e.T3111 = c.T3111 /\ e.sapis = c.sapis
    BY <1>6, <1>7 DEF Lchan
  <1>10. PICK d : d = SendRll(e, "CHAN_ACTIV", 0, "NORMAL")
    OBVIOUS
  <1>11. Sent(e, d, "CHAN_ACTIV", 0)
    BY <1>8, <1>10, SendSent, SapisAssumption DEF RslTypes, ReleaseModes
  <1>12. e.out = <<>>
    BY <1>6, <1>9
  <1>13. Only(d, "CHAN_ACTIV") /\ UsedSapis(d) = UsedSapis(e)
    BY <1>11, <1>12, SentOnly
  <1>14. UsedSapis(e) = {}
    BY <1>6, <1>9 DEF UsedSapis
  <1>15. Opening(d, bts[l])
    <2>1. ~bts[l].active
      BY <1>4 DEF Idle
    <2>2. d.type # "NONE"
      BY <1>3, <1>6, <1>9, <1>11 DEF Sent
    <2> QED BY <1>6, <1>9, <1>11, <1>13, <1>14, <2>1, <2>2 DEF Opening, Sent
  <1>16. Set(l, d)
    BY <1>1, <1>5, <1>7, <1>10 DEF rsl_chan_activate_lchan, Send
  <1> QED BY <1>2, <1>3, <1>15, <1>16, PhaseHere DEF InPhase

\* A channel asked for by a connection is opened.
LEMMA ActivateForConnPhase ==
    ASSUME IInv, Phased, NEW type, NEW k \in Conns, ActivateForConn(type, k)
    PROVE  Phased'
  <1>1. PICK l \in lchan_alloc(type, FALSE) :
            Set(l, rsl_lchan_set_state(
                    rsl_chan_activate_lchan([lchan_take(lc[l], Pchan[l]) EXCEPT !.conn = k]),
                    "ACT_REQ"))
    BY DEF ActivateForConn
  <1>2. UNCHANGED <<bts, up>>
    BY DEF ActivateForConn
  <1>3. l \in Lchans /\ lc[l].type = "NONE" /\ Pchan[l] \in {"SDCCH", "TCH_F", "TCH_H"}
    BY <1>1, AllocFree
  <1>4. lc[l] \in Lchan /\ Idle(lc[l], bts[l])
    <2>1. lc[l] \in Lchan /\ InPhase(lc[l], bts[l])
      BY <1>3, ChannelFacts
    <2> QED BY <1>3, <2>1 DEF InPhase, Opening, Serving, Quarantined, Releasing
  <1>5. PICK c : c = lchan_take(lc[l], Pchan[l])
    OBVIOUS
  <1>6. /\ c \in Lchan /\ c.type = Pchan[l] /\ c.state = "NONE" /\ c.conn = NoConn /\ c.out = <<>> /\ c.act_timer = "off"
        /\ ~c.T3101 /\ ~c.T3111 /\ ~c.rqd_ref /\ UsedSapis(c) = {}
    BY <1>3, <1>4, <1>5, TakeIdle
  <1>7. PICK e : e = [c EXCEPT !.conn = k]
    OBVIOUS
  <1>8. e \in Lchan
    BY <1>6, <1>7 DEF Lchan
  <1>9. /\ e.type = c.type /\ e.rqd_ref = c.rqd_ref /\ e.out = c.out /\ e.act_timer = c.act_timer
        /\ e.T3101 = c.T3101 /\ e.T3111 = c.T3111 /\ e.sapis = c.sapis
    BY <1>6, <1>7 DEF Lchan
  <1>10. PICK g : g = SendRll(e, "CHAN_ACTIV", 0, "NORMAL")
    OBVIOUS
  <1>11. Sent(e, g, "CHAN_ACTIV", 0)
    BY <1>8, <1>10, SendSent, SapisAssumption DEF RslTypes, ReleaseModes
  <1>12. e.out = <<>>
    BY <1>6, <1>9
  <1>13. Only(g, "CHAN_ACTIV") /\ UsedSapis(g) = UsedSapis(e)
    BY <1>11, <1>12, SentOnly
  <1>14. UsedSapis(e) = {}
    BY <1>6, <1>9 DEF UsedSapis
  <1>15. PICK d : d = [g EXCEPT !.state = "ACT_REQ"]
    OBVIOUS
  <1>16. /\ d.type = g.type /\ d.state = "ACT_REQ" /\ d.rqd_ref = g.rqd_ref /\ d.out = g.out /\ d.act_timer = g.act_timer
         /\ d.T3101 = g.T3101 /\ d.T3111 = g.T3111 /\ d.sapis = g.sapis
    BY <1>11, <1>15 DEF Lchan, Sent
  <1>17. UsedSapis(d) = {}
    BY <1>13, <1>14, <1>16 DEF UsedSapis
  <1>18. Opening(d, bts[l])
    <2>1. ~bts[l].active
      BY <1>4 DEF Idle
    <2>2. d.type # "NONE" /\ Only(d, "CHAN_ACTIV")
      BY <1>3, <1>6, <1>9, <1>11, <1>13, <1>16 DEF Sent, Only
    <2> QED BY <1>6, <1>9, <1>11, <1>16, <1>17, <2>1, <2>2 DEF Opening, Sent
  <1>19. Set(l, d)
    BY <1>1, <1>5, <1>7, <1>10, <1>15 DEF rsl_chan_activate_lchan, Send, rsl_lchan_set_state
  <1> QED BY <1>2, <1>3, <1>18, <1>19, PhaseHere DEF InPhase

-----------------------------------------------------------------------------
(* The answers of the BTS *)

\* Only the data links change, to U.
Links(c, d, U) ==
    /\ d \in Lchan /\ UsedSapis(d) = U
    /\ d.type = c.type /\ d.state = c.state /\ d.conn = c.conn /\ d.rqd_ref = c.rqd_ref /\ d.act_timer = c.act_timer
    /\ d.T3101 = c.T3101 /\ d.T3111 = c.T3111 /\ d.out = c.out

\* A change of the table of data links.
LEMMA SapiLinks ==
    ASSUME NEW c \in Lchan, NEW s \in Sapis, NEW v \in SapiStates, NEW d, d = [c EXCEPT !.sapis[s] = v]
    PROVE  Links(c, d, IF v = "UNUSED" THEN UsedSapis(c) \ {s} ELSE UsedSapis(c) \cup {s})
  <1>1. Keeps(c, d) /\ UsedSapis(d) = IF v = "UNUSED" THEN UsedSapis(c) \ {s} ELSE UsedSapis(c) \cup {s}
    BY SapiChange
  <1>2. PICK f : f = [c.sapis EXCEPT ![s] = v]
    OBVIOUS
  <1>3. d = [c EXCEPT !.sapis = f]
    BY <1>2
  <1>4. /\ d.type = c.type /\ d.state = c.state /\ d.conn = c.conn /\ d.rqd_ref = c.rqd_ref /\ d.act_timer = c.act_timer
        /\ d.T3101 = c.T3101 /\ d.T3111 = c.T3111 /\ d.out = c.out
    BY <1>3 DEF Lchan
  <1> QED BY <1>1, <1>4 DEF Links, Keeps

\* A change of the links, then one of the counts of requests.
LEMMA LinksAlike ==
    ASSUME NEW c, NEW d, NEW e, NEW U, Links(c, d, U), Alike(d, e)
    PROVE  Links(c, e, U)
  BY DEF Links, Alike, UsedSapis

\* ESTABLISH CONFIRM adds the link.
LEMMA EstConfLinks ==
    ASSUME NEW c \in Lchan, NEW s \in Sapis, NEW d, d = rll_est_conf(c, s)
    PROVE  Links(c, d, UsedSapis(c) \cup {s})
  <1>1. PICK e : e = [c EXCEPT !.sapis[s] = "NET"]
    OBVIOUS
  <1>2. Links(c, e, UsedSapis(c) \cup {s})
    BY <1>1, SapiLinks DEF SapiStates
  <1>3. e \in Lchan
    BY <1>2 DEF Links
  <1>4. Alike(e, d)
    BY <1>1, <1>3, IndicationAlike DEF rll_est_conf
  <1> QED BY <1>2, <1>4, LinksAlike

\* A link that ends: outside a release nothing follows; the main link is the last one and starts
\* T3111; after another one, with the main link up, the release goes on.
RelEnds(c, d, s) ==
    /\ c.state # "REL_REQ" => Links(c, d, UsedSapis(c) \ {s})
    /\ c.state = "REL_REQ" /\ s = 0 /\ UsedSapis(c) \subseteq {0} =>
        /\ d \in Lchan /\ d.type = c.type /\ d.state = c.state /\ d.conn = c.conn /\ d.rqd_ref = c.rqd_ref
        /\ d.act_timer = c.act_timer /\ d.T3101 = c.T3101 /\ d.out = c.out
    /\ c.state = "REL_REQ" /\ s # 0 /\ 0 \in UsedSapis(c) =>
        \E e : Links(c, e, UsedSapis(c) \ {s}) /\ d = lchan_handle_release(e)

\* What rsl_rx_rll() does after the link is marked unused is all that RelEnds says.
LEMMA RelEndsWith ==
    ASSUME NEW c \in Lchan, NEW s \in Sapis, NEW e, Links(c, e, UsedSapis(c) \ {s}), NEW d,
           d = rsl_lchan_rll_release(rsl_handle_release(e), s)
    PROVE  RelEnds(c, d, s)
  <1>1. e \in Lchan /\ UsedSapis(e) = UsedSapis(c) \ {s} /\ e.state = c.state
    BY DEF Links
  <1>2. CASE c.state # "REL_REQ"
    <2>1. d = e
      BY <1>1, <1>2 DEF rsl_lchan_rll_release, rsl_handle_release
    <2> QED BY <1>2, <2>1 DEF RelEnds
  <1>3. CASE c.state = "REL_REQ" /\ s = 0 /\ UsedSapis(c) \subseteq {0}
    <2>1. UsedSapis(e) = {}
      BY <1>1, <1>3
    <2>2. d = [e EXCEPT !.T3111 = TRUE]
      BY <1>1, <1>3, <2>1 DEF rsl_lchan_rll_release, rsl_handle_release
    <2>3. d \in Lchan
      BY <1>1, <2>2 DEF Lchan
    <2>4. /\ d.type = e.type /\ d.state = e.state /\ d.conn = e.conn /\ d.rqd_ref = e.rqd_ref
          /\ d.act_timer = e.act_timer /\ d.T3101 = e.T3101 /\ d.out = e.out
      BY <1>1, <2>2 DEF Lchan
    <2> QED BY <1>3, <2>3, <2>4 DEF RelEnds, Links
  <1>4. CASE c.state = "REL_REQ" /\ s # 0 /\ 0 \in UsedSapis(c)
    <2>1. UsedSapis(e) # {}
      BY <1>1, <1>4
    <2>2. rsl_handle_release(e) = e
      BY <2>1 DEF rsl_handle_release
    <2>3. d = lchan_handle_release(e)
      BY <1>1, <1>4, <2>2 DEF rsl_lchan_rll_release
    <2> QED BY <1>4, <2>3 DEF RelEnds
  <1> QED BY <1>2, <1>3, <1>4 DEF RelEnds

\* RELEASE CONFIRM ends a link.
LEMMA RelConfEnds ==
    ASSUME NEW c \in Lchan, NEW s \in Sapis, NEW d, d = rll_rel_conf(c, s)
    PROVE  RelEnds(c, d, s)
  <1>1. PICK e : e = [c EXCEPT !.sapis[s] = "UNUSED"]
    OBVIOUS
  <1>2. Links(c, e, UsedSapis(c) \ {s})
    BY <1>1, SapiLinks DEF SapiStates
  <1>3. d = rsl_lchan_rll_release(rsl_handle_release(e), s)
    BY <1>1 DEF rll_rel_conf
  <1> QED BY <1>2, <1>3, RelEndsWith

\* RELEASE INDICATION ends a link, when the MS is the one to release it.
LEMMA RelIndEnds ==
    ASSUME NEW c \in Lchan, NEW s \in Sapis, NEW d, d = rll_rel_ind(c, s)
    PROVE  RelEnds(c, d, s)
  <1>1. PICK e : e = [c EXCEPT !.sapis[s] = "UNUSED"]
    OBVIOUS
  <1>2. Links(c, e, UsedSapis(c) \ {s})
    BY <1>1, SapiLinks DEF SapiStates
  <1>3. e \in Lchan
    BY <1>2 DEF Links
  <1>4. PICK g : g = rll_indication(e, s)
    OBVIOUS
  <1>5. Alike(e, g)
    BY <1>3, <1>4, IndicationAlike
  <1>6. Links(c, g, UsedSapis(c) \ {s})
    BY <1>2, <1>5, LinksAlike
  <1>7. d = rsl_lchan_rll_release(rsl_handle_release(g), s)
    BY <1>1, <1>4 DEF rll_rel_ind
  <1> QED BY <1>6, <1>7, RelEndsWith

\* A channel in use whose links change stays in use, as long as the main link is there when another one is.
LEMMA LinksServing ==
    ASSUME NEW c, NEW b, Serving(c, b), NEW d, NEW U, Links(c, d, U), NEW e, e.active,
           U # {} \/ c.out # <<>> => 0 \in U, c.T3101 => U = {}
    PROVE  Serving(d, e)
  BY DEF Serving, Links

\* In which phase a command is under way.
LEMMA CmdPhase ==
    ASSUME IInv, Phased, NEW l \in Lchans, NEW mt, Cmd(l, mt), NEW c, c = lc[l], NEW b, b = bts[l]
    PROVE  /\ c \in Lchan /\ c.out \in Seq(RslMsgs) /\ c.out # <<>> /\ Head(c.out).sapi \in Sapis /\ ~b.deaf /\ b \in BtsChan
           /\ Popped(c, Rest(l))
           /\ mt = "CHAN_ACTIV" => Opening(c, b)
           /\ mt = "EST_REQ" => Serving(c, b) /\ Head(c.out).sapi # 0
           /\ mt = "RF_CHAN_REL" => (Quarantined(c, b) \/ Releasing(c, b)) /\ Only(c, "RF_CHAN_REL")
           /\ mt \in {"REL_REQ", "RR_CHAN_REL"} =>
                Releasing(c, b) /\ c.act_timer = "off" /\ ~c.T3111 /\ Len(c.out) = 1
           /\ mt = "REL_REQ" =>
                IF Head(c.out).sapi = 0 THEN UsedSapis(c) \subseteq {0} ELSE 0 \in UsedSapis(c)
           /\ mt = "RR_CHAN_REL" => UsedSapis(c) \subseteq {0}
  <1>1. c \in Lchan /\ b \in BtsChan /\ ~b.deaf /\ InPhase(c, b) /\ c.out \in Seq(RslMsgs)
    BY ChannelFacts
  <1>2. c.out # <<>> /\ Head(c.out).mt = mt
    BY DEF Cmd
  <1>3. Head(c.out) = c.out[1] /\ 1 \in DOMAIN c.out /\ Head(c.out).sapi \in Sapis
    BY <1>1, <1>2, OnlyHead
  <1>4. Popped(c, Rest(l))
    BY <1>1, <1>2, RestPopped
  <1>5. ~Idle(c, b)
    BY <1>2 DEF Idle
  <1>6. Opening(c, b) => mt = "CHAN_ACTIV"
    BY <1>2, <1>3 DEF Opening, Only
  <1>7. Serving(c, b) => mt = "EST_REQ" /\ Head(c.out).sapi # 0
    BY <1>2, <1>3 DEF Serving
  <1>8. Quarantined(c, b) => mt = "RF_CHAN_REL" /\ Only(c, "RF_CHAN_REL")
    BY <1>2, <1>3 DEF Quarantined, Only
  <1>9. Releasing(c, b) =>
          /\ mt \in {"REL_REQ", "RR_CHAN_REL", "RF_CHAN_REL"} /\ Len(c.out) = 1
          /\ mt = "RF_CHAN_REL" => Only(c, "RF_CHAN_REL")
          /\ mt # "RF_CHAN_REL" => c.act_timer = "off" /\ ~c.T3111
          /\ mt = "REL_REQ" => IF Head(c.out).sapi = 0 THEN UsedSapis(c) \subseteq {0} ELSE 0 \in UsedSapis(c)
          /\ mt = "RR_CHAN_REL" => UsedSapis(c) \subseteq {0}
    BY <1>2, <1>3 DEF Releasing, Only
  <1> QED BY <1>1, <1>2, <1>3, <1>4, <1>5, <1>6, <1>7, <1>8, <1>9 DEF InPhase

\* CHAN ACTIV ACK: the channel is in use.
LEMMA ChanActivAckPhase ==
    ASSUME IInv, Phased, NEW l \in Lchans, ChanActivAck(l)
    PROVE  Phased'
  <1>1. PICK c, b, r : c = lc[l] /\ b = bts[l] /\ r = Rest(l)
    OBVIOUS
  <1>2. Cmd(l, "CHAN_ACTIV") /\ Bts(l, TRUE, {}) /\ Set(l, rsl_rx_chan_act_ack(r)) /\ UNCHANGED up
    BY <1>1 DEF ChanActivAck
  <1>3. c \in Lchan /\ c.out \in Seq(RslMsgs) /\ c.out # <<>> /\ ~b.deaf /\ Popped(c, r) /\ Opening(c, b)
    BY <1>1, <1>2, CmdPhase
  <1>4. r \in Lchan /\ r.out = <<>>
    BY <1>3, OnlyHead DEF Popped, Opening, Only
  <1>5. PICK d : d = rsl_rx_chan_act_ack(r)
    OBVIOUS
  <1>6. /\ d.type = r.type /\ d.state = "ACTIVE" /\ d.conn = r.conn /\ ~d.rqd_ref /\ d.act_timer = "off"
        /\ d.T3101 = (IF r.rqd_ref THEN TRUE ELSE r.T3101) /\ d.T3111 = r.T3111 /\ d.sapis = r.sapis /\ d.out = r.out
    BY <1>4, <1>5 DEF rsl_rx_chan_act_ack, Lchan
  <1>7. PICK e : e = [active |-> TRUE, rll |-> {}, deaf |-> bts[l].deaf]
    OBVIOUS
  <1>8. bts' = [bts EXCEPT ![l] = e] /\ e.active /\ ~e.deaf
    BY <1>1, <1>2, <1>3, <1>7 DEF Bts
  <1>9. UsedSapis(d) = {}
    BY <1>3, <1>6 DEF Opening, Popped, UsedSapis
  <1>10. Serving(d, e)
    <2>1. d.T3101 => d.conn = NoConn
      BY <1>3, <1>6 DEF Opening, Popped
    <2>2. DOMAIN d.out = {}
      BY <1>4, <1>6
    <2> QED BY <1>3, <1>4, <1>6, <1>8, <1>9, <2>1, <2>2 DEF Serving, Opening, Popped
  <1> QED BY <1>2, <1>5, <1>8, <1>10, PhaseOn DEF InPhase

\* CHAN ACTIV NACK: the channel is free again.
LEMMA ChanActivNackPhase ==
    ASSUME IInv, Phased, NEW l \in Lchans, ChanActivNack(l)
    PROVE  Phased'
  <1>1. PICK c, b, r : c = lc[l] /\ b = bts[l] /\ r = Rest(l)
    OBVIOUS
  <1>2. /\ Cmd(l, "CHAN_ACTIV") /\ UNCHANGED <<bts, up>>
        /\ Set(l, rsl_rx_chan_act_nack(r, IF b.active THEN "ALR_ACTV" ELSE "OTHER"))
    BY <1>1 DEF ChanActivNack
  <1>3. c \in Lchan /\ c.out \in Seq(RslMsgs) /\ c.out # <<>> /\ ~b.deaf /\ Popped(c, r) /\ Opening(c, b)
    BY <1>1, <1>2, CmdPhase
  <1>4. r \in Lchan /\ r.out = <<>>
    BY <1>3, OnlyHead DEF Popped, Opening, Only
  <1>5. ~b.active
    BY <1>3 DEF Opening
  <1>6. PICK q : q = [r EXCEPT !.act_timer = "off", !.state = "NONE"]
    OBVIOUS
  <1>7. q \in Lchan
    BY <1>4, <1>6 DEF Lchan, LchanStates
  <1>8. q.out = <<>> /\ q.act_timer = "off" /\ q.T3111 = r.T3111
    BY <1>4, <1>6 DEF Lchan
  <1>9. ~q.T3111
    BY <1>3, <1>8 DEF Opening, Popped
  <1>10. Idle(lchan_free(q), b)
    BY <1>5, <1>7, <1>8, <1>9, FreeIdle
  <1>11. rsl_rx_chan_act_nack(r, "OTHER") = lchan_free(q)
    <2>1. PICK p : p = [r EXCEPT !.act_timer = "off"]
      OBVIOUS
    <2>2. q = [p EXCEPT !.state = "NONE"]
      BY <1>4, <1>6, <2>1 DEF Lchan
    <2> QED BY <2>1, <2>2 DEF rsl_rx_chan_act_nack, rsl_lchan_set_state
  <1>12. Set(l, lchan_free(q))
    BY <1>2, <1>5, <1>11
  <1> QED BY <1>1, <1>2, <1>10, <1>12, PhaseHere DEF InPhase

\* RF CHAN REL ACK: the channel is free.
LEMMA RfChanRelAckPhase ==
    ASSUME IInv, Phased, NEW l \in Lchans, RfChanRelAck(l)
    PROVE  Phased'
  <1>1. PICK c, b, r : c = lc[l] /\ b = bts[l] /\ r = Rest(l)
    OBVIOUS
  <1>2. Cmd(l, "RF_CHAN_REL") /\ UNCHANGED up /\ Set(l, rsl_rx_rf_chan_rel_ack(r))
    BY <1>1 DEF RfChanRelAck
  <1>3. PICK rll : Bts(l, FALSE, rll)
    BY DEF RfChanRelAck
  <1>4. c \in Lchan /\ c.out \in Seq(RslMsgs) /\ c.out # <<>> /\ ~b.deaf /\ Popped(c, r) /\ Only(c, "RF_CHAN_REL")
    BY <1>1, <1>2, CmdPhase
  <1>5. r \in Lchan /\ r.out = <<>>
    BY <1>4, OnlyHead DEF Popped, Only
  <1>6. PICK q : q = [r EXCEPT !.act_timer = "off", !.T3111 = FALSE]
    OBVIOUS
  <1>7. q \in Lchan
    BY <1>5, <1>6 DEF Lchan
  <1>8. q.out = <<>> /\ q.act_timer = "off" /\ ~q.T3111
    BY <1>5, <1>6 DEF Lchan
  <1>9. PICK e : e = [active |-> FALSE, rll |-> rll, deaf |-> bts[l].deaf]
    OBVIOUS
  <1>10. bts' = [bts EXCEPT ![l] = e] /\ ~e.active /\ ~e.deaf
    BY <1>1, <1>3, <1>4, <1>9 DEF Bts
  <1>11. Idle(lchan_free(q), e)
    BY <1>7, <1>8, <1>10, FreeIdle
  <1>12. Set(l, lchan_free(q))
    BY <1>2, <1>6 DEF rsl_rx_rf_chan_rel_ack
  <1> QED BY <1>2, <1>10, <1>11, <1>12, PhaseOn DEF InPhase

\* A channel in use stays so when the BTS takes one of its commands.
LEMMA PopServing ==
    ASSUME NEW c \in Lchan, NEW b, Serving(c, b), c.out # <<>>, NEW r, Popped(c, r)
    PROVE  Serving(r, b) /\ r.conn # NoConn /\ ~r.T3101 /\ 0 \in UsedSapis(r) /\ UsedSapis(r) = UsedSapis(c)
  <1>1. c.out \in Seq(RslMsgs)
    BY DEF Lchan
  <1>2. UsedSapis(r) = UsedSapis(c)
    BY DEF Popped, UsedSapis
  <1>3. c.conn # NoConn /\ ~c.T3101 /\ 0 \in UsedSapis(c)
    BY DEF Serving
  <1>4. \A i \in DOMAIN r.out : i + 1 \in DOMAIN c.out /\ r.out[i] = c.out[i + 1]
    BY <1>1, OnlyHead DEF Popped
  <1>5. \A i \in DOMAIN r.out : r.out[i].mt = "EST_REQ" /\ r.out[i].sapi # 0
    BY <1>4 DEF Serving
  <1> QED BY <1>2, <1>3, <1>5 DEF Serving, Popped

\* ESTABLISH CONFIRM.
LEMMA EstConfPhase ==
    ASSUME IInv, Phased, NEW l \in Lchans, EstConf(l)
    PROVE  Phased'
  <1>1. PICK c, b, r, s : c = lc[l] /\ b = bts[l] /\ r = Rest(l) /\ s = Head(lc[l].out).sapi
    OBVIOUS
  <1>2. Cmd(l, "EST_REQ") /\ Bts(l, TRUE, b.rll \cup {s}) /\ Set(l, rll_est_conf(r, s)) /\ UNCHANGED up
    BY <1>1 DEF EstConf
  <1>3. c \in Lchan /\ c.out # <<>> /\ ~b.deaf /\ Popped(c, r) /\ Serving(c, b) /\ s \in Sapis
    BY <1>1, <1>2, CmdPhase
  <1>4. r \in Lchan /\ Serving(r, b) /\ ~r.T3101 /\ 0 \in UsedSapis(r)
    BY <1>3, PopServing DEF Popped
  <1>5. PICK d : d = rll_est_conf(r, s)
    OBVIOUS
  <1>6. Links(r, d, UsedSapis(r) \cup {s})
    BY <1>3, <1>4, <1>5, EstConfLinks
  <1>7. PICK e : e = [active |-> TRUE, rll |-> b.rll \cup {s}, deaf |-> bts[l].deaf]
    OBVIOUS
  <1>8. bts' = [bts EXCEPT ![l] = e] /\ e.active /\ ~e.deaf
    BY <1>1, <1>2, <1>3, <1>7 DEF Bts
  <1>9. Serving(d, e)
    <2>1. PICK U : U = UsedSapis(r) \cup {s}
      OBVIOUS
    <2>2. 0 \in U /\ Links(r, d, U)
      BY <1>4, <1>6, <2>1
    <2> QED BY <1>4, <1>8, <2>2, LinksServing
  <1> QED BY <1>2, <1>5, <1>8, <1>9, PhaseOn DEF InPhase

\* The MS does not take up the link.
LEMMA EstFailPhase ==
    ASSUME OrderlyFaults, IInv, Phased, NEW l \in Lchans, EstFail(l)
    PROVE  Phased'
  <1>1. PICK c, b, r, s : c = lc[l] /\ b = bts[l] /\ r = Rest(l) /\ s = Head(lc[l].out).sapi
    OBVIOUS
  <1>2. /\ Cmd(l, "EST_REQ") /\ UNCHANGED <<bts, up>>
        /\ \/ \E t200 \in T200Causes : Set(l, rsl_rx_rll_err_ind(r, s, t200))
           \/ Set(l, rll_rel_ind(r, s))
    BY <1>1 DEF EstFail
  <1>3. c \in Lchan /\ c.out # <<>> /\ Popped(c, r) /\ Serving(c, b) /\ s \in Sapis /\ s # 0
    BY <1>1, <1>2, CmdPhase
  <1>4. r \in Lchan /\ Serving(r, b) /\ ~r.T3101 /\ 0 \in UsedSapis(r)
    BY <1>3, PopServing DEF Popped
  <1>5. CASE \E t200 \in T200Causes : Set(l, rsl_rx_rll_err_ind(r, s, t200))
    <2>1. PICK t200 \in T200Causes : Set(l, rsl_rx_rll_err_ind(r, s, t200))
      BY <1>5
    <2>2. ~t200
      BY <2>1 DEF T200Causes, OrderlyFaults
    <2>3. Set(l, rll_indication(r, s))
      BY <2>1, <2>2 DEF rsl_rx_rll_err_ind
    <2>4. Alike(r, rll_indication(r, s))
      BY <1>3, <1>4, IndicationAlike
    <2>5. InPhase(r, b)
      BY <1>4 DEF InPhase
    <2>6. InPhase(rll_indication(r, s), b)
      BY <2>4, <2>5, AlikePhase
    <2> QED BY <1>1, <1>2, <2>3, <2>6, PhaseHere
  <1>6. CASE Set(l, rll_rel_ind(r, s))
    <2>1. PICK d : d = rll_rel_ind(r, s)
      OBVIOUS
    <2>2. RelEnds(r, d, s)
      BY <1>3, <1>4, <2>1, RelIndEnds
    <2>3. PICK U : U = UsedSapis(r) \ {s}
      OBVIOUS
    <2>4. Links(r, d, U) /\ 0 \in U
      BY <1>3, <1>4, <2>2, <2>3 DEF RelEnds, Serving
    <2>5. b.active
      BY <1>4 DEF Serving
    <2>6. Serving(d, b)
      BY <1>4, <2>4, <2>5, LinksServing
    <2> QED BY <1>1, <1>2, <1>6, <2>1, <2>6, PhaseHere DEF InPhase
  <1> QED BY <1>2, <1>5, <1>6

\* RELEASE CONFIRM: T3111 after the main link, else the next step of the release.
LEMMA RelConfPhase ==
    ASSUME IInv, Phased, NEW l \in Lchans, RelConf(l)
    PROVE  Phased'
  <1>1. PICK c, b, r, s : c = lc[l] /\ b = bts[l] /\ r = Rest(l) /\ s = Head(lc[l].out).sapi
    OBVIOUS
  <1>2. Cmd(l, "REL_REQ") /\ Bts(l, TRUE, b.rll \ {s}) /\ Set(l, rll_rel_conf(r, s)) /\ UNCHANGED up
    BY <1>1 DEF RelConf
  <1>3. /\ c \in Lchan /\ c.out \in Seq(RslMsgs) /\ c.out # <<>> /\ ~b.deaf /\ Popped(c, r) /\ s \in Sapis
        /\ Releasing(c, b) /\ c.act_timer = "off" /\ ~c.T3111 /\ Len(c.out) = 1
        /\ IF s = 0 THEN UsedSapis(c) \subseteq {0} ELSE 0 \in UsedSapis(c)
    BY <1>1, <1>2, CmdPhase
  <1>4. r \in Lchan /\ r.out = <<>> /\ UsedSapis(r) = UsedSapis(c)
    BY <1>3, OnlyHead DEF Popped, UsedSapis
  <1>5. PICK e : e = [active |-> TRUE, rll |-> b.rll \ {s}, deaf |-> bts[l].deaf]
    OBVIOUS
  <1>6. bts' = [bts EXCEPT ![l] = e] /\ e.active /\ ~e.deaf
    BY <1>1, <1>2, <1>3, <1>5 DEF Bts
  <1>7. PICK d : d = rll_rel_conf(r, s)
    OBVIOUS
  <1>8. RelEnds(r, d, s)
    BY <1>3, <1>4, <1>7, RelConfEnds
  <1>9. /\ r.type # "NONE" /\ r.state = "REL_REQ" /\ r.conn = NoConn /\ ~r.rqd_ref /\ ~r.T3101
        /\ r.act_timer = "off" /\ ~r.T3111
    BY <1>3 DEF Popped, Releasing
  <1>10. CASE s = 0
    <2>1. /\ d.type = r.type /\ d.state = r.state /\ d.conn = r.conn /\ d.rqd_ref = r.rqd_ref
          /\ d.act_timer = r.act_timer /\ d.T3101 = r.T3101 /\ d.out = r.out
      BY <1>3, <1>4, <1>8, <1>9, <1>10 DEF RelEnds
    <2>2. Releasing(d, e)
      BY <1>4, <1>6, <1>9, <2>1 DEF Releasing
    <2> QED BY <1>2, <1>6, <1>7, <2>2, PhaseOn DEF InPhase
  <1>11. CASE s # 0
    <2>1. PICK g : Links(r, g, UsedSapis(r) \ {s}) /\ d = lchan_handle_release(g)
      BY <1>3, <1>4, <1>8, <1>9, <1>11 DEF RelEnds
    <2>2. /\ g \in Lchan /\ g.type # "NONE" /\ g.state = "REL_REQ" /\ g.conn = NoConn /\ ~g.rqd_ref /\ ~g.T3101
          /\ g.act_timer = "off" /\ ~g.T3111 /\ g.out = <<>> /\ 0 \in UsedSapis(g)
      BY <1>3, <1>4, <1>9, <1>11, <2>1 DEF Links
    <2>3. Releasing(d, e)
      BY <1>6, <2>1, <2>2, HandleReleasePhase
    <2> QED BY <1>2, <1>6, <1>7, <2>3, PhaseOn DEF InPhase
  <1> QED BY <1>10, <1>11

\* The MS obeys CHANNEL RELEASE: T3111 starts.
LEMMA RrChanRelPhase ==
    ASSUME IInv, Phased, NEW l \in Lchans, RrChanRel(l)
    PROVE  Phased'
  <1>1. PICK c, b, r : c = lc[l] /\ b = bts[l] /\ r = Rest(l)
    OBVIOUS
  <1>2. Cmd(l, "RR_CHAN_REL") /\ Bts(l, b.active, b.rll \ {0}) /\ Set(l, rll_rel_ind(r, 0)) /\ UNCHANGED up
    BY <1>1 DEF RrChanRel
  <1>3. /\ c \in Lchan /\ c.out \in Seq(RslMsgs) /\ c.out # <<>> /\ ~b.deaf /\ Popped(c, r)
        /\ Releasing(c, b) /\ c.act_timer = "off" /\ ~c.T3111 /\ Len(c.out) = 1 /\ UsedSapis(c) \subseteq {0}
    BY <1>1, <1>2, CmdPhase
  <1>4. r \in Lchan /\ r.out = <<>> /\ UsedSapis(r) = UsedSapis(c)
    BY <1>3, OnlyHead DEF Popped, UsedSapis
  <1>5. PICK e : e = [active |-> b.active, rll |-> b.rll \ {0}, deaf |-> bts[l].deaf]
    OBVIOUS
  <1>6. bts' = [bts EXCEPT ![l] = e] /\ e.active /\ ~e.deaf
    BY <1>1, <1>2, <1>3, <1>5 DEF Bts, Releasing
  <1>7. PICK d : d = rll_rel_ind(r, 0)
    OBVIOUS
  <1>8. RelEnds(r, d, 0)
    <2>1. 0 \in Sapis
      BY SapisAssumption
    <2> QED BY <1>4, <1>7, <2>1, RelIndEnds
  <1>9. /\ r.type # "NONE" /\ r.state = "REL_REQ" /\ r.conn = NoConn /\ ~r.rqd_ref /\ ~r.T3101
        /\ r.act_timer = "off" /\ ~r.T3111
    BY <1>3 DEF Popped, Releasing
  <1>10. /\ d.type = r.type /\ d.state = r.state /\ d.conn = r.conn /\ d.rqd_ref = r.rqd_ref
         /\ d.act_timer = r.act_timer /\ d.T3101 = r.T3101 /\ d.out = r.out
    BY <1>3, <1>4, <1>8, <1>9 DEF RelEnds
  <1>11. Releasing(d, e)
    BY <1>4, <1>6, <1>9, <1>10 DEF Releasing
  <1> QED BY <1>2, <1>6, <1>7, <1>11, PhaseOn DEF InPhase

\* A command of a release that the BTS drops leaves the channel waiting.
LEMMA NoAnswerPhase ==
    ASSUME IInv, Phased, NEW l \in Lchans, NoAnswer(l)
    PROVE  Phased'
  <1>1. PICK c, b, r : c = lc[l] /\ b = bts[l] /\ r = Rest(l)
    OBVIOUS
  <1>2. Set(l, r) /\ UNCHANGED <<bts, up>>
    BY <1>1 DEF NoAnswer
  <1>3. CASE Cmd(l, "EST_REQ") /\ ~b.active
    <2>1. Serving(c, b)
      BY <1>1, <1>3, CmdPhase
    <2> QED BY <1>3, <2>1 DEF Serving
  <1>4. ASSUME NEW mt \in {"REL_REQ", "RR_CHAN_REL"}, Cmd(l, mt)
        PROVE  Phased'
    <2>1. /\ c \in Lchan /\ c.out \in Seq(RslMsgs) /\ c.out # <<>> /\ Popped(c, r)
          /\ Releasing(c, b) /\ c.act_timer = "off" /\ ~c.T3111 /\ Len(c.out) = 1
      BY <1>1, <1>4, CmdPhase
    <2>2. r.out = <<>>
      BY <2>1, OnlyHead DEF Popped
    <2>3. Releasing(r, b)
      BY <2>1, <2>2 DEF Popped, Releasing
    <2> QED BY <1>1, <1>2, <2>3, PhaseHere DEF InPhase
  <1> QED BY <1>1, <1>3, <1>4 DEF NoAnswer

\* All answers.
LEMMA AnswerPhase ==
    ASSUME OrderlyFaults, IInv, Phased, NEW l \in Lchans, BtsAnswers(l)
    PROVE  Phased'
  <1>1. ~Forget(l)
    BY DEF Forget, Phased
  <1> QED BY <1>1, ChanActivAckPhase, ChanActivNackPhase, RfChanRelAckPhase, EstConfPhase, EstFailPhase, RelConfPhase,
             RrChanRelPhase, NoAnswerPhase DEF BtsAnswers

-----------------------------------------------------------------------------
(* Timers *)

\* A command that is the only one is queued.
LEMMA OnlyQueued ==
    ASSUME NEW l, lc[l] \in Lchan, NEW mt, Only(lc[l], mt)
    PROVE  Queued(l, mt)
  <1>1. lc[l].out \in Seq(RslMsgs)
    BY DEF Lchan
  <1>2. 1 \in DOMAIN lc[l].out
    BY <1>1 DEF Only
  <1> QED BY <1>2 DEF Only, Queued

\* A guard timer expires only when no answer can come, which is never.
LEMMA NoActTimer ==
    ASSUME OrderlyFaults, IInv, Phased, NEW l \in Lchans
    PROVE  ~ActTimer(l)
  <1>1. lc[l] \in Lchan /\ InPhase(lc[l], bts[l])
    BY ChannelFacts
  <1>2. lc[l].act_timer = "act" => Only(lc[l], "CHAN_ACTIV")
    BY <1>1 DEF InPhase, Idle, Opening, Serving, Quarantined, Releasing
  <1>3. lc[l].act_timer = "deact" => Only(lc[l], "RF_CHAN_REL")
    BY <1>1 DEF InPhase, Idle, Opening, Serving, Quarantined, Releasing
  <1>4. "late_answer" \notin Faults
    BY DEF OrderlyFaults
  <1> QED BY <1>1, <1>2, <1>3, <1>4, OnlyQueued DEF ActTimer

\* The error timer finds the channel no longer in REL_ERR.
LEMMA ErrorTimerPhase ==
    ASSUME OrderlyFaults, IInv, Phased, NEW l \in Lchans, ErrorTimer(l)
    PROVE  Phased'
  <1>1. PICK c, b : c = lc[l] /\ b = bts[l]
    OBVIOUS
  <1>2. c \in Lchan /\ InPhase(c, b)
    BY <1>1, ChannelFacts
  <1>3. ~Queued(l, "RF_CHAN_REL") /\ Set(l, error_timeout_cb(c)) /\ UNCHANGED <<bts, up>>
    BY <1>1 DEF ErrorTimer, OrderlyFaults
  <1>4. ~Only(c, "RF_CHAN_REL")
    BY <1>1, <1>2, <1>3, OnlyQueued
  <1>5. c.state # "REL_ERR"
    BY <1>2, <1>4 DEF InPhase, Idle, Opening, Serving, Quarantined, Releasing
  <1>6. PICK d : d = error_timeout_cb(c)
    OBVIOUS
  <1>7. Alike(c, d)
    <2>1. d \in Lchan
      BY <1>2, <1>6, TimersKeep DEF Keeps
    <2> QED BY <1>2, <1>5, <1>6, <2>1 DEF error_timeout_cb, Alike, Lchan
  <1>8. InPhase(d, b)
    BY <1>2, <1>7, AlikePhase
  <1> QED BY <1>1, <1>3, <1>6, <1>8, PhaseHere

\* T3101: the MS never came.
LEMMA T3101Phase ==
    ASSUME IInv, Phased, NEW l \in Lchans, T3101Expires(l)
    PROVE  Phased'
  <1>1. PICK c, b : c = lc[l] /\ b = bts[l]
    OBVIOUS
  <1>2. c \in Lchan /\ InPhase(c, b)
    BY <1>1, ChannelFacts
  <1>3. c.T3101 /\ Set(l, t3101_expired(c)) /\ UNCHANGED <<bts, up>>
    BY <1>1 DEF T3101Expires
  <1>4. Serving(c, b)
    BY <1>2, <1>3 DEF InPhase, Idle, Opening, Quarantined, Releasing
  <1>5. PICK e : e = [c EXCEPT !.T3101 = FALSE, !.state = "REL_ERR", !.error_timer = TRUE, !.act_timer = "deact"]
    OBVIOUS
  <1>6. e \in Lchan
    BY <1>2, <1>5 DEF Lchan, LchanStates
  <1>7. /\ e.type = c.type /\ e.state = "REL_ERR" /\ e.conn = c.conn /\ e.rqd_ref = c.rqd_ref /\ e.act_timer = "deact"
        /\ ~e.T3101 /\ e.T3111 = c.T3111 /\ e.out = c.out
    BY <1>2, <1>5 DEF Lchan
  <1>8. t3101_expired(c) = SendRll(e, "RF_CHAN_REL", 0, "NORMAL")
    <2>1. PICK g : g = [c EXCEPT !.T3101 = FALSE]
      OBVIOUS
    <2>2. g \in Lchan /\ g.state = c.state
      BY <1>2, <2>1 DEF Lchan
    <2>3. g.state # "REL_ERR"
      BY <1>4, <2>2 DEF Serving
    <2>4. e = [[g EXCEPT !.state = "REL_ERR", !.error_timer = TRUE] EXCEPT !.act_timer = "deact"]
      BY <1>2, <1>5, <2>1 DEF Lchan
    <2> QED BY <2>1, <2>3, <2>4 DEF t3101_expired, rsl_rf_chan_release, Send
  <1>9. PICK d : d = SendRll(e, "RF_CHAN_REL", 0, "NORMAL")
    OBVIOUS
  <1>10. Sent(e, d, "RF_CHAN_REL", 0)
    BY <1>6, <1>9, SendSent, SapisAssumption DEF RslTypes, ReleaseModes
  <1>11. e.out = <<>>
    BY <1>3, <1>4, <1>7 DEF Serving
  <1>12. Only(d, "RF_CHAN_REL")
    BY <1>10, <1>11, SentOnly
  <1>13. Quarantined(d, b)
    BY <1>3, <1>4, <1>7, <1>10, <1>12 DEF Quarantined, Serving, Sent
  <1> QED BY <1>1, <1>3, <1>8, <1>9, <1>13, PhaseHere DEF InPhase

\* T3111: the channel is closed.
LEMMA T3111Phase ==
    ASSUME IInv, Phased, NEW l \in Lchans, T3111Expires(l)
    PROVE  Phased'
  <1>1. PICK c, b : c = lc[l] /\ b = bts[l]
    OBVIOUS
  <1>2. c \in Lchan /\ InPhase(c, b)
    BY <1>1, ChannelFacts
  <1>3. c.T3111 /\ Set(l, t3111_expired(c)) /\ UNCHANGED <<bts, up>>
    BY <1>1 DEF T3111Expires
  <1>4. Releasing(c, b) /\ c.out = <<>>
    BY <1>2, <1>3 DEF InPhase, Idle, Opening, Serving, Quarantined, Releasing
  <1>5. PICK e : e = [c EXCEPT !.T3111 = FALSE, !.act_timer = "deact"]
    OBVIOUS
  <1>6. e \in Lchan
    BY <1>2, <1>5 DEF Lchan
  <1>7. /\ e.type = c.type /\ e.state = c.state /\ e.conn = c.conn /\ e.rqd_ref = c.rqd_ref /\ e.act_timer = "deact"
        /\ e.T3101 = c.T3101 /\ ~e.T3111 /\ e.out = c.out
    BY <1>2, <1>5 DEF Lchan
  <1>8. t3111_expired(c) = SendRll(e, "RF_CHAN_REL", 0, "NORMAL")
    <2>1. PICK g : g = [c EXCEPT !.T3111 = FALSE]
      OBVIOUS
    <2>2. g \in Lchan /\ g.state = c.state
      BY <1>2, <2>1 DEF Lchan
    <2>3. g.state # "REL_ERR"
      BY <1>4, <2>2 DEF Releasing
    <2>4. e = [g EXCEPT !.act_timer = "deact"]
      BY <1>2, <1>5, <2>1 DEF Lchan
    <2> QED BY <2>1, <2>3, <2>4 DEF t3111_expired, rsl_rf_chan_release, Send
  <1>9. PICK d : d = SendRll(e, "RF_CHAN_REL", 0, "NORMAL")
    OBVIOUS
  <1>10. Sent(e, d, "RF_CHAN_REL", 0)
    BY <1>6, <1>9, SendSent, SapisAssumption DEF RslTypes, ReleaseModes
  <1>11. e.out = <<>>
    BY <1>4, <1>7
  <1>12. Only(d, "RF_CHAN_REL")
    BY <1>10, <1>11, SentOnly
  <1>13. Releasing(d, b)
    BY <1>4, <1>7, <1>10, <1>12 DEF Releasing, Sent
  <1> QED BY <1>1, <1>3, <1>8, <1>9, <1>13, PhaseHere DEF InPhase

\* A request for a data link given up, or failed, leaves the phase.
LEMMA IndicationPhase ==
    ASSUME IInv, Phased, NEW l \in Lchans, NEW s \in Sapis, Set(l, rll_indication(lc[l], s)), UNCHANGED <<bts, up>>
    PROVE  Phased'
  <1>1. lc[l] \in Lchan /\ InPhase(lc[l], bts[l])
    BY ChannelFacts
  <1>2. PICK d : d = rll_indication(lc[l], s)
    OBVIOUS
  <1>3. InPhase(d, bts[l])
    BY <1>1, <1>2, IndicationAlike, AlikePhase
  <1> QED BY <1>2, <1>3, PhaseHere

\* All timers.
LEMMA TimerPhase ==
    ASSUME OrderlyFaults, IInv, Phased, NEW l \in Lchans, TimerExpires(l)
    PROVE  Phased'
  <1>1. ASSUME NEW s \in Sapis, RllTimer(l, s)
        PROVE  Phased'
    BY <1>1, IndicationPhase DEF RllTimer
  <1> QED BY <1>1, NoActTimer, ErrorTimerPhase, T3101Phase, T3111Phase DEF TimerExpires

-----------------------------------------------------------------------------
(* The MS and the owner *)

\* There are no radio failures, and an error indication ends no channel.
LEMMA RadioPhase ==
    ASSUME OrderlyFaults, IInv, Phased, NEW l \in Lchans, ConnFail(l) \/ \E s \in Sapis : ErrInd(l, s)
    PROVE  Phased'
  <1>1. ~ConnFail(l)
    BY DEF ConnFail, OrderlyFaults
  <1>2. PICK s \in Sapis : ErrInd(l, s)
    BY <1>1
  <1>3. PICK t200 \in T200Causes : Set(l, rsl_rx_rll_err_ind(lc[l], s, t200))
    BY <1>2 DEF ErrInd
  <1>4. ~t200
    BY <1>3 DEF T200Causes, OrderlyFaults
  <1>5. Set(l, rll_indication(lc[l], s)) /\ UNCHANGED <<bts, up>>
    BY <1>2, <1>3, <1>4 DEF rsl_rx_rll_err_ind, ErrInd
  <1> QED BY <1>5, IndicationPhase

\* ESTABLISH INDICATION adds the link and stops T3101.
LEMMA EstIndFields ==
    ASSUME NEW c \in Lchan, NEW s \in Sapis, NEW d, d = rll_est_ind(c, s)
    PROVE  /\ d \in Lchan /\ UsedSapis(d) = UsedSapis(c) \cup {s} /\ ~d.T3101
           /\ d.type = c.type /\ d.state = c.state /\ d.conn = c.conn /\ d.rqd_ref = c.rqd_ref
           /\ d.act_timer = c.act_timer /\ d.T3111 = c.T3111 /\ d.out = c.out
  <1>1. d \in Lchan /\ UsedSapis(d) = UsedSapis(c) \cup {s}
    BY EstIndKeeps DEF Keeps
  <1>2. PICK f : f = [c.sapis EXCEPT ![s] = "MS"]
    OBVIOUS
  <1>3. d = [c EXCEPT !.sapis = f, !.T3101 = FALSE]
    BY <1>2 DEF rll_est_ind
  <1> QED BY <1>1, <1>3 DEF Lchan

\* The MS sets up a data link.
LEMMA MsEstablishPhase ==
    ASSUME OrderlyFaults, IInv, Phased, NEW l \in Lchans, NEW s \in Sapis, MsEstablish(l, s)
    PROVE  Phased'
  <1>1. PICK c, b, d : c = lc[l] /\ b = bts[l] /\ d = rll_est_ind(lc[l], s)
    OBVIOUS
  <1>2. c \in Lchan /\ b \in BtsChan /\ ~b.deaf /\ InPhase(c, b) /\ Agree(c, b)
    BY <1>1, ChannelFacts
  <1>3. /\ b.active /\ (s = 0 \/ 0 \in b.rll) /\ c.state # "REL_REQ" /\ Bts(l, TRUE, b.rll \cup {s}) /\ UNCHANGED up
        /\ \/ Set(l, d)
           \/ /\ d.state = "ACTIVE" /\ d.conn = NoConn
              /\ \/ \E k \in Conns : Set(l, [d EXCEPT !.conn = k])
                 \/ Set(l, lchan_release(d, FALSE, "NORMAL"))
    BY <1>1 DEF MsEstablish, OrderlyFaults
  <1>4. /\ d \in Lchan /\ UsedSapis(d) = UsedSapis(c) \cup {s} /\ ~d.T3101
        /\ d.type = c.type /\ d.state = c.state /\ d.conn = c.conn /\ d.rqd_ref = c.rqd_ref
        /\ d.act_timer = c.act_timer /\ d.T3111 = c.T3111 /\ d.out = c.out
    BY <1>1, <1>2, EstIndFields
  <1>5. PICK e : e = [active |-> TRUE, rll |-> b.rll \cup {s}, deaf |-> bts[l].deaf]
    OBVIOUS
  <1>6. bts' = [bts EXCEPT ![l] = e] /\ e.active /\ ~e.deaf
    BY <1>1, <1>2, <1>3, <1>5 DEF Bts
  <1>7. Serving(c, b) \/ Quarantined(c, b)
    BY <1>2, <1>3 DEF InPhase, Idle, Opening, Releasing
  <1>8. CASE Quarantined(c, b)
    <2>1. Set(l, d)
      BY <1>3, <1>4, <1>8 DEF Quarantined
    <2>2. Quarantined(d, e)
      BY <1>4, <1>6, <1>8 DEF Quarantined, Only
    <2> QED BY <1>3, <1>6, <2>1, <2>2, PhaseOn DEF InPhase
  <1>9. CASE Serving(c, b)
    <2>1. UsedSapis(c) = b.rll
      <3>1. c.state \in {"ACTIVE", "REL_REQ"}
        BY <1>9 DEF Serving
      <3> QED BY <1>2, <3>1, PhaseLinks
    <2>2. 0 \in UsedSapis(d)
      BY <1>3, <1>4, <2>1
    <2>3. Serving(d, e)
      BY <1>4, <1>6, <1>9, <2>2 DEF Serving
    <2>4. CASE Set(l, d)
      BY <1>3, <1>6, <2>3, <2>4, PhaseOn DEF InPhase
    <2>5. ASSUME d.conn = NoConn, NEW k \in Conns, Set(l, [d EXCEPT !.conn = k])
          PROVE  Phased'
      <3>1. PICK g : g = [d EXCEPT !.conn = k]
        OBVIOUS
      <3>2. /\ g.type = d.type /\ g.state = d.state /\ g.rqd_ref = d.rqd_ref /\ g.act_timer = d.act_timer
            /\ g.T3101 = d.T3101 /\ g.T3111 = d.T3111 /\ g.out = d.out /\ g.sapis = d.sapis /\ g.conn = k
        BY <1>4, <3>1 DEF Lchan
      <3>3. UsedSapis(g) = UsedSapis(d)
        BY <3>2 DEF UsedSapis
      <3>4. Serving(g, e)
        BY <1>4, <2>2, <2>3, <2>5, <3>2, <3>3, ConnAssumption DEF Serving
      <3> QED BY <1>3, <1>6, <2>5, <3>1, <3>4, PhaseOn DEF InPhase
    <2>6. ASSUME d.conn = NoConn, Set(l, lchan_release(d, FALSE, "NORMAL"))
          PROVE  Phased'
      <3>1. PICK g : g = lchan_release(d, FALSE, "NORMAL")
        OBVIOUS
      <3>2. d.out = <<>> /\ "NORMAL" \in ReleaseModes
        BY <2>3, <2>6 DEF Serving, ReleaseModes
      <3>3. Releasing(g, e)
        BY <1>4, <2>3, <3>1, <3>2, ReleasePhase
      <3> QED BY <1>3, <1>6, <2>6, <3>1, <3>3, PhaseOn DEF InPhase
    <2> QED BY <1>3, <2>4, <2>5, <2>6
  <1> QED BY <1>7, <1>8, <1>9

\* The MS takes a data link down; the main one stays, and not while the channel is released.
LEMMA MsDisconnectPhase ==
    ASSUME OrderlyFaults, IInv, Phased, NEW l \in Lchans, NEW s \in Sapis, MsDisconnect(l, s)
    PROVE  Phased'
  <1>1. PICK c, b, d : c = lc[l] /\ b = bts[l] /\ d = rll_rel_ind(lc[l], s)
    OBVIOUS
  <1>2. c \in Lchan /\ b \in BtsChan /\ ~b.deaf /\ InPhase(c, b)
    BY <1>1, ChannelFacts
  <1>3. s # 0 /\ c.state # "REL_REQ" /\ Bts(l, b.active, b.rll \ {s}) /\ Set(l, d) /\ UNCHANGED up
    BY <1>1 DEF MsDisconnect, OrderlyFaults
  <1>4. PICK e : e = [active |-> b.active, rll |-> b.rll \ {s}, deaf |-> bts[l].deaf]
    OBVIOUS
  <1>5. bts' = [bts EXCEPT ![l] = e] /\ e.active = b.active /\ ~e.deaf
    BY <1>1, <1>2, <1>3, <1>4 DEF Bts
  <1>6. RelEnds(c, d, s)
    BY <1>1, <1>2, RelIndEnds
  <1>7. Links(c, d, UsedSapis(c) \ {s})
    BY <1>3, <1>6 DEF RelEnds
  <1>8. CASE Serving(c, b)
    <2>1. PICK U : U = UsedSapis(c) \ {s}
      OBVIOUS
    <2>2. Links(c, d, U) /\ (U # {} \/ c.out # <<>> => 0 \in U) /\ (c.T3101 => U = {}) /\ e.active
      BY <1>3, <1>5, <1>7, <1>8, <2>1 DEF Serving
    <2>3. Serving(d, e)
      BY <1>8, <2>2, LinksServing
    <2> QED BY <1>3, <1>5, <2>3, PhaseOn DEF InPhase
  <1>9. CASE Idle(c, b)
    <2>1. Idle(d, e)
      BY <1>5, <1>7, <1>9 DEF Idle, Links
    <2> QED BY <1>3, <1>5, <2>1, PhaseOn DEF InPhase
  <1>10. CASE Opening(c, b)
    <2>1. Opening(d, e)
      BY <1>5, <1>7, <1>10 DEF Opening, Links, Only
    <2> QED BY <1>3, <1>5, <2>1, PhaseOn DEF InPhase
  <1>11. CASE Quarantined(c, b)
    <2>1. Quarantined(d, e)
      BY <1>5, <1>7, <1>11 DEF Quarantined, Links, Only
    <2> QED BY <1>3, <1>5, <2>1, PhaseOn DEF InPhase
  <1> QED BY <1>2, <1>3, <1>8, <1>9, <1>10, <1>11 DEF InPhase, Releasing

\* The owner gives the channel up when nothing is under way.
LEMMA ReleaseByOwnerPhase ==
    ASSUME OrderlyFaults, IInv, Phased, NEW l \in Lchans, NEW sd \in BOOLEAN, ReleaseByOwner(l, sd)
    PROVE  Phased'
  <1>1. PICK c, b, reason : c = lc[l] /\ b = bts[l] /\ reason = IF sd THEN "NORMAL" ELSE "LOCAL_END"
    OBVIOUS
  <1>2. c \in Lchan /\ InPhase(c, b) /\ c.out \in Seq(RslMsgs)
    BY <1>1, ChannelFacts
  <1>3. c.conn # NoConn /\ c.state # "ACT_REQ" /\ ~Queued(l, "EST_REQ") /\ UNCHANGED <<bts, up>>
    BY <1>1 DEF ReleaseByOwner, OrderlyFaults
  <1>4. Serving(c, b)
    BY <1>2, <1>3 DEF InPhase, Idle, Opening, Quarantined, Releasing
  <1>5. c.out = <<>>
    <2> SUFFICES ASSUME c.out # <<>>
                 PROVE  FALSE
      OBVIOUS
    <2>1. 1 \in DOMAIN c.out
      BY <1>2, OnlyHead
    <2>2. c.out[1].mt = "EST_REQ"
      BY <1>4, <2>1 DEF Serving
    <2> QED BY <1>1, <1>3, <2>1, <2>2 DEF Queued
  <1>6. ~c.T3101 /\ reason \in ReleaseModes
    BY <1>1, <1>3, <1>4 DEF Serving, ReleaseModes
  <1>7. PICK d : d = lchan_release(c, sd, reason)
    OBVIOUS
  <1>8. Releasing(d, b)
    BY <1>2, <1>4, <1>5, <1>6, <1>7, ReleasePhase
  <1>9. Set(l, d)
    BY <1>1, <1>7 DEF ReleaseByOwner
  <1> QED BY <1>1, <1>3, <1>8, <1>9, PhaseHere DEF InPhase

\* The owner asks for a data link beside the main one.
LEMMA RllEstablishPhase ==
    ASSUME OrderlyFaults, IInv, Phased, NEW l \in Lchans, NEW s \in Sapis, RllEstablish(l, s)
    PROVE  Phased'
  <1>1. PICK c, b : c = lc[l] /\ b = bts[l]
    OBVIOUS
  <1>2. c \in Lchan /\ InPhase(c, b) /\ c.out \in Seq(RslMsgs)
    BY <1>1, ChannelFacts
  <1>3. /\ c.conn # NoConn /\ c.sapis[s] = "UNUSED" /\ c.sapis[0] # "UNUSED" /\ Set(l, rll_establish(c, s))
        /\ UNCHANGED <<bts, up>>
    BY <1>1 DEF RllEstablish, OrderlyFaults
  <1>4. 0 \in UsedSapis(c) /\ s # 0
    BY <1>3, SapisAssumption DEF UsedSapis
  <1>5. Serving(c, b)
    BY <1>2, <1>3, <1>4 DEF InPhase, Idle, Opening, Quarantined, Releasing
  <1>6. PICK r : r = [c.rllr EXCEPT ![s] = @ + 1]
    OBVIOUS
  <1>7. r \in [Sapis -> Nat]
    <2>1. c.rllr \in [Sapis -> Nat]
      BY <1>2 DEF Lchan
    <2> QED BY <1>6, <2>1
  <1>8. PICK e : e = [c EXCEPT !.rllr = r]
    OBVIOUS
  <1>9. e \in Lchan
    BY <1>2, <1>7, <1>8, SetRllr
  <1>10. Alike(c, e)
    BY <1>2, <1>8, <1>9 DEF Alike, Lchan
  <1>11. PICK d : d = SendRll(e, "EST_REQ", s, "NORMAL")
    OBVIOUS
  <1>12. Set(l, d)
    BY <1>3, <1>6, <1>8, <1>11 DEF rll_establish
  <1>13. Sent(e, d, "EST_REQ", s)
    BY <1>9, <1>11, SendSent DEF RslTypes, ReleaseModes
  <1>14. UsedSapis(d) = UsedSapis(c)
    BY <1>10, <1>13 DEF Alike, Sent, UsedSapis
  <1>15. \A i \in DOMAIN d.out : d.out[i].mt = "EST_REQ" /\ d.out[i].sapi # 0
    <2>1. d.out \in Seq(RslMsgs) /\ Len(d.out) = Len(c.out) + 1
      BY <1>10, <1>13 DEF Sent, Alike, Lchan
    <2>2. \A i \in DOMAIN d.out : i \in 1..Len(c.out) \/ i = Len(c.out) + 1
      BY <1>2, <2>1
    <2>3. \A i \in 1..Len(c.out) : i \in DOMAIN c.out /\ d.out[i] = c.out[i]
      BY <1>2, <1>10, <1>13 DEF Sent, Alike
    <2>4. d.out[Len(c.out) + 1].mt = "EST_REQ" /\ d.out[Len(c.out) + 1].sapi = s
      BY <1>10, <1>13 DEF Sent, Alike
    <2>5. \A i \in DOMAIN c.out : c.out[i].mt = "EST_REQ" /\ c.out[i].sapi # 0
      BY <1>5 DEF Serving
    <2> QED BY <1>4, <2>2, <2>3, <2>4, <2>5
  <1>16. Serving(d, b)
    BY <1>3, <1>4, <1>5, <1>10, <1>13, <1>14, <1>15 DEF Serving, Sent, Alike
  <1> QED BY <1>1, <1>3, <1>12, <1>16, PhaseHere DEF InPhase

-----------------------------------------------------------------------------
(* The result *)

\* Every step keeps every channel in a phase.
LEMMA NextPhased ==
    ASSUME OrderlyFaults, IInv, Phased, [Next]_vars
    PROVE  Phased'
  <1>1. ~LinkDown /\ ~LinkUp
    BY DEF LinkDown, LinkUp, OrderlyFaults, Phased
  <1>2. CASE UNCHANGED vars
    BY <1>2 DEF vars, Phased, InPhase, Idle, Opening, Serving, Quarantined, Releasing, Only, UsedSapis
  <1>3. ASSUME NEW type \in {"SDCCH", "TCH_F", "TCH_H"}, NEW is_lu \in BOOLEAN, rsl_rx_chan_rqd(type, is_lu)
        PROVE  Phased'
    BY <1>3, ChanRqdPhase
  <1>4. ASSUME NEW type \in {"SDCCH", "TCH_F", "TCH_H"}, NEW k \in Conns, ActivateForConn(type, k)
        PROVE  Phased'
    BY <1>4, ActivateForConnPhase
  <1>5. ASSUME NEW l \in Lchans, BtsAnswers(l) PROVE Phased'
    BY <1>5, AnswerPhase
  <1>6. ASSUME NEW l \in Lchans, TimerExpires(l) PROVE Phased'
    BY <1>6, TimerPhase
  <1>7. ASSUME NEW l \in Lchans, ConnFail(l) \/ \E s \in Sapis : ErrInd(l, s) PROVE Phased'
    BY <1>7, RadioPhase
  <1>8. ASSUME NEW l \in Lchans, NEW s \in Sapis, MsEstablish(l, s) PROVE Phased'
    BY <1>8, MsEstablishPhase
  <1>9. ASSUME NEW l \in Lchans, NEW s \in Sapis, MsDisconnect(l, s) PROVE Phased'
    BY <1>9, MsDisconnectPhase
  <1>10. ASSUME NEW l \in Lchans, NEW sd \in BOOLEAN, ReleaseByOwner(l, sd) PROVE Phased'
    BY <1>10, ReleaseByOwnerPhase
  <1>11. ASSUME NEW l \in Lchans, NEW s \in Sapis, RllEstablish(l, s) PROVE Phased'
    BY <1>11, RllEstablishPhase
  <1> QED BY <1>1, <1>2, <1>3, <1>4, <1>5, <1>6, <1>7, <1>8, <1>9, <1>10, <1>11 DEF Next

\* All channels are idle at the start, and the BTS is not deaf.
LEMMA InitPhased ==
    ASSUME OrderlyFaults, Init
    PROVE  Phased
  <1> SUFFICES ASSUME NEW l \in Lchans
               PROVE  ~bts[l].deaf /\ Idle(lc[l], bts[l])
    BY DEF Init, Phased, InPhase
  <1>1. lc[l] = LchanInit
    BY DEF Init
  <1>2. bts[l] \in {[active |-> FALSE, rll |-> {}, deaf |-> d] : d \in Deafness}
    BY DEF Init
  <1>3. PICK d \in Deafness : bts[l] = [active |-> FALSE, rll |-> {}, deaf |-> d]
    BY <1>2
  <1>4. ~d
    BY <1>3 DEF Deafness, OrderlyFaults
  <1>5. ~bts[l].deaf /\ ~bts[l].active
    BY <1>3, <1>4
  <1> QED BY <1>1, <1>5 DEF LchanInit, Idle

\* When BTS, MS and the layer above follow the procedures, what chan_alloc.c would hand out is
\* closed in the BTS and has no owner, no timer that could hit the next user and nothing under way.
THEOREM FreeAlwaysReally ==
    ASSUME OrderlyFaults
    PROVE  Spec => []ReallyFree
  <1>1. Init => Phased
    BY InitPhased
  <1>2. IInv /\ Phased /\ [Next]_vars => Phased'
    BY NextPhased
  <1>3. Phased => ReallyFree
    BY DEF Phased, InPhase, Idle, Opening, Serving, Quarantined, Releasing, ReallyFree
  <1> QED BY <1>1, <1>2, <1>3, SpecIInv, PTL DEF Spec

=============================================================================
