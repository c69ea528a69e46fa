------------------------------ MODULE LchanOps ------------------------------
(***************************************************************************)
(* The BSC's record of one logical channel (struct gsm_lchan) and the      *)
(* functions of chan_alloc.c, abis_rsl.c and bsc_rll.c that change it,     *)
(* written as operators from a channel record to a channel record.  The   *)
(* program is one select() loop, so each handler runs to completion.       *)
(*                                                                         *)
(* Field `out' is the RSL signalling queue towards the BTS: the messages   *)
(* the BSC has sent on this channel and the BTS has not handled yet.       *)
(* Messages without consequence for the channel state (DATA REQUEST, MODE  *)
(* MODIFY, measurement reports) are left out.                              *)
(***************************************************************************)
EXTENDS Naturals, Sequences

CONSTANTS
    Sapis,     \* the LAPDm service access points in use (0: signalling, 3: SMS)
    Conns,     \* subscriber connections that may own a channel
    NoConn     \* the null pointer of lchan->conn

ASSUME SapisAssumption == Sapis \subseteq 0..7 /\ 0 \in Sapis
ASSUME ConnAssumption  == NoConn \notin Conns

LchanTypes  == {"NONE", "SDCCH", "TCH_F", "TCH_H"}
LchanStates == {"NONE", "ACT_REQ", "ACTIVE", "REL_REQ", "REL_ERR"}
SapiStates  == {"UNUSED", "MS", "NET"}
RslTypes    == {"CHAN_ACTIV", "RF_CHAN_REL", "EST_REQ", "REL_REQ", "RR_CHAN_REL"}
ReleaseModes == {"NORMAL", "LOCAL_END"}
RslMsgs     == [mt : RslTypes, sapi : Sapis, mode : ReleaseModes]

Lchan == [type : LchanTypes, state : LchanStates, sapis : [Sapis -> SapiStates],
          conn : Conns \cup {NoConn}, rqd_ref : BOOLEAN, sach_deact : BOOLEAN,
          release_reason : ReleaseModes,
          T3101 : BOOLEAN, T3111 : BOOLEAN, error_timer : BOOLEAN,
          act_timer : {"off", "act", "deact"},
          rllr : [Sapis -> Nat], out : Seq(RslMsgs)]

LchanInit ==
    [type |-> "NONE", state |-> "NONE", sapis |-> [s \in Sapis |-> "UNUSED"],
     conn |-> NoConn, rqd_ref |-> FALSE, sach_deact |-> FALSE, release_reason |-> "NORMAL",
     T3101 |-> FALSE, T3111 |-> FALSE, error_timer |-> FALSE,
     act_timer |-> "off", rllr |-> [s \in Sapis |-> 0], out |-> <<>>]

\* What _lc_find_trx() looks for in a slot of the right physical configuration.
LchanIsFree(c) == c.type = "NONE" /\ c.state = "NONE"

SendRll(c, mt, s, mode) ==
    [c EXCEPT !.out = Append(@, [mt |-> mt, sapi |-> s, mode |-> mode])]
Send(c, mt) == SendRll(c, mt, 0, "NORMAL")

rsl_lchan_set_state(c, st) == [c EXCEPT !.state = st]

-----------------------------------------------------------------------------
(* chan_alloc.c *)

\* Mutant: the data links of the last user stay.
lchan_take_keeps_sapis(c, type) == [c EXCEPT !.type = type]

\* lchan_alloc() on the slot it found: note the type, forget the old data links.
lchan_take(c, type) ==
    [c EXCEPT !.type = type, !.sapis = [s \in Sapis |-> "UNUSED"]]

\* Mutant: the RACH data are not forgotten.
lchan_free_keeps_rqd(c) ==
    [c EXCEPT !.type = "NONE", !.state = "NONE", !.T3101 = FALSE,
              !.rllr = [s \in Sapis |-> 0],
              !.conn = NoConn, !.sach_deact = FALSE, !.release_reason = "NORMAL"]

\* The owner of the channel learns of it by S_LCHAN_UNEXPECTED_RELEASE, the
\* pending RLL requests by S_CHALLOC_FREED.  T3111, error_timer and act_timer
\* keep running.
lchan_free(c) ==
    [c EXCEPT !.type = "NONE", !.state = "NONE", !.T3101 = FALSE,
              !.rqd_ref = FALSE, !.rllr = [s \in Sapis |-> 0],
              !.conn = NoConn, !.sach_deact = FALSE, !.release_reason = "NORMAL"]

\* TRX error: forget everything but the owner and the activation guard timer.
lchan_reset(c) ==
    [c EXCEPT !.T3101 = FALSE, !.T3111 = FALSE, !.error_timer = FALSE,
              !.type = "NONE", !.state = "NONE"]

rsl_release_request(c, s) == SendRll(c, "REL_REQ", s, c.release_reason)

\* RR CHANNEL RELEASE to the MS, DEACTIVATE SACCH to the BTS; no timer T3109.
gsm48_send_rr_release(c) == Send(c, "RR_CHAN_REL")

UsedSapis(c) == {s \in Sapis : c.sapis[s] # "UNUSED"}

\* SAPIs other than 0 go first, one at a time; then either the MS is told to
\* leave (and its DISC awaited) or the main link is taken down.
lchan_handle_release(c) ==
    LET upper == UsedSapis(c) \ {0} IN
    IF upper # {}
    THEN rsl_release_request(c, CHOOSE s \in upper : \A t \in upper : s <= t)
    ELSE IF c.sach_deact
         THEN gsm48_send_rr_release(c)
         ELSE rsl_lchan_set_state(rsl_release_request(c, 0), "REL_REQ")

\* Mutant: nothing follows the release of a SAPI other than 0.
rsl_lchan_rll_release_stops(c, s) == c

rsl_lchan_rll_release(c, s) ==
    IF c.state = "REL_REQ" /\ s # 0 THEN lchan_handle_release(c) ELSE c

lchan_release(c, sach_deact, reason) ==
    lchan_handle_release(
        [c EXCEPT !.state = "REL_REQ", !.conn = NoConn,
                  !.release_reason = reason, !.sach_deact = sach_deact])

-----------------------------------------------------------------------------
(* bsc_rll.c: rllr[s] counts the pending requests for a data link on SAPI s *)

rll_establish(c, s) == SendRll([c EXCEPT !.rllr[s] = @ + 1], "EST_REQ", s, "NORMAL")

\* An indication completes one request for that link, if there is one.
rll_indication(c, s) ==
    [c EXCEPT !.rllr[s] = IF @ > 0 THEN @ - 1 ELSE 0]

-----------------------------------------------------------------------------
(* abis_rsl.c: requests to the BTS and timer callbacks *)

rsl_chan_activate_lchan(c) == Send(c, "CHAN_ACTIV")

\* After an error the channel is put into REL_ERR for T3111 + 2 s.
rsl_rf_chan_release(c, error) ==
    IF c.state = "REL_ERR" THEN c
    ELSE LET q == IF error
                  THEN [c EXCEPT !.state = "REL_ERR", !.error_timer = TRUE]
                  ELSE c
         IN  Send([q EXCEPT !.act_timer = "deact"], "RF_CHAN_REL")

lchan_act_tmr_cb(c)   == lchan_free([c EXCEPT !.act_timer = "off"])
lchan_deact_tmr_cb(c) == lchan_free([c EXCEPT !.act_timer = "off"])

error_timeout_cb(c) ==
    [c EXCEPT !.error_timer = FALSE,
              !.state = IF @ = "REL_ERR" THEN "NONE" ELSE @]

t3101_expired(c) == rsl_rf_chan_release([c EXCEPT !.T3101 = FALSE], TRUE)
t3111_expired(c) == rsl_rf_chan_release([c EXCEPT !.T3111 = FALSE], FALSE)

-----------------------------------------------------------------------------
(* abis_rsl.c: handlers of what the BTS sends *)

rsl_rx_chan_act_ack(c) ==
    [c EXCEPT !.act_timer = "off", !.state = "ACTIVE", !.rqd_ref = FALSE,
              !.T3101 = IF c.rqd_ref THEN TRUE ELSE @]

\* cause "ALR_ACTV": the BTS says the channel is active already.
rsl_rx_chan_act_nack(c, cause) ==
    LET q == [c EXCEPT !.act_timer = "off"] IN
    lchan_free(IF cause = "ALR_ACTV" THEN rsl_rf_chan_release(q, TRUE)
               ELSE rsl_lchan_set_state(q, "NONE"))

\* Mutant: the guard timer is not stopped.
rsl_rx_rf_chan_rel_ack_no_stop(c) == lchan_free([c EXCEPT !.T3111 = FALSE])

rsl_rx_rf_chan_rel_ack(c) ==
    lchan_free([c EXCEPT !.act_timer = "off", !.T3111 = FALSE])

rsl_rx_conn_fail(c) == rsl_rf_chan_release(c, TRUE)

rsl_rx_rll_err_ind(c, s, t200) ==
    LET q == rll_indication(c, s) IN
    IF t200 THEN rsl_rf_chan_release(q, TRUE) ELSE q

rsl_handle_release(c) ==
    IF c.state = "REL_REQ" /\ UsedSapis(c) = {}
    THEN [c EXCEPT !.T3111 = TRUE] ELSE c

rll_est_ind(c, s) == [c EXCEPT !.sapis[s] = "MS", !.T3101 = FALSE]

rll_est_conf(c, s) == rll_indication([c EXCEPT !.sapis[s] = "NET"], s)

rll_rel_conf(c, s) ==
    rsl_lchan_rll_release(rsl_handle_release([c EXCEPT !.sapis[s] = "UNUSED"]), s)

rll_rel_ind(c, s) ==
    rsl_lchan_rll_release(
        rsl_handle_release(rll_indication([c EXCEPT !.sapis[s] = "UNUSED"], s)), s)

=============================================================================
