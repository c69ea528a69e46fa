-------------------------------- MODULE Calls --------------------------------
(***************************************************************************)
(* Call control: the transactions of gsm_04_08.c, and the built-in call    *)
(* router mncc_builtin.c that joins the two legs of a call.                *)
(*                                                                         *)
(* The two call each other directly: an indication to the router runs      *)
(* int_mncc_recv(), which sends requests with mncc_tx_to_cc(), which may   *)
(* indicate something again, all inside one message from the MS or one     *)
(* timeout.  The operators below therefore take the state cc and return    *)
(* the one they leave.  cc.bad records what the program does that has no   *)
(* defined outcome: it follows a pointer that is NULL or whose object was  *)
(* freed.  Nothing is said of it afterwards.                               *)
(***************************************************************************)
EXTENDS Naturals, Sequences, FiniteSets, SequencesExt, TLC

CONSTANTS
    Subs,          \* subscribers; a number that is nobody's is NoSub
    NoSub,
    NumTi,         \* transaction identifiers per direction (7 in the code)
    Slots,         \* bound: transactions at one time
    MaxRefs,       \* bound: call references given out by each counter
    CallEnvs       \* the surroundings to consider, a subset of CallEnv

CallFaults == {
    "radio",              \* connections are lost
    "loss_while_paging",  \* also that of a caller while the callee is paged
    "early_connect",      \* a call is answered before the channels carry RTP
    "crossing",           \* a DISCONNECT crosses the network's own clearing of the call
    "stray"}              \* anything but RELEASE COMPLETE comes for a call that has ended
Bads == {
    "freed_trans",        \* a transaction is used after it was freed
    "freed_call",         \* a call of the router is
    "no_conn",            \* something is sent for a transaction without a connection
    "no_socket",          \* a channel is joined that has no RTP socket
    "next_freed"}         \* a walk over the transactions goes on from a freed one
CallEnv == [handover : BOOLEAN,     \* net->handover.active
            faults : SUBSET CallFaults]

ASSUME CallBoundsAssumption ==
    NumTi \in Nat \ {0} /\ Slots \in Nat \ {0} /\ MaxRefs \in 1..99
ASSUME CallEnvAssumption == CallEnvs \subseteq CallEnv /\ NoSub \notin Subs

VARIABLES
    cc,      \* [tr, list, call, refs, pq, conn, rtp, voice, bad]
    callEnv  \* the surroundings; they do not change

callVars == <<cc, callEnv>>

CcStates == {"NULL", "INITIATED", "MO_CALL_PROC", "CALL_DELIVERED", "CALL_PRESENT",
             "CALL_RECEIVED", "CONNECT_REQUEST", "MO_TERM_CALL_CONF", "ACTIVE",
             "DISCONNECT_REQ", "DISCONNECT_IND", "CONNECT_IND", "RELEASE_REQ",
             "MO_TERM_MODIFY", "MO_ORIG_MODIFY"}
Timers == {"none", "T301", "T303", "T306", "T308", "T310", "T313", "T323"}

\* Transaction identifiers: those of the MS are raised by NumTi, Unassigned is 0xff.
Tis == 0..(2 * NumTi - 1)
Unassigned == 2 * NumTi
TransIds == 1..Slots

\* The two counters new_callref start at 1 and at 0x80000001; 0 is no reference.
MnccRefs == 1..MaxRefs
MsRefs == 101..(100 + MaxRefs)
Refs == MnccRefs \cup MsRefs

Trans == [sub : Subs \cup {NoSub}, ti : 0..Unassigned, ref : Refs \cup {0}, state : CcStates,
          timer : Timers, t308_second : BOOLEAN, conn : BOOLEAN, tch_recv : BOOLEAN]
NoTrans == [sub |-> NoSub, ti |-> Unassigned, ref |-> 0, state |-> "NULL", timer |-> "none",
            t308_second |-> FALSE, conn |-> FALSE, tch_recv |-> FALSE]

CallsTypeOK ==
    /\ cc.tr \in [TransIds -> Trans]
    /\ \A t \in TransIds : t \notin ToSet(cc.list) => cc.tr[t] = NoTrans
    /\ Len(cc.list) = Cardinality(ToSet(cc.list))
    /\ DOMAIN cc.call \subseteq Refs /\ \A r \in DOMAIN cc.call : cc.call[r] \in Refs \cup {0}
    /\ cc.refs \in [mncc : 0..MaxRefs, ms : 0..MaxRefs]
    /\ cc.conn \in [Subs -> {"down", "anchor", "up"}]
    /\ cc.rtp \in [Subs -> {"none", "pending", "bound"}]
    /\ cc.bad \subseteq Bads
    /\ callEnv \in CallEnvs

CallsInit ==
    /\ callEnv \in CallEnvs
    /\ cc = [tr |-> [t \in TransIds |-> NoTrans], list |-> <<>>, call |-> <<>>,
             refs |-> [mncc |-> 0, ms |-> 0], pq |-> [s \in Subs |-> <<>>],
             conn |-> [s \in Subs |-> "down"], rtp |-> [s \in Subs |-> "none"],
             voice |-> {}, bad |-> {}]

-----------------------------------------------------------------------------
(* transaction.c *)

Live(S) == ToSet(S.list)
trans_find_by_id(S, s, ti) == {t \in Live(S) : S.tr[t].sub = s /\ S.tr[t].ti = ti}
trans_find_by_callref(S, r) == {t \in Live(S) : S.tr[t].ref = r}
The(set) == CHOOSE x \in set : TRUE

\* The record goes into the lowest free place; the list is in order of allocation.
NewSlot(S) == CHOOSE t \in TransIds \ Live(S) : \A u \in TransIds \ Live(S) : t <= u
trans_alloc(S, s, ti, ref) ==
    [S EXCEPT !.list = Append(@, NewSlot(S)),
              !.tr[NewSlot(S)] = [NoTrans EXCEPT !.sub = s, !.ti = ti, !.ref = ref]]

Used(S, s) == {S.tr[t].ti : t \in {u \in Live(S) : S.tr[u].sub = s}}

\* Goes round from the highest identifier in use, which is itself taken.
trans_assign_trans_id(S, s, flag) ==
    LET h    == {i \in 1..(NumTi - 1) : i + flag \in Used(S, s)}
        from == IF h = {} THEN 0 ELSE CHOOSE i \in h : \A j \in h : j <= i
        free == {i \in 0..(NumTi - 1) : ((from + i) % NumTi) + flag \notin Used(S, s)}
    IN  IF free = {} THEN Unassigned
        ELSE ((from + (CHOOSE i \in free : \A j \in free : i <= j)) % NumTi) + flag

\* msc_release_connection(): nothing but transactions and the anchor holds a channel here.
msc_release_conn(S, s) ==
    IF S.conn[s] # "up" \/ \E t \in Live(S) : S.tr[t].sub = s /\ S.tr[t].conn THEN S
    ELSE [S EXCEPT !.conn[s] = "down", !.rtp[s] = "none"]

\* A pointer to a transaction or to a call is used.
Unless(good, what) == IF good THEN {} ELSE {what}
UseTrans(S, t) == [S EXCEPT !.bad = @ \cup Unless(t \in Live(S), "freed_trans")]
UseCall(S, r) == [S EXCEPT !.bad = @ \cup Unless(r \in DOMAIN S.call, "freed_call")]

-----------------------------------------------------------------------------
(* Messages to the MS, new_cc_state() and the timer *)

\* What is sent is not kept; the transaction and its connection are used.
gsm48_conn_sendmsg(S, t, msg) ==
    [UseTrans(S, t) EXCEPT !.bad = @ \cup Unless(t \in Live(S) => S.tr[t].conn, "no_conn")]
new_cc_state(S, t, state) == [S EXCEPT !.tr[t].state = state]
gsm48_start_cc_timer(S, t, timer) == [S EXCEPT !.tr[t].timer = timer]
gsm48_stop_cc_timer(S, t) == [S EXCEPT !.tr[t].timer = "none"]

Send(S, t, state, timer, msg) ==
    gsm48_conn_sendmsg(new_cc_state(gsm48_start_cc_timer(S, t, timer), t, state), t, msg)
Stay(S, t, msg) == gsm48_conn_sendmsg(S, t, msg)

gsm48_cc_tx_status(S, t) == Stay(S, t, "STATUS")
gsm48_cc_tx_call_proc(S, t) == gsm48_conn_sendmsg(new_cc_state(S, t, "MO_CALL_PROC"), t, "CALL PROC")
gsm48_cc_tx_alerting(S, t) == gsm48_conn_sendmsg(new_cc_state(S, t, "CALL_DELIVERED"), t, "ALERTING")
gsm48_cc_tx_connect(S, t) == Send(S, t, "CONNECT_IND", "T313", "CONNECT")
gsm48_cc_tx_connect_ack(S, t) == gsm48_conn_sendmsg(new_cc_state(S, t, "ACTIVE"), t, "CONNECT ACK")

\* Mutant: nothing waits for the answer to a DISCONNECT.
gsm48_cc_tx_disconnect_untimed(S, t) == Send(S, t, "DISCONNECT_IND", "none", "DISCONNECT")

gsm48_cc_tx_disconnect(S, t) == Send(S, t, "DISCONNECT_IND", "T306", "DISCONNECT")
gsm48_cc_tx_notify(S, t) == Stay(S, t, "NOTIFY")
gsm48_cc_tx_hold_rej(S, t) == Stay(S, t, "HOLD REJ")
gsm48_cc_tx_retrieve_rej(S, t) == Stay(S, t, "RETR REJ")
gsm48_cc_tx_modify_reject(S, t) == gsm48_conn_sendmsg(new_cc_state(S, t, "ACTIVE"), t, "MODIFY REJECT")

\* From here on the transaction is no longer found by its call reference.
gsm48_cc_tx_release(S, t) ==
    Send([S EXCEPT !.tr[t].ref = 0, !.tr[t].t308_second = FALSE], t, "RELEASE_REQ", "T308", "RELEASE")

-----------------------------------------------------------------------------
(* The voice path, with the RTP proxy *)

\* tch_bridge(), tch_map() and rsl_ipacc_mdcx_to_rtpsock(), which reads the sockets
\* of the two channels without looking whether they exist.
tch_bridge(S, r1, r2) ==
    LET legs  == trans_find_by_callref(S, r1) \cup trans_find_by_callref(S, r2)
        bound == \A t \in legs : S.rtp[S.tr[t].sub] = "bound"
    IN  IF Cardinality(legs) < 2 \/ \E t \in legs : ~S.tr[t].conn THEN S
        ELSE IF bound THEN [S EXCEPT !.voice = @ \cup {{r1, r2}}]
        ELSE [S EXCEPT !.bad = @ \cup {"no_socket"}]

\* Frames go to the router; without a socket the wish is noted.
tch_recv_mncc(S, r) ==
    LET t == The(trans_find_by_callref(S, r)) IN
    IF trans_find_by_callref(S, r) = {} \/ ~S.tr[t].conn THEN S
    ELSE IF S.rtp[S.tr[t].sub] = "bound" THEN [S EXCEPT !.voice = @ \cup {{r}}]
    ELSE [S EXCEPT !.tr[t].tch_recv = TRUE]

\* gsm0808_assign_req(): the mode of the channel is changed, then an RTP stream set up.
gsm48_lchan_modify(S, t) ==
    [S EXCEPT !.rtp[S.tr[t].sub] = IF @ = "none" THEN "pending" ELSE @]

-----------------------------------------------------------------------------
(* Requests of the router, mncc_tx_to_cc(), and indications to it,         *)
(* int_mncc_recv().  m.called, m.speech: what a SETUP asks for.            *)

Mncc(type, r) == [type |-> type, ref |-> r, called |-> NoSub, speech |-> TRUE]

AllStates == CcStates
downstatelist ==
    [CALL_PROC_REQ   |-> {"INITIATED"},
     ALERT_REQ       |-> {"INITIATED", "MO_CALL_PROC"},
     SETUP_RSP       |-> {"INITIATED", "MO_CALL_PROC", "CALL_DELIVERED"},
     SETUP_REQ       |-> {"NULL"},
     SETUP_COMPL_REQ |-> {"CONNECT_REQUEST"},
     NOTIFY_REQ      |-> {"ACTIVE"},
     HOLD_REJ        |-> {"ACTIVE"},
     RETRIEVE_REJ    |-> {"ACTIVE"},
     MODIFY_REJ      |-> {"MO_ORIG_MODIFY"},
     REJ_REQ         |-> {"INITIATED"},
     DISC_REQ        |-> AllStates \ {"NULL", "DISCONNECT_IND", "RELEASE_REQ", "DISCONNECT_REQ"},
     REL_REQ         |-> AllStates \ {"NULL", "RELEASE_REQ"},
     LCHAN_MODIFY    |-> AllStates]

RECURSIVE mncc_tx_to_cc(_, _), int_mncc_recv(_, _)

mncc_recvmsg(S, type, r) == int_mncc_recv(S, Mncc(type, r))
mncc_release_ind(S, r) == mncc_recvmsg(S, "REL_IND", r)

\* trans_free() and _gsm48_cc_trans_free(): the router is told unless it knows.
Unlink(S, t, was) ==
    LET T == [UseTrans(S, t) EXCEPT !.list = SelectSeq(@, LAMBDA u : u # t), !.tr[t] = NoTrans,
                  !.voice = {v \in @ : was.ref \notin v}]
    IN  IF was.conn THEN msc_release_conn(T, was.sub) ELSE T
trans_free(S, t) ==
    Unlink(IF S.tr[t].ref # 0 THEN mncc_release_ind(UseTrans(S, t), S.tr[t].ref)
           ELSE UseTrans(S, t), t, S.tr[t])

Forget(S, t) == [UseTrans(S, t) EXCEPT !.tr[t].ref = 0]

gsm48_cc_tx_release_compl(S, t) ==
    trans_free(Stay(gsm48_stop_cc_timer([S EXCEPT !.tr[t].ref = 0], t), t, "RELEASE COMPL"), t)

gsm48_cc_tx_setup(S, t) ==
    LET ti == trans_assign_trans_id(S, S.tr[t].sub, 0) IN
    IF S.tr[t].ti # Unassigned \/ ti = Unassigned
    THEN trans_free(Forget(mncc_release_ind(S, S.tr[t].ref), t), t)
    ELSE Send([S EXCEPT !.tr[t].ti = ti], t, "CALL_PRESENT", "T303", "SETUP")

\* The function downstatelist[] names for a request that is allowed in the state.
DownRoutine(S, t, type) ==
    CASE type = "CALL_PROC_REQ"   -> gsm48_cc_tx_call_proc(S, t)
      [] type = "ALERT_REQ"       -> gsm48_cc_tx_alerting(S, t)
      [] type = "SETUP_RSP"       -> gsm48_cc_tx_connect(S, t)
      [] type = "SETUP_REQ"       -> gsm48_cc_tx_setup(S, t)
      [] type = "SETUP_COMPL_REQ" -> gsm48_cc_tx_connect_ack(S, t)
      [] type = "NOTIFY_REQ"      -> gsm48_cc_tx_notify(S, t)
      [] type = "HOLD_REJ"        -> gsm48_cc_tx_hold_rej(S, t)
      [] type = "RETRIEVE_REJ"    -> gsm48_cc_tx_retrieve_rej(S, t)
      [] type = "MODIFY_REJ"      -> gsm48_cc_tx_modify_reject(S, t)
      [] type = "REJ_REQ"         -> gsm48_cc_tx_release_compl(S, t)
      [] type = "DISC_REQ"        -> gsm48_cc_tx_disconnect(S, t)
      [] type = "REL_REQ"         -> gsm48_cc_tx_release(S, t)
      [] type = "LCHAN_MODIFY"    -> gsm48_lchan_modify(S, t)

\* A SETUP for a subscriber without a channel: paged for, unless it has a transaction already.
SetupByPaging(S, t) ==
    IF \E u \in Live(S) \ {t} : S.tr[u].sub = S.tr[t].sub THEN trans_free(S, t)
    ELSE [S EXCEPT !.pq[S.tr[t].sub] = Append(@, S.tr[t].ref)]

NewLeg(S, m) ==
    LET T == trans_alloc(S, m.called, Unassigned, m.ref)
        t == NewSlot(S)
    IN  IF S.conn[m.called] = "down" THEN SetupByPaging(T, t)
        ELSE gsm48_cc_tx_setup([T EXCEPT !.tr[t].conn = TRUE], t)

mncc_tx_to_cc(S, m) ==
    LET found == trans_find_by_callref(S, m.ref)
        t     == The(found)
    IN  CASE found = {} ->
                IF m.type = "SETUP_REQ" /\ m.called # NoSub THEN NewLeg(S, m)
                ELSE mncc_release_ind(S, m.ref)
          [] found # {} /\ ~S.tr[t].conn ->
                trans_free(Forget(mncc_recvmsg(S, IF m.type = "REL_REQ" THEN "REL_CNF" ELSE "REL_IND",
                                               m.ref), t), t)
          [] found # {} /\ S.tr[t].conn ->
                IF S.tr[t].state \in downstatelist[m.type] THEN DownRoutine(S, t, m.type) ELSE S

-----------------------------------------------------------------------------
(* mncc_builtin.c *)

free_call(S, r) == [UseCall(S, r) EXCEPT !.call = [q \in DOMAIN @ \ {r} |-> @[q]]]
Remote(S, r) == S.call[r]
HasRemote(S, r) == r \in DOMAIN S.call /\ S.call[r] \in DOMAIN S.call
Request(S, type, r) == mncc_tx_to_cc(S, Mncc(type, r))

\* A new call on the other side; both legs go on from there.
mncc_setup_ind(S, m) ==
    LET r  == S.refs.mncc + 1
        S1 == [S EXCEPT !.refs.mncc = r, !.call = (r :> m.ref) @@ [@ EXCEPT ![m.ref] = r]]
        S2 == Request(Request(S1, "LCHAN_MODIFY", m.ref), "CALL_PROC_REQ", m.ref)
    IN  CASE S.call[m.ref] # 0 -> S
          [] S.call[m.ref] = 0 /\ ~m.speech -> free_call(Request(S, "REJ_REQ", m.ref), m.ref)
          [] S.call[m.ref] = 0 /\ m.speech ->
                mncc_tx_to_cc(UseCall(S2, r), [m EXCEPT !.type = "SETUP_REQ", !.ref = r])

mncc_alert_ind(S, r) == IF HasRemote(S, r) THEN Request(S, "ALERT_REQ", Remote(S, r)) ELSE S
mncc_notify_ind(S, r) == IF HasRemote(S, r) THEN Request(S, "NOTIFY_REQ", Remote(S, r)) ELSE S

Join(S, r, q) == IF callEnv.handover THEN tch_recv_mncc(tch_recv_mncc(S, r), q) ELSE tch_bridge(S, r, q)
AnswerRemote(S, r) ==
    IF HasRemote(S, r) THEN Join(UseCall(Request(S, "SETUP_RSP", Remote(S, r)), r), r, Remote(S, r)) ELSE S
mncc_setup_cnf(S, r) == AnswerRemote(UseCall(Request(S, "SETUP_COMPL_REQ", r), r), r)

\* Mutant: the other side is not told.
mncc_disc_ind_quiet(S, r) == UseCall(Request(S, "REL_REQ", r), r)

DiscRemote(S, r) == IF HasRemote(S, r) THEN Request(S, "DISC_REQ", Remote(S, r)) ELSE S
mncc_disc_ind(S, r) == DiscRemote(UseCall(Request(S, "REL_REQ", r), r), r)

\* Mutant: the call is freed after its remote side was released.
mncc_rel_ind_late(S, r) ==
    IF HasRemote(S, r) THEN free_call(Request(S, "REL_REQ", Remote(S, r)), r)
    ELSE free_call(S, r)

mncc_rel_ind(S, r) ==
    IF HasRemote(S, r) THEN Request(free_call(S, r), "REL_REQ", Remote(S, r))
    ELSE free_call(S, r)

mncc_rel_cnf(S, r) == free_call(S, r)

Reply == [CALL_CONF_IND |-> "LCHAN_MODIFY", MODIFY_IND |-> "MODIFY_REJ", HOLD_IND |-> "HOLD_REJ",
          RETRIEVE_IND |-> "RETRIEVE_REJ"]
int_mncc_recv(S, m) ==
    LET T == IF m.ref \in DOMAIN S.call THEN S ELSE [S EXCEPT !.call = (m.ref :> 0) @@ @] IN
    CASE m.type = "SETUP_IND" -> mncc_setup_ind(T, m)
      [] m.type # "SETUP_IND" /\ m.ref \notin DOMAIN S.call -> S
      [] m.type # "SETUP_IND" /\ m.ref \in DOMAIN S.call ->
            CASE m.type = "SETUP_CNF"     -> mncc_setup_cnf(S, m.ref)
              [] m.type \in DOMAIN Reply  -> Request(S, Reply[m.type], m.ref)
              [] m.type = "ALERT_IND"     -> mncc_alert_ind(S, m.ref)
              [] m.type = "NOTIFY_IND"    -> mncc_notify_ind(S, m.ref)
              [] m.type = "DISC_IND"      -> mncc_disc_ind(S, m.ref)
              [] m.type \in {"REL_IND", "REJ_IND"} -> mncc_rel_ind(S, m.ref)
              [] m.type = "REL_CNF"       -> mncc_rel_cnf(S, m.ref)
              [] OTHER                    -> S

-----------------------------------------------------------------------------
(* Messages of the MS *)

datastatelist ==
    [SETUP       |-> {"NULL"},
     CONNECT_ACK |-> {"CONNECT_IND"},
     CALL_CONF   |-> {"CALL_PRESENT"},
     ALERTING    |-> {"CALL_PRESENT", "MO_TERM_CALL_CONF"},
     CONNECT     |-> {"CALL_PRESENT", "MO_TERM_CALL_CONF", "CALL_RECEIVED"},
     NOTIFY      |-> {"ACTIVE"},
     FACILITY    |-> AllStates \ {"NULL"},
     START_DTMF  |-> AllStates,
     STOP_DTMF   |-> AllStates,
     USER_INFO   |-> {"ACTIVE"},
     STATUS_ENQ  |-> AllStates,
     HOLD        |-> {"ACTIVE"},
     RETR        |-> {"ACTIVE"},
     MODIFY      |-> {"ACTIVE"},
     DISCONNECT  |-> AllStates \ {"NULL", "RELEASE_REQ"},
     RELEASE     |-> AllStates \ {"NULL"},
     RELEASE_COMPL |-> AllStates]

Enter(S, t, state, timer) == new_cc_state(gsm48_start_cc_timer(S, t, timer), t, state)

\* What a handler does before it tells the router something, and whether it then forgets
\* and frees the transaction.
Tells(S, ind) == [S |-> S, ind |-> ind, frees |-> FALSE]
TellsAndFrees(S, ind) == [S |-> S, ind |-> ind, frees |-> TRUE]

gsm48_cc_rx_setup(S, t) == Tells(new_cc_state(S, t, "INITIATED"), "SETUP_IND")
gsm48_cc_rx_call_conf(S, t) == Tells(Enter(S, t, "MO_TERM_CALL_CONF", "T310"), "CALL_CONF_IND")
gsm48_cc_rx_alerting(S, t) == Tells(Enter(S, t, "CALL_RECEIVED", "T301"), "ALERT_IND")
gsm48_cc_rx_connect(S, t) == Tells(Enter(S, t, "CONNECT_REQUEST", "none"), "SETUP_CNF")
gsm48_cc_rx_connect_ack(S, t) == Tells(Enter(S, t, "ACTIVE", "none"), "SETUP_COMPL_IND")
gsm48_cc_rx_disconnect(S, t) == Tells(Enter(S, t, "DISCONNECT_REQ", "none"), "DISC_IND")
gsm48_cc_rx_notify(S, t) == Tells(S, "NOTIFY_IND")
gsm48_cc_rx_facility(S, t) == Tells(S, "FACILITY_IND")
gsm48_cc_rx_start_dtmf(S, t) == Tells(S, "START_DTMF_IND")
gsm48_cc_rx_stop_dtmf(S, t) == Tells(S, "STOP_DTMF_IND")
gsm48_cc_rx_userinfo(S, t) == Tells(S, "USERINFO_IND")
gsm48_cc_rx_hold(S, t) == Tells(S, "HOLD_IND")
gsm48_cc_rx_retrieve(S, t) == Tells(S, "RETRIEVE_IND")
gsm48_cc_rx_modify(S, t) == Tells(new_cc_state(S, t, "MO_ORIG_MODIFY"), "MODIFY_IND")
gsm48_cc_rx_status_enq(S, t) == Tells(gsm48_cc_tx_status(S, t), "none")

gsm48_cc_rx_release(S, t) ==
    LET T == gsm48_stop_cc_timer(S, t)
    IN  IF S.tr[t].state = "RELEASE_REQ" THEN TellsAndFrees(T, "REL_CNF")
        ELSE TellsAndFrees(Stay(T, t, "RELEASE COMPL"), "REL_IND")

gsm48_cc_rx_release_compl(S, t) ==
    TellsAndFrees(gsm48_stop_cc_timer(S, t),
                  CASE S.tr[t].ref = 0 -> "none"
                    [] S.tr[t].ref # 0 /\ S.tr[t].state = "CALL_PRESENT" -> "REJ_IND"
                    [] S.tr[t].ref # 0 /\ S.tr[t].state = "RELEASE_REQ" -> "REL_CNF"
                    [] OTHER -> "REL_IND")

UpRoutine(S, t, msg) ==
    CASE msg = "SETUP"       -> gsm48_cc_rx_setup(S, t)
      [] msg = "CONNECT_ACK" -> gsm48_cc_rx_connect_ack(S, t)
      [] msg = "CALL_CONF"   -> gsm48_cc_rx_call_conf(S, t)
      [] msg = "ALERTING"    -> gsm48_cc_rx_alerting(S, t)
      [] msg = "CONNECT"     -> gsm48_cc_rx_connect(S, t)
      [] msg = "NOTIFY"      -> gsm48_cc_rx_notify(S, t)
      [] msg = "STATUS_ENQ"  -> gsm48_cc_rx_status_enq(S, t)
      [] msg = "FACILITY"    -> gsm48_cc_rx_facility(S, t)
      [] msg = "START_DTMF"  -> gsm48_cc_rx_start_dtmf(S, t)
      [] msg = "STOP_DTMF"   -> gsm48_cc_rx_stop_dtmf(S, t)
      [] msg = "USER_INFO"   -> gsm48_cc_rx_userinfo(S, t)
      [] msg = "HOLD"        -> gsm48_cc_rx_hold(S, t)
      [] msg = "RETR"        -> gsm48_cc_rx_retrieve(S, t)
      [] msg = "MODIFY"      -> gsm48_cc_rx_modify(S, t)
      [] msg = "DISCONNECT"  -> gsm48_cc_rx_disconnect(S, t)
      [] msg = "RELEASE"     -> gsm48_cc_rx_release(S, t)
      [] msg = "RELEASE_COMPL" -> gsm48_cc_rx_release_compl(S, t)

Freed(S, t) == trans_free(Forget(new_cc_state(S, t, "NULL"), t), t)
Told(h, r, setup) ==
    IF h.ind = "none" THEN h.S ELSE int_mncc_recv(h.S, [setup EXCEPT !.type = h.ind, !.ref = r])
Handled(h, t, r, setup) == IF h.frees THEN Freed(Told(h, r, setup), t) ELSE Told(h, r, setup)
\* An unknown identifier makes a new transaction, whatever the message is.
gsm0408_rcv_cc(S, s, ti, msg, setup) ==
    LET found == trans_find_by_id(S, s, ti)
        t == IF found = {} THEN NewSlot(S) ELSE The(found)
        T == IF found # {} THEN S
             ELSE [trans_alloc([S EXCEPT !.refs.ms = @ + 1], s, ti, 101 + S.refs.ms)
                        EXCEPT !.tr[t].conn = TRUE]
    IN  IF T.tr[t].state \in datastatelist[msg] THEN Handled(UpRoutine(T, t, msg), t, T.tr[t].ref, setup) ELSE T

-----------------------------------------------------------------------------
(* Timeouts, paging, loss of the connection *)

\* What the expired timer asks for: RELEASE or DISCONNECT, towards both sides.
gsm48_cc_timeout(S, t) ==
    LET k  == S.tr[t].timer
        r  == S.tr[t].ref
        S0 == gsm48_stop_cc_timer(S, t)
        S1 == IF r # 0 THEN Forget(mncc_release_ind(S0, r), t) ELSE S0
        S2 == IF r # 0 THEN mncc_recvmsg(S0, "DISC_IND", r) ELSE S0
    IN  CASE k = "T308" /\ ~S.tr[t].t308_second ->
                [gsm48_cc_tx_release(S0, t) EXCEPT !.tr[t].t308_second = TRUE]
          [] k = "T308" /\ S.tr[t].t308_second -> trans_free(S0, t)
          [] k \in {"T303", "T306"} -> gsm48_cc_tx_release(S1, t)
          [] k \in {"T310", "T313", "T301", "T323"} -> gsm48_cc_tx_disconnect(UseTrans(S2, t), t)

\* The answer to the paging for call r, whose transaction may be gone by now.
setup_trig_pag_evt(S, r, success) ==
    LET found == {t \in trans_find_by_callref(S, r) : ~S.tr[t].conn}
        t     == The(found)
    IN  CASE found = {} -> S
          [] found # {} /\ success -> gsm48_cc_tx_setup([S EXCEPT !.tr[t].conn = TRUE], t)
          [] found # {} /\ ~success -> trans_free(Forget(mncc_release_ind(S, r), t), t)

\* gsm0408_clear_request(): llist_for_each_entry_safe() has read the next element
\* before the body runs; going on with an element that was freed is a use of it.
RECURSIVE ClearFrom(_, _, _)
ClearFrom(S, s, i) ==
    IF i > Len(S.list) THEN S
    ELSE LET t    == S.list[i]
             mine == S.tr[t].conn /\ S.tr[t].sub = s
             T    == IF mine THEN trans_free(S, t) ELSE S
         IN  IF i = Len(S.list) THEN T
             ELSE IF S.list[i + 1] \notin Live(T) THEN [T EXCEPT !.bad = @ \cup {"next_freed"}]
             ELSE ClearFrom(T, s, CHOOSE j \in DOMAIN T.list : T.list[j] = S.list[i + 1])

gsm0408_clear_request(S, s) ==
    [ClearFrom(S, s, 1) EXCEPT !.conn[s] = "down", !.rtp[s] = "none"]

\* handle_abisip_signal(): the RTP stream is there; wishes noted meanwhile are done.
CrcxAck(S, s) ==
    LET wish == {t \in Live(S) : S.tr[t].sub = s /\ S.tr[t].conn /\ S.tr[t].tch_recv}
    IN  [S EXCEPT !.rtp[s] = "bound", !.voice = @ \cup {{S.tr[t].ref} : t \in wish}]

-----------------------------------------------------------------------------
(* Actions *)

CallsBecome(S) == cc' = S /\ UNCHANGED callEnv

\* bound: places for the transactions that a message can make
Room == Len(cc.list) + 2 <= Slots
RoomForRef == cc.refs.ms < MaxRefs /\ cc.refs.mncc < MaxRefs

gsm0408_new_conn(s) ==
    /\ cc.conn[s] = "down"
    /\ CallsBecome([cc EXCEPT !.conn[s] = "anchor"])

\* release_anchor(), also on the first message in gsm0408_dispatch().
AnchorGone(S, s) == [S EXCEPT !.conn[s] = "up"]

anchor_timeout(s) ==
    /\ cc.conn[s] = "anchor"
    /\ CallsBecome(msc_release_conn(AnchorGone(cc, s), s))

\* A SETUP of the MS, for a subscriber or a number that is nobody's.
MsSetup(s, ti, called, speech) ==
    /\ cc.conn[s] # "down" /\ Room /\ RoomForRef
    /\ ti >= NumTi
    /\ CallsBecome(gsm0408_rcv_cc(AnchorGone(cc, s), s, ti, "SETUP",
                                  [Mncc("SETUP_IND", 0) EXCEPT !.called = called, !.speech = speech]))

\* The channels of the two legs carry RTP; the leg is being cleared for the router.
BothBound(s, ti) ==
    \A t \in trans_find_by_id(cc, s, ti) :
        \A u \in {t} \cup (IF HasRemote(cc, cc.tr[t].ref)
                            THEN trans_find_by_callref(cc, Remote(cc, cc.tr[t].ref)) ELSE {}) :
            cc.rtp[cc.tr[u].sub] = "bound"
Cleared(s, ti) == \A t \in trans_find_by_id(cc, s, ti) : cc.tr[t].ref = 0

\* Any other message, for a transaction the network knows.
MsMessage(s, ti, msg) ==
    /\ cc.conn[s] # "down"
    /\ trans_find_by_id(cc, s, ti) # {}
    /\ msg = "CONNECT" /\ "early_connect" \notin callEnv.faults => BothBound(s, ti)
    /\ msg = "DISCONNECT" /\ "crossing" \notin callEnv.faults => ~Cleared(s, ti)
    /\ CallsBecome(gsm0408_rcv_cc(AnchorGone(cc, s), s, ti, msg, Mncc("none", 0)))

\* For one it does not know any more: what the MS sent before it heard of the end.
MsLate(s, ti, msg) ==
    /\ cc.conn[s] # "down" /\ Room /\ RoomForRef
    /\ trans_find_by_id(cc, s, ti) = {}
    /\ msg = "RELEASE_COMPL" \/ "stray" \in callEnv.faults
    /\ CallsBecome(gsm0408_rcv_cc(AnchorGone(cc, s), s, ti, msg, Mncc("none", 0)))

Timeout(t) ==
    /\ t \in Live(cc) /\ cc.tr[t].timer # "none"
    /\ CallsBecome(gsm48_cc_timeout(cc, t))

PagingAnswer(s, success) ==
    /\ cc.pq[s] # <<>>
    /\ success => cc.conn[s] = "down"
    /\ LET S == [cc EXCEPT !.pq[s] = Tail(@), !.conn[s] = IF success THEN "anchor" ELSE @]
       IN  CallsBecome(setup_trig_pag_evt(S, Head(cc.pq[s]), success))

ChannelBound(s) ==
    /\ cc.rtp[s] = "pending"
    /\ CallsBecome(CrcxAck(cc, s))

\* Someone s has called is still being paged.
CallsPaged(s) ==
    \E t \in Live(cc) : cc.tr[t].sub = s /\ cc.tr[t].conn /\ HasRemote(cc, cc.tr[t].ref)
        /\ \E u \in trans_find_by_callref(cc, Remote(cc, cc.tr[t].ref)) : ~cc.tr[u].conn

LoseConn(s) ==
    /\ "radio" \in callEnv.faults /\ cc.conn[s] # "down"
    /\ CallsPaged(s) => "loss_while_paging" \in callEnv.faults
    /\ CallsBecome(gsm0408_clear_request(cc, s))

CallsStep ==
    \/ \E s \in Subs :
        \/ gsm0408_new_conn(s) \/ anchor_timeout(s) \/ ChannelBound(s) \/ LoseConn(s)
        \/ \E success \in BOOLEAN : PagingAnswer(s, success)
        \/ \E ti \in Tis :
            \/ \E called \in Subs \cup {NoSub}, speech \in BOOLEAN : MsSetup(s, ti, called, speech)
            \/ \E msg \in DOMAIN datastatelist \ {"SETUP"} : MsMessage(s, ti, msg) \/ MsLate(s, ti, msg)
    \/ \E t \in TransIds : Timeout(t)

CallsNext == cc.bad = {} /\ CallsStep

CallsSpec == CallsInit /\ [][CallsNext]_callVars

-----------------------------------------------------------------------------
(* Properties *)

\* mncc_builtin.c: "Otherwise we end up in this method for the other call and will also
\* try to release it and then we will end up with a double free and a crash": whatever
\* the two sides do, no call or transaction is used after it was freed and nothing is
\* sent for a transaction without a connection.  Two things do go wrong, each in its own
\* surroundings only: a call that is answered before both channels carry RTP makes
\* rsl_ipacc_mdcx_to_rtpsock() read the NULL rtp_socket, and when a caller is lost whose
\* callee is being paged, gsm0408_clear_request() goes on from the callee's transaction,
\* which the caller's has taken with it.
CallPointersGood ==
    /\ cc.bad \subseteq {"no_socket", "next_freed"}
    /\ "no_socket" \in cc.bad => "early_connect" \in callEnv.faults
    /\ "next_freed" \in cc.bad => "loss_while_paging" \in callEnv.faults

Legs(r) == trans_find_by_callref(cc, r)
Watched(t) ==
    cc.tr[t].timer # "none" \/ (~cc.tr[t].conn /\ \E i \in DOMAIN cc.pq[cc.tr[t].sub] :
                                                    cc.pq[cc.tr[t].sub][i] = cc.tr[t].ref)

\* Two transactions do hang.  gsm48_cc_rx_disconnect() stops T308 of a call the network
\* has released already and tells the router, which does not know its reference 0; and
\* gsm0408_rcv_cc() makes a transaction for a message of a call that has ended, which
\* nothing handles in the NULL state.
LeftByCrossing(t) == cc.tr[t].state = "DISCONNECT_REQ" /\ cc.tr[t].ref = 0
LeftByStray(t) == cc.tr[t].state = "NULL"

\* A call that is being set up or cleared does not hang: a timer or the paging of the
\* leg itself or of the other leg will move it on, or end it.  The two cases above are
\* the only ones where this fails, each only when such a message comes.
CallSupervised ==
    cc.bad = {} => \A t \in Live(cc) :
        \/ cc.tr[t].state = "ACTIVE"
        \/ Watched(t)
        \/ /\ HasRemote(cc, cc.tr[t].ref)
           /\ \E u \in Legs(Remote(cc, cc.tr[t].ref)) : Watched(u)
        \/ "crossing" \in callEnv.faults /\ LeftByCrossing(t)
        \/ "stray" \in callEnv.faults /\ LeftByStray(t)

\* Nobody is left talking to no one: as long as one leg is in the active state and not
\* being cleared, the other leg has its transaction and the two are joined to each other.
TalkingTogether ==
    cc.bad = {} => \A t \in Live(cc) : cc.tr[t].state = "ACTIVE" =>
        /\ HasRemote(cc, cc.tr[t].ref)
        /\ Remote(cc, Remote(cc, cc.tr[t].ref)) = cc.tr[t].ref
        /\ Legs(Remote(cc, cc.tr[t].ref)) # {}

\* MNCC_REL_CNF exists to tell the router that a released call is gone: a call of the
\* router that no transaction refers to any more is not kept.  (Not so: gsm48_cc_tx_release()
\* forgets the reference the confirmation would carry.)
RouterForgets ==
    \A r \in DOMAIN cc.call :
        Legs(r) # {} \/ (HasRemote(cc, r) /\ Legs(Remote(cc, r)) # {})

=============================================================================
