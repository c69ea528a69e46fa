-------------------------------- MODULE Paging --------------------------------
(***************************************************************************)
(* Reaching a subscriber: paging.c, the request queue of gsm_subscriber.c, *)
(* and the life of the connection that a paging response opens (the part   *)
(* of gsm_04_08.c, osmo_msc.c and transaction.c that ends it and starts    *)
(* the next request).  Silent calls page without going through the queue.  *)
(*                                                                         *)
(* Two kinds of users ask for a channel: the SMS queue ("sms") and call    *)
(* control ("call").  Each has at most one request per subscriber: the SMS *)
(* queue skips subscribers it has a pending SMS for, call control drops a  *)
(* call for a subscriber that has a transaction without a connection.      *)
(*                                                                         *)
(* The functions are operators on one record, net, because one message    *)
(* runs through many of them.  subscr_send_paging_request() and            *)
(* subscr_put_channel() call each other until a request can be paged;      *)
(* SendPaging gives the state they end in.                                 *)
(***************************************************************************)
EXTENDS Naturals, Sequences, FiniteSets, SequencesExt

CONSTANTS
    NumBts,       \* base stations are numbered, paging_request() takes them in order
    Subs,         \* subscribers
    Lacs,         \* location area codes
    Slots,        \* paging_give_credit() allows this many paging commands (20)
    Envs          \* the surroundings to consider, a subset of Env

Bts == 1..NumBts
Detached == 0     \* GSM_LAC_RESERVED_DETACHED
Users == {"sms", "call"}

FaultKinds == {
    "moves",      \* the subscriber changes the location area or detaches
    "leaves",     \* and does so while it is being paged
    "radio",      \* connections are lost; SMS are not acknowledged
    "silent",     \* silent calls
    "vty",        \* the operator clears or kicks the queue of a subscriber
    "early_use",  \* an SMS or a call starts on a connection that is being secured
    "late_ms",    \* a paging response comes after the paging has ended
    "bts_down"}   \* base stations come and go

Env == [lac : [Bts -> Lacs], users : SUBSET Users, faults : SUBSET FaultKinds]

ASSUME PagingBoundsAssumption == NumBts \in Nat \ {0} /\ Slots \in Nat \ {0}
ASSUME LacsAssumption == Detached \notin Lacs
ASSUME PagingEnvAssumption == Envs \subseteq Env

VARIABLES
    net,    \* [bts, sub, conn]
    env     \* the surroundings; they do not change

vars == <<net, env>>

\* fresh: no location update since (a history field).
PagingRequest == [sub : Subs, cb : {"subscr", "silent"}, paged : BOOLEAN, fresh : BOOLEAN]
PagingState == [usable : BOOLEAN, reqs : Seq(PagingRequest), slots : 0..Slots,
                work : BOOLEAN, credit : BOOLEAN]
SubscrRequest == [user : Users, state : {"QUEUED", "PAGED"}]
Subscriber == [lac : Lacs \cup {Detached}, requests : Seq(SubscrRequest), no_detach : BOOLEAN]
Connection == [up : BOOLEAN, bts : Bts, anchor : BOOLEAN, sec : BOOLEAN, silent : BOOLEAN,
               put_channel : BOOLEAN, users : SUBSET Users, leftover : BOOLEAN]

TypeOK ==
    /\ net.bts \in [Bts -> PagingState]
    /\ net.sub \in [Subs -> Subscriber]
    /\ net.conn \in [Subs -> Connection]
    /\ env \in Envs

NoConn == [up |-> FALSE, bts |-> 1, anchor |-> FALSE, sec |-> FALSE, silent |-> FALSE,
           put_channel |-> FALSE, users |-> {}, leftover |-> FALSE]

Init ==
    /\ env \in Envs
    /\ net = [bts |-> [b \in Bts |-> [usable |-> TRUE, reqs |-> <<>>, slots |-> Slots,
                                      work |-> FALSE, credit |-> FALSE]],
              sub |-> [s \in Subs |-> [lac |-> env.lac[1], requests |-> <<>>,
                                       no_detach |-> FALSE]],
              conn |-> [s \in Subs |-> NoConn]]

Has(fault) == fault \in env.faults

-----------------------------------------------------------------------------
(* paging.c *)

\* gsm_bts_by_lac()
BtsOfLac(lac) == {b \in Bts : env.lac[b] = lac}

Of(S, b, s) == {i \in DOMAIN S.bts[b].reqs : S.bts[b].reqs[i].sub = s}
paging_pending_request(S, b, s) == Of(S, b, s) # {}

\* paging_remove_request() of the first that is pending for s; the timers run on.
Removed(p, s) ==
    LET mine  == {i \in DOMAIN p.reqs : p.reqs[i].sub = s}
        first == CHOOSE i \in mine : \A j \in mine : i <= j
    IN  IF mine = {} THEN p ELSE [p EXCEPT !.reqs = RemoveAt(@, first)]

paging_schedule_if_needed(p) == IF p.reqs = <<>> THEN p ELSE [p EXCEPT !.work = TRUE]

\* _paging_request() on one base station; T3113 runs while the request is there.
Added(p, s, cb) ==
    paging_schedule_if_needed(
        [p EXCEPT !.reqs = Append(@, [sub |-> s, cb |-> cb, paged |-> FALSE, fresh |-> TRUE])])

\* The base stations paging_request() would use, and those of them that make it stop.
Targets(S, s) == {b \in BtsOfLac(S.sub[s].lac) : S.bts[b].usable}
Blocking(S, s) == {b \in Targets(S, s) : paging_pending_request(S, b, s)}

paging_request(S, s, cb) ==
    LET reached == {b \in Targets(S, s) : \A x \in Blocking(S, s) : b < x} IN
    [S EXCEPT !.bts = [b \in Bts |-> IF b \in reached THEN Added(@[b], s, cb) ELSE @[b]]]

\* Mutant: the other base stations go on paging.
StopInLac_never(S, s) == S

\* paging_request_stop() without a connection: the area is the subscriber's present one.
StopInLac(S, s) ==
    LET area == BtsOfLac(S.sub[s].lac) IN
    [S EXCEPT !.bts = [b \in Bts |-> IF b \in area THEN Removed(@[b], s) ELSE @[b]]]

paging_update_buffer_space(p, free_slots) ==
    paging_schedule_if_needed([p EXCEPT !.credit = FALSE, !.slots = free_slots])

\* skip: too few free channels, can_send_pag_req().
paging_handle_pending_requests(p, skip) ==
    CASE p.reqs = <<>> -> p
      [] p.reqs # <<>> /\ p.slots = 0 -> [p EXCEPT !.credit = TRUE]
      [] p.reqs # <<>> /\ p.slots > 0 /\ skip -> [p EXCEPT !.work = TRUE]
      [] p.reqs # <<>> /\ p.slots > 0 /\ ~skip ->
            [p EXCEPT !.slots = @ - 1, !.work = TRUE,
                      !.reqs = Append(Tail(@), [Head(@) EXCEPT !.paged = TRUE])]

paging_worker(p, skip) == paging_handle_pending_requests([p EXCEPT !.work = FALSE], skip)

paging_give_credit(p, skip) ==
    paging_handle_pending_requests([p EXCEPT !.credit = FALSE, !.slots = Slots], skip)

-----------------------------------------------------------------------------
(* gsm_subscriber.c *)

\* The user's callback on failure.  sms_pending_failed(): max_fail is 1, so one
\* expired paging makes the subscriber detached.
Tell(S, s, user, event) ==
    IF event = "EXPIRED" /\ user = "sms" /\ ~S.sub[s].no_detach
    THEN [S EXCEPT !.sub[s].lac = Detached] ELSE S

\* subscr_send_paging_request(), where the queue is not empty: page for the head;
\* a head that cannot be paged is told BUSY, what is pending in the area stopped
\* and the next one tried.
SendPaging(S, s) ==
    LET page(T) == paging_request([T EXCEPT !.sub[s].requests[1].state = "PAGED"], s, "subscr")
        next    == StopInLac([S EXCEPT !.sub[s].requests = Tail(@)], s)
    IN  CASE Targets(S, s) = {} -> StopInLac([S EXCEPT !.sub[s].requests = <<>>], s)
          [] Targets(S, s) # {} /\ Blocking(S, s) = {} -> page(S)
          [] Blocking(S, s) # {} -> IF next.sub[s].requests = <<>> THEN next ELSE page(next)

subscr_put_channel(S, s) ==
    IF S.sub[s].requests = <<>> THEN S ELSE SendPaging(S, s)

subscr_get_channel(S, s, user) ==
    LET T == [S EXCEPT !.sub[s].requests = Append(@, [user |-> user, state |-> "QUEUED"])] IN
    IF S.sub[s].requests = <<>> THEN SendPaging(T, s) ELSE T

\* subscr_paging_dispatch() of a success: the head request gets the connection;
\* setup_trig_pag_evt() marks it for subscr_put_channel(), paging_cb_send_sms()
\* does not.
DispatchSuccess(S, s) ==
    IF S.sub[s].requests = <<>> THEN S
    ELSE LET user == Head(S.sub[s].requests).user IN
         [S EXCEPT !.sub[s].requests = Tail(@),
                   !.conn[s].users = @ \cup {user},
                   !.conn[s].put_channel = @ \/ user = "call"]

\* subscr_paging_dispatch() of a failure.
DispatchFailure(S, s, event) ==
    IF S.sub[s].requests = <<>> THEN S
    ELSE LET T == Tell([S EXCEPT !.sub[s].requests = Tail(@)], s,
                       Head(S.sub[s].requests).user, event)
         IN  subscr_put_channel(StopInLac(T, s), s)

-----------------------------------------------------------------------------
(* Connections: osmo_msc.c, gsm_04_08.c, transaction.c *)

\* Mutant: the request queue is not continued.
msc_release_connection_no_put(S, s) ==
    LET c == S.conn[s] IN
    IF ~c.up \/ c.anchor \/ c.sec \/ c.silent \/ c.users # {} \/ c.leftover THEN S
    ELSE [S EXCEPT !.conn[s] = NoConn]

msc_release_connection(S, s) ==
    LET c == S.conn[s]
        T == [S EXCEPT !.conn[s] = NoConn]
    IN  IF ~c.up \/ c.anchor \/ c.sec \/ c.silent \/ c.users # {} \/ c.leftover THEN S
        ELSE IF c.put_channel THEN subscr_put_channel(T, s) ELSE T

\* The MS is heard: gsm0408_new_conn() starts the five second anchor.
NewConn(S, s, b) == [S EXCEPT !.conn[s] = [NoConn EXCEPT !.up = TRUE, !.bts = b, !.anchor = TRUE]]

\* gsm48_handle_paging_resp() on base station b.  encr: the channel has to be
\* secured first, gsm48_secure_channel().
PagingResponse(S, s, b, encr) ==
    LET mine == Of(S, b, s)
        cb   == IF mine = {} THEN "none" ELSE S.bts[b].reqs[CHOOSE i \in mine : TRUE].cb
        T    == CASE cb = "none"   -> S
                  [] cb = "silent" -> [S EXCEPT !.conn[s].silent = TRUE]
                  [] cb = "subscr" -> IF encr THEN [S EXCEPT !.conn[s].sec = TRUE]
                                      ELSE DispatchSuccess(S, s)
    IN  StopInLac([T EXCEPT !.bts[b] = Removed(@, s)], s)

\* gsm0408_clear_request() and msc_clear_request(): a pending security operation
\* reports its failure, the transactions go.
msc_clear_request(S, s) ==
    LET S1 == IF S.conn[s].sec THEN DispatchFailure(S, s, "EXPIRED") ELSE S
        S2 == [S1 EXCEPT !.conn[s] = NoConn]
    IN  IF S.conn[s].put_channel THEN subscr_put_channel(S2, s) ELSE S2

-----------------------------------------------------------------------------
(* Actions *)

Becomes(S) == net' = S /\ UNCHANGED env
Conn(s) == net.conn[s]
Waits(s, u) == \E i \in DOMAIN net.sub[s].requests : net.sub[s].requests[i].user = u

\* gsm411_send_sms_subscr() and MNCC_SETUP_REQ: an open connection is used, else a
\* channel asked for.
Request(s, u) ==
    LET S == [net EXCEPT !.sub[s].no_detach = IF u = "sms" THEN FALSE ELSE @] IN
    /\ u \in env.users /\ net.sub[s].lac # Detached
    /\ ~Waits(s, u) /\ u \notin Conn(s).users
    /\ Conn(s).sec => Has("early_use")
    /\ IF Conn(s).up THEN Becomes([S EXCEPT !.conn[s].users = @ \cup {u}])
       ELSE Becomes(subscr_get_channel(S, s, u))

\* gsm_silent_call_start(), gsm_silent_call_stop()
SilentCall(s) ==
    /\ Has("silent")
    /\ \/ ~Conn(s).up /\ Becomes(paging_request(net, s, "silent"))
       \/ /\ Conn(s).up /\ Conn(s).silent
          /\ Becomes(msc_release_connection([net EXCEPT !.conn[s].silent = FALSE], s))

\* The periodic work of a base station, and CCCH LOAD INDICATION.
Worker(b) ==
    /\ net.bts[b].work
    /\ \E skip \in BOOLEAN : Becomes([net EXCEPT !.bts[b] = paging_worker(@, skip)])

Credit(b) ==
    /\ net.bts[b].credit
    /\ \E skip \in BOOLEAN : Becomes([net EXCEPT !.bts[b] = paging_give_credit(@, skip)])

BufferSpace(b) ==
    /\ net.bts[b].usable
    /\ \E n \in 0..Slots : Becomes([net EXCEPT !.bts[b] = paging_update_buffer_space(@, n)])

BtsUpOrDown(b) ==
    /\ Has("bts_down")
    /\ Becomes([net EXCEPT !.bts[b].usable = ~@])

\* paging_T3113_expired(): what was never sent to the MS is reported BUSY.
paging_T3113_expired(b, s) ==
    \E i \in Of(net, b, s) :
        LET r == net.bts[b].reqs[i]
            S == [net EXCEPT !.bts[b] = Removed(@, s)]
        IN  Becomes(IF r.cb = "subscr"
                    THEN DispatchFailure(S, s, IF r.paged THEN "EXPIRED" ELSE "BUSY") ELSE S)

\* The MS answers where it was paged, or when nothing is pending any more.
MsAnswers(s, b) ==
    /\ ~Conn(s).up /\ net.bts[b].usable
    /\ \/ \E i \in Of(net, b, s) : net.bts[b].reqs[i].paged
       \/ Has("late_ms") /\ \A x \in Bts : ~paging_pending_request(net, x, s)
    /\ \E encr \in BOOLEAN : Becomes(PagingResponse(NewConn(net, s, b), s, b, encr))

\* CIPHERING MODE COMPLETE, or a wrong AUTHENTICATION RESPONSE.
SecurityEnds(s) ==
    /\ Conn(s).sec
    /\ \E S \in {DispatchSuccess(net, s), DispatchFailure(net, s, "EXPIRED")} :
        Becomes(msc_release_connection([S EXCEPT !.conn[s].sec = FALSE], s))

\* The MS opens a connection for reasons of its own.
MsConnects(s, b) ==
    /\ ~Conn(s).up /\ net.bts[b].usable
    /\ Becomes(NewConn(net, s, b))

MayMove(s) ==
    Has("moves") /\ (Has("leaves") \/ \A b \in Bts : ~paging_pending_request(net, b, s))

\* What is pending for s was sent before a location update (history only).
Aged(p, s) ==
    [p EXCEPT !.reqs = [i \in DOMAIN @ |-> IF @[i].sub = s THEN [@[i] EXCEPT !.fresh = FALSE] ELSE @[i]]]

\* subscr_update() of an attached subscriber, with sub_ready_for_sm(): an SMS that
\* is waiting will not make it detached any more.
LocationUpdate(s) ==
    LET lac == env.lac[Conn(s).bts] IN
    /\ Conn(s).up /\ Conn(s).anchor
    /\ lac # net.sub[s].lac => net.sub[s].lac = Detached \/ MayMove(s)
    /\ Becomes([net EXCEPT
            !.sub[s].lac = lac,
            !.sub[s].no_detach = @ \/ Waits(s, "sms") \/ "sms" \in Conn(s).users,
            !.bts = [b \in Bts |-> Aged(@[b], s)]])

\* IMSI DETACH INDICATION
ImsiDetach(s) ==
    /\ MayMove(s) /\ Conn(s).up /\ env.lac[Conn(s).bts] = net.sub[s].lac
    /\ Becomes([net EXCEPT !.sub[s].lac = Detached])

\* anchor_timeout(), or the end of a location update: nothing else holds the channel.
AnchorEnds(s) ==
    /\ Conn(s).anchor
    /\ Becomes(msc_release_connection([net EXCEPT !.conn[s].anchor = FALSE], s))

CallEnds(s) ==
    /\ "call" \in Conn(s).users
    /\ Becomes(msc_release_connection([net EXCEPT !.conn[s].users = @ \ {"call"}], s))

\* gsm411_rx_rp_ack() of the last SMS: gsm411_release_conn(), then trans_free().
SmsDelivered(s) ==
    /\ "sms" \in Conn(s).users /\ ~Conn(s).silent
    /\ Becomes(msc_release_connection(
            [subscr_put_channel(net, s) EXCEPT !.conn[s].users = @ \ {"sms"}], s))

\* An SMS that is not acknowledged: timer TC1*, RP-ERROR (the transaction stays
\* on the connection), or no data link for SAPI 3.
SmsFails(s) ==
    /\ Has("radio") /\ "sms" \in Conn(s).users
    /\ \/ Becomes(msc_release_connection([net EXCEPT !.conn[s].users = @ \ {"sms"}], s))
       \/ Becomes([net EXCEPT !.conn[s].users = @ \ {"sms"}, !.conn[s].leftover = TRUE])
       \/ Becomes(subscr_put_channel(
            msc_release_connection([net EXCEPT !.conn[s].users = @ \ {"sms"}], s), s))

ConnectionLost(s) ==
    /\ Has("radio") /\ Conn(s).up
    /\ Becomes(msc_clear_request(net, s))

\* subscr_pending_clear(), subscr_pending_kick()
Operator(s) ==
    /\ Has("vty")
    /\ \/ Becomes([net EXCEPT !.sub[s].requests = <<>>])
       \/ Becomes(subscr_put_channel(net, s))

Next ==
    \/ \E b \in Bts : Worker(b) \/ Credit(b) \/ BufferSpace(b) \/ BtsUpOrDown(b)
    \/ \E b \in Bts, s \in Subs :
        paging_T3113_expired(b, s) \/ MsAnswers(s, b) \/ MsConnects(s, b)
    \/ \E s \in Subs :
        \/ \E u \in Users : Request(s, u)
        \/ SilentCall(s) \/ SecurityEnds(s) \/ LocationUpdate(s) \/ ImsiDetach(s)
        \/ AnchorEnds(s) \/ CallEnds(s) \/ SmsDelivered(s) \/ SmsFails(s)
        \/ ConnectionLost(s) \/ Operator(s)

Spec == Init /\ [][Next]_vars

\* Timers run out, the MS answers a challenge, calls end, SMS are acknowledged.
Fairness ==
    /\ \A b \in Bts : WF_vars(Worker(b)) /\ WF_vars(Credit(b))
    /\ \A b \in Bts, s \in Subs : WF_vars(paging_T3113_expired(b, s))
    /\ \A s \in Subs : WF_vars(SecurityEnds(s)) /\ WF_vars(AnchorEnds(s))
    /\ \A s \in Subs : WF_vars(CallEnds(s)) /\ WF_vars(SmsDelivered(s))

FairSpec == Spec /\ Fairness

-----------------------------------------------------------------------------
(* Properties *)

\* A base station with something to page has a timer that will make it do so.
PagingAlive ==
    \A b \in Bts : net.bts[b].reqs # <<>> => net.bts[b].work \/ net.bts[b].credit

PagedForQueue(s) ==
    \E b \in Bts : \E i \in Of(net, b, s) : net.bts[b].reqs[i].cb = "subscr"

\* No one changes the area under a paging, empties the queue or pages past it.
Tame == env.faults \cap {"leaves", "early_use", "silent", "vty"} = {}

\* In such surroundings, gsm_subscriber.c: "We will stop the other paging requests as well as the next
\* timeout would work on the next paging request": what is pending on the base
\* stations for the queue of a subscriber was sent for the request at its head, so
\* that an answer or a timeout is reported to the request it belongs to.
PagedForHead ==
    \A s \in Subs : Tame /\ PagedForQueue(s) =>
        /\ net.sub[s].requests # <<>> /\ Head(net.sub[s].requests).state = "PAGED"
        /\ ~Conn(s).sec

\* There, a head request that was paged for is waited for: it will be answered by a
\* timeout, by the MS, or by the end of the security procedure.
HeadWatched ==
    \A s \in Subs :
        Tame /\ net.sub[s].requests # <<>> /\ Head(net.sub[s].requests).state = "PAGED" =>
            PagedForQueue(s) \/ Conn(s).sec

\* sub_ready_for_sm(): a paging sent before the subscriber attached again does not
\* make it detached when it expires.
AttachedStays ==
    [][Tame => \A s \in Subs, b \in Bts : \A i \in Of(net, b, s) :
            ~net.bts[b].reqs[i].fresh /\ Of(net', b, s) = {} /\ net.sub[s].lac # Detached
                => net'.sub[s].lac # Detached]_vars

\* There, and if no connection is lost and no SMS fails, whoever asks for a channel
\* gets an answer.
Answered ==
    \A s \in Subs, u \in Users : Tame /\ ~Has("radio") /\ Waits(s, u) ~> ~Waits(s, u)

\* All of it: base stations with work are awake, and in tame surroundings what is paged for is the head of the
\* subscriber's queue, which is waited for.
PagingSound == TypeOK /\ PagingAlive /\ PagedForHead /\ HeadWatched
\* Whoever asks is answered, and an old paging does not make a subscriber detached.
PagingServes == AttachedStays /\ Answered

\* gsm_subscriber.c, subscr_get_channel(), on a request that has to wait: "this will
\* be picked up later, from subscr_put_channel".
PickedUpLater ==
    \A s \in Subs, u \in Users : Tame /\ Waits(s, u) ~> ~Waits(s, u)

=============================================================================
