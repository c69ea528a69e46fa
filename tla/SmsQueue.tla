------------------------------ MODULE SmsQueue ------------------------------
(***************************************************************************)
(* The delivery of stored SMS: sms_queue.c, the end-to-end part of         *)
(* gsm_04_11.c that feeds it, and the tables of db.c they share.           *)
(*                                                                         *)
(* The queue keeps an entry for each SMS it has passed on, and their       *)
(* number.  An SMS passed on waits for paging (req) or is being            *)
(* transferred (trans) over a connection.  The transfer layer also sends   *)
(* SMS the queue does not know of: the next one of the same subscriber     *)
(* after an acknowledgement, when the MS reports free memory or attaches,  *)
(* or on the operator's demand.                                            *)
(*                                                                         *)
(* Subscribers and SMS are numbers, as in the database; both selects order *)
(* by them.  How a subscriber is reached is the subject of module Paging;  *)
(* here paging succeeds, expires or is refused.                            *)
(***************************************************************************)
EXTENDS Integers, Sequences, FiniteSets

CONSTANTS
    NumSubs, NumSms,   \* subscribers and SMS
    MaxPendings,       \* values of sms-queue max-pending, the first one (20) at start
    FailLimit,         \* attempts after which the queue leaves an SMS alone (10)
    TransIds,          \* transaction identifiers per subscriber (7)
    Rounds,            \* bound of the loop in sms_submit_pending() (1000)
    MaxReq,            \* bound: requests for a channel of one subscriber
    Envs               \* the surroundings to consider, a subset of Env

Subs == 1..NumSubs
Sms == 1..NumSms
NoSms == 0            \* no row found; a transaction that has lost its SMS

FaultKinds == {
    "radio",      \* transfers fail, connections are lost
    "attach",     \* subscribers attach while SMS wait for them, and detach
    "memory",     \* the MS reports full memory, and memory available
    "vty",        \* the operator changes max-pending, clears the queue or sends directly
    "dropped",    \* the operator clears the request queue of a subscriber
    "restart"}    \* the program is restarted

\* max_fail: the values of sms-queue max-failure the operator sets, up to this one.
\* flaky: subscribers whose base stations may be unable to page them.
Env == [receiver : [Sms -> Subs], max_fail : Nat \ {0}, flaky : SUBSET Subs,
        faults : SUBSET FaultKinds]

ASSUME SmsCountsAssumption ==
    /\ NumSubs \in Nat /\ NumSms \in Nat /\ Len(MaxPendings) > 0
    /\ FailLimit \in Nat /\ TransIds \in Nat /\ Rounds \in Nat \ {0} /\ MaxReq \in Nat
ASSUME SmsEnvAssumption == \A e \in Envs : e \in Env

VARIABLES
    net,    \* the queue, the tables and the transfers
    env     \* the surroundings; they do not change

vars == <<net, env>>

Entry == [in : BOOLEAN, failed_attempts : Nat, resend : BOOLEAN, no_detach : BOOLEAN]
NoEntry == [in |-> FALSE, failed_attempts |-> 0, resend |-> FALSE, no_detach |-> FALSE]
NewEntry == [NoEntry EXCEPT !.in = TRUE]

Net == [pending : Int, max_pending : Nat, max_fail : Nat, entry : [Sms -> Entry],
        push_queue : BOOLEAN, resend_pending : BOOLEAN, last_subscr_id : Nat,
        stored : SUBSET Sms, sent : SUBSET Sms, attempts : [Sms -> 0..FailLimit],
        lac : [Subs -> BOOLEAN], conn : [Subs -> BOOLEAN],
        held : [Subs -> BOOLEAN],   \* something other than an SMS needs the connection
        req : [Subs -> Seq(Sms)],
        trans : [Subs -> Seq(Sms \cup {NoSms})],
        twice : SUBSET Sms,     \* history: acknowledged more than once
        old : SUBSET Sms]       \* history: last paged for before the receiver attached

Receiver(m) == env.receiver[m]
Has(fault) == fault \in env.faults
OfSub(s) == {m \in Sms : Receiver(m) = s}

\* No more identifiers are used than there are.
TypeOK ==
    /\ net \in Net
    /\ \A s \in Subs : Len(net.trans[s]) <= TransIds

-----------------------------------------------------------------------------
(* sms_queue.c: the end of an SMS *)

sms_queue_trigger(S) == [S EXCEPT !.push_queue = TRUE]

sms_pending_free(S, m) == [S EXCEPT !.entry[m] = NoEntry]

sms_pending_resend(S, m) == [S EXCEPT !.entry[m].resend = TRUE, !.resend_pending = TRUE]

\* The entry makes place for another one.
Drop(S, m) == [sms_pending_free(S, m) EXCEPT !.pending = @ - 1]

sms_pending_failed(S, m, paging_error) ==
    LET T == [S EXCEPT !.entry[m].failed_attempts = @ + 1] IN
    IF T.entry[m].failed_attempts < S.max_fail THEN sms_pending_resend(T, m)
    ELSE sms_queue_trigger(Drop(
            [T EXCEPT !.lac[Receiver(m)] = @ /\ (~paging_error \/ T.entry[m].no_detach)], m))

db_sms_inc_deliver_attempts(S, m) ==
    [S EXCEPT !.attempts[m] = IF @ < FailLimit THEN @ + 1 ELSE @]

\* sms_sms_cb() of everything but S_SMS_DELIVERED; SMS without an entry are none
\* of the queue's business.
SmsEnds(S, m, what) ==
    IF ~S.entry[m].in THEN S
    ELSE CASE what = "error"   -> sms_pending_failed(db_sms_inc_deliver_attempts(S, m), m, FALSE)
           [] what = "expired" -> sms_pending_failed(S, m, TRUE)
           [] what \in {"busy", "memory"} -> sms_queue_trigger(Drop(S, m))

-----------------------------------------------------------------------------
(* gsm_04_11.c: sending *)

\* gsm411_send_sms() on the connection of the receiver.
gsm411_send_sms(S, m) ==
    IF Len(S.trans[Receiver(m)]) = TransIds THEN SmsEnds(S, m, "error")
    ELSE db_sms_inc_deliver_attempts([S EXCEPT !.trans[Receiver(m)] = Append(@, m)], m)

\* busy: subscribers that cannot be paged now; subscr_get_channel() says so at once
\* unless others wait for the channel already.
gsm411_send_sms_subscr(S, m, busy) ==
    LET s == Receiver(m) IN
    CASE S.conn[s] -> gsm411_send_sms(S, m)
      [] ~S.conn[s] /\ s \in busy /\ S.req[s] = <<>> -> SmsEnds(S, m, "busy")
      [] OTHER -> [S EXCEPT !.req[s] = Append(@, m), !.old = @ \ {m}]

-----------------------------------------------------------------------------
(* db.c and sms_queue.c: choosing what to send *)

Unsent(S, limit) ==
    {m \in S.stored \ S.sent : S.lac[Receiver(m)] /\ S.attempts[m] < limit}

\* The first row of "ORDER BY receiver_id, id".
FirstRow(M) ==
    CHOOSE m \in M : \A n \in M :
        Receiver(m) < Receiver(n) \/ (Receiver(m) = Receiver(n) /\ m <= n)

db_sms_get_unsent_by_subscr(S, min, limit) ==
    LET rows == {m \in Unsent(S, limit) : Receiver(m) >= min}
    IN  IF rows = {} THEN NoSms ELSE FirstRow(rows)

\* Whatever the number of attempts.
db_sms_get_unsent_for_subscr(S, s) ==
    LET rows == Unsent(S, FailLimit + 1) \cap OfSub(s)
    IN  IF rows = {} THEN NoSms ELSE FirstRow(rows)

\* Mutant: always from the first subscriber on.
take_next_sms_first(S) == db_sms_get_unsent_by_subscr(S, 0, FailLimit)

\* Go on behind the subscriber served last, then wrap around.
take_next_sms(S) ==
    LET m == db_sms_get_unsent_by_subscr(S, S.last_subscr_id, FailLimit)
    IN  IF m # NoSms THEN m ELSE db_sms_get_unsent_by_subscr(S, 0, FailLimit)

SubscriberIsPending(S, s) == \E m \in OfSub(s) : S.entry[m].in

\* One SMS in the loop of sms_submit_pending().
Submit1(S, m, busy) ==
    IF SubscriberIsPending(S, Receiver(m)) THEN S
    ELSE gsm411_send_sms_subscr(
            [S EXCEPT !.pending = @ + 1, !.entry[m] = NewEntry], m, busy)

\* The condition at the end of the loop.
Continues(attempted, attempts, rounds) == attempted < attempts /\ rounds < Rounds

\* loop[n] is the state after n rounds; it ends when nothing is left, when the
\* first subscriber comes again, or by its condition.
sms_submit_pending(S, busy) ==
    LET attempts == S.max_pending - S.pending
        loop[n \in 0..Rounds] ==
            IF n = 0 THEN [S |-> S, first |-> 0, attempted |-> 0, on |-> TRUE]
            ELSE LET p   == loop[n - 1]
                     m   == take_next_sms(p.S)
                     s   == Receiver(m)
                     T   == [p.S EXCEPT !.last_subscr_id = s + 1]
                     new == ~SubscriberIsPending(p.S, s)
                     a   == IF new THEN p.attempted + 1 ELSE p.attempted
                 IN  CASE ~p.on -> p
                       [] p.on /\ m = NoSms -> [p EXCEPT !.S.last_subscr_id = 0, !.on = FALSE]
                       [] p.on /\ m # NoSms /\ p.first = s -> [p EXCEPT !.S = T, !.on = FALSE]
                       [] OTHER -> [S |-> Submit1(T, m, busy), attempted |-> a,
                                    first |-> IF n = 1 THEN s ELSE p.first,
                                    on |-> Continues(a, attempts, n)]
    IN  loop[Rounds].S

\* sms_sms_cb() of S_SMS_DELIVERED.
SmsDelivered(S, m, busy) ==
    IF ~S.entry[m].in THEN S
    ELSE sms_pending_free(sms_submit_pending([S EXCEPT !.pending = @ - 1], busy), m)

-----------------------------------------------------------------------------
(* gsm_04_11.c: transfers and how they end *)

\* The transactions of a subscriber after trans_free() of the i-th.
Without(q, i) == SubSeq(q, 1, i - 1) \o SubSeq(q, i + 1, Len(q))

msc_release_connection(S, s) ==
    [S EXCEPT !.conn[s] = @ /\ (S.held[s] \/ S.trans[s] # <<>>)]

\* "check for more messages for this subscriber"
NextOver(S, s) ==
    LET m == db_sms_get_unsent_for_subscr(S, s)
    IN  IF m = NoSms THEN S ELSE gsm411_send_sms(S, m)

\* gsm411_rx_rp_ack() on transaction i of subscriber s.
gsm411_rx_rp_ack(S, s, i, busy) ==
    LET m == S.trans[s][i]
        T == SmsDelivered([S EXCEPT !.sent = @ \cup {m},
                                    !.twice = IF m \in S.sent THEN @ \cup {m} ELSE @], m, busy)
    IN  msc_release_connection([NextOver(T, s) EXCEPT !.trans[s] = Without(@, i)], s)

\* trans_free() of transactions that still have their SMS, in order: each is
\* reported as an error.
TransFree(S, s) ==
    LET q == S.trans[s]
        loop[n \in 0..Len(q)] ==
            IF n = 0 THEN S
            ELSE IF q[n] = NoSms THEN loop[n - 1] ELSE SmsEnds(loop[n - 1], q[n], "error")
    IN  loop[Len(q)]

\* subscr_put_channel() after a failure: without a location area nobody in the
\* queue can be paged for.
Refused(S, s) ==
    LET q == S.req[s]
        loop[n \in 0..Len(q)] == IF n = 0 THEN S ELSE SmsEnds(loop[n - 1], q[n], "busy")
    IN  [loop[Len(q)] EXCEPT !.req[s] = <<>>]

\* Mutant: the mark is left on the entry.
sms_resend_pending_again(S, busy) ==
    LET loop[n \in 0..NumSms] ==
            IF n = 0 THEN S
            ELSE IF ~S.entry[n].resend THEN loop[n - 1]
            ELSE gsm411_send_sms_subscr(loop[n - 1], n, busy)
    IN  loop[NumSms]

\* sms_resend_pending(): entries have different receivers, so their order does not
\* matter.  SMS are never deleted from the database.
sms_resend_pending(S, busy) ==
    LET loop[n \in 0..NumSms] ==
            IF n = 0 THEN S
            ELSE IF ~S.entry[n].resend THEN loop[n - 1]
            ELSE gsm411_send_sms_subscr([loop[n - 1] EXCEPT !.entry[n].resend = FALSE], n, busy)
    IN  loop[NumSms]

\* S_SUBSCR_ATTACHED; the connection is the one of the location update.
sub_ready_for_sm(S, s) ==
    IF SubscriberIsPending(S, s)
    THEN [S EXCEPT !.entry = [m \in Sms |-> IF Receiver(m) = s /\ @[m].in
                                            THEN [@[m] EXCEPT !.no_detach = TRUE] ELSE @[m]]]
    ELSE NextOver(S, s)

\* "sms send pending": one SMS of each subscriber.
sms_send_pend(S, busy) ==
    LET loop[s \in 0..NumSubs] ==
            IF s = 0 THEN S
            ELSE LET m == db_sms_get_unsent_for_subscr(loop[s - 1], s)
                 IN  IF m = NoSms THEN loop[s - 1]
                     ELSE gsm411_send_sms_subscr(loop[s - 1], m, busy)
    IN  loop[NumSubs]

-----------------------------------------------------------------------------
(* Start *)

Idle ==
    [pending |-> 0, max_pending |-> MaxPendings[1], max_fail |-> 1, entry |-> [m \in Sms |-> NoEntry],
     push_queue |-> FALSE, resend_pending |-> FALSE, last_subscr_id |-> 0,
     stored |-> {}, sent |-> {}, attempts |-> [m \in Sms |-> 0],
     lac |-> [s \in Subs |-> TRUE], conn |-> [s \in Subs |-> FALSE],
     held |-> [s \in Subs |-> FALSE],
     req |-> [s \in Subs |-> <<>>], trans |-> [s \in Subs |-> <<>>],
     twice |-> {}, old |-> {}]

\* sms_queue_start() with what the database holds; no base station is up yet.
sms_queue_start(S) ==
    sms_submit_pending([Idle EXCEPT !.stored = S.stored, !.sent = S.sent, !.twice = S.twice,
                                    !.attempts = S.attempts, !.lac = S.lac], Subs)

Init == env \in Envs /\ net = sms_queue_start(Idle)

-----------------------------------------------------------------------------
(* Actions *)

Becomes(S) == net' = S /\ UNCHANGED env
Room == \A s \in Subs : Len(net.req[s]) < MaxReq

\* An SMS is stored, by an MS (S_SMS_SUBMITTED) or by the operator.
Submit(m) ==
    /\ m \notin net.stored
    /\ Becomes(sms_queue_trigger([net EXCEPT !.stored = @ \cup {m}]))

Push ==
    /\ net.push_queue /\ Room
    /\ \E busy \in SUBSET env.flaky :
        Becomes(sms_submit_pending([net EXCEPT !.push_queue = FALSE], busy))

Resend ==
    /\ net.resend_pending /\ Room
    /\ \E busy \in SUBSET env.flaky :
        Becomes(sms_resend_pending([net EXCEPT !.resend_pending = FALSE], busy))

\* paging_cb_send_sms() for the oldest request.
PagingSucceeds(s) ==
    /\ net.req[s] # <<>> /\ ~net.conn[s]
    /\ Becomes(gsm411_send_sms([net EXCEPT !.conn[s] = TRUE, !.held[s] = TRUE, !.req[s] = Tail(@)],
                               Head(net.req[s])))

PagingFails(s, what) ==
    /\ net.req[s] # <<>>
    /\ what = "busy" => s \in env.flaky
    /\ LET S == SmsEnds([net EXCEPT !.req[s] = Tail(@)], Head(net.req[s]), what)
       IN  Becomes(IF S.lac[s] THEN S ELSE Refused(S, s))

Transfers(s) == {i \in DOMAIN net.trans[s] : net.trans[s][i] # NoSms}

RpAck(s) ==
    /\ Room
    /\ \E i \in Transfers(s), busy \in SUBSET env.flaky :
        Becomes(gsm411_rx_rp_ack(net, s, i, busy))

\* gsm411_rx_rp_error(): the transaction stays.
RpError(s) ==
    \E i \in Transfers(s), what \in {"error", "memory"} :
        /\ Has("radio") /\ (what = "memory" => Has("memory"))
        /\ Becomes(SmsEnds([net EXCEPT !.trans[s][i] = NoSms], net.trans[s][i], what))

\* TC1* expires, or CP-ERROR: trans_free().
TransferFails(s) ==
    /\ Has("radio")
    /\ \E i \in DOMAIN net.trans[s] :
        LET S == [net EXCEPT !.trans[s] = Without(@, i)] IN
        Becomes(msc_release_connection(
            IF i \in Transfers(s) THEN SmsEnds(S, net.trans[s][i], "error") ELSE S, s))

\* gsm411_sapi_n_reject(): transactions without an SMS are passed over.
SapiReject(s) ==
    /\ Has("radio") /\ Transfers(s) # {}
    /\ Becomes(msc_release_connection(
            [TransFree(net, s) EXCEPT !.trans[s] = SelectSeq(@, LAMBDA m : m = NoSms)], s))

ConnectionLost(s) ==
    /\ Has("radio") /\ net.conn[s]
    /\ Becomes([TransFree(net, s) EXCEPT !.trans[s] = <<>>, !.conn[s] = FALSE, !.held[s] = FALSE])

\* What else held the connection is over: a call, a location update, the anchor timer.
HoldEnds(s) ==
    /\ net.held[s]
    /\ Becomes(msc_release_connection([net EXCEPT !.held[s] = FALSE], s))

\* gsm0408_new_conn() starts the anchor timer.
MsConnects(s) ==
    /\ ~net.conn[s]
    /\ Becomes([net EXCEPT !.conn[s] = TRUE, !.held[s] = TRUE])

\* gsm411_rx_rp_smma()
gsm411_rx_rp_smma(s) ==
    /\ Has("memory") /\ net.conn[s]
    /\ Becomes(NextOver(sms_queue_trigger(net), s))

Requested(m) == \E i \in DOMAIN net.req[Receiver(m)] : net.req[Receiver(m)][i] = m

Attach(s) ==
    /\ net.conn[s] /\ Has("attach")
    /\ Becomes(sub_ready_for_sm([net EXCEPT !.lac[s] = TRUE,
                                            !.old = @ \cup {m \in OfSub(s) : Requested(m)}], s))

Detach(s) ==
    /\ net.conn[s] /\ net.lac[s] /\ Has("attach")
    /\ Becomes([net EXCEPT !.lac[s] = FALSE])

Operator ==
    \/ /\ Has("vty") /\ Room
       /\ \/ \E i \in DOMAIN MaxPendings : Becomes([net EXCEPT !.max_pending = MaxPendings[i]])
          \/ Becomes([net EXCEPT !.entry = [m \in Sms |-> NoEntry], !.pending = 0])
          \/ Becomes(sms_queue_trigger(net))
          \/ \E busy \in SUBSET env.flaky : Becomes(sms_send_pend(net, busy))
    \/ \E n \in (1..env.max_fail) \ {net.max_fail} : Becomes([net EXCEPT !.max_fail = n])
    \/ Has("dropped") /\ \E s \in Subs : Becomes([net EXCEPT !.req[s] = <<>>])

Restart == Has("restart") /\ Becomes(sms_queue_start(net))

Next ==
    \/ \E m \in Sms : Submit(m)
    \/ Push \/ Resend \/ Operator \/ Restart
    \/ \E s \in Subs :
        \/ PagingSucceeds(s) \/ \E what \in {"expired", "busy"} : PagingFails(s, what)
        \/ RpAck(s) \/ RpError(s) \/ TransferFails(s) \/ SapiReject(s)
        \/ ConnectionLost(s) \/ HoldEnds(s) \/ MsConnects(s)
        \/ gsm411_rx_rp_smma(s) \/ Attach(s) \/ Detach(s)

Spec == Init /\ [][Next]_vars

PagingEnds(s) == PagingSucceeds(s) \/ \E what \in {"expired", "busy"} : PagingFails(s, what)
TransferEnds(s) == RpAck(s) \/ TransferFails(s)

\* Timers run out; paging ends; the MS acknowledges what it gets, or the transfer
\* fails.  Weak fairness, written out: where the formula on the left does not
\* hold, the action on the right is enabled.
Fairness ==
    /\ []<>~(net.push_queue /\ Room) \/ []<><<Push>>_vars
    /\ []<>~(net.resend_pending /\ Room) \/ []<><<Resend>>_vars
    /\ \A s \in Subs :
        /\ []<>(net.req[s] = <<>>) \/ []<><<PagingEnds(s)>>_vars
        /\ []<>~(Transfers(s) # {} /\ Room) \/ []<><<TransferEnds(s)>>_vars

FairSpec == Spec /\ Fairness

-----------------------------------------------------------------------------
(* Properties *)

Entries(S) == {m \in Sms : S.entry[m].in}

\* smsq->pending is the number of entries in the list, on every path an SMS can end.
Counted == net.pending = Cardinality(Entries(net))

Transferred(m) == \E i \in DOMAIN net.trans[Receiver(m)] : net.trans[Receiver(m)][i] = m

\* An entry is there for an SMS someone works on: it waits for a channel, is being
\* transferred, or will be resent.  An entry without would block its subscriber for
\* good.  (The operator's subscr_pending_clear() drops requests without a word.)
EntryWorkedOn ==
    ~Has("dropped") => \A m \in Entries(net) :
        Requested(m) \/ Transferred(m) \/ (net.entry[m].resend /\ net.resend_pending)

\* sms_submit_pending() submits no more than there is place for, one at least.
SubmitBounded ==
    [][LET room == net.max_pending - net.pending
           free == Cardinality(Entries(net) \ Entries(net'))
       IN  Cardinality(Entries(net') \ Entries(net)) <= IF room + free > 1 THEN room + free ELSE 1]_vars

\* The queue alone has one SMS of a subscriber under way at a time.
QueueOnly ==
    /\ env.faults \cap {"attach", "memory", "vty", "dropped"} = {}
    /\ \A s \in Subs : Cardinality(OfSub(s)) <= 1
OneCopy ==
    QueueOnly => \A s \in Subs : Len(net.req[s]) + Cardinality(Transfers(s)) <= 1

\* A subscriber is not made detached by a paging that was under way when it attached
\* (sub_ready_for_sm(): "by not responding to the paging request we will set the LAC
\* back to 0").  Not so where the MS or the operator make it send SMS past the queue:
\* the entry that knew of the attach may end before the paging does.
AttachKept ==
    [][\A s \in Subs : env.faults \cap {"vty", "memory"} = {} /\ net.lac[s] /\ ~net'.lac[s] =>
            \/ net.conn[s] /\ net' = [net EXCEPT !.lac[s] = FALSE]
            \/ Head(net.req[s]) \notin net.old]_vars

\* Subscribers take turns: where the queue is the only one to send SMS, a stored SMS
\* for a subscriber who can be paged is delivered, tried often enough or its
\* receiver found absent, however busy the base stations of other subscribers are.
NoStarvation ==
    \A m \in Sms :
        QueueOnly /\ ~Has("restart") /\ Receiver(m) \notin env.flaky /\ m \in net.stored ~>
            m \in net.sent \/ net.attempts[m] = FailLimit \/ ~net.lac[Receiver(m)]

\* All of it: entries are counted, each is worked on, and a subscriber has one SMS of the queue under way.
SmsSound == TypeOK /\ Counted /\ EntryWorkedOn /\ OneCopy
\* Every SMS gets its turn within the limit, and a subscriber who attached stays so.
SmsServes == SubmitBounded /\ AttachKept /\ NoStarvation

\* sms_queue.c on S_SMS_DELIVERED: "keep the pending data so we will not attempt to
\* send the SMS for this subscriber as we still have an open channel and will attempt
\* to submit SMS to it anyway": an SMS is delivered once.
DeliveredOnce == net.twice = {}

=============================================================================
