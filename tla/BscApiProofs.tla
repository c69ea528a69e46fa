---------------------------- MODULE BscApiProofs ----------------------------
(***************************************************************************)
(* The pointers of BscApi, for every set of channels and connections.      *)
(*                                                                         *)
(* That they are mutual is not inductive.  Channels are let go only when   *)
(* freed or by their owner, and what frees a channel depends on what the   *)
(* BTS still has to answer; ApiInv therefore names the phases of a channel *)
(* (Phase), so that a channel which is up has no activation left that      *)
(* could be refused, and says which channels the orders of an MS name      *)
(* (OrdFine).  Core holds what is true inside a step as well.  One lemma   *)
(* for each operator says what it does to the record, a few lemmas carry   *)
(* the invariant over a kind of step (one channel changes, a connection    *)
(* gets, drops or changes its channel), and there is one for each action.  *)
(***************************************************************************)
EXTENDS BscApi, SequenceTheorems, TLAPS

-----------------------------------------------------------------------------
(* The invariant *)

\* Commands the BTS may handle late without harm.
Stale(m) == m.mt \in {"REL_REQ", "RR_CHAN_REL"}
AllStale(q) == \A i \in DOMAIN q : Stale(q[i])
\* The queue has the command at j, and nothing else that matters.
Only(q, j, mt) == j \in DOMAIN q /\ q[j].mt = mt /\ \A i \in DOMAIN q : i # j => Stale(q[i])

\* The course of a channel; c: its record, b: what the BTS makes of it.
Idle(c, b) == c.type = "NONE" /\ c.state = "NONE" /\ ~b.active /\ ~c.T3111 /\ AllStale(c.out)
Opening(c, b) ==
    /\ c.type # "NONE" /\ c.state = "ACT_REQ" /\ ~b.active /\ ~c.T3111 /\ ~c.T3101
    /\ Only(c.out, Len(c.out), "CHAN_ACTIV")
GivenUp(c, b) ==
    /\ c.type # "NONE" /\ c.state = "REL_REQ" /\ c.conn = NoConn
    /\ ~b.active /\ ~c.T3111 /\ ~c.T3101 /\ ~c.rqd_ref
    /\ Only(c.out, Len(c.out) - 1, "CHAN_ACTIV")
Up(c, b) ==
    /\ c.type # "NONE" /\ c.state = "ACTIVE" /\ b.active /\ ~c.T3111 /\ ~c.rqd_ref
    /\ AllStale(c.out) /\ (c.conn # NoConn \/ c.T3101 => c.out = <<>>)
Releasing(c, b) ==
    /\ c.type # "NONE" /\ c.state = "REL_REQ" /\ c.conn = NoConn
    /\ b.active /\ ~c.T3101 /\ ~c.rqd_ref
    /\ Len(c.out) <= 1 /\ AllStale(c.out) /\ (c.T3111 => c.out = <<>>)
Ending(c, b) ==
    /\ c.type # "NONE" /\ c.state \in {"REL_REQ", "REL_ERR"} /\ b.active /\ ~c.T3111 /\ ~c.rqd_ref
    /\ c.state = "REL_REQ" => c.conn = NoConn /\ ~c.T3101
    /\ \E j \in DOMAIN c.out : /\ Only(c.out, j, "RF_CHAN_REL")
                               /\ j # 1 => c.state = "REL_ERR" /\ c.conn = NoConn
Phase(c, b) ==
    Idle(c, b) \/ Opening(c, b) \/ GivenUp(c, b) \/ Up(c, b) \/ Releasing(c, b) \/ Ending(c, b)

\* A channel record: data links of SAPI 0 only; an owner, or a random access.
ChanFine(c) ==
    /\ c \in Lchan /\ \A s \in Sapis : s # 0 => c.sapis[s] = "UNUSED"
    /\ c.conn # NoConn \/ c.T3101 \/ c.rqd_ref => c.type # "NONE"
    /\ c.T3101 \/ c.rqd_ref => c.conn = NoConn
    /\ c.T3101 => ~c.rqd_ref

-----------------------------------------------------------------------------
(* Channel records *)

Msg(mt, mode) == [mt |-> mt, sapi |-> 0, mode |-> mode]

LEMMA MsgTyped ==
  ASSUME NEW mt \in RslTypes, NEW mode \in ReleaseModes
  PROVE  Msg(mt, mode) \in RslMsgs /\ Msg(mt, mode).mt = mt
  BY SapisAssumption DEF Msg, RslMsgs

\* What is sent is at the end of the queue.
LEMMA Appended ==
  ASSUME NEW q \in Seq(RslMsgs), NEW m \in RslMsgs, NEW r, r = Append(q, m)
  PROVE  /\ r \in Seq(RslMsgs) /\ Len(r) = Len(q) + 1 /\ Len(r) \in DOMAIN r /\ r[Len(r)] = m
         /\ DOMAIN q = 1..Len(q) /\ DOMAIN r = 1..(Len(q) + 1) /\ \A i \in DOMAIN q : r[i] = q[i]
  OBVIOUS

LEMMA AppendStale ==
  ASSUME NEW q \in Seq(RslMsgs), AllStale(q), NEW m \in RslMsgs, Stale(m)
  PROVE  AllStale(Append(q, m))
  BY DEF AllStale

LEMMA AppendOnly ==
  ASSUME NEW q \in Seq(RslMsgs), AllStale(q), NEW m \in RslMsgs
  PROVE  Only(Append(q, m), Len(Append(q, m)), m.mt)
  BY DEF AllStale, Only

LEMMA OnlyAppend ==
  ASSUME NEW q \in Seq(RslMsgs), NEW j, NEW mt, Only(q, j, mt), NEW m \in RslMsgs, Stale(m)
  PROVE  Only(Append(q, m), j, mt)
  BY DEF Only

LEMMA TailStale ==
  ASSUME NEW q \in Seq(RslMsgs), AllStale(q), q # <<>>
  PROVE  AllStale(Tail(q)) /\ Tail(q) \in Seq(RslMsgs) /\ Len(Tail(q)) = Len(q) - 1
  BY DEF AllStale

\* The BTS takes the first command.
LEMMA TailOnly ==
  ASSUME NEW q \in Seq(RslMsgs), NEW j, NEW mt, Only(q, j, mt), mt \in {"CHAN_ACTIV", "RF_CHAN_REL"}
  PROVE  /\ q # <<>> /\ Tail(q) \in Seq(RslMsgs) /\ Len(Tail(q)) = Len(q) - 1
         /\ j = 1 => Head(q).mt = mt /\ AllStale(Tail(q))
         /\ j # 1 => Stale(Head(q)) /\ Head(q).mt # mt /\ Only(Tail(q), j - 1, mt)
  <1>1. q # <<>> /\ DOMAIN q = 1..Len(q) /\ Len(q) \in Nat /\ j \in 1..Len(q)
    BY DEF Only
  <1>2. Tail(q) \in Seq(RslMsgs) /\ Len(Tail(q)) = Len(q) - 1 /\ Head(q) = q[1] /\ \A i \in 1..(Len(q) - 1) : Tail(q)[i] = q[i + 1]
    BY <1>1
  <1>3. ASSUME j = 1 PROVE Head(q).mt = mt /\ AllStale(Tail(q))
    BY <1>1, <1>2, <1>3 DEF Only, AllStale
  <1>4. ASSUME j # 1 PROVE Stale(Head(q)) /\ Head(q).mt # mt /\ Only(Tail(q), j - 1, mt)
    BY <1>1, <1>2, <1>4 DEF Only, Stale
  <1> QED  BY <1>1, <1>2, <1>3, <1>4

LEMMA UpperUnused == ASSUME NEW c, ChanFine(c) PROVE UsedSapis(c) \ {0} = {}
  BY DEF ChanFine, UsedSapis

Given(c, sd, reason, q) ==
    [c EXCEPT !.state = "REL_REQ", !.conn = NoConn, !.release_reason = reason, !.sach_deact = sd, !.out = q]

\* lchan_release(): one command more.
LEMMA ReleaseIs ==
  ASSUME NEW c, ChanFine(c), NEW sd \in BOOLEAN, NEW reason \in ReleaseModes
  PROVE  \E m \in RslMsgs : Stale(m) /\ lchan_release(c, sd, reason) = Given(c, sd, reason, Append(c.out, m))
  <1> DEFINE d == [c EXCEPT !.state = "REL_REQ", !.conn = NoConn, !.release_reason = reason, !.sach_deact = sd]
  <1>1. c \in Lchan
    BY DEF ChanFine
  <1>2. UsedSapis(d) \ {0} = {} /\ d.sach_deact = sd /\ d.release_reason = reason /\ d.out = c.out
    BY <1>1 DEF ChanFine, UsedSapis, Lchan
  <1>3. lchan_release(c, sd, reason) = IF sd THEN Send(d, "RR_CHAN_REL") ELSE rsl_lchan_set_state(SendRll(d, "REL_REQ", 0, reason), "REL_REQ")
    BY <1>2 DEF lchan_release, lchan_handle_release, gsm48_send_rr_release, rsl_release_request
  <1>4. CASE sd
    <2>1. lchan_release(c, sd, reason) = [d EXCEPT !.out = Append(c.out, Msg("RR_CHAN_REL", "NORMAL"))]
      BY <1>2, <1>3, <1>4 DEF Send, SendRll, Msg
    <2>2. Msg("RR_CHAN_REL", "NORMAL") \in RslMsgs /\ Stale(Msg("RR_CHAN_REL", "NORMAL"))
      BY MsgTyped DEF Stale, RslTypes, ReleaseModes
    <2> QED  BY <2>1, <2>2 DEF Given
  <1>5. CASE ~sd
    <2>1. lchan_release(c, sd, reason) = [d EXCEPT !.out = Append(c.out, Msg("REL_REQ", reason)), !.state = "REL_REQ"]
      BY <1>2, <1>3, <1>5 DEF rsl_lchan_set_state, SendRll, Msg
    <2>2. Msg("REL_REQ", reason) \in RslMsgs /\ Stale(Msg("REL_REQ", reason))
      BY MsgTyped DEF Stale, RslTypes, ReleaseModes
    <2>3. [d EXCEPT !.out = Append(c.out, Msg("REL_REQ", reason)), !.state = "REL_REQ"] = [d EXCEPT !.out = Append(c.out, Msg("REL_REQ", reason))]
      BY <1>1 DEF Lchan
    <2> QED  BY <2>1, <2>2, <2>3 DEF Given
  <1> QED  BY <1>4, <1>5

\* Its effect, field by field.
LEMMA ReleaseDoes ==
  ASSUME NEW c, ChanFine(c), NEW sd \in BOOLEAN, NEW reason \in ReleaseModes, NEW d, d = lchan_release(c, sd, reason)
  PROVE  /\ c.out \in Seq(RslMsgs)
         /\ \E m \in RslMsgs :
              /\ Stale(m) /\ d \in Lchan /\ d.out = Append(c.out, m) /\ d.type = c.type /\ d.state = "REL_REQ" /\ d.conn = NoConn
              /\ d.T3101 = c.T3101 /\ d.T3111 = c.T3111 /\ d.rqd_ref = c.rqd_ref /\ d.sapis = c.sapis
  <1>1. c \in Lchan
    BY DEF ChanFine
  <1>2. c.out \in Seq(RslMsgs)
    BY <1>1 DEF Lchan
  <1>3. PICK m \in RslMsgs : Stale(m) /\ d = Given(c, sd, reason, Append(c.out, m))
    BY ReleaseIs
  <1>4. PICK q : q = Append(c.out, m)  OBVIOUS
  <1>5. q \in Seq(RslMsgs)
    BY <1>2, <1>3, <1>4
  <1>6. d = [c EXCEPT !.state = "REL_REQ", !.conn = NoConn, !.release_reason = reason, !.sach_deact = sd, !.out = q]
    BY <1>3, <1>4 DEF Given
  <1>7. d \in Lchan
    BY <1>1, <1>5, <1>6 DEF Lchan, LchanStates
  <1>8. /\ d.out = q /\ d.type = c.type /\ d.state = "REL_REQ" /\ d.conn = NoConn
        /\ d.T3101 = c.T3101 /\ d.T3111 = c.T3111 /\ d.rqd_ref = c.rqd_ref /\ d.sapis = c.sapis
    BY <1>1, <1>6 DEF Lchan
  <1> HIDE <1>6
  <1> QED  BY <1>2, <1>3, <1>4, <1>7, <1>8

LEMMA ReleaseFine ==
  ASSUME NEW c, ChanFine(c), NEW sd \in BOOLEAN, NEW reason \in ReleaseModes, NEW d, d = lchan_release(c, sd, reason)
  PROVE  ChanFine(d) /\ d.conn = NoConn /\ d.state = "REL_REQ" /\ d.type = c.type
  BY ReleaseDoes DEF ChanFine

\* A channel that is given up: its activation is still to come, or it is up, or the radio has failed.
LEMMA ReleasePhase ==
  ASSUME NEW c, ChanFine(c), NEW sd \in BOOLEAN, NEW reason \in ReleaseModes, NEW d, d = lchan_release(c, sd, reason),
         NEW b, Phase(c, b), ~c.T3101, ~c.rqd_ref, c.conn # NoConn \/ (c.state = "ACTIVE" /\ c.out = <<>>)
  PROVE  Phase(d, b)
  <1>1. PICK m \in RslMsgs :
              /\ Stale(m) /\ d \in Lchan /\ d.out = Append(c.out, m) /\ d.type = c.type /\ d.state = "REL_REQ" /\ d.conn = NoConn
              /\ d.T3101 = c.T3101 /\ d.T3111 = c.T3111 /\ d.rqd_ref = c.rqd_ref /\ d.sapis = c.sapis
    BY ReleaseDoes
  <1>2. c.out \in Seq(RslMsgs)
    BY ReleaseDoes
  <1>3. PICK q : q = Append(c.out, m)  OBVIOUS
  <1>4. q \in Seq(RslMsgs) /\ Len(q) = Len(c.out) + 1
    BY <1>2, <1>3
  <1>5. /\ d.type = c.type /\ d.state = "REL_REQ" /\ d.conn = NoConn /\ d.T3101 = c.T3101 /\ d.T3111 = c.T3111
        /\ d.rqd_ref = c.rqd_ref /\ d.out = q
    BY <1>1, <1>3
  <1>6. c.conn # NoConn => c.type # "NONE"
    BY DEF ChanFine
  <1>7. CASE Opening(c, b)
    <2>1. Only(q, Len(c.out), "CHAN_ACTIV")
      BY <1>1, <1>2, <1>3, <1>7, OnlyAppend DEF Opening
    <2>2. Len(c.out) = Len(q) - 1
      BY <1>2, <1>4
    <2> QED  BY <1>5, <1>7, <2>1, <2>2 DEF Opening, GivenUp, Phase
  <1>8. CASE Up(c, b)
    <2>1. c.out = <<>> /\ AllStale(c.out)
      BY <1>8 DEF Up
    <2>2. AllStale(q)
      BY <1>1, <1>2, <1>3, <2>1, AppendStale
    <2>3. Len(q) <= 1
      BY <1>4, <2>1
    <2> QED  BY <1>5, <1>8, <2>2, <2>3 DEF Up, Releasing, Phase
  <1>9. CASE Ending(c, b)
    <2>1. c.conn # NoConn
      BY <1>9 DEF Ending
    <2>2. PICK j \in DOMAIN c.out : Only(c.out, j, "RF_CHAN_REL") /\ j = 1
      BY <1>9, <2>1 DEF Ending
    <2>3. Only(q, j, "RF_CHAN_REL") /\ j \in DOMAIN q
      BY <1>1, <1>2, <1>3, <2>2, OnlyAppend DEF Only
    <2> QED  BY <1>5, <1>9, <2>2, <2>3 DEF Ending, Phase
  <1> QED
    BY <1>6, <1>7, <1>8, <1>9 DEF Phase, Idle, GivenUp, Releasing

\* lchan_alloc() and CHAN ACTIV: for a random access, or for connection k.
Taken(c, type, k, rqd, tmr) ==
    rsl_lchan_set_state(rsl_chan_activate_lchan([lchan_take(c, type) EXCEPT !.conn = k, !.rqd_ref = rqd, !.act_timer = tmr]), "ACT_REQ")

LEMMA TakenFine ==
  ASSUME NEW c, ChanFine(c), LchanIsFree(c), NEW type \in {"SDCCH", "TCH_F"}, NEW k \in Conns \cup {NoConn}, NEW rqd \in BOOLEAN,
         rqd => k = NoConn, NEW tmr \in {"off", "act", "deact"}, NEW d, d = Taken(c, type, k, rqd, tmr)
  PROVE  /\ ChanFine(d) /\ d.conn = k /\ d.type = type /\ d.state = "ACT_REQ" /\ c.conn = NoConn
         /\ \A b : Phase(c, b) => Phase(d, b)
  <1>1. c \in Lchan /\ c.out \in Seq(RslMsgs) /\ c.conn = NoConn /\ ~c.T3101 /\ ~c.rqd_ref
    BY DEF ChanFine, Lchan, LchanIsFree
  <1>2. PICK q : q = Append(c.out, Msg("CHAN_ACTIV", "NORMAL"))  OBVIOUS
  <1>3. Msg("CHAN_ACTIV", "NORMAL") \in RslMsgs /\ Msg("CHAN_ACTIV", "NORMAL").mt = "CHAN_ACTIV"
    BY MsgTyped DEF RslTypes, ReleaseModes
  <1>4. q \in Seq(RslMsgs)
    BY <1>1, <1>2, <1>3, Appended
  <1>5. PICK f : f = [s \in Sapis |-> "UNUSED"]  OBVIOUS
  <1>6. f \in [Sapis -> SapiStates]
    BY <1>5 DEF SapiStates
  <1>7. d = [c EXCEPT !.type = type, !.sapis = f, !.conn = k, !.rqd_ref = rqd, !.act_timer = tmr, !.out = q, !.state = "ACT_REQ"]
    BY <1>1, <1>2, <1>5 DEF Taken, rsl_lchan_set_state, rsl_chan_activate_lchan, Send, SendRll, Msg, lchan_take, Lchan
  <1>8. d \in Lchan
    <2>1. PICK e : e = [c EXCEPT !.type = type, !.sapis = f, !.conn = k]  OBVIOUS
    <2>2. e \in Lchan
      BY <1>1, <1>6, <2>1 DEF Lchan, LchanTypes
    <2>3. d = [e EXCEPT !.rqd_ref = rqd, !.act_timer = tmr, !.out = q, !.state = "ACT_REQ"]
      BY <1>1, <1>7, <2>1 DEF Lchan
    <2> QED  BY <1>4, <2>2, <2>3 DEF Lchan, LchanStates
  <1>9. /\ d.type = type /\ d.sapis = f /\ d.conn = k /\ d.rqd_ref = rqd /\ d.out = q /\ d.state = "ACT_REQ"
        /\ d.T3101 = c.T3101 /\ d.T3111 = c.T3111
    BY <1>1, <1>7 DEF Lchan
  <1>10. ChanFine(d)
    BY <1>1, <1>5, <1>8, <1>9 DEF ChanFine
  <1>11. ASSUME NEW b, Phase(c, b) PROVE Phase(d, b)
    <2>1. Idle(c, b)
      BY <1>11 DEF Phase, LchanIsFree, Opening, GivenUp, Up, Releasing, Ending
    <2>2. Only(q, Len(q), "CHAN_ACTIV")
      BY <1>1, <1>2, <1>3, <2>1, AppendOnly DEF Idle
    <2> QED  BY <1>1, <1>9, <2>1, <2>2 DEF Idle, Opening, Phase
  <1> QED  BY <1>1, <1>9, <1>10, <1>11

\* lchan_free() with the guard timer: nothing is left but late commands.
LEMMA FreeFine ==
  ASSUME NEW c, ChanFine(c), NEW d, d = lchan_free(c)
  PROVE  ChanFine(d) /\ d.conn = NoConn /\ d.type = "NONE" /\ d.state = "NONE" /\ d.out = c.out /\ d.T3111 = c.T3111
  <1>1. c \in Lchan
    BY DEF ChanFine
  <1>2. PICK r : r = [s \in Sapis |-> 0]  OBVIOUS
  <1>3. r \in [Sapis -> Nat]
    BY <1>2
  <1>4. d = [c EXCEPT !.type = "NONE", !.state = "NONE", !.T3101 = FALSE, !.rqd_ref = FALSE, !.rllr = r,
              !.conn = NoConn, !.sach_deact = FALSE, !.release_reason = "NORMAL"]
    BY <1>2 DEF lchan_free
  <1>5. d \in Lchan
    BY <1>1, <1>3, <1>4 DEF Lchan, LchanTypes, LchanStates, ReleaseModes
  <1>6. /\ d.type = "NONE" /\ d.state = "NONE" /\ ~d.T3101 /\ ~d.rqd_ref /\ d.conn = NoConn
        /\ d.out = c.out /\ d.T3111 = c.T3111 /\ d.sapis = c.sapis
    BY <1>1, <1>4 DEF Lchan
  <1> QED  BY <1>5, <1>6 DEF ChanFine

-----------------------------------------------------------------------------
(* What the BTS reports *)

LEMMA HeadStale == ASSUME NEW q \in Seq(RslMsgs), AllStale(q), q # <<>> PROVE Stale(Head(q))
  BY DEF AllStale

Popped(c) == [c EXCEPT !.out = Tail(@)]
LEMMA PopDoes ==
  ASSUME NEW c, ChanFine(c), c.out # <<>>, NEW e, e = Popped(c)
  PROVE  /\ ChanFine(e) /\ e.out = Tail(c.out) /\ c.out \in Seq(RslMsgs) /\ e.out \in Seq(RslMsgs)
         /\ e.type = c.type /\ e.state = c.state /\ e.conn = c.conn /\ e.T3101 = c.T3101 /\ e.T3111 = c.T3111
         /\ e.rqd_ref = c.rqd_ref /\ e.sapis = c.sapis
  <1>1. c \in Lchan
    BY DEF ChanFine
  <1>2. c.out \in Seq(RslMsgs)
    BY <1>1 DEF Lchan
  <1>3. PICK q : q = Tail(c.out)  OBVIOUS
  <1>4. q \in Seq(RslMsgs)
    BY <1>2, <1>3
  <1>5. e = [c EXCEPT !.out = q]
    BY <1>3 DEF Popped
  <1>6. e \in Lchan
    BY <1>1, <1>4, <1>5 DEF Lchan
  <1>7. /\ e.out = q /\ e.type = c.type /\ e.state = c.state /\ e.conn = c.conn /\ e.T3101 = c.T3101 /\ e.T3111 = c.T3111
        /\ e.rqd_ref = c.rqd_ref /\ e.sapis = c.sapis
    BY <1>1, <1>5 DEF Lchan
  <1> HIDE <1>5
  <1>8. ChanFine(e)
    BY <1>6, <1>7 DEF ChanFine
  <1> QED  BY <1>2, <1>3, <1>4, <1>7, <1>8

LEMMA PopPhase ==
  ASSUME NEW c, ChanFine(c), c.out # <<>>, NEW e, e = Popped(c), Stale(Head(c.out)), NEW b, Phase(c, b)
  PROVE  Phase(e, b)
  <1>1. /\ e.out = Tail(c.out) /\ c.out \in Seq(RslMsgs)
        /\ e.type = c.type /\ e.state = c.state /\ e.conn = c.conn /\ e.T3101 = c.T3101 /\ e.T3111 = c.T3111
        /\ e.rqd_ref = c.rqd_ref
    BY PopDoes
  <1>2. Len(Tail(c.out)) = Len(c.out) - 1 /\ Len(c.out) \in Nat
    BY <1>1
  <1>3. ASSUME AllStale(c.out) PROVE AllStale(e.out)
    BY <1>1, <1>3, TailStale
  <1>4. ASSUME NEW j, NEW mt \in {"CHAN_ACTIV", "RF_CHAN_REL"}, Only(c.out, j, mt)
        PROVE  j # 1 /\ Only(e.out, j - 1, mt)
    <2>1. j # 1
      BY <1>1, <1>4, TailOnly DEF Stale
    <2> QED  BY <1>1, <1>4, <2>1, TailOnly
  <1>5. CASE Idle(c, b)
    BY <1>1, <1>3, <1>5 DEF Idle, Phase
  <1>6. CASE Opening(c, b)
    BY <1>1, <1>2, <1>4, <1>6 DEF Opening, Phase
  <1>7. CASE GivenUp(c, b)
    <2>1. Only(e.out, (Len(c.out) - 1) - 1, "CHAN_ACTIV")
      BY <1>4, <1>7 DEF GivenUp
    <2> QED  BY <1>1, <1>2, <1>7, <2>1 DEF GivenUp, Phase
  <1>8. CASE Up(c, b)
    BY <1>1, <1>3, <1>8 DEF Up, Phase
  <1>9. CASE Releasing(c, b)
    <2>1. Len(e.out) <= 1
      BY <1>1, <1>2, <1>9 DEF Releasing
    <2> QED  BY <1>1, <1>3, <1>9, <2>1 DEF Releasing, Phase
  <1>10. CASE Ending(c, b)
    <2>1. PICK j \in DOMAIN c.out : Only(c.out, j, "RF_CHAN_REL") /\ (j # 1 => c.state = "REL_ERR" /\ c.conn = NoConn)
      BY <1>10 DEF Ending
    <2>2. j # 1 /\ Only(e.out, j - 1, "RF_CHAN_REL")
      BY <1>4, <2>1
    <2>3. j - 1 \in DOMAIN e.out
      BY <2>2 DEF Only
    <2> QED  BY <1>1, <1>10, <2>1, <2>2, <2>3 DEF Ending, Phase
  <1> QED  BY <1>5, <1>6, <1>7, <1>8, <1>9, <1>10 DEF Phase

\* CHAN ACTIV ACK.
LEMMA AckFine ==
  ASSUME NEW c, ChanFine(c), c.out # <<>>, NEW d, d = rsl_rx_chan_act_ack(Popped(c))
  PROVE  ChanFine(d) /\ d.conn = c.conn /\ d.state = "ACTIVE" /\ d.type = c.type /\ d.out = Tail(c.out) /\ ~d.rqd_ref
         /\ d.T3111 = c.T3111 /\ (d.T3101 <=> c.rqd_ref \/ c.T3101)
  <1>1. PICK e : e = Popped(c)  OBVIOUS
  <1>2. /\ ChanFine(e) /\ e.out = Tail(c.out) /\ e.type = c.type /\ e.conn = c.conn /\ e.T3101 = c.T3101 /\ e.T3111 = c.T3111
        /\ e.rqd_ref = c.rqd_ref
    BY <1>1, PopDoes
  <1>3. e \in Lchan /\ e.rqd_ref \in BOOLEAN /\ e.T3101 \in BOOLEAN
    BY <1>2 DEF ChanFine, Lchan
  <1>4. PICK t : t = IF e.rqd_ref THEN TRUE ELSE e.T3101  OBVIOUS
  <1>5. t \in BOOLEAN /\ (t <=> e.rqd_ref \/ e.T3101)
    BY <1>3, <1>4
  <1>6. d = [e EXCEPT !.act_timer = "off", !.state = "ACTIVE", !.rqd_ref = FALSE, !.T3101 = t]
    BY <1>1, <1>4 DEF rsl_rx_chan_act_ack
  <1>7. d \in Lchan
    BY <1>3, <1>5, <1>6 DEF Lchan, LchanStates
  <1>8. /\ d.type = e.type /\ d.state = "ACTIVE" /\ d.conn = e.conn /\ d.T3111 = e.T3111
        /\ d.rqd_ref = FALSE /\ d.sapis = e.sapis /\ d.out = e.out /\ d.T3101 = t
    BY <1>3, <1>6 DEF Lchan
  <1> HIDE <1>6, <1>4
  <1>9. ChanFine(d)
    BY <1>2, <1>5, <1>7, <1>8 DEF ChanFine
  <1> QED  BY <1>2, <1>5, <1>8, <1>9

\* A command that is not stale tells the phase.
LEMMA HeadTells ==
  ASSUME NEW c, ChanFine(c), c.out # <<>>, NEW b, Phase(c, b), ~Stale(Head(c.out))
  PROVE  \/ Head(c.out).mt = "CHAN_ACTIV" /\ Opening(c, b) /\ Tail(c.out) = <<>>
         \/ Head(c.out).mt = "CHAN_ACTIV" /\ GivenUp(c, b) /\ AllStale(Tail(c.out))
         \/ Head(c.out).mt = "RF_CHAN_REL" /\ Ending(c, b) /\ AllStale(Tail(c.out))
  <1>1. c.out \in Seq(RslMsgs)
    BY DEF ChanFine, Lchan
  <1>2. ~AllStale(c.out)
    BY <1>1, HeadStale
  <1>3. ASSUME NEW j, NEW mt \in {"CHAN_ACTIV", "RF_CHAN_REL"}, Only(c.out, j, mt)
        PROVE  j = 1 /\ Head(c.out).mt = mt /\ AllStale(Tail(c.out))
    BY <1>1, <1>3, TailOnly
  <1>4. CASE Opening(c, b)
    <2>1. Len(c.out) = 1 /\ Head(c.out).mt = "CHAN_ACTIV"
      BY <1>3, <1>4 DEF Opening
    <2>2. Tail(c.out) = <<>>
      <3>1. Tail(c.out) \in Seq(RslMsgs) /\ Len(Tail(c.out)) = 0
        BY <1>1, <2>1
      <3> QED  BY <3>1, EmptySeq
    <2> QED  BY <1>4, <2>1, <2>2
  <1>5. CASE GivenUp(c, b)
    BY <1>3, <1>5 DEF GivenUp
  <1>6. CASE Ending(c, b)
    BY <1>3, <1>6 DEF Ending
  <1> QED  BY <1>2, <1>4, <1>5, <1>6 DEF Phase, Idle, Up, Releasing

LEMMA AckPhase ==
  ASSUME NEW c, ChanFine(c), c.out # <<>>, NEW d, d = rsl_rx_chan_act_ack(Popped(c)), Head(c.out).mt = "CHAN_ACTIV",
         NEW b, Phase(c, b), NEW a, a.active
  PROVE  Phase(d, a)
  <1>1. /\ d.conn = c.conn /\ d.state = "ACTIVE" /\ d.type = c.type /\ d.out = Tail(c.out) /\ ~d.rqd_ref
        /\ d.T3111 = c.T3111 /\ (d.T3101 <=> c.rqd_ref \/ c.T3101)
    BY AckFine
  <1>2. ~Stale(Head(c.out))
    BY DEF Stale
  <1>3. CASE Opening(c, b) /\ Tail(c.out) = <<>>
    <2>1. AllStale(d.out)
      BY <1>1, <1>3 DEF AllStale
    <2> QED  BY <1>1, <1>3, <2>1 DEF Opening, Up, Phase
  <1>4. CASE GivenUp(c, b) /\ AllStale(Tail(c.out))
    BY <1>1, <1>4 DEF GivenUp, Up, Phase
  <1> QED  BY <1>2, <1>3, <1>4, HeadTells

\* CHAN ACTIV NACK: the channel is free.
LEMMA NackFine ==
  ASSUME NEW e, ChanFine(e), NEW cause \in {"ALR_ACTV", "OTHER"}, NEW d, d = rsl_rx_chan_act_nack(e, cause)
  PROVE  /\ ChanFine(d) /\ d.conn = NoConn /\ d.type = "NONE" /\ d.state = "NONE"
         /\ cause = "OTHER" => d.out = e.out /\ d.T3111 = e.T3111
  <1>1. PICK q : q = [e EXCEPT !.act_timer = "off"]  OBVIOUS
  <1>2. e \in Lchan /\ e.out \in Seq(RslMsgs)
    BY DEF ChanFine, Lchan
  <1>3. q \in Lchan
    BY <1>1, <1>2 DEF Lchan
  <1>4. /\ q.type = e.type /\ q.conn = e.conn /\ q.T3101 = e.T3101 /\ q.T3111 = e.T3111
        /\ q.rqd_ref = e.rqd_ref /\ q.sapis = e.sapis /\ q.out = e.out
    BY <1>1, <1>2 DEF Lchan
  <1>5. ChanFine(q)
    BY <1>3, <1>4 DEF ChanFine
  <1>6. CASE cause = "OTHER"
    <2>1. PICK r : r = [q EXCEPT !.state = "NONE"]  OBVIOUS
    <2>2. r \in Lchan
      BY <1>3, <2>1 DEF Lchan, LchanStates
    <2>3. /\ r.type = q.type /\ r.conn = q.conn /\ r.T3101 = q.T3101 /\ r.T3111 = q.T3111
          /\ r.rqd_ref = q.rqd_ref /\ r.sapis = q.sapis /\ r.out = q.out
      BY <1>3, <2>1 DEF Lchan
    <2>4. ChanFine(r)
      BY <1>5, <2>2, <2>3 DEF ChanFine
    <2>5. d = lchan_free(r)
      BY <1>1, <1>6, <2>1 DEF rsl_rx_chan_act_nack, rsl_lchan_set_state
    <2> HIDE <2>1, <1>1
    <2> QED  BY <1>4, <2>3, <2>4, <2>5, FreeFine
  <1>7. CASE cause = "ALR_ACTV"
    <2>1. PICK r : r = rsl_rf_chan_release(q, TRUE)  OBVIOUS
    <2>2. ChanFine(r)
      <3>1. CASE q.state = "REL_ERR"
        BY <1>5, <2>1, <3>1 DEF rsl_rf_chan_release
      <3>2. CASE q.state # "REL_ERR"
        <4>1. PICK o : o = Append(q.out, Msg("RF_CHAN_REL", "NORMAL"))  OBVIOUS
        <4>2. o \in Seq(RslMsgs)
          BY <1>2, <1>4, <4>1, MsgTyped, Appended DEF RslTypes, ReleaseModes
        <4>3. r = [q EXCEPT !.state = "REL_ERR", !.error_timer = TRUE, !.act_timer = "deact", !.out = o]
          BY <1>3, <2>1, <3>2, <4>1 DEF rsl_rf_chan_release, Send, SendRll, Msg, Lchan
        <4>4. r \in Lchan
          BY <1>3, <4>2, <4>3 DEF Lchan, LchanStates
        <4>5. /\ r.type = q.type /\ r.conn = q.conn /\ r.T3101 = q.T3101 /\ r.rqd_ref = q.rqd_ref /\ r.sapis = q.sapis
          BY <1>3, <4>3 DEF Lchan
        <4> QED  BY <1>5, <4>4, <4>5 DEF ChanFine
      <3> QED  BY <3>1, <3>2
    <2>3. d = lchan_free(r)
      BY <1>1, <1>7, <2>1 DEF rsl_rx_chan_act_nack
    <2> QED  BY <1>7, <2>2, <2>3, FreeFine
  <1> QED  BY <1>6, <1>7

LEMMA NackPhase ==
  ASSUME NEW c, ChanFine(c), c.out # <<>>, Head(c.out).mt = "CHAN_ACTIV", NEW b, Phase(c, b),
         NEW d, d.type = "NONE", d.state = "NONE", d.out = Tail(c.out), d.T3111 = c.T3111
  PROVE  Phase(d, b) /\ ~b.active
  <1>1. ~Stale(Head(c.out))
    BY DEF Stale
  <1>2. CASE Opening(c, b) /\ Tail(c.out) = <<>>
    <2>1. AllStale(d.out)
      BY <1>2 DEF AllStale
    <2> QED  BY <1>2, <2>1 DEF Opening, Idle, Phase
  <1>3. CASE GivenUp(c, b) /\ AllStale(Tail(c.out))
    BY <1>3 DEF GivenUp, Idle, Phase
  <1> QED  BY <1>1, <1>2, <1>3, HeadTells

\* RF CHAN REL ACK: the channel is free.
LEMMA RelAckFine ==
  ASSUME NEW c, ChanFine(c), c.out # <<>>, NEW d, d = rsl_rx_rf_chan_rel_ack(Popped(c))
  PROVE  ChanFine(d) /\ d.conn = NoConn /\ d.type = "NONE" /\ d.state = "NONE" /\ d.out = Tail(c.out) /\ ~d.T3111
  <1>1. PICK e : e = Popped(c)  OBVIOUS
  <1>2. ChanFine(e) /\ e.out = Tail(c.out)
    BY <1>1, PopDoes
  <1>3. PICK q : q = [e EXCEPT !.act_timer = "off", !.T3111 = FALSE]  OBVIOUS
  <1>4. e \in Lchan
    BY <1>2 DEF ChanFine
  <1>5. q \in Lchan
    BY <1>3, <1>4 DEF Lchan
  <1>6. /\ q.type = e.type /\ q.conn = e.conn /\ q.T3101 = e.T3101 /\ ~q.T3111
        /\ q.rqd_ref = e.rqd_ref /\ q.sapis = e.sapis /\ q.out = e.out
    BY <1>3, <1>4 DEF Lchan
  <1>7. ChanFine(q)
    BY <1>2, <1>5, <1>6 DEF ChanFine
  <1>8. d = lchan_free(q)
    BY <1>1, <1>3 DEF rsl_rx_rf_chan_rel_ack
  <1> HIDE <1>3
  <1> QED  BY <1>2, <1>6, <1>7, <1>8, FreeFine

LEMMA RelAckPhase ==
  ASSUME NEW c, ChanFine(c), c.out # <<>>, NEW d, d = rsl_rx_rf_chan_rel_ack(Popped(c)), Head(c.out).mt = "RF_CHAN_REL",
         NEW b, Phase(c, b), NEW a, ~a.active
  PROVE  Phase(d, a)
  <1>1. d.type = "NONE" /\ d.state = "NONE" /\ d.out = Tail(c.out) /\ ~d.T3111
    BY RelAckFine
  <1>2. AllStale(Tail(c.out))
    BY HeadTells DEF Stale
  <1> QED  BY <1>1, <1>2 DEF Idle, Phase

\* The end of the main link; T3111 is started if the channel is being released.
Unlinked(e, r) ==
    [e EXCEPT !.sapis[0] = "UNUSED", !.T3111 = IF e.state = "REL_REQ" THEN TRUE ELSE @, !.rllr = r]
LEMMA UnlinkedDoes ==
  ASSUME NEW e, ChanFine(e), NEW r \in [Sapis -> Nat], NEW d, d = Unlinked(e, r)
  PROVE  /\ ChanFine(d) /\ d.type = e.type /\ d.state = e.state /\ d.conn = e.conn /\ d.T3101 = e.T3101 /\ d.rqd_ref = e.rqd_ref
         /\ d.out = e.out /\ (d.T3111 <=> e.T3111 \/ e.state = "REL_REQ")
  <1>1. e \in Lchan /\ e.sapis \in [Sapis -> SapiStates] /\ 0 \in Sapis /\ e.T3111 \in BOOLEAN
    BY SapisAssumption DEF ChanFine, Lchan
  <1>2. PICK f : f = [e.sapis EXCEPT ![0] = "UNUSED"]  OBVIOUS
  <1>3. PICK t : t = IF e.state = "REL_REQ" THEN TRUE ELSE e.T3111  OBVIOUS
  <1>4. f \in [Sapis -> SapiStates] /\ \A s \in Sapis : s # 0 => f[s] = e.sapis[s]
    BY <1>1, <1>2 DEF SapiStates
  <1>5. t \in BOOLEAN /\ (t <=> e.T3111 \/ e.state = "REL_REQ")
    BY <1>1, <1>3
  <1>6. d = [e EXCEPT !.sapis = f, !.T3111 = t, !.rllr = r]
    BY <1>2, <1>3 DEF Unlinked
  <1> HIDE <1>2, <1>3
  <1>7. d \in Lchan
    BY <1>1, <1>4, <1>5, <1>6 DEF Lchan
  <1>8. /\ d.type = e.type /\ d.state = e.state /\ d.conn = e.conn /\ d.T3101 = e.T3101 /\ d.rqd_ref = e.rqd_ref
        /\ d.out = e.out /\ d.T3111 = t /\ d.sapis = f
    BY <1>1, <1>6 DEF Lchan
  <1> HIDE <1>6
  <1>9. ChanFine(d)
    BY <1>4, <1>7, <1>8 DEF ChanFine
  <1> QED  BY <1>5, <1>8, <1>9

LEMMA AllUnused ==
  ASSUME NEW e, ChanFine(e), NEW g, g.sapis = [e.sapis EXCEPT ![0] = "UNUSED"]
  PROVE  UsedSapis(g) = {}
  <1>1. e.sapis \in [Sapis -> SapiStates]
    BY DEF ChanFine, Lchan
  <1>2. \A s \in Sapis : g.sapis[s] = "UNUSED"
    BY <1>1 DEF ChanFine
  <1> QED  BY <1>2 DEF UsedSapis

LEMMA RelConfIs ==
  ASSUME NEW e, ChanFine(e)
  PROVE  /\ rll_rel_conf(e, 0) = Unlinked(e, e.rllr) /\ e.rllr \in [Sapis -> Nat]
         /\ \E r \in [Sapis -> Nat] : rll_rel_ind(e, 0) = Unlinked(e, r)
  <1>1. e \in Lchan /\ e.rllr \in [Sapis -> Nat] /\ 0 \in Sapis
    BY SapisAssumption DEF ChanFine, Lchan
  <1>2. rll_rel_conf(e, 0) = Unlinked(e, e.rllr)
    <2>1. PICK g : g = [e EXCEPT !.sapis[0] = "UNUSED"]  OBVIOUS
    <2>2. g.sapis = [e.sapis EXCEPT ![0] = "UNUSED"] /\ g.state = e.state
      BY <1>1, <2>1 DEF Lchan
    <2>3. UsedSapis(g) = {}
      BY <2>2, AllUnused
    <2>4. rll_rel_conf(e, 0) = IF g.state = "REL_REQ" THEN [g EXCEPT !.T3111 = TRUE] ELSE g
      BY <2>1, <2>3 DEF rll_rel_conf, rsl_lchan_rll_release, rsl_handle_release
    <2> QED  BY <1>1, <2>1, <2>2, <2>4 DEF Unlinked, Lchan
  <1>3. \E r \in [Sapis -> Nat] : rll_rel_ind(e, 0) = Unlinked(e, r)
    <2>1. PICK r : r = [e.rllr EXCEPT ![0] = IF @ > 0 THEN @ - 1 ELSE 0]  OBVIOUS
    <2>2. r \in [Sapis -> Nat]
      BY <1>1, <2>1
    <2>3. PICK g : g = [e EXCEPT !.sapis[0] = "UNUSED", !.rllr = r]  OBVIOUS
    <2>4. rll_indication([e EXCEPT !.sapis[0] = "UNUSED"], 0) = g
      BY <1>1, <2>1, <2>3 DEF rll_indication, Lchan
    <2>5. g.sapis = [e.sapis EXCEPT ![0] = "UNUSED"] /\ g.state = e.state
      BY <1>1, <2>3 DEF Lchan
    <2>6. UsedSapis(g) = {}
      BY <2>5, AllUnused
    <2>7. rll_rel_ind(e, 0) = IF g.state = "REL_REQ" THEN [g EXCEPT !.T3111 = TRUE] ELSE g
      BY <2>4, <2>6 DEF rll_rel_ind, rsl_lchan_rll_release, rsl_handle_release
    <2>8. rll_rel_ind(e, 0) = Unlinked(e, r)
      BY <1>1, <2>3, <2>5, <2>7 DEF Unlinked, Lchan
    <2> QED  BY <2>2, <2>8
  <1> QED  BY <1>1, <1>2, <1>3

LEMMA UnlinkedPhase ==
  ASSUME NEW c, ChanFine(c), c.out # <<>>, Stale(Head(c.out)), NEW r \in [Sapis -> Nat], NEW d, d = Unlinked(Popped(c), r),
         NEW b, Phase(c, b), b.active, NEW a, a.active
  PROVE  Phase(d, a)
  <1>1. PICK e : e = Popped(c)  OBVIOUS
  <1>2. ChanFine(e) /\ Phase(e, b)
    BY <1>1, PopDoes, PopPhase
  <1>3. /\ d.type = e.type /\ d.state = e.state /\ d.conn = e.conn /\ d.T3101 = e.T3101 /\ d.rqd_ref = e.rqd_ref
        /\ d.out = e.out /\ (d.T3111 <=> e.T3111 \/ e.state = "REL_REQ")
    BY <1>1, <1>2, UnlinkedDoes
  <1>4. /\ e.out = Tail(c.out) /\ c.out \in Seq(RslMsgs) /\ e.state = c.state /\ e.conn = c.conn
    BY <1>1, PopDoes
  <1>5. CASE Up(e, b)
    BY <1>3, <1>5 DEF Up, Phase
  <1>6. CASE e.state # "REL_REQ" /\ Ending(e, b)
    BY <1>3, <1>6 DEF Ending, Phase
  <1>7. ASSUME c.state = "REL_REQ", Ending(c, b) PROVE FALSE
    <2>1. PICK j \in DOMAIN c.out : Only(c.out, j, "RF_CHAN_REL") /\ j = 1
      BY <1>7 DEF Ending
    <2> QED  BY <1>4, <2>1, TailOnly DEF Stale
  <1>8. CASE Releasing(c, b)
    <2>1. Len(c.out) = 1
      <3>1. PICK n : n = Len(c.out)  OBVIOUS
      <3>2. n \in Nat /\ n # 0
        BY <1>4, <3>1, EmptySeq
      <3>3. n <= 1
        BY <1>8, <3>1 DEF Releasing
      <3>4. n = 1
        BY <3>2, <3>3
      <3> QED  BY <3>1, <3>4
    <2>2. e.out \in Seq(RslMsgs) /\ Len(e.out) = 0
      BY <1>4, <2>1
    <2>3. e.out = <<>> /\ AllStale(e.out)
      BY <2>2, EmptySeq DEF AllStale
    <2>4. e.type = c.type /\ e.T3101 = c.T3101 /\ e.rqd_ref = c.rqd_ref
      BY <1>1, PopDoes
    <2> QED  BY <1>3, <1>4, <1>8, <2>2, <2>3, <2>4 DEF Releasing, Phase
  <1>9. Up(c, b) \/ Releasing(c, b) \/ Ending(c, b)
    BY DEF Phase, Idle, Opening, GivenUp
  <1>10. Up(e, b) \/ Releasing(e, b) \/ Ending(e, b)
    BY <1>2 DEF Phase, Idle, Opening, GivenUp
  <1>11. CASE Up(c, b)
    BY <1>4, <1>5, <1>10, <1>11 DEF Up, Releasing, Ending
  <1>12. CASE Ending(c, b)
    BY <1>4, <1>6, <1>7, <1>10, <1>12 DEF Up, Releasing, Ending
  <1> QED  BY <1>8, <1>9, <1>11, <1>12

-----------------------------------------------------------------------------
(* Failures and timers of a channel *)

RfMsg == Msg("RF_CHAN_REL", "NORMAL")
LEMMA RfMsgTyped == RfMsg \in RslMsgs /\ RfMsg.mt = "RF_CHAN_REL"
  BY MsgTyped DEF RfMsg, RslTypes, ReleaseModes

\* RF CHANNEL RELEASE after an error.
LEMMA ConnFailDoes ==
  ASSUME NEW c, ChanFine(c), c.state # "REL_ERR", NEW d, d = rsl_rx_conn_fail(c)
  PROVE  /\ ChanFine(d) /\ d.type = c.type /\ d.state = "REL_ERR" /\ d.conn = c.conn /\ d.T3101 = c.T3101 /\ d.T3111 = c.T3111
         /\ d.rqd_ref = c.rqd_ref /\ d.out = Append(c.out, RfMsg) /\ c.out \in Seq(RslMsgs)
  <1>1. c \in Lchan /\ c.out \in Seq(RslMsgs)
    BY DEF ChanFine, Lchan
  <1>2. PICK q : q = Append(c.out, RfMsg)  OBVIOUS
  <1>3. q \in Seq(RslMsgs)
    BY <1>1, <1>2, RfMsgTyped, Appended
  <1>4. d = [c EXCEPT !.state = "REL_ERR", !.error_timer = TRUE, !.act_timer = "deact", !.out = q]
    BY <1>1, <1>2 DEF rsl_rx_conn_fail, rsl_rf_chan_release, Send, SendRll, RfMsg, Msg, Lchan
  <1>5. d \in Lchan
    BY <1>1, <1>3, <1>4 DEF Lchan, LchanStates
  <1>6. /\ d.type = c.type /\ d.state = "REL_ERR" /\ d.conn = c.conn /\ d.T3101 = c.T3101 /\ d.T3111 = c.T3111
        /\ d.rqd_ref = c.rqd_ref /\ d.sapis = c.sapis /\ d.out = q
    BY <1>1, <1>4 DEF Lchan
  <1> HIDE <1>4
  <1>7. ChanFine(d)
    BY <1>5, <1>6 DEF ChanFine
  <1> QED  BY <1>1, <1>2, <1>6, <1>7

LEMMA ConnFailPhase ==
  ASSUME NEW c, ChanFine(c), c.state = "ACTIVE", NEW d, d = rsl_rx_conn_fail(c), NEW b, Phase(c, b)
  PROVE  Phase(d, b)
  <1>1. Up(c, b)
    BY DEF Phase, Idle, Opening, GivenUp, Releasing, Ending
  <1>2. /\ d.type = c.type /\ d.state = "REL_ERR" /\ d.conn = c.conn /\ d.T3101 = c.T3101 /\ d.T3111 = c.T3111
        /\ d.rqd_ref = c.rqd_ref /\ d.out = Append(c.out, RfMsg) /\ c.out \in Seq(RslMsgs)
    BY ConnFailDoes
  <1>3. PICK j : j = Len(d.out)  OBVIOUS
  <1>4. Only(d.out, j, "RF_CHAN_REL") /\ j \in DOMAIN d.out
    BY <1>1, <1>2, <1>3, RfMsgTyped, AppendOnly DEF Up, Only
  <1>5. j # 1 => c.conn = NoConn
    <2>1. c.conn # NoConn => c.out = <<>>
      BY <1>1 DEF Up
    <2>2. c.out = <<>> => j = 1
      BY <1>2, <1>3, RfMsgTyped
    <2> QED  BY <2>1, <2>2
  <1> QED  BY <1>1, <1>2, <1>4, <1>5 DEF Up, Ending, Phase

\* T3101 runs out: the MS has not come.
LEMMA T3101Fine ==
  ASSUME NEW c, ChanFine(c), c.T3101, NEW d, d = t3101_expired(c)
  PROVE  ChanFine(d) /\ d.conn = c.conn /\ d.type = c.type /\ (\A b : Phase(c, b) => Phase(d, b))
         /\ d.state # "ACT_REQ"
  <1>1. PICK e : e = [c EXCEPT !.T3101 = FALSE]  OBVIOUS
  <1>2. c \in Lchan
    BY DEF ChanFine
  <1>3. e \in Lchan
    BY <1>1, <1>2 DEF Lchan
  <1>4. /\ e.type = c.type /\ e.state = c.state /\ e.conn = c.conn /\ ~e.T3101 /\ e.T3111 = c.T3111
        /\ e.rqd_ref = c.rqd_ref /\ e.sapis = c.sapis /\ e.out = c.out
    BY <1>1, <1>2 DEF Lchan
  <1>5. d = rsl_rx_conn_fail(e)
    BY <1>1 DEF t3101_expired, rsl_rx_conn_fail
  <1>6. rsl_rx_conn_fail(e) = rsl_rf_chan_release(e, TRUE)
    BY DEF rsl_rx_conn_fail
  <1> HIDE <1>1
  <1>7. ChanFine(e)
    BY <1>3, <1>4 DEF ChanFine
  <1>8. \A b : Phase(c, b) => Phase(e, b) /\ (e.state = "ACTIVE" \/ e.state = "REL_ERR")
    <2> SUFFICES ASSUME NEW b, Phase(c, b) PROVE Phase(e, b) /\ (e.state = "ACTIVE" \/ e.state = "REL_ERR")
      OBVIOUS
    <2>1. CASE Up(c, b)
      BY <1>4, <2>1 DEF Up, Phase
    <2>2. CASE Ending(c, b)
      BY <1>4, <2>2 DEF Ending, Phase
    <2> QED  BY <2>1, <2>2 DEF Phase, Idle, Opening, GivenUp, Releasing, ChanFine
  <1>9. CASE e.state = "REL_ERR"
    <2>1. d = e
      BY <1>5, <1>6, <1>9 DEF rsl_rf_chan_release
    <2> QED  BY <1>4, <1>7, <1>8, <1>9, <2>1
  <1>10. CASE e.state # "REL_ERR"
    <2>1. ChanFine(d) /\ d.conn = e.conn /\ d.type = e.type /\ d.state = "REL_ERR"
      BY <1>5, <1>7, <1>10, ConnFailDoes
    <2>2. ASSUME NEW b, Phase(c, b) PROVE Phase(d, b)
      BY <1>5, <1>7, <1>8, <1>10, <2>2, ConnFailPhase
    <2> QED  BY <1>4, <2>1, <2>2
  <1> QED  BY <1>9, <1>10

\* T3111 runs out: the channel is deactivated.
LEMMA T3111Fine ==
  ASSUME NEW c, ChanFine(c), c.T3111, NEW d, d = t3111_expired(c)
  PROVE  ChanFine(d) /\ d.conn = c.conn /\ d.type = c.type /\ (\A b : Phase(c, b) => Phase(d, b))
         /\ (d.state = c.state)
  <1>1. PICK e : e = [c EXCEPT !.T3111 = FALSE]  OBVIOUS
  <1>2. c \in Lchan /\ c.out \in Seq(RslMsgs)
    BY DEF ChanFine, Lchan
  <1>3. e \in Lchan
    BY <1>1, <1>2 DEF Lchan
  <1>4. /\ e.type = c.type /\ e.state = c.state /\ e.conn = c.conn /\ e.T3101 = c.T3101 /\ ~e.T3111
        /\ e.rqd_ref = c.rqd_ref /\ e.sapis = c.sapis /\ e.out = c.out
    BY <1>1, <1>2 DEF Lchan
  <1>5. d = rsl_rf_chan_release(e, FALSE)
    BY <1>1 DEF t3111_expired
  <1> HIDE <1>1
  <1>6. ChanFine(e)
    BY <1>3, <1>4 DEF ChanFine
  <1>7. CASE e.state = "REL_ERR"
    <2>1. d = e
      BY <1>5, <1>7 DEF rsl_rf_chan_release
    <2>2. \A b : ~Phase(c, b)
      BY <1>4, <1>7 DEF Phase, Idle, Opening, GivenUp, Up, Releasing, Ending
    <2> QED  BY <1>4, <1>6, <2>1, <2>2
  <1>8. CASE e.state # "REL_ERR"
    <2>1. PICK q : q = Append(c.out, RfMsg)  OBVIOUS
    <2>2. q \in Seq(RslMsgs)
      BY <1>2, <2>1, RfMsgTyped, Appended
    <2>3. d = [e EXCEPT !.act_timer = "deact", !.out = q]
      BY <1>3, <1>4, <1>5, <1>8, <2>1 DEF rsl_rf_chan_release, Send, SendRll, RfMsg, Msg, Lchan
    <2>4. d \in Lchan
      BY <1>3, <2>2, <2>3 DEF Lchan
    <2>5. /\ d.type = e.type /\ d.state = e.state /\ d.conn = e.conn /\ d.T3101 = e.T3101 /\ d.T3111 = e.T3111
          /\ d.rqd_ref = e.rqd_ref /\ d.sapis = e.sapis /\ d.out = q
      BY <1>3, <2>3 DEF Lchan
    <2> HIDE <2>3
    <2>6. ChanFine(d)
      BY <1>6, <2>4, <2>5 DEF ChanFine
    <2>7. ASSUME NEW b, Phase(c, b) PROVE Phase(d, b)
      <3>1. Releasing(c, b) /\ c.out = <<>>
        BY <2>7 DEF Phase, Idle, Opening, GivenUp, Up, Releasing, Ending
      <3>2. AllStale(c.out)
        BY <3>1 DEF Releasing
      <3>3. Len(q) = 1
        BY <2>1, <3>1, RfMsgTyped
      <3>4. Only(q, 1, "RF_CHAN_REL") /\ 1 \in DOMAIN q
        BY <1>2, <2>1, <3>2, <3>3, RfMsgTyped, AppendOnly DEF Only
      <3> QED  BY <1>4, <2>5, <3>1, <3>4 DEF Releasing, Ending, Phase
    <2> QED  BY <1>4, <2>5, <2>6, <2>7
  <1> QED  BY <1>7, <1>8

\* The quarantine after an error ends; RF CHANNEL RELEASE has been answered.
LEMMA ErrorFine ==
  ASSUME NEW c, ChanFine(c), NEW d, d = error_timeout_cb(c), \A i \in DOMAIN c.out : c.out[i].mt # "RF_CHAN_REL"
  PROVE  ChanFine(d) /\ d.conn = c.conn /\ d.type = c.type /\ (\A b : Phase(c, b) => Phase(d, b))
         /\ (d.state = "ACT_REQ" => c.state = "ACT_REQ")
  <1>1. c \in Lchan
    BY DEF ChanFine
  <1>2. PICK st : st = IF c.state = "REL_ERR" THEN "NONE" ELSE c.state  OBVIOUS
  <1>3. st \in LchanStates
    BY <1>1, <1>2 DEF Lchan, LchanStates
  <1>4. d = [c EXCEPT !.error_timer = FALSE, !.state = st]
    BY <1>2 DEF error_timeout_cb
  <1>5. d \in Lchan
    BY <1>1, <1>3, <1>4 DEF Lchan
  <1>6. /\ d.type = c.type /\ d.state = st /\ d.conn = c.conn /\ d.T3101 = c.T3101 /\ d.T3111 = c.T3111
        /\ d.rqd_ref = c.rqd_ref /\ d.sapis = c.sapis /\ d.out = c.out
    BY <1>1, <1>4 DEF Lchan
  <1> HIDE <1>4
  <1>7. ChanFine(d)
    BY <1>5, <1>6 DEF ChanFine
  <1>8. ASSUME NEW b, Phase(c, b) PROVE Phase(d, b)
    <2>1. ~Ending(c, b)
      BY DEF Ending, Only
    <2>2. st = c.state
      BY <1>2, <1>8, <2>1 DEF Phase, Idle, Opening, GivenUp, Up, Releasing
    <2> QED  BY <1>6, <1>8, <2>1, <2>2 DEF Phase, Idle, Opening, GivenUp, Up, Releasing
  <1> QED  BY <1>2, <1>6, <1>7, <1>8

\* The MS sets up its link.
LEMMA EstIndFine ==
  ASSUME NEW c, ChanFine(c), NEW d, d = rll_est_ind(c, 0)
  PROVE  /\ ChanFine(d) /\ d.conn = c.conn /\ d.type = c.type /\ d.state = c.state /\ ~d.T3101 /\ d.out = c.out
         /\ d.rqd_ref = c.rqd_ref /\ \A b : Up(c, b) => Up(d, b)
  <1>1. c \in Lchan /\ c.sapis \in [Sapis -> SapiStates] /\ 0 \in Sapis
    BY SapisAssumption DEF ChanFine, Lchan
  <1>2. PICK f : f = [c.sapis EXCEPT ![0] = "MS"]  OBVIOUS
  <1>3. f \in [Sapis -> SapiStates] /\ \A s \in Sapis : s # 0 => f[s] = c.sapis[s]
    BY <1>1, <1>2 DEF SapiStates
  <1>4. d = [c EXCEPT !.sapis = f, !.T3101 = FALSE]
    BY <1>2 DEF rll_est_ind
  <1>5. d \in Lchan
    BY <1>1, <1>3, <1>4 DEF Lchan
  <1>6. /\ d.type = c.type /\ d.state = c.state /\ d.conn = c.conn /\ d.T3101 = FALSE /\ d.T3111 = c.T3111
        /\ d.rqd_ref = c.rqd_ref /\ d.sapis = f /\ d.out = c.out
    BY <1>1, <1>4 DEF Lchan
  <1> HIDE <1>4
  <1>7. ChanFine(d)
    BY <1>3, <1>5, <1>6 DEF ChanFine
  <1>8. \A b : Up(c, b) => Up(d, b)
    BY <1>6 DEF Up
  <1> QED  BY <1>6, <1>7, <1>8

-----------------------------------------------------------------------------
(* Connections, channels and handovers together *)

Net == [lc : [Lchans -> Lchan], conn : [Conns -> Conn], ho : SUBSET Handover, bad : SUBSET Bad]
HeldBy(x) == {x.lchan, x.secondary_lchan, x.ho_lchan} \ {NoLchan}

\* A connection: its channels differ; an assignment is timed and asked for by the MSC
\* side; only osmo-nitb hands over.
ConnFine(x) ==
    /\ x.alive => x.lchan # NoLchan
    /\ ~x.alive => x = NoConnection
    /\ x.lchan # NoLchan => x.lchan # x.secondary_lchan /\ x.lchan # x.ho_lchan
    /\ x.secondary_lchan # NoLchan => x.secondary_lchan # x.ho_lchan /\ x.T10
    /\ x.T10 => Assignments
    /\ x.ho_lchan # NoLchan => Nitb

ChansFine(S) == \A l \in Lchans : ChanFine(S.lc[l])
ConnsFine(S) == \A k \in Conns : ConnFine(S.conn[k])
Mutual(S) == \A l \in Lchans, k \in Conns : S.lc[l].conn = k <=> l \in HeldBy(S.conn[k])
Anchors(x, h) == x.ho_lchan = h.new_lchan /\ x.lchan = h.old_lchan
HosFine(S) ==
    /\ \A h \in S.ho : \E k \in Conns : Anchors(S.conn[k], h)
    /\ \A h, g \in S.ho : h.new_lchan = g.new_lchan => h = g
    /\ \A k \in Conns : S.conn[k].ho_lchan # NoLchan => \E h \in S.ho : h.new_lchan = S.conn[k].ho_lchan
\* The main channel of a connection has been activated; an assignment leads away from
\* an SDCCH, a handover from a traffic channel, so that there is one of them at a time.
MainUp(S, x) ==
    x.lchan # NoLchan =>
        /\ S.lc[x.lchan].state # "ACT_REQ"
        /\ x.secondary_lchan # NoLchan => S.lc[x.lchan].type = "SDCCH"
        /\ x.ho_lchan # NoLchan => S.lc[x.lchan].type # "SDCCH" /\ S.lc[x.ho_lchan].type # "SDCCH"

Core(S) ==
    /\ S \in Net /\ S.bad = {} /\ ChansFine(S) /\ ConnsFine(S) /\ Mutual(S) /\ HosFine(S)
    /\ \A k \in Conns : MainUp(S, S.conn[k])

\* The channels with what the BTS makes of them.
Phases(S, B) == \A l \in Lchans : Phase(S.lc[l], B[l])

\* The orders an MS has: ASSIGNMENT COMMAND leads from the main to the secondary
\* channel, which is up, unless the MS may answer late; with CHANNEL MODE MODIFY the
\* main channel is a traffic channel, and stays one.
OrdFine(S, k, R) ==
    /\ ~S.conn[k].alive => R = {}
    /\ \A o \in R :
        /\ o.cmd = "ASS" => Assignments
        /\ o.cmd = "ASS" /\ "late_ms" \notin Faults =>
              /\ o.new = S.conn[k].secondary_lchan /\ o.old = S.conn[k].lchan
              /\ S.lc[o.new].state # "ACT_REQ"
        /\ o.cmd = "MOD" /\ S.conn[k].lchan # NoLchan => S.lc[S.conn[k].lchan].type # "SDCCH"

BtsFine(B) == /\ B \in [Lchans -> [active : BOOLEAN, main : BOOLEAN]]
              /\ \A l \in Lchans : B[l].main => B[l].active

ApiInv ==
    /\ env \in Envs /\ OneAtATime /\ BtsFine(bts) /\ ms \in [Conns -> SUBSET Order]
    /\ Core(net) /\ Phases(net, bts)
    /\ \A k \in Conns : OrdFine(net, k, ms[k])

-----------------------------------------------------------------------------
(* Setting one part of the record *)

LEMMA NetFields ==
  ASSUME NEW S \in Net
  PROVE  /\ S.lc \in [Lchans -> Lchan] /\ S.conn \in [Conns -> Conn] /\ S.ho \in SUBSET Handover /\ S.bad \in SUBSET Bad
  BY DEF Net

WithLc(S, l, c) == [S EXCEPT !.lc[l] = c]
WithConn(S, k, x) == [S EXCEPT !.conn[k] = x]
WithHo(S, H) == [S EXCEPT !.ho = H]

LEMMA SetLc ==
  ASSUME NEW S \in Net, NEW l \in Lchans, NEW c \in Lchan, NEW T, T = WithLc(S, l, c)
  PROVE  /\ T \in Net /\ T.lc[l] = c /\ (\A m \in Lchans : m # l => T.lc[m] = S.lc[m])
         /\ T.conn = S.conn /\ T.ho = S.ho /\ T.bad = S.bad
  <1>1. PICK f : f = [S.lc EXCEPT ![l] = c]  OBVIOUS
  <1>2. f \in [Lchans -> Lchan] /\ f[l] = c /\ \A m \in Lchans : m # l => f[m] = S.lc[m]
    BY <1>1, NetFields
  <1>3. T = [S EXCEPT !.lc = f]
    BY <1>1 DEF WithLc
  <1> HIDE <1>1
  <1> QED  BY <1>2, <1>3 DEF Net

LEMMA SetConn ==
  ASSUME NEW S \in Net, NEW k \in Conns, NEW x \in Conn, NEW T, T = WithConn(S, k, x)
  PROVE  /\ T \in Net /\ T.conn[k] = x /\ (\A j \in Conns : j # k => T.conn[j] = S.conn[j])
         /\ T.lc = S.lc /\ T.ho = S.ho /\ T.bad = S.bad
  <1>1. PICK f : f = [S.conn EXCEPT ![k] = x]  OBVIOUS
  <1>2. f \in [Conns -> Conn] /\ f[k] = x /\ \A j \in Conns : j # k => f[j] = S.conn[j]
    BY <1>1, NetFields
  <1>3. T = [S EXCEPT !.conn = f]
    BY <1>1 DEF WithConn
  <1> HIDE <1>1
  <1> QED  BY <1>2, <1>3 DEF Net

LEMMA SetHo ==
  ASSUME NEW S \in Net, NEW H \in SUBSET Handover, NEW T, T = WithHo(S, H)
  PROVE  T \in Net /\ T.ho = H /\ T.lc = S.lc /\ T.conn = S.conn /\ T.bad = S.bad
  BY DEF Net, WithHo

LEMMA NoConnectionTyped == NoConnection \in Conn /\ HeldBy(NoConnection) = {} /\ ConnFine(NoConnection)
  BY DEF NoConnection, Conn, MaybeLchan, HeldBy, ConnFine

-----------------------------------------------------------------------------
(* Steps that keep the pointers *)

\* A step on channel l that leaves its owner alone.
LEMMA CoreChan ==
  ASSUME NEW S, Core(S), NEW l \in Lchans, NEW T, T \in Net, T.bad = {}, T.conn = S.conn, T.ho = S.ho,
         \A m \in Lchans : m # l => T.lc[m] = S.lc[m], ChanFine(T.lc[l]), T.lc[l].conn = S.lc[l].conn,
         T.lc[l].state = "ACT_REQ" => S.lc[l].state = "ACT_REQ" \/ S.lc[l].conn = NoConn,
         T.lc[l].type = S.lc[l].type \/ S.lc[l].conn = NoConn
  PROVE  Core(T)
  <1>1. ChansFine(T)
    BY DEF Core, ChansFine
  <1>2. ConnsFine(T) /\ HosFine(T)
    BY DEF Core, ConnsFine, HosFine
  <1>3. \A m \in Lchans : T.lc[m].conn = S.lc[m].conn
    OBVIOUS
  <1>4. Mutual(T)
    BY <1>3 DEF Core, Mutual
  <1>5. ASSUME NEW k \in Conns PROVE MainUp(T, T.conn[k])
    <2>1. MainUp(S, S.conn[k]) /\ S.conn[k] \in Conn
      BY NetFields DEF Core
    <2>2. l \in {S.conn[k].lchan, S.conn[k].ho_lchan} => S.lc[l].conn = k /\ k # NoConn
      BY ConnAssumption, ApiNullAssumption DEF Core, Mutual, HeldBy
    <2>3. \A m \in {S.conn[k].lchan, S.conn[k].ho_lchan} : m # NoLchan => m \in Lchans
      BY <2>1 DEF Conn, MaybeLchan
    <2> QED  BY <2>1, <2>2, <2>3 DEF MainUp
  <1> QED  BY <1>1, <1>2, <1>4, <1>5 DEF Core

HoStep(S, T, k) ==
    /\ \A h \in T.ho : \/ h \in S.ho /\ h.new_lchan # S.conn[k].ho_lchan
                       \/ Anchors(T.conn[k], h)
    /\ T.conn[k].ho_lchan # NoLchan => \E h \in T.ho : h.new_lchan = T.conn[k].ho_lchan
    /\ \A h \in S.ho : h.new_lchan # S.conn[k].ho_lchan => h \in T.ho
    /\ \A h, g \in T.ho : h.new_lchan = T.conn[k].ho_lchan /\ g.new_lchan = T.conn[k].ho_lchan => h = g

\* A step on connection k and its channels.
LEMMA CoreConn ==
  ASSUME NEW S, Core(S), NEW k \in Conns, NEW T, T \in Net, T.bad = {}, ChansFine(T),
         \A j \in Conns : j # k => T.conn[j] = S.conn[j], ConnFine(T.conn[k]),
         \A l \in Lchans : S.lc[l].conn \notin {NoConn, k} => T.lc[l] = S.lc[l],
         \A l \in Lchans : S.lc[l].conn \in {NoConn, k} => T.lc[l].conn \in {NoConn, k},
         \A l \in Lchans : T.lc[l].conn = k <=> l \in HeldBy(T.conn[k]),
         MainUp(T, T.conn[k]), HoStep(S, T, k)
  PROVE  Core(T)
  <1>1. ConnsFine(T)
    BY DEF Core, ConnsFine
  <1>2. Mutual(T)
    <2> SUFFICES ASSUME NEW l \in Lchans, NEW j \in Conns, j # k PROVE T.lc[l].conn = j <=> l \in HeldBy(T.conn[j])
      BY DEF Mutual
    <2>1. S.lc[l].conn = j <=> l \in HeldBy(S.conn[j])
      BY DEF Core, Mutual
    <2>2. T.conn[j] = S.conn[j] /\ j # NoConn
      BY ConnAssumption
    <2>3. T.lc[l].conn = j <=> S.lc[l].conn = j
      BY <2>2
    <2> QED  BY <2>1, <2>2, <2>3
  <1>3. HosFine(T)
    <2>1. ASSUME NEW h \in T.ho PROVE \E j \in Conns : Anchors(T.conn[j], h)
      <3>1. CASE Anchors(T.conn[k], h)
        BY <3>1
      <3>2. CASE h \in S.ho /\ h.new_lchan # S.conn[k].ho_lchan
        <4>1. PICK j \in Conns : Anchors(S.conn[j], h)
          BY <3>2 DEF Core, HosFine
        <4>2. j # k
          BY <3>2, <4>1 DEF Anchors
        <4> QED  BY <4>1, <4>2
      <3> QED  BY <3>1, <3>2 DEF HoStep
    <2>2. ASSUME NEW h \in T.ho, NEW g \in T.ho, h.new_lchan = g.new_lchan PROVE h = g
      <3>1. CASE h.new_lchan = T.conn[k].ho_lchan
        BY <2>2, <3>1 DEF HoStep
      <3>2. CASE h.new_lchan # T.conn[k].ho_lchan
        <4>1. h \in S.ho /\ g \in S.ho
          BY <2>2, <3>2 DEF HoStep, Anchors
        <4> QED  BY <2>2, <4>1 DEF Core, HosFine
      <3> QED  BY <3>1, <3>2
    <2>3. ASSUME NEW j \in Conns, T.conn[j].ho_lchan # NoLchan PROVE \E h \in T.ho : h.new_lchan = T.conn[j].ho_lchan
      <3>1. CASE j = k
        BY <2>3, <3>1 DEF HoStep
      <3>2. CASE j # k
        <4>1. T.conn[j] = S.conn[j]
          BY <3>2
        <4>2. PICK h \in S.ho : h.new_lchan = S.conn[j].ho_lchan
          BY <2>3, <4>1 DEF Core, HosFine
        <4>3. S.conn[j].ho_lchan \in Lchans
          BY <2>3, <4>1, NetFields DEF Core, Conn, MaybeLchan
        <4>4. S.lc[S.conn[j].ho_lchan].conn = j
          BY <2>3, <4>1, <4>3 DEF Core, Mutual, HeldBy
        <4>5. S.conn[j].ho_lchan # S.conn[k].ho_lchan
          BY <2>3, <3>2, <4>1, <4>3, <4>4 DEF Core, Mutual, HeldBy
        <4> QED  BY <4>1, <4>2, <4>5 DEF HoStep
      <3> QED  BY <3>1, <3>2
    <2> QED  BY <2>1, <2>2, <2>3 DEF HosFine
  <1>4. ASSUME NEW j \in Conns PROVE MainUp(T, T.conn[j])
    <2>1. CASE j = k
      BY <2>1
    <2>2. CASE j # k /\ S.conn[j].lchan # NoLchan
      <3>1. T.conn[j] = S.conn[j] /\ MainUp(S, S.conn[j])
        BY <2>2 DEF Core
      <3>2. \A m \in {S.conn[j].lchan, S.conn[j].ho_lchan} : m # NoLchan => m \in Lchans
        BY <2>2, NetFields DEF Core, Conn, MaybeLchan
      <3>3. \A m \in {S.conn[j].lchan, S.conn[j].ho_lchan} : m # NoLchan => S.lc[m].conn = j
        BY <2>2, <3>2 DEF Core, Mutual, HeldBy
      <3>4. \A m \in {S.conn[j].lchan, S.conn[j].ho_lchan} : m # NoLchan => T.lc[m] = S.lc[m]
        BY <2>2, <3>2, <3>3, ConnAssumption
      <3> QED  BY <2>2, <3>1, <3>4 DEF MainUp
    <2>3. CASE j # k /\ S.conn[j].lchan = NoLchan
      BY <2>3 DEF MainUp
    <2> QED  BY <2>1, <2>2, <2>3
  <1> QED  BY <1>1, <1>2, <1>3, <1>4 DEF Core

\* Orders stay good while the connection keeps what they are about.
LEMMA OrdKept ==
  ASSUME NEW S, NEW T, NEW k, NEW R, NEW Q, OrdFine(S, k, R), Q \subseteq R, ~T.conn[k].alive => Q = {},
         T.conn[k].lchan = S.conn[k].lchan, T.conn[k].secondary_lchan = S.conn[k].secondary_lchan,
         S.conn[k].lchan # NoLchan => T.lc[S.conn[k].lchan].type = S.lc[S.conn[k].lchan].type,
         "late_ms" \notin Faults => \A o \in Q : o.cmd = "ASS" /\ T.lc[o.new].state = "ACT_REQ" => S.lc[o.new].state = "ACT_REQ"
  PROVE  OrdFine(T, k, Q)
  BY DEF OrdFine

-----------------------------------------------------------------------------
(* Clearing a connection *)

Released(c, d) == \E sd \in BOOLEAN, r \in ReleaseModes : d = lchan_release(c, sd, r)
NoOwner(c) == [c EXCEPT !.conn = NoConn]

LEMMA NoOwnerFine ==
  ASSUME NEW c, ChanFine(c), NEW e, e = NoOwner(c)
  PROVE  /\ ChanFine(e) /\ e.conn = NoConn /\ e.state = c.state /\ e.type = c.type /\ e.out = c.out /\ e.T3101 = c.T3101
         /\ e.T3111 = c.T3111 /\ e.rqd_ref = c.rqd_ref
         /\ \A sd, r : lchan_release(e, sd, r) = lchan_release(c, sd, r)
  <1>1. c \in Lchan
    BY DEF ChanFine
  <1>2. e \in Lchan
    BY <1>1 DEF NoOwner, Lchan
  <1>3. /\ e.conn = NoConn /\ e.state = c.state /\ e.type = c.type /\ e.out = c.out /\ e.T3101 = c.T3101
        /\ e.T3111 = c.T3111 /\ e.rqd_ref = c.rqd_ref /\ e.sapis = c.sapis
    BY <1>1 DEF NoOwner, Lchan
  <1>4. ChanFine(e)
    BY <1>2, <1>3 DEF ChanFine
  <1>5. ASSUME NEW sd, NEW r PROVE lchan_release(e, sd, r) = lchan_release(c, sd, r)
    <2>1. [e EXCEPT !.state = "REL_REQ", !.conn = NoConn, !.release_reason = r, !.sach_deact = sd]
          = [c EXCEPT !.state = "REL_REQ", !.conn = NoConn, !.release_reason = r, !.sach_deact = sd]
      BY <1>1 DEF NoOwner, Lchan
    <2> QED  BY <2>1 DEF lchan_release
  <1> QED  BY <1>3, <1>4, <1>5

LEMMA ReleaseNet ==
  ASSUME NEW S \in Net, NEW l \in Lchans, ChanFine(S.lc[l]), NEW sd \in BOOLEAN, NEW r \in ReleaseModes,
         NEW T, T = Release(S, l, sd, r)
  PROVE  /\ T \in Net /\ T.lc[l] = lchan_release(S.lc[l], sd, r) /\ Released(S.lc[l], T.lc[l])
         /\ (\A m \in Lchans : m # l => T.lc[m] = S.lc[m])
         /\ T.conn = S.conn /\ T.ho = S.ho /\ T.bad = S.bad
  <1>1. PICK c : c = lchan_release(S.lc[l], sd, r)  OBVIOUS
  <1>2. c \in Lchan
    BY <1>1, ReleaseFine DEF ChanFine
  <1>3. T = WithLc(S, l, c)
    BY <1>1 DEF Release, WithLc
  <1>4. /\ T \in Net /\ T.lc[l] = c /\ (\A m \in Lchans : m # l => T.lc[m] = S.lc[m])
        /\ T.conn = S.conn /\ T.ho = S.ho /\ T.bad = S.bad
    BY <1>2, <1>3, SetLc
  <1>5. Released(S.lc[l], c)
    BY <1>1 DEF Released
  <1> QED  BY <1>1, <1>4, <1>5

\* Channel l has been released.
ReleasedAt(S, R, l) ==
    /\ R \in Net /\ Released(S.lc[l], R.lc[l]) /\ (\A m \in Lchans : m # l => R.lc[m] = S.lc[m])
    /\ R.conn = S.conn /\ R.ho = S.ho /\ R.bad = S.bad
\* The local end release most callers ask for.
LocalEnd(S, l) == Release(S, l, FALSE, "LOCAL_END")
LEMMA LocalEndNet ==
  ASSUME NEW S \in Net, NEW l \in Lchans, ChanFine(S.lc[l]), NEW R, R = LocalEnd(S, l)
  PROVE  ReleasedAt(S, R, l)
  <1>1. PICK r \in ReleaseModes : R = Release(S, l, FALSE, r)
    BY DEF ReleaseModes, LocalEnd
  <1>2. PICK sd \in BOOLEAN : R = Release(S, l, sd, r)
    BY <1>1
  <1> QED  BY <1>2, ReleaseNet DEF ReleasedAt

HosOf(S, l) == {h \in S.ho : h.new_lchan = l}
HasHo(S, l) == \E h \in S.ho : h.new_lchan = l
Without(S, l) == {h \in S.ho : h.new_lchan # l}

\* bsc_clear_handover() finds its record.
NoHo(x) == [x EXCEPT !.ho_lchan = NoLchan]
HoDropped(S, k) == bsc_clear_handover(S, k, FALSE)
HoReleased(S, k) == bsc_clear_handover(S, k, TRUE)
LEMMA ClearHandoverNet ==
  ASSUME NEW S \in Net, NEW k \in Conns, NEW new \in Lchans, S.conn[k].ho_lchan = new, ChanFine(S.lc[new]), HasHo(S, new),
         NEW T, T = HoDropped(S, k), NEW U, U = HoReleased(S, k)
  PROVE  /\ T \in Net /\ T.lc[new] = NoOwner(S.lc[new]) /\ (\A m \in Lchans : m # new => T.lc[m] = S.lc[m])
         /\ T.conn[k] = NoHo(S.conn[k]) /\ (\A j \in Conns : j # k => T.conn[j] = S.conn[j])
         /\ T.ho = Without(S, new) /\ T.bad = S.bad
         /\ U \in Net /\ Released(S.lc[new], U.lc[new]) /\ (\A m \in Lchans : m # new => U.lc[m] = S.lc[m])
         /\ U.conn = T.conn /\ U.ho = T.ho /\ U.bad = S.bad
  <1>1. PICK c : c = NoOwner(S.lc[new])  OBVIOUS
  <1>2. PICK x : x = NoHo(S.conn[k])  OBVIOUS
  <1>3. PICK H : H = Without(S, new)  OBVIOUS
  <1>4. ChanFine(c) /\ c \in Lchan /\ x \in Conn /\ H \in SUBSET Handover
    BY <1>1, <1>2, <1>3, NoOwnerFine, NetFields DEF ChanFine, Conn, MaybeLchan, Without, NoHo
  <1>5. PICK A : A = WithLc(S, new, c)  OBVIOUS
  <1>6. PICK B : B = WithConn(A, k, x)  OBVIOUS
  <1>7. PICK C : C = WithHo(B, H)  OBVIOUS
  <1>8. S.ho \ HosOf(S, new) = H
    BY <1>3 DEF HosOf, Without
  <1>9. C = [S EXCEPT !.lc[new].conn = NoConn, !.conn[k].ho_lchan = NoLchan, !.ho = @ \ HosOf(S, new)]
    BY <1>1, <1>2, <1>5, <1>6, <1>7, <1>8, NetFields DEF Net, NoOwner, NoHo, WithLc, WithConn, WithHo
  <1>10. T = C /\ U = Release(C, new, FALSE, "LOCAL_END")
    <2>1. HosOf(S, new) # {}
      BY DEF HasHo, HosOf
    <2> QED  BY <1>9, <2>1 DEF bsc_clear_handover, HosOf, HoDropped, HoReleased
  <1> HIDE <1>9
  <1>11. A \in Net /\ A.lc[new] = c /\ (\A m \in Lchans : m # new => A.lc[m] = S.lc[m])
         /\ A.conn = S.conn /\ A.ho = S.ho /\ A.bad = S.bad
    BY <1>4, <1>5, SetLc
  <1>12. B \in Net /\ B.conn[k] = x /\ (\A j \in Conns : j # k => B.conn[j] = A.conn[j])
         /\ B.lc = A.lc /\ B.ho = A.ho /\ B.bad = A.bad
    BY <1>4, <1>6, <1>11, SetConn
  <1>13. C \in Net /\ C.ho = H /\ C.lc = B.lc /\ C.conn = B.conn /\ C.bad = B.bad
    BY <1>4, <1>7, <1>12, SetHo
  <1>14. PICK r \in ReleaseModes : U = Release(C, new, FALSE, r)
    BY <1>10 DEF ReleaseModes
  <1>15. PICK sd \in BOOLEAN : U = Release(C, new, sd, r)
    BY <1>14
  <1>16. ChanFine(C.lc[new])
    BY <1>4, <1>11, <1>12, <1>13
  <1>17. /\ U \in Net /\ Released(C.lc[new], U.lc[new]) /\ (\A m \in Lchans : m # new => U.lc[m] = C.lc[m])
         /\ U.conn = C.conn /\ U.ho = C.ho /\ U.bad = C.bad
    BY <1>13, <1>15, <1>16, ReleaseNet
  <1>18. Released(c, U.lc[new])
    BY <1>11, <1>12, <1>13, <1>17
  <1>19. Released(S.lc[new], U.lc[new])
    BY <1>1, <1>18, NoOwnerFine DEF Released
  <1>20. /\ T \in Net /\ T.lc[new] = NoOwner(S.lc[new]) /\ (\A m \in Lchans : m # new => T.lc[m] = S.lc[m])
         /\ T.conn[k] = NoHo(S.conn[k]) /\ (\A j \in Conns : j # k => T.conn[j] = S.conn[j])
         /\ T.ho = Without(S, new) /\ T.bad = S.bad
    BY <1>1, <1>2, <1>3, <1>10, <1>11, <1>12, <1>13
  <1>21. /\ (\A m \in Lchans : m # new => U.lc[m] = S.lc[m])
         /\ U.conn = T.conn /\ U.ho = T.ho /\ U.bad = S.bad
    <2>1. T = C
      BY <1>10
    <2> QED  BY <1>17, <1>20, <2>1
  <1> QED  BY <1>17, <1>19, <1>20, <1>21

LEMMA HoDroppedNet ==
  ASSUME NEW S \in Net, NEW k \in Conns, NEW new \in Lchans, S.conn[k].ho_lchan = new, ChanFine(S.lc[new]), HasHo(S, new),
         NEW T, T = HoDropped(S, k)
  PROVE  /\ T \in Net /\ T.lc[new] = NoOwner(S.lc[new]) /\ (\A m \in Lchans : m # new => T.lc[m] = S.lc[m])
         /\ T.conn[k] = NoHo(S.conn[k]) /\ (\A j \in Conns : j # k => T.conn[j] = S.conn[j])
         /\ T.ho = Without(S, new) /\ T.bad = S.bad
  <1>1. PICK U : U = HoReleased(S, k)  OBVIOUS
  <1> QED  BY <1>1, ClearHandoverNet

\* What subscr_con_free() after gsm0808_clear() makes of connection k and its channels.
Clears(S, T, k) ==
    /\ T \in Net /\ T.bad = S.bad /\ T.conn[k] = NoConnection /\ \A j \in Conns : j # k => T.conn[j] = S.conn[j]
    /\ \A m \in Lchans : m \notin HeldBy(S.conn[k]) => T.lc[m] = S.lc[m]
    /\ \A m \in Lchans : m \in HeldBy(S.conn[k]) => Released(S.lc[m], T.lc[m])
    /\ T.ho = Without(S, S.conn[k].ho_lchan)

\* The connections this can be done to.
Clearable(S, x) ==
    /\ x.lchan # NoLchan => x.lchan # x.secondary_lchan /\ x.lchan # x.ho_lchan
    /\ x.secondary_lchan # NoLchan => x.secondary_lchan # x.ho_lchan
    /\ \A m \in HeldBy(x) : ChanFine(S.lc[m])
    /\ x.ho_lchan # NoLchan => HasHo(S, x.ho_lchan)

Bare(x) == [x EXCEPT !.lchan = NoLchan, !.secondary_lchan = NoLchan, !.ho_lchan = NoLchan, !.T10 = FALSE]

LEMMA ClearHandoverDoes ==
  ASSUME NEW S \in Net, NEW k \in Conns, NEW x, x = S.conn[k], Clearable(S, x), NEW T, T = ClearHandover(S, k)
  PROVE  /\ T \in Net /\ T.bad = S.bad /\ T.conn[k] \in Conn
         /\ T.conn[k].lchan = x.lchan /\ T.conn[k].secondary_lchan = x.secondary_lchan
         /\ \A j \in Conns : j # k => T.conn[j] = S.conn[j]
         /\ \A m \in Lchans : m # x.ho_lchan => T.lc[m] = S.lc[m]
         /\ \A m \in Lchans : m = x.ho_lchan => Released(S.lc[m], T.lc[m])
         /\ T.ho = Without(S, x.ho_lchan)
  <1>1. x \in Conn /\ x.ho_lchan \in Lchans \cup {NoLchan} /\ S.ho \subseteq Handover
    BY NetFields DEF Conn, MaybeLchan
  <1>2. CASE x.ho_lchan = NoLchan
    <2>1. T = S
      BY <1>2 DEF ClearHandover, HoReleased
    <2>2. \A h \in S.ho : h.new_lchan # NoLchan
      BY <1>1, ApiNullAssumption DEF Handover
    <2>3. Without(S, x.ho_lchan) = S.ho
      BY <1>2, <2>2 DEF Without
    <2> QED  BY <1>1, <1>2, <2>1, <2>3, ApiNullAssumption
  <1>3. CASE x.ho_lchan # NoLchan
    <2>1. PICK new \in Lchans : x.ho_lchan = new
      BY <1>1, <1>3
    <2>2. T = HoReleased(S, k)
      BY <1>3 DEF ClearHandover, HoReleased
    <2>3. ChanFine(S.lc[new]) /\ HasHo(S, new)
      BY <1>3, <2>1 DEF Clearable, HeldBy
    <2>4. PICK U : U = HoDropped(S, k)  OBVIOUS
    <2>5. /\ U.conn[k] = NoHo(x) /\ (\A j \in Conns : j # k => U.conn[j] = S.conn[j]) /\ U.ho = Without(S, new)
          /\ T \in Net /\ Released(S.lc[new], T.lc[new]) /\ (\A m \in Lchans : m # new => T.lc[m] = S.lc[m])
          /\ T.conn = U.conn /\ T.ho = U.ho /\ T.bad = S.bad
      BY <2>1, <2>2, <2>3, <2>4, ClearHandoverNet
    <2>6. NoHo(x) \in Conn /\ NoHo(x).lchan = x.lchan /\ NoHo(x).secondary_lchan = x.secondary_lchan
      BY <1>1 DEF NoHo, Conn, MaybeLchan
    <2> QED  BY <2>1, <2>5, <2>6
  <1> QED  BY <1>2, <1>3

LEMMA ClearSecondaryDoes ==
  ASSUME NEW S \in Net, NEW k \in Conns, NEW s, s = S.conn[k].secondary_lchan, s # NoLchan => ChanFine(S.lc[s]), NEW T, T = ClearSecondary(S, k)
  PROVE  /\ T \in Net /\ T.bad = S.bad /\ T.conn = S.conn /\ T.ho = S.ho
         /\ \A m \in Lchans : m # s => T.lc[m] = S.lc[m]
         /\ \A m \in Lchans : m = s => Released(S.lc[m], T.lc[m])
  <1>1. s \in Lchans \cup {NoLchan}
    BY NetFields DEF Conn, MaybeLchan
  <1>2. CASE s = NoLchan
    BY <1>2, ApiNullAssumption DEF ClearSecondary
  <1>3. CASE s # NoLchan
    <2>1. PICK r \in ReleaseModes : T = Release(S, s, FALSE, r)
      BY <1>3 DEF ClearSecondary, ReleaseModes
    <2>2. PICK sd \in BOOLEAN : T = Release(S, s, sd, r)
      BY <2>1
    <2> QED  BY <1>1, <1>3, <2>2, ReleaseNet
  <1> QED  BY <1>2, <1>3

LEMMA ClearMainDoes ==
  ASSUME NEW S \in Net, NEW k \in Conns, NEW s, s = S.conn[k].lchan, s # NoLchan => ChanFine(S.lc[s]), NEW T, T = ClearMain(S, k)
  PROVE  /\ T \in Net /\ T.bad = S.bad /\ T.conn = S.conn /\ T.ho = S.ho
         /\ \A m \in Lchans : m # s => T.lc[m] = S.lc[m]
         /\ \A m \in Lchans : m = s => Released(S.lc[m], T.lc[m])
  <1>1. s \in Lchans \cup {NoLchan}
    BY NetFields DEF Conn, MaybeLchan
  <1>2. CASE s = NoLchan
    BY <1>2, ApiNullAssumption DEF ClearMain
  <1>3. CASE s # NoLchan
    <2>1. PICK r \in ReleaseModes : T = Release(S, s, TRUE, r)
      BY <1>3 DEF ClearMain, ReleaseModes
    <2>2. PICK sd \in BOOLEAN : T = Release(S, s, sd, r)
      BY <2>1
    <2> QED  BY <1>1, <1>3, <2>2, ReleaseNet
  <1> QED  BY <1>2, <1>3

\* subscr_con_free() of a connection without channels.
LEMMA FreeBare ==
  ASSUME NEW S \in Net, NEW k \in Conns, HeldBy(S.conn[k]) = {}, NEW T, T = subscr_con_free(S, k)
  PROVE  /\ T \in Net /\ T.bad = S.bad /\ T.lc = S.lc /\ T.ho = S.ho /\ T.conn[k] = NoConnection
         /\ \A j \in Conns : j # k => T.conn[j] = S.conn[j]
  <1>1. Held(S, k) = {}
    BY DEF Held, HeldBy
  <1>2. PICK f : f = [l \in Lchans |-> S.lc[l]]  OBVIOUS
  <1>3. f = S.lc
    BY <1>2, NetFields
  <1>4. T = [S EXCEPT !.conn[k] = NoConnection, !.lc = f]
    BY <1>1, <1>2 DEF subscr_con_free
  <1>5. [S EXCEPT !.conn[k] = NoConnection, !.lc = S.lc] = WithConn(S, k, NoConnection)
    BY DEF WithConn, Net
  <1>6. T = WithConn(S, k, NoConnection)
    BY <1>3, <1>4, <1>5
  <1> QED  BY <1>6, SetConn, NoConnectionTyped

LEMMA BareDoes ==
  ASSUME NEW x \in Conn, NEW y, y = Bare(x)
  PROVE  y \in Conn /\ HeldBy(y) = {}
  <1>1. y \in Conn /\ y.lchan = NoLchan /\ y.secondary_lchan = NoLchan /\ y.ho_lchan = NoLchan
    BY DEF Bare, Conn, MaybeLchan
  <1> QED  BY <1>1 DEF HeldBy

Cleared(S, k) ==
    [S EXCEPT !.conn[k].lchan = NoLchan, !.conn[k].secondary_lchan = NoLchan, !.conn[k].ho_lchan = NoLchan, !.conn[k].T10 = FALSE]

LEMMA ClearIs ==
  ASSUME NEW S, NEW k
  PROVE  gsm0808_clear(S, k) = Cleared(ClearMain(ClearSecondary(ClearHandover(S, k), k), k), k)
  BY DEF gsm0808_clear, Cleared

LEMMA ClearDoes ==
  ASSUME NEW S \in Net, NEW k \in Conns, NEW x, x = S.conn[k], Clearable(S, x),
         NEW T, T = subscr_con_free(gsm0808_clear(S, k), k)
  PROVE  Clears(S, T, k)
  <1>1. PICK S1 : S1 = ClearHandover(S, k)  OBVIOUS
  <1>2. PICK S2 : S2 = ClearSecondary(S1, k)  OBVIOUS
  <1>3. PICK S3 : S3 = ClearMain(S2, k)  OBVIOUS
  <1>4. PICK y : y = Bare(S3.conn[k])  OBVIOUS
  <1>5. PICK S4 : S4 = WithConn(S3, k, y)  OBVIOUS
  <1>6. /\ S1 \in Net /\ S1.bad = S.bad /\ S1.conn[k] \in Conn
        /\ S1.conn[k].lchan = x.lchan /\ S1.conn[k].secondary_lchan = x.secondary_lchan
        /\ \A j \in Conns : j # k => S1.conn[j] = S.conn[j]
        /\ \A m \in Lchans : m # x.ho_lchan => S1.lc[m] = S.lc[m]
        /\ \A m \in Lchans : m = x.ho_lchan => Released(S.lc[m], S1.lc[m])
        /\ S1.ho = Without(S, x.ho_lchan)
    BY <1>1, ClearHandoverDoes
  <1>7. PICK s : s = x.secondary_lchan  OBVIOUS
  <1>8. PICK l : l = x.lchan  OBVIOUS
  <1>9. PICK n : n = x.ho_lchan  OBVIOUS
  <1>10. s \in MaybeLchan /\ l \in MaybeLchan /\ n \in MaybeLchan
    BY <1>7, <1>8, <1>9, NetFields DEF Conn
  <1>11. /\ l # NoLchan => l # s /\ l # n /\ ChanFine(S.lc[l])
         /\ s # NoLchan => s # n /\ ChanFine(S.lc[s])
    BY <1>7, <1>8, <1>9 DEF Clearable, HeldBy
  <1>12. /\ S2 \in Net /\ S2.bad = S1.bad /\ S2.conn = S1.conn /\ S2.ho = S1.ho
         /\ \A m \in Lchans : m # s => S2.lc[m] = S1.lc[m]
         /\ \A m \in Lchans : m = s => Released(S1.lc[m], S2.lc[m])
    <2>1. s # NoLchan => ChanFine(S1.lc[s])
      BY <1>6, <1>9, <1>10, <1>11 DEF MaybeLchan
    <2>2. s = S1.conn[k].secondary_lchan
      BY <1>6, <1>7
    <2> QED  BY <1>2, <1>6, <2>1, <2>2, ClearSecondaryDoes
  <1>13. /\ S3 \in Net /\ S3.bad = S2.bad /\ S3.conn = S2.conn /\ S3.ho = S2.ho
         /\ \A m \in Lchans : m # l => S3.lc[m] = S2.lc[m]
         /\ \A m \in Lchans : m = l => Released(S2.lc[m], S3.lc[m])
    <2>1. l # NoLchan => ChanFine(S2.lc[l])
      BY <1>6, <1>9, <1>10, <1>11, <1>12 DEF MaybeLchan
    <2>2. l = S2.conn[k].lchan
      BY <1>6, <1>8, <1>12
    <2> QED  BY <1>3, <1>12, <2>1, <2>2, ClearMainDoes
  <1>14. y \in Conn /\ HeldBy(y) = {}
    BY <1>4, <1>13, NetFields, BareDoes
  <1>15. S4 \in Net /\ S4.conn[k] = y /\ (\A j \in Conns : j # k => S4.conn[j] = S3.conn[j])
         /\ S4.lc = S3.lc /\ S4.ho = S3.ho /\ S4.bad = S3.bad
    BY <1>5, <1>13, <1>14, SetConn
  <1>16. gsm0808_clear(S, k) = S4
    <2>1. S4 = Cleared(S3, k)
      BY <1>4, <1>5, <1>13, NetFields DEF WithConn, Bare, Net, Conn, Cleared
    <2> QED  BY <1>1, <1>2, <1>3, <2>1, ClearIs
  <1>17. /\ T \in Net /\ T.bad = S4.bad /\ T.lc = S4.lc /\ T.ho = S4.ho /\ T.conn[k] = NoConnection
         /\ \A j \in Conns : j # k => T.conn[j] = S4.conn[j]
    BY <1>14, <1>15, <1>16, FreeBare
  <1>18. ASSUME NEW m \in Lchans, m \notin HeldBy(S.conn[k]) PROVE T.lc[m] = S.lc[m]
    <2>1. m # l /\ m # s /\ m # n
      BY <1>7, <1>8, <1>9, <1>18, ApiNullAssumption DEF HeldBy
    <2> QED  BY <1>6, <1>9, <1>12, <1>13, <1>15, <1>17, <2>1
  <1>19. ASSUME NEW m \in Lchans, m \in HeldBy(S.conn[k]) PROVE Released(S.lc[m], T.lc[m])
    <2>1. T.lc[m] = S3.lc[m] /\ m # NoLchan
      BY <1>15, <1>17, ApiNullAssumption
    <2>2. m = l \/ m = s \/ m = n
      BY <1>7, <1>8, <1>9, <1>19 DEF HeldBy
    <2>3. CASE m = l
      BY <1>6, <1>9, <1>11, <1>12, <1>13, <2>1, <2>3
    <2>4. CASE m = s
      BY <1>6, <1>9, <1>11, <1>12, <1>13, <2>1, <2>4
    <2>5. CASE m = n
      BY <1>6, <1>9, <1>11, <1>12, <1>13, <2>1, <2>5
    <2> QED  BY <2>2, <2>3, <2>4, <2>5
  <1>20. T.bad = S.bad /\ T.ho = Without(S, S.conn[k].ho_lchan) /\ \A j \in Conns : j # k => T.conn[j] = S.conn[j]
    BY <1>6, <1>12, <1>13, <1>15, <1>17
  <1> QED  BY <1>17, <1>18, <1>19, <1>20 DEF Clears

\* What clearing does to a sound record.  Channel l may have been freed before.
LEMMA CoreClearable ==
  ASSUME NEW S, Core(S), NEW k \in Conns
  PROVE  Clearable(S, S.conn[k])
  <1>1. S.conn[k] \in Conn /\ ConnFine(S.conn[k])
    BY NetFields DEF Core, ConnsFine
  <1>2. \A m \in HeldBy(S.conn[k]) : m \in Lchans
    BY <1>1 DEF HeldBy, Conn, MaybeLchan
  <1>3. \A m \in HeldBy(S.conn[k]) : ChanFine(S.lc[m])
    BY <1>2 DEF Core, ChansFine
  <1>4. S.conn[k].ho_lchan # NoLchan => HasHo(S, S.conn[k].ho_lchan)
    BY DEF Core, HosFine, HasHo
  <1> QED  BY <1>1, <1>3, <1>4 DEF Clearable, ConnFine

\* Connection k is gone, its channels have no owner.
Gone(S, T, k) ==
    /\ T \in Net /\ T.bad = {} /\ T.conn[k] = NoConnection /\ \A j \in Conns : j # k => T.conn[j] = S.conn[j]
    /\ \A m \in Lchans : m \notin HeldBy(S.conn[k]) => T.lc[m] = S.lc[m]
    /\ \A m \in Lchans : m \in HeldBy(S.conn[k]) => ChanFine(T.lc[m]) /\ T.lc[m].conn = NoConn
    /\ T.ho = Without(S, S.conn[k].ho_lchan)

LEMMA GoneCore ==
  ASSUME NEW S, Core(S), NEW k \in Conns, NEW T, Gone(S, T, k)
  PROVE  Core(T)
  <1>1. \A m \in Lchans : S.lc[m].conn = k <=> m \in HeldBy(S.conn[k])
    BY DEF Core, Mutual
  <1>2. k # NoConn
    BY ConnAssumption
  <1>3. ChansFine(T)
    BY DEF Core, ChansFine, Gone
  <1>4. ConnFine(T.conn[k]) /\ HeldBy(T.conn[k]) = {}
    BY NoConnectionTyped DEF Gone
  <1>5. \A l \in Lchans : S.lc[l].conn \notin {NoConn, k} => T.lc[l] = S.lc[l]
    BY <1>1 DEF Gone
  <1>6. \A l \in Lchans : S.lc[l].conn \in {NoConn, k} => T.lc[l].conn = NoConn
    BY <1>1 DEF Gone
  <1>7. \A l \in Lchans : T.lc[l].conn = k <=> l \in HeldBy(T.conn[k])
    BY <1>2, <1>4, <1>5, <1>6
  <1>8. T.conn[k].lchan = NoLchan /\ T.conn[k].ho_lchan = NoLchan
    BY DEF Gone, NoConnection
  <1>9. MainUp(T, T.conn[k])
    BY <1>8 DEF MainUp
  <1>10. \A h \in T.ho : h \in S.ho /\ h.new_lchan # S.conn[k].ho_lchan
    BY DEF Gone, Without
  <1>11. \A h \in T.ho : h.new_lchan # NoLchan
    BY <1>10, NetFields, ApiNullAssumption DEF Core, Handover
  <1>12. HoStep(S, T, k)
    BY <1>8, <1>10, <1>11 DEF HoStep, Gone, Without
  <1> QED  BY <1>3, <1>4, <1>5, <1>6, <1>7, <1>9, <1>12, CoreConn DEF Gone

LEMMA ClearGone ==
  ASSUME NEW S, Core(S), NEW k \in Conns, NEW T, T = subscr_con_free(gsm0808_clear(S, k), k)
  PROVE  Gone(S, T, k) /\ \A m \in Lchans : m \in HeldBy(S.conn[k]) => Released(S.lc[m], T.lc[m])
  <1>1. Clears(S, T, k)
    BY CoreClearable, ClearDoes DEF Core
  <1>2. ASSUME NEW m \in Lchans, m \in HeldBy(S.conn[k]) PROVE ChanFine(T.lc[m]) /\ T.lc[m].conn = NoConn
    <2>1. ChanFine(S.lc[m])
      BY DEF Core, ChansFine
    <2>2. PICK sd \in BOOLEAN, r \in ReleaseModes : T.lc[m] = lchan_release(S.lc[m], sd, r)
      BY <1>1, <1>2 DEF Clears, Released
    <2> QED  BY <2>1, <2>2, ReleaseFine
  <1> QED  BY <1>1, <1>2 DEF Clears, Gone, Core

\* The phases of released channels.
LEMMA ReleasedPhase ==
  ASSUME NEW c, ChanFine(c), c.conn # NoConn, NEW d, Released(c, d), NEW b, Phase(c, b)
  PROVE  Phase(d, b)
  <1>1. PICK sd \in BOOLEAN, r \in ReleaseModes : d = lchan_release(c, sd, r)
    BY DEF Released
  <1>2. ~c.T3101 /\ ~c.rqd_ref
    BY DEF ChanFine, Lchan
  <1> QED  BY <1>1, <1>2, ReleasePhase

-----------------------------------------------------------------------------
(* Freeing a channel *)

LEMMA AssignFailIs == ASSUME NEW S, ~Nitb PROVE assign_fail(S) = S
  BY DEF assign_fail

LEMMA FailsTyped ==
  ASSUME NEW S \in Net, S.bad = {}, NEW what \in Bad
  PROVE  Fails(S, what) \in Net /\ Fails(S, what).bad = {what}
  BY DEF Fails, Net

NoSec(x) == [x EXCEPT !.T10 = FALSE, !.secondary_lchan = NoLchan]
NoMain(x) == [x EXCEPT !.lchan = NoLchan]
SecDropped(S, k) == [S EXCEPT !.conn[k].T10 = FALSE, !.conn[k].secondary_lchan = NoLchan]
MainDropped(S, k) == [S EXCEPT !.conn[k].lchan = NoLchan]
HoForgot(S, k) == [S EXCEPT !.conn[k].ho_lchan = NoLchan]
OwnerDropped(S, l) == [S EXCEPT !.lc[l].conn = NoConn]

Drop1(S, k, l) == IF S.conn[k].secondary_lchan # l THEN S ELSE assign_fail(SecDropped(S, k))
Drop2(S, k, l) == IF S.conn[k].lchan = l THEN MainDropped(S, k) ELSE S
Drop3(S, k, l) == IF S.conn[k].ho_lchan # l THEN S ELSE HoForgot(HoDropped(S, k), k)

LEMMA HandleReleaseIs ==
  ASSUME NEW S, NEW k, NEW l
  PROVE  handle_release(S, k, l)
         = IF Drop1(S, k, l).bad # {} THEN Drop1(S, k, l)
           ELSE subscr_con_free(gsm0808_clear(OwnerDropped(Drop3(Drop2(Drop1(S, k, l), k, l), k, l), l), k), k)
  BY Zenon DEF handle_release, Drop1, Drop2, Drop3, SecDropped, MainDropped, HoForgot, OwnerDropped, HoDropped

LEMMA DropsAre ==
  ASSUME NEW S \in Net, NEW k \in Conns, NEW l \in Lchans
  PROVE  /\ SecDropped(S, k) = WithConn(S, k, NoSec(S.conn[k])) /\ MainDropped(S, k) = WithConn(S, k, NoMain(S.conn[k]))
         /\ HoForgot(S, k) = WithConn(S, k, NoHo(S.conn[k])) /\ OwnerDropped(S, l) = WithLc(S, l, NoOwner(S.lc[l]))
  <1>1. SecDropped(S, k) = WithConn(S, k, NoSec(S.conn[k]))
    BY NetFields DEF SecDropped, WithConn, NoSec, Net, Conn
  <1>2. MainDropped(S, k) = WithConn(S, k, NoMain(S.conn[k]))
    BY NetFields DEF MainDropped, WithConn, NoMain, Net, Conn
  <1>3. HoForgot(S, k) = WithConn(S, k, NoHo(S.conn[k]))
    BY NetFields DEF HoForgot, WithConn, NoHo, Net, Conn
  <1>4. OwnerDropped(S, l) = WithLc(S, l, NoOwner(S.lc[l]))
    BY NetFields DEF OwnerDropped, WithLc, NoOwner, Net
  <1> QED  BY <1>1, <1>2, <1>3, <1>4

Minus(a, l) == IF a = l THEN NoLchan ELSE a
LacksOnly(x, y, l) ==
    /\ y \in Conn /\ y.lchan = Minus(x.lchan, l) /\ y.secondary_lchan = Minus(x.secondary_lchan, l)
    /\ y.ho_lchan = Minus(x.ho_lchan, l)

LEMMA PointerDropped ==
  ASSUME NEW x \in Conn, ConnFine(x), NEW l \in Lchans
  PROVE  /\ l = x.secondary_lchan => LacksOnly(x, NoSec(x), l)
         /\ l = x.lchan => LacksOnly(x, NoMain(x), l)
         /\ l = x.ho_lchan => LacksOnly(x, NoHo(x), l) /\ NoHo(NoHo(x)) = NoHo(x)
  <1>1. l # NoLchan
    BY ApiNullAssumption
  <1>2. NoSec(x) \in Conn /\ NoSec(x).lchan = x.lchan /\ NoSec(x).secondary_lchan = NoLchan /\ NoSec(x).ho_lchan = x.ho_lchan
    BY DEF NoSec, Conn, MaybeLchan
  <1>3. NoMain(x) \in Conn /\ NoMain(x).lchan = NoLchan /\ NoMain(x).secondary_lchan = x.secondary_lchan /\ NoMain(x).ho_lchan = x.ho_lchan
    BY DEF NoMain, Conn, MaybeLchan
  <1>4. NoHo(x) \in Conn /\ NoHo(x).lchan = x.lchan /\ NoHo(x).secondary_lchan = x.secondary_lchan /\ NoHo(x).ho_lchan = NoLchan
    BY DEF NoHo, Conn, MaybeLchan
  <1>5. NoHo(NoHo(x)) = NoHo(x)
    BY DEF NoHo, Conn
  <1> QED  BY <1>1, <1>2, <1>3, <1>4, <1>5 DEF LacksOnly, Minus, ConnFine

\* Channel l, now c, is no longer held by connection k.
Dropped(S, U, k, l, c) ==
    /\ U \in Net /\ U.bad = {} /\ U.lc[l] = c /\ (\A m \in Lchans : m # l => U.lc[m] = S.lc[m])
    /\ (\A j \in Conns : j # k => U.conn[j] = S.conn[j]) /\ LacksOnly(S.conn[k], U.conn[k], l)
    /\ U.ho = Without(S, l)

\* Only the handover channel of a connection is the aim of a handover.
LEMMA HosAtHoLchan ==
  ASSUME NEW S, Core(S), NEW k \in Conns, NEW l \in Lchans, S.lc[l].conn = k \/ S.lc[l].conn = NoConn,
         NEW h \in S.ho, h.new_lchan = l
  PROVE  S.conn[k].ho_lchan = l /\ S.lc[l].conn = k
  <1>1. PICK j \in Conns : Anchors(S.conn[j], h)
    BY DEF Core, HosFine
  <1>2. l \in HeldBy(S.conn[j])
    BY <1>1, ApiNullAssumption DEF Anchors, HeldBy
  <1>3. S.lc[l].conn = j
    BY <1>2 DEF Core, Mutual
  <1> QED  BY <1>1, <1>3, ConnAssumption DEF Anchors

LEMMA NoOwnerAlready ==
  ASSUME NEW c \in Lchan, c.conn = NoConn PROVE NoOwner(c) = c
  BY DEF NoOwner, Lchan

LEMMA DropDoes ==
  ASSUME NEW S, Core(S), NEW k \in Conns, NEW l \in Lchans, S.lc[l].conn = k, S.conn[k].secondary_lchan = l => ~Nitb,
         NEW c, ChanFine(c), c.conn = NoConn, NEW A, A = WithLc(S, l, c),
         NEW U, U = OwnerDropped(Drop3(Drop2(Drop1(A, k, l), k, l), k, l), l)
  PROVE  Dropped(S, U, k, l, c) /\ Drop1(A, k, l).bad = {}
  <1>1. S \in Net /\ S.bad = {} /\ c \in Lchan
    BY DEF Core, ChanFine
  <1>2. A \in Net /\ A.lc[l] = c /\ (\A m \in Lchans : m # l => A.lc[m] = S.lc[m])
        /\ A.conn = S.conn /\ A.ho = S.ho /\ A.bad = S.bad
    BY <1>1, SetLc
  <1>3. PICK x : x = S.conn[k]  OBVIOUS
  <1>4. x \in Conn /\ ConnFine(x) /\ l \in HeldBy(x) /\ x = A.conn[k] /\ l # NoLchan
    BY <1>1, <1>2, <1>3, NetFields, ApiNullAssumption DEF Core, ConnsFine, Mutual
  <1>5. NoOwner(c) = c
    BY <1>1, NoOwnerAlready
  \* Whatever has been done so far, the last step changes nothing.
  <1>6. ASSUME NEW B \in Net, B.lc[l] = c, (\A m \in Lchans : m # l => B.lc[m] = S.lc[m]), B.bad = {},
               \A j \in Conns : j # k => B.conn[j] = S.conn[j], LacksOnly(x, B.conn[k], l), B.ho = Without(S, l),
               U = OwnerDropped(B, l)
        PROVE  Dropped(S, U, k, l, c)
    <2>1. U = WithLc(B, l, c)
      BY <1>5, <1>6, DropsAre
    <2>2. U \in Net /\ U.lc[l] = c /\ (\A m \in Lchans : m # l => U.lc[m] = B.lc[m])
          /\ U.conn = B.conn /\ U.ho = B.ho /\ U.bad = B.bad
      BY <1>1, <1>6, <2>1, SetLc
    <2> QED  BY <1>3, <1>6, <2>2 DEF Dropped
  <1>7. ASSUME l # x.ho_lchan PROVE S.ho = Without(S, l)
    <2>1. \A h \in S.ho : h.new_lchan # l
      BY <1>3, <1>7, HosAtHoLchan
    <2> QED  BY <2>1 DEF Without
  \* Cases of one pointer set to null.
  <1>8. ASSUME NEW y, LacksOnly(x, y, l), l # x.ho_lchan, U = OwnerDropped(WithConn(A, k, y), l)
        PROVE  Dropped(S, U, k, l, c)
    <2>1. PICK B : B = WithConn(A, k, y)  OBVIOUS
    <2>2. y \in Conn
      BY <1>8 DEF LacksOnly
    <2>3. B \in Net /\ B.conn[k] = y /\ (\A j \in Conns : j # k => B.conn[j] = A.conn[j])
          /\ B.lc = A.lc /\ B.ho = A.ho /\ B.bad = A.bad
      BY <1>2, <2>1, <2>2, SetConn
    <2> QED  BY <1>1, <1>2, <1>6, <1>7, <1>8, <2>1, <2>3
  <1>9. CASE l = x.secondary_lchan
    <2>1. x.lchan # l /\ x.ho_lchan # l /\ ~Nitb
      BY <1>3, <1>4, <1>9 DEF ConnFine
    <2>2. PICK y : y = NoSec(x)  OBVIOUS
    <2>3. PICK B : B = WithConn(A, k, y)  OBVIOUS
    <2>4. Drop1(A, k, l) = B
      BY <1>2, <1>4, <1>9, <2>1, <2>2, <2>3, DropsAre, AssignFailIs DEF Drop1
    <2>5. LacksOnly(x, y, l)
      BY <1>4, <1>9, <2>2, PointerDropped
    <2>6. B.conn[k] = y
      BY <1>2, <2>3, <2>5, SetConn DEF LacksOnly
    <2>7. y.lchan # l /\ y.ho_lchan # l
      BY <1>4, <2>5 DEF LacksOnly, Minus
    <2>8. Drop3(Drop2(B, k, l), k, l) = B
      BY <2>6, <2>7 DEF Drop2, Drop3
    <2>9. B.bad = {}
      BY <1>1, <1>2, <2>3, <2>5, SetConn DEF LacksOnly
    <2> QED  BY <1>8, <2>1, <2>3, <2>4, <2>5, <2>8, <2>9
  <1>10. CASE l = x.lchan
    <2>1. x.secondary_lchan # l /\ x.ho_lchan # l
      BY <1>4, <1>10 DEF ConnFine
    <2>2. PICK y : y = NoMain(x)  OBVIOUS
    <2>3. PICK B : B = WithConn(A, k, y)  OBVIOUS
    <2>4. Drop1(A, k, l) = A
      BY <1>4, <2>1 DEF Drop1
    <2>5. Drop2(A, k, l) = B
      BY <1>2, <1>4, <1>10, <2>2, <2>3, DropsAre DEF Drop2
    <2>6. LacksOnly(x, y, l)
      BY <1>4, <1>10, <2>2, PointerDropped
    <2>7. B.conn[k] = y
      BY <1>2, <2>3, <2>6, SetConn DEF LacksOnly
    <2>8. y.ho_lchan # l
      BY <1>4, <2>6 DEF LacksOnly, Minus
    <2>9. Drop3(B, k, l) = B
      BY <2>7, <2>8 DEF Drop3
    <2> QED  BY <1>1, <1>2, <1>8, <2>1, <2>3, <2>4, <2>5, <2>6, <2>9
  <1>11. CASE l = x.ho_lchan
    <2>1. x.secondary_lchan # l /\ x.lchan # l
      BY <1>4, <1>11 DEF ConnFine
    <2>2. Drop1(A, k, l) = A /\ Drop2(Drop1(A, k, l), k, l) = A
      BY <1>4, <2>1 DEF Drop1, Drop2
    <2>3. PICK D : D = HoDropped(A, k)  OBVIOUS
    <2>4. HasHo(A, l)
      BY <1>2, <1>3, <1>4, <1>11 DEF Core, HosFine, HasHo
    <2>6. /\ D \in Net /\ D.lc[l] = NoOwner(A.lc[l]) /\ (\A m \in Lchans : m # l => D.lc[m] = A.lc[m])
          /\ D.conn[k] = NoHo(A.conn[k]) /\ (\A j \in Conns : j # k => D.conn[j] = A.conn[j])
          /\ D.ho = Without(A, l) /\ D.bad = A.bad
      <3>1. A \in Net /\ A.conn[k].ho_lchan = l /\ ChanFine(A.lc[l])
        BY <1>2, <1>4, <1>11
      <3> QED  BY <2>3, <2>4, <3>1, HoDroppedNet
    <2>7. PICK y : y = NoHo(x)  OBVIOUS
    <2>8. LacksOnly(x, y, l) /\ NoHo(y) = y /\ y \in Conn
      BY <1>4, <1>11, <2>7, PointerDropped DEF LacksOnly
    <2>9. PICK B : B = HoForgot(D, k)  OBVIOUS
    <2>10. B = WithConn(D, k, y)
      BY <1>4, <2>6, <2>7, <2>8, <2>9, DropsAre
    <2>11. B \in Net /\ B.conn[k] = y /\ (\A j \in Conns : j # k => B.conn[j] = D.conn[j])
          /\ B.lc = D.lc /\ B.ho = D.ho /\ B.bad = D.bad
      BY <2>6, <2>8, <2>10, SetConn
    <2>12. Drop3(A, k, l) = B
      BY <1>4, <1>11, <2>3, <2>9 DEF Drop3
    <2>13. Without(A, l) = Without(S, l)
      BY <1>2 DEF Without
    <2>14. U = OwnerDropped(B, l)
      BY <2>2, <2>12
    <2> QED  BY <1>1, <1>2, <1>5, <1>6, <2>2, <2>6, <2>8, <2>11, <2>13, <2>14
  <1> QED  BY <1>4, <1>9, <1>10, <1>11 DEF HeldBy

\* lchan_free() of the secondary channel stops osmo-nitb, which has no assign_fail().
LEMMA FreedStops ==
  ASSUME NEW S, Core(S), NEW k \in Conns, NEW l \in Lchans, S.lc[l].conn = k, S.conn[k].secondary_lchan = l, Nitb,
         NEW c \in Lchan, NEW T, T = Freed(S, l, c)
  PROVE  T \in Net /\ T.bad = {"null_assign_fail"} /\ Assignments
  <1>1. S \in Net /\ S.bad = {} /\ ConnFine(S.conn[k]) /\ k # NoConn /\ l # NoLchan
    BY ConnAssumption, ApiNullAssumption DEF Core, ConnsFine
  <1>2. PICK A : A = WithLc(S, l, c)  OBVIOUS
  <1>3. A \in Net /\ A.conn = S.conn /\ A.bad = S.bad
    BY <1>1, <1>2, SetLc
  <1>4. T = handle_release(A, k, l)
    BY <1>1, <1>2 DEF Freed, WithLc
  <1>5. PICK U : U = SecDropped(A, k)  OBVIOUS
  <1>6. U = WithConn(A, k, NoSec(A.conn[k])) /\ NoSec(A.conn[k]) \in Conn
    <2>1. A.conn[k] \in Conn
      BY <1>3, NetFields
    <2>2. NoSec(A.conn[k]) \in Conn
      BY <2>1 DEF NoSec, Conn, MaybeLchan
    <2> QED  BY <1>3, <1>5, <2>2, DropsAre
  <1>7. U \in Net /\ U.bad = {}
    BY <1>1, <1>3, <1>6, SetConn
  <1>8. Drop1(A, k, l) = Fails(U, "null_assign_fail")
    BY <1>3, <1>5 DEF Drop1, assign_fail
  <1>9. Fails(U, "null_assign_fail") \in Net /\ Fails(U, "null_assign_fail").bad = {"null_assign_fail"}
    <2>1. "null_assign_fail" \in Bad
      BY DEF Bad
    <2> QED  BY <1>7, <2>1, FailsTyped
  <1>10. T = Drop1(A, k, l)
    BY <1>4, <1>8, <1>9, HandleReleaseIs
  <1> QED  BY <1>1, <1>8, <1>9, <1>10 DEF ConnFine

\* lchan_free() of channel l: if it has an owner, the connection goes.
LEMMA FreedDoes ==
  ASSUME NEW S, Core(S), NEW l \in Lchans, Nitb => \A k \in Conns : S.conn[k].secondary_lchan # l, NEW c, ChanFine(c), c.conn = NoConn, c.state = "NONE",
         NEW T, T = Freed(S, l, c)
  PROVE  /\ Core(T) /\ T.lc[l] = c
         /\ \A m \in Lchans : m # l => T.lc[m] = S.lc[m] \/ (S.lc[m].conn # NoConn /\ Released(S.lc[m], T.lc[m]))
         /\ \A j \in Conns : \/ T.conn[j] = NoConnection
                             \/ T.conn[j] = S.conn[j] /\ \A m \in HeldBy(S.conn[j]) : T.lc[m] = S.lc[m]
  <1>1. S \in Net /\ S.bad = {} /\ c \in Lchan
    BY DEF Core, ChanFine
  <1>2. PICK A : A = WithLc(S, l, c)  OBVIOUS
  <1>3. A \in Net /\ A.lc[l] = c /\ (\A m \in Lchans : m # l => A.lc[m] = S.lc[m])
        /\ A.conn = S.conn /\ A.ho = S.ho /\ A.bad = S.bad
    BY <1>1, <1>2, SetLc
  <1>4. Freed(S, l, c) = IF S.lc[l].conn = NoConn THEN A ELSE handle_release(A, S.lc[l].conn, l)
    BY <1>2 DEF Freed, WithLc
  <1>5. \A j \in Conns : \A m \in HeldBy(S.conn[j]) : m \in Lchans /\ S.lc[m].conn = j
    <2> SUFFICES ASSUME NEW j \in Conns, NEW m \in HeldBy(S.conn[j]) PROVE m \in Lchans /\ S.lc[m].conn = j
      OBVIOUS
    <2>1. m \in Lchans
      BY <1>1, NetFields DEF HeldBy, Conn, MaybeLchan
    <2> QED  BY <2>1 DEF Core, Mutual
  <1>6. CASE S.lc[l].conn = NoConn
    <2>1. T = A
      BY <1>4, <1>6
    <2>2. Core(T)
      BY <1>1, <1>3, <1>6, <2>1, CoreChan
    <2>3. ASSUME NEW j \in Conns, NEW m \in HeldBy(S.conn[j]) PROVE T.lc[m] = S.lc[m]
      BY <1>3, <1>5, <1>6, <2>1, ConnAssumption
    <2> QED  BY <1>3, <2>1, <2>2, <2>3
  <1>7. CASE S.lc[l].conn # NoConn
    <2>1. PICK k \in Conns : S.lc[l].conn = k
      BY <1>1, <1>7, NetFields DEF Lchan
    <2>2. PICK U : U = OwnerDropped(Drop3(Drop2(Drop1(A, k, l), k, l), k, l), l)  OBVIOUS
    <2>3. Dropped(S, U, k, l, c) /\ Drop1(A, k, l).bad = {}
      BY <1>2, <2>1, <2>2, DropDoes
    <2>4. T = subscr_con_free(gsm0808_clear(U, k), k)
      BY <1>4, <1>7, <2>1, <2>2, <2>3, HandleReleaseIs
    <2>5. PICK x : x = S.conn[k]  OBVIOUS
    <2>6. PICK y : y = U.conn[k]  OBVIOUS
    <2>7. x \in Conn /\ ConnFine(x) /\ LacksOnly(x, y, l) /\ l # NoLchan /\ l \in HeldBy(x)
      BY <1>1, <2>1, <2>3, <2>5, <2>6, NetFields, ApiNullAssumption DEF Core, ConnsFine, Dropped, Mutual
    <2>8. HeldBy(y) = HeldBy(x) \ {l}
      BY <2>7 DEF HeldBy, LacksOnly, Minus
    <2>9. \A m \in HeldBy(x) : m \in Lchans
      BY <1>5, <2>5
    <2>10. Clearable(U, y)
      <3>1. \A m \in HeldBy(y) : ChanFine(U.lc[m])
        BY <2>3, <2>8, <2>9 DEF Dropped, Core, ChansFine
      <3>2. ASSUME y.ho_lchan # NoLchan PROVE HasHo(U, y.ho_lchan)
        <4>1. y.ho_lchan = x.ho_lchan /\ x.ho_lchan # l
          BY <2>7, <3>2 DEF LacksOnly, Minus
        <4>2. PICK h \in S.ho : h.new_lchan = x.ho_lchan
          BY <2>5, <3>2, <4>1 DEF Core, HosFine
        <4>3. h \in U.ho
          BY <2>3, <4>1, <4>2 DEF Dropped, Without
        <4> QED  BY <4>1, <4>2, <4>3 DEF HasHo
      <3>3. /\ y.lchan # NoLchan => y.lchan # y.secondary_lchan /\ y.lchan # y.ho_lchan
            /\ y.secondary_lchan # NoLchan => y.secondary_lchan # y.ho_lchan
        BY <2>7 DEF LacksOnly, Minus, ConnFine
      <3> QED  BY <3>1, <3>2, <3>3 DEF Clearable
    <2>11. Clears(U, T, k)
      BY <2>3, <2>4, <2>6, <2>10, ClearDoes DEF Dropped
    <2>12. T.lc[l] = c
      BY <2>3, <2>6, <2>8, <2>11 DEF Clears, Dropped
    <2>13. \A m \in Lchans : m \notin HeldBy(x) => T.lc[m] = S.lc[m]
      BY <2>3, <2>6, <2>7, <2>8, <2>11 DEF Clears, Dropped
    <2>14. \A m \in Lchans : m \in HeldBy(x) /\ m # l => Released(S.lc[m], T.lc[m])
      BY <2>3, <2>6, <2>8, <2>11 DEF Clears, Dropped
    <2>15. ASSUME NEW m \in Lchans, m \in HeldBy(x) PROVE ChanFine(T.lc[m]) /\ T.lc[m].conn = NoConn
      <3>1. CASE m = l
        BY <2>12, <3>1
      <3>2. CASE m # l
        <4>1. ChanFine(S.lc[m])
          BY DEF Core, ChansFine
        <4>2. PICK sd \in BOOLEAN, r \in ReleaseModes : T.lc[m] = lchan_release(S.lc[m], sd, r)
          BY <2>14, <2>15, <3>2 DEF Released
        <4> QED  BY <4>1, <4>2, ReleaseFine
      <3> QED  BY <3>1, <3>2
    <2>16. T.ho = Without(S, x.ho_lchan)
      <3>1. T.ho = Without(U, y.ho_lchan) /\ U.ho = Without(S, l)
        BY <2>3, <2>6, <2>11 DEF Clears, Dropped
      <3>2. \A h \in S.ho : h.new_lchan # NoLchan
        BY <1>1, NetFields, ApiNullAssumption DEF Handover
      <3>3. \A h \in S.ho : h.new_lchan = l => x.ho_lchan = l
        BY <2>1, <2>5, HosAtHoLchan
      <3>4. y.ho_lchan = IF x.ho_lchan = l THEN NoLchan ELSE x.ho_lchan
        BY <2>7 DEF LacksOnly, Minus
      <3> QED  BY <3>1, <3>2, <3>3, <3>4 DEF Without
    <2>17. Gone(S, T, k)
      <3>1. T \in Net /\ T.bad = {} /\ T.conn[k] = NoConnection /\ \A j \in Conns : j # k => T.conn[j] = S.conn[j]
        BY <2>3, <2>11 DEF Clears, Dropped
      <3> QED  BY <2>5, <2>13, <2>15, <2>16, <3>1 DEF Gone
    <2>18. Core(T)
      BY <2>17, GoneCore
    <2>19. ASSUME NEW m \in Lchans, m # l PROVE T.lc[m] = S.lc[m] \/ (S.lc[m].conn # NoConn /\ Released(S.lc[m], T.lc[m]))
      BY <1>5, <2>5, <2>13, <2>14, <2>19, ConnAssumption
    <2>20. ASSUME NEW j \in Conns, j # k PROVE T.conn[j] = S.conn[j] /\ \A m \in HeldBy(S.conn[j]) : T.lc[m] = S.lc[m]
      <3>1. T.conn[j] = S.conn[j]
        BY <2>17, <2>20 DEF Gone
      <3>2. ASSUME NEW m \in HeldBy(S.conn[j]) PROVE m \in Lchans /\ m \notin HeldBy(x)
        BY <1>5, <2>5, <2>20
      <3> QED  BY <2>13, <3>1, <3>2
    <2>21. T.conn[k] = NoConnection
      BY <2>17 DEF Gone
    <2> QED  BY <2>12, <2>18, <2>19, <2>20, <2>21
  <1> QED  BY <1>6, <1>7

-----------------------------------------------------------------------------
(* From records to states *)

LEMMA Adopted ==
  ASSUME ApiInv, env' = env, BtsFine(bts'), ms' \in [Conns -> SUBSET Order], NEW T, net' = T, Core(T), Phases(T, bts'),
         \A k \in Conns : OrdFine(T, k, ms'[k])
  PROVE  ApiInv'
  <1>1. Core(net)'
    BY DEF Core, ConnsFine, ConnFine, MainUp, Nitb, Assignments, ChansFine, Mutual, HosFine
  <1>2. Phases(net, bts)'
    BY DEF Phases, Nitb
  <1>3. (\A k \in Conns : OrdFine(net, k, ms[k]))'
    BY DEF OrdFine, Faults, Assignments
  <1>4. (env \in Envs)' /\ OneAtATime' /\ BtsFine(bts)'
    BY DEF ApiInv, OneAtATime, Faults, BtsFine
  <1> QED  BY <1>1, <1>2, <1>3, <1>4 DEF ApiInv

\* The program has stopped where it is known to stop.
Stopped == ~Running /\ OneAtATime /\ TypeOK /\ OnlyKnownCrashes

LEMMA Stops ==
  ASSUME ApiInv, env' = env, BtsFine(bts'), ms' \in [Conns -> SUBSET Order], NEW T, net' = T, T \in Net,
         \/ T.bad = {"null_assign_fail"} /\ Nitb /\ Assignments
         \/ T.bad = {"null_lchan"} /\ Assignments /\ "late_ms" \in Faults
  PROVE  Stopped'
  <1>1. (~Running)' /\ OnlyKnownCrashes'
    BY DEF Running, OnlyKnownCrashes, Nitb, Assignments, Faults
  <1>2. OneAtATime'
    BY DEF ApiInv, OneAtATime, Faults
  <1>3. TypeOK'
    BY NetFields DEF ApiInv, TypeOK, BtsFine
  <1> QED  BY <1>1, <1>2, <1>3 DEF Stopped

Keeps(S, T, j) ==
    /\ T.conn[j].lchan = S.conn[j].lchan /\ T.conn[j].secondary_lchan = S.conn[j].secondary_lchan
    /\ S.conn[j].lchan # NoLchan => T.lc[S.conn[j].lchan].type = S.lc[S.conn[j].lchan].type
    /\ S.conn[j].secondary_lchan # NoLchan =>
        \/ T.lc[S.conn[j].secondary_lchan].state # "ACT_REQ"
        \/ S.lc[S.conn[j].secondary_lchan].state = "ACT_REQ"

LEMMA KeptOrders ==
  ASSUME NEW S, NEW T, NEW j \in Conns, NEW R \in SUBSET Order, OrdFine(S, j, R), Keeps(S, T, j), NEW Q, Q \subseteq R,
         ~T.conn[j].alive => Q = {}
  PROVE  OrdFine(T, j, Q)
  <1>1. ASSUME "late_ms" \notin Faults, NEW o \in Q, o.cmd = "ASS", T.lc[o.new].state = "ACT_REQ" PROVE S.lc[o.new].state = "ACT_REQ"
    <2>1. o.new = S.conn[j].secondary_lchan /\ o.new \in Lchans
      BY <1>1 DEF OrdFine, Order
    <2> QED  BY <1>1, <2>1, ApiNullAssumption DEF Keeps
  <1> QED  BY <1>1, OrdKept DEF Keeps

\* A step of one channel keeps everybody's orders.
LEMMA ChanKeeps ==
  ASSUME NEW S, Core(S), NEW l \in Lchans, NEW T, T.conn = S.conn,
         \A m \in Lchans : m # l => T.lc[m] = S.lc[m],
         T.lc[l].state = "ACT_REQ" => S.lc[l].state = "ACT_REQ" \/ S.lc[l].conn = NoConn,
         T.lc[l].type = S.lc[l].type \/ S.lc[l].conn = NoConn, NEW j \in Conns
  PROVE  Keeps(S, T, j)
  <1>1. S.conn[j] \in Conn
    BY NetFields DEF Core
  <1>2. l \in {S.conn[j].lchan, S.conn[j].secondary_lchan} => S.lc[l].conn # NoConn
    BY ConnAssumption, ApiNullAssumption DEF Core, Mutual, HeldBy
  <1>3. \A m \in {S.conn[j].lchan, S.conn[j].secondary_lchan} : m # NoLchan => m \in Lchans
    BY <1>1 DEF Conn, MaybeLchan
  <1> QED  BY <1>2, <1>3 DEF Keeps

LEMMA DeadOrders ==
  ASSUME ApiInv, NEW k \in Conns, ~net.conn[k].alive PROVE ms[k] = {}
  BY DEF ApiInv, OrdFine

\* A step on channel l that leaves its owner alone.
LEMMA ChanStep ==
  ASSUME ApiInv, NEW l \in Lchans, NEW c, ChanFine(c), c.conn = net.lc[l].conn,
         c.state = "ACT_REQ" => net.lc[l].state = "ACT_REQ" \/ net.lc[l].conn = NoConn,
         c.type = net.lc[l].type \/ net.lc[l].conn = NoConn,
         net' = WithLc(net, l, c), ms' = ms, env' = env, BtsFine(bts'), \A m \in Lchans : m # l => bts'[m] = bts[m],
         Phase(c, bts'[l])
  PROVE  ApiInv'
  <1>1. PICK T : T = net'  OBVIOUS
  <1>2. Core(net) /\ net \in Net /\ net.bad = {} /\ c \in Lchan
    BY DEF ApiInv, Core, ChanFine
  <1>3. T \in Net /\ T.lc[l] = c /\ (\A m \in Lchans : m # l => T.lc[m] = net.lc[m])
        /\ T.conn = net.conn /\ T.ho = net.ho /\ T.bad = net.bad
    BY <1>1, <1>2, SetLc
  <1>4. Core(T)
    BY <1>2, <1>3, CoreChan
  <1>5. Phases(T, bts')
    BY <1>3 DEF ApiInv, Phases
  <1>6. ms' \in [Conns -> SUBSET Order]
    BY DEF ApiInv
  <1>7. ASSUME NEW k \in Conns PROVE OrdFine(T, k, ms'[k])
    <2>1. OrdFine(net, k, ms[k]) /\ ms[k] \in SUBSET Order
      BY DEF ApiInv
    <2>2. Keeps(net, T, k)
      BY <1>2, <1>3, ChanKeeps
    <2>3. ~T.conn[k].alive => ms[k] = {}
      BY <1>3, <2>1 DEF OrdFine
    <2> QED  BY <2>1, <2>2, <2>3, KeptOrders
  <1> QED  BY <1>1, <1>4, <1>5, <1>6, <1>7, Adopted

LEMMA InvFacts ==
  ASSUME ApiInv, NEW l \in Lchans
  PROVE  /\ Core(net) /\ net \in Net /\ net.bad = {} /\ ChanFine(net.lc[l]) /\ net.lc[l] \in Lchan /\ BtsFine(bts)
         /\ Phase(net.lc[l], bts[l])
         /\ env \in Env /\ Nitb \in BOOLEAN /\ Assignments \in BOOLEAN
  <1>1. env \in Env
    BY ApiEnvAssumption DEF ApiInv
  <1>2. Nitb \in BOOLEAN /\ Assignments \in BOOLEAN
    BY <1>1 DEF Env, Nitb, Assignments
  <1> QED  BY <1>1, <1>2 DEF ApiInv, Core, ChansFine, ChanFine, Phases

LEMMA BtsKept == ASSUME ApiInv, bts' = bts PROVE BtsFine(bts') /\ \A m \in Lchans : bts'[m] = bts[m]
  BY DEF ApiInv

\* What the BTS reports of channel l.
SetBts(B, l, a) == [B EXCEPT ![l] = a]
LEMMA BtsSet ==
  ASSUME ApiInv, NEW l \in Lchans, NEW a \in [active : BOOLEAN, main : BOOLEAN], a.main => a.active, bts' = SetBts(bts, l, a)
  PROVE  BtsFine(bts') /\ bts'[l] = a /\ \A m \in Lchans : m # l => bts'[m] = bts[m]
  BY DEF ApiInv, BtsFine, SetBts

-----------------------------------------------------------------------------
(* Actions on one channel *)

LEMMA LcTwice ==
  ASSUME NEW S \in Net, NEW l \in Lchans, NEW c, NEW d
  PROVE  WithLc(WithLc(S, l, c), l, d) = WithLc(S, l, d) /\ WithLc(S, l, c).lc[l] = c
  BY NetFields DEF WithLc, Net

Requested(c, type) ==
    rsl_chan_activate_lchan([lchan_take(c, type) EXCEPT !.state = "ACT_REQ", !.rqd_ref = TRUE, !.act_timer = "act"])
LEMMA RqdIs ==
  ASSUME NEW c \in Lchan, c.conn = NoConn, NEW type
  PROVE  Requested(c, type) = Taken(c, type, NoConn, TRUE, "act")
  BY DEF Requested, Taken, rsl_chan_activate_lchan, Send, SendRll, lchan_take, rsl_lchan_set_state, Lchan

LEMMA FreeLchan ==
  ASSUME ApiInv, NEW type \in {"SDCCH", "TCH_F"}, NEW l \in Free(type)
  PROVE  l \in Lchans /\ Pchan[l] = type /\ LchanIsFree(net.lc[l]) /\ net.lc[l].conn = NoConn
  <1>1. l \in Lchans /\ Pchan[l] = type /\ LchanIsFree(net.lc[l])
    BY DEF Free
  <1> QED  BY <1>1, InvFacts DEF ChanFine, LchanIsFree

LEMMA RqdInv ==
  ASSUME ApiInv, NEW type \in {"SDCCH", "TCH_F"}, rsl_rx_chan_rqd(type)
  PROVE  ApiInv'
  <1>1. PICK l \in Free(type) :
           net' = [net EXCEPT !.lc[l] = rsl_chan_activate_lchan(
                    [lchan_take(@, Pchan[l]) EXCEPT !.state = "ACT_REQ", !.rqd_ref = TRUE, !.act_timer = "act"])]
    BY DEF rsl_rx_chan_rqd, Becomes
  <1>2. l \in Lchans /\ Pchan[l] = type /\ LchanIsFree(net.lc[l]) /\ net.lc[l].conn = NoConn
    BY FreeLchan
  <1>3. ChanFine(net.lc[l]) /\ net.lc[l] \in Lchan /\ Phase(net.lc[l], bts[l])
    BY <1>2, InvFacts
  <1>4. PICK c : c = Taken(net.lc[l], type, NoConn, TRUE, "act")  OBVIOUS
  <1>5. net' = WithLc(net, l, c)
    <2>1. Requested(net.lc[l], type) = c
      BY <1>2, <1>3, <1>4, RqdIs
    <2>2. net' = WithLc(net, l, Requested(net.lc[l], type))
      BY <1>1, <1>2 DEF WithLc, Requested
    <2> QED  BY <2>1, <2>2
  <1>6. PICK rqd \in BOOLEAN : c = Taken(net.lc[l], type, NoConn, rqd, "act")
    BY <1>4
  <1>7. PICK tmr \in {"off", "act", "deact"} : c = Taken(net.lc[l], type, NoConn, rqd, tmr)
    BY <1>6
  <1> HIDE <1>4, <1>6
  <1>8. PICK k \in Conns \cup {NoConn} : k = NoConn  OBVIOUS
  <1>9. ChanFine(c) /\ c.conn = k /\ (\A b : Phase(net.lc[l], b) => Phase(c, b))
    BY <1>2, <1>3, <1>7, <1>8, TakenFine
  <1>10. bts' = bts /\ ms' = ms /\ env' = env
    BY DEF rsl_rx_chan_rqd
  <1> QED  BY <1>2, <1>3, <1>5, <1>8, <1>9, <1>10, BtsKept, ChanStep

LEMMA PopIs == ASSUME NEW l PROVE Pop(l) = WithLc(net, l, Popped(net.lc[l]))
  BY DEF Pop, WithLc, Popped

LEMMA CmdFacts ==
  ASSUME ApiInv, NEW l \in Lchans, NEW mt, Cmd(l, mt)
  PROVE  net.lc[l].out # <<>> /\ Head(net.lc[l].out).mt = mt
  BY DEF Cmd, Queue

\* A command that is handled without effect.
LEMMA PopInv ==
  ASSUME ApiInv, NEW l \in Lchans, net.lc[l].out # <<>>, Stale(Head(net.lc[l].out)), net' = Pop(l), bts' = bts, ms' = ms, env' = env
  PROVE  ApiInv'
  <1>1. ChanFine(net.lc[l]) /\ Phase(net.lc[l], bts[l])
    BY InvFacts
  <1>2. PICK c : c = Popped(net.lc[l])  OBVIOUS
  <1>3. ChanFine(c) /\ c.conn = net.lc[l].conn /\ c.state = net.lc[l].state /\ c.type = net.lc[l].type
    BY <1>1, <1>2, PopDoes
  <1>4. Phase(c, bts[l])
    BY <1>1, <1>2, PopPhase
  <1> QED  BY <1>2, <1>3, <1>4, BtsKept, PopIs, ChanStep

\* The main link goes.
LinkDown(a) == [a EXCEPT !.main = FALSE]
LEMMA UnlinkInv ==
  ASSUME ApiInv, NEW l \in Lchans, net.lc[l].out # <<>>, Stale(Head(net.lc[l].out)), bts[l].active, NEW r \in [Sapis -> Nat],
         net' = WithLc(net, l, Unlinked(Popped(net.lc[l]), r)), bts' = [bts EXCEPT ![l].main = FALSE], ms' = ms, env' = env
  PROVE  ApiInv'
  <1>1. ChanFine(net.lc[l]) /\ Phase(net.lc[l], bts[l])
    BY InvFacts
  <1>2. PICK e : e = Popped(net.lc[l])  OBVIOUS
  <1>3. ChanFine(e) /\ e.conn = net.lc[l].conn /\ e.state = net.lc[l].state /\ e.type = net.lc[l].type
    BY <1>1, <1>2, PopDoes
  <1>4. PICK c : c = Unlinked(e, r)  OBVIOUS
  <1>5. ChanFine(c) /\ c.conn = e.conn /\ c.state = e.state /\ c.type = e.type
    BY <1>3, <1>4, UnlinkedDoes
  <1>6. PICK a : a = LinkDown(bts[l])  OBVIOUS
  <1>7. a \in [active : BOOLEAN, main : BOOLEAN] /\ ~a.main /\ a.active
    BY <1>6 DEF ApiInv, BtsFine, LinkDown
  <1>8. bts' = SetBts(bts, l, a)
    BY <1>6 DEF SetBts, LinkDown
  <1>9. BtsFine(bts') /\ bts'[l] = a /\ \A m \in Lchans : m # l => bts'[m] = bts[m]
    BY <1>7, <1>8, BtsSet
  <1>10. Phase(c, a)
    BY <1>1, <1>2, <1>4, <1>7, UnlinkedPhase
  <1> HIDE <1>8
  <1>11. net' = WithLc(net, l, c) /\ c.conn = net.lc[l].conn /\ (c.state = "ACT_REQ" => net.lc[l].state = "ACT_REQ") /\ c.type = net.lc[l].type
    BY <1>2, <1>3, <1>4, <1>5
  <1> QED  BY <1>5, <1>9, <1>10, <1>11, ChanStep

LEMMA RelConfInv ==
  ASSUME ApiInv, NEW l \in Lchans, RelConf(l)
  PROVE  ApiInv'
  <1>1. net.lc[l].out # <<>> /\ Stale(Head(net.lc[l].out))
    BY CmdFacts DEF RelConf, Stale
  <1>2. ms' = ms /\ env' = env
    BY DEF RelConf
  <1>3. \/ net' = Pop(l) /\ bts' = bts
        \/ bts[l].active /\ bts' = [bts EXCEPT ![l].main = FALSE] /\ net' = [Pop(l) EXCEPT !.lc[l] = rll_rel_conf(@, 0)]
    BY DEF RelConf, Becomes
  <1>4. CASE bts[l].active /\ bts' = [bts EXCEPT ![l].main = FALSE] /\ net' = [Pop(l) EXCEPT !.lc[l] = rll_rel_conf(@, 0)]
    <2>1. PICK e : e = Popped(net.lc[l])  OBVIOUS
    <2>2. net' = WithLc(net, l, rll_rel_conf(e, 0))
      <3>1. net' = WithLc(Pop(l), l, rll_rel_conf(Pop(l).lc[l], 0))
        BY <1>4 DEF WithLc
      <3>2. Pop(l) = WithLc(net, l, e) /\ net \in Net
        BY <2>1, PopIs, InvFacts
      <3>3. WithLc(net, l, e).lc[l] = e
        BY <3>2, LcTwice
      <3>4. WithLc(WithLc(net, l, e), l, rll_rel_conf(e, 0)) = WithLc(net, l, rll_rel_conf(e, 0))
        BY <3>2, LcTwice
      <3> QED  BY <3>1, <3>2, <3>3, <3>4
    <2>3. ChanFine(e)
      BY <1>1, <2>1, InvFacts, PopDoes
    <2>4. PICK r \in [Sapis -> Nat] : rll_rel_conf(e, 0) = Unlinked(e, r)
      BY <2>3, RelConfIs
    <2> QED  BY <1>1, <1>2, <1>4, <2>1, <2>2, <2>4, UnlinkInv
  <1> QED  BY <1>1, <1>2, <1>3, <1>4, PopInv

LEMMA RrChanRelInv ==
  ASSUME ApiInv, NEW l \in Lchans, RrChanRel(l)
  PROVE  ApiInv'
  <1>1. net.lc[l].out # <<>> /\ Stale(Head(net.lc[l].out))
    BY CmdFacts DEF RrChanRel, Stale
  <1>2. ms' = ms /\ env' = env
    BY DEF RrChanRel
  <1>3. \/ net' = Pop(l) /\ bts' = bts
        \/ bts[l].main /\ bts' = [bts EXCEPT ![l].main = FALSE] /\ net' = [Pop(l) EXCEPT !.lc[l] = rll_rel_ind(@, 0)]
    BY DEF RrChanRel, Becomes
  <1>4. CASE bts[l].main /\ bts' = [bts EXCEPT ![l].main = FALSE] /\ net' = [Pop(l) EXCEPT !.lc[l] = rll_rel_ind(@, 0)]
    <2>1. PICK e : e = Popped(net.lc[l])  OBVIOUS
    <2>2. net' = WithLc(net, l, rll_rel_ind(e, 0))
      <3>1. net' = WithLc(Pop(l), l, rll_rel_ind(Pop(l).lc[l], 0))
        BY <1>4 DEF WithLc
      <3>2. Pop(l) = WithLc(net, l, e) /\ net \in Net
        BY <2>1, PopIs, InvFacts
      <3>3. WithLc(net, l, e).lc[l] = e
        BY <3>2, LcTwice
      <3>4. WithLc(WithLc(net, l, e), l, rll_rel_ind(e, 0)) = WithLc(net, l, rll_rel_ind(e, 0))
        BY <3>2, LcTwice
      <3> QED  BY <3>1, <3>2, <3>3, <3>4
    <2>3. ChanFine(e) /\ bts[l].active
      BY <1>1, <1>4, <2>1, InvFacts, PopDoes DEF BtsFine
    <2>4. PICK r \in [Sapis -> Nat] : rll_rel_ind(e, 0) = Unlinked(e, r)
      BY <2>3, RelConfIs
    <2> QED  BY <1>1, <1>2, <1>4, <2>1, <2>2, <2>3, <2>4, UnlinkInv
  <1> QED  BY <1>1, <1>2, <1>3, <1>4, PopInv

LEMMA ConnFailInv ==
  ASSUME ApiInv, NEW l \in Lchans, ConnFail(l)
  PROVE  ApiInv'
  <1>1. net.lc[l].state = "ACTIVE" /\ bts' = bts /\ ms' = ms /\ env' = env
    BY DEF ConnFail
  <1>2. PICK c : c = rsl_rx_conn_fail(net.lc[l])  OBVIOUS
  <1>3. net' = WithLc(net, l, c)
    BY <1>2 DEF ConnFail, Becomes, WithLc
  <1>4. ChanFine(c) /\ c.conn = net.lc[l].conn /\ c.state = "REL_ERR" /\ c.type = net.lc[l].type
    BY <1>1, <1>2, InvFacts, ConnFailDoes
  <1>5. Phase(c, bts[l])
    BY <1>1, <1>2, InvFacts, ConnFailPhase
  <1> QED  BY <1>1, <1>3, <1>4, <1>5, BtsKept, ChanStep

\* Timer T3101 stops a random access, which has no owner; the other two change no state to ACT_REQ.
LEMMA ChannelTimerInv ==
  ASSUME ApiInv, NEW l \in Lchans, ChannelTimer(l)
  PROVE  ApiInv'
  <1>1. bts' = bts /\ ms' = ms /\ env' = env
    BY DEF ChannelTimer
  <1>2. ChanFine(net.lc[l]) /\ Phase(net.lc[l], bts[l])
    BY InvFacts
  <1>3. ASSUME NEW c, ChanFine(c), c.conn = net.lc[l].conn, c.type = net.lc[l].type, \A b : Phase(net.lc[l], b) => Phase(c, b),
               c.state = "ACT_REQ" => net.lc[l].state = "ACT_REQ" \/ net.lc[l].conn = NoConn, net' = WithLc(net, l, c)
        PROVE  ApiInv'
    BY <1>1, <1>2, <1>3, BtsKept, ChanStep
  <1>4. CASE net.lc[l].T3101 /\ net' = WithLc(net, l, t3101_expired(net.lc[l]))
    <2>1. PICK c : c = t3101_expired(net.lc[l])  OBVIOUS
    <2>2. ChanFine(c) /\ c.conn = net.lc[l].conn /\ (\A b : Phase(net.lc[l], b) => Phase(c, b)) /\ net.lc[l].conn = NoConn
          /\ c.type = net.lc[l].type
      BY <1>2, <1>4, <2>1, T3101Fine DEF ChanFine
    <2> QED  BY <1>3, <1>4, <2>1, <2>2
  <1>5. CASE net.lc[l].T3111 /\ net' = WithLc(net, l, t3111_expired(net.lc[l]))
    <2>1. PICK c : c = t3111_expired(net.lc[l])  OBVIOUS
    <2>2. ChanFine(c) /\ c.conn = net.lc[l].conn /\ (\A b : Phase(net.lc[l], b) => Phase(c, b)) /\ c.state = net.lc[l].state
          /\ c.type = net.lc[l].type
      BY <1>2, <1>5, <2>1, T3111Fine
    <2> QED  BY <1>3, <1>5, <2>1, <2>2
  <1>6. CASE (\A i \in DOMAIN net.lc[l].out : net.lc[l].out[i].mt # "RF_CHAN_REL") /\ net' = WithLc(net, l, error_timeout_cb(net.lc[l]))
    <2>1. PICK c : c = error_timeout_cb(net.lc[l])  OBVIOUS
    <2>2. ChanFine(c) /\ c.conn = net.lc[l].conn /\ (\A b : Phase(net.lc[l], b) => Phase(c, b))
          /\ (c.state = "ACT_REQ" => net.lc[l].state = "ACT_REQ") /\ c.type = net.lc[l].type
      BY <1>2, <1>6, <2>1, ErrorFine
    <2> QED  BY <1>3, <1>6, <2>1, <2>2
  <1>7. \/ net.lc[l].T3101 /\ net' = WithLc(net, l, t3101_expired(net.lc[l]))
        \/ net.lc[l].T3111 /\ net' = WithLc(net, l, t3111_expired(net.lc[l]))
        \/ (\A i \in DOMAIN net.lc[l].out : net.lc[l].out[i].mt # "RF_CHAN_REL") /\ net' = WithLc(net, l, error_timeout_cb(net.lc[l]))
    BY DEF ChannelTimer, Becomes, WithLc, Queue
  <1> QED  BY <1>4, <1>5, <1>6, <1>7

LinkUp(a) == [a EXCEPT !.main = TRUE]
LEMMA LinkUpDoes ==
  ASSUME ApiInv, NEW l \in Lchans, bts[l].active, bts' = [bts EXCEPT ![l].main = TRUE]
  PROVE  BtsFine(bts') /\ bts'[l].active /\ \A m \in Lchans : m # l => bts'[m] = bts[m]
  <1>1. PICK a : a = LinkUp(bts[l])  OBVIOUS
  <1>2. a \in [active : BOOLEAN, main : BOOLEAN] /\ a.active
    BY <1>1 DEF ApiInv, BtsFine, LinkUp
  <1>3. bts' = SetBts(bts, l, a)
    BY <1>1 DEF SetBts, LinkUp
  <1> QED  BY <1>2, <1>3, BtsSet

LEMMA ActiveIsUp ==
  ASSUME NEW c, NEW b, Phase(c, b), c.state = "ACTIVE" PROVE Up(c, b)
  BY DEF Phase, Idle, Opening, GivenUp, Releasing, Ending

LEMMA UpAny ==
  ASSUME NEW c, NEW b, Up(c, b), NEW a, a.active PROVE Up(c, a) /\ Phase(c, a)
  BY DEF Up, Phase

LEMMA MsMovesInv ==
  ASSUME ApiInv, NEW k \in Conns, NEW o \in ms[k], MsMoves(k, o)
  PROVE  ApiInv'
  <1>1. PICK l : l = o.new  OBVIOUS
  <1>2. l \in Lchans
    BY <1>1 DEF ApiInv, Order
  <1>3. bts[l].active /\ net.lc[l].state = "ACTIVE" /\ bts' = [bts EXCEPT ![l].main = TRUE] /\ ms' = ms /\ env' = env
    BY <1>1 DEF MsMoves
  <1>4. PICK c : c = rll_est_ind(net.lc[l], 0)  OBVIOUS
  <1>5. net' = WithLc(net, l, c)
    BY <1>1, <1>4 DEF MsMoves, Becomes, WithLc
  <1>6. ChanFine(net.lc[l]) /\ Phase(net.lc[l], bts[l])
    BY <1>2, InvFacts
  <1>7. ChanFine(c) /\ c.conn = net.lc[l].conn /\ c.state = "ACTIVE" /\ c.type = net.lc[l].type /\ \A b : Up(net.lc[l], b) => Up(c, b)
    BY <1>3, <1>4, <1>6, EstIndFine
  <1>8. BtsFine(bts') /\ bts'[l].active /\ \A m \in Lchans : m # l => bts'[m] = bts[m]
    BY <1>2, <1>3, LinkUpDoes
  <1>9. Phase(c, bts'[l])
    BY <1>3, <1>6, <1>7, <1>8, ActiveIsUp, UpAny
  <1>10. ms' = ms /\ env' = env
    BY <1>3
  <1> HIDE <1>3
  <1> QED  BY <1>2, <1>5, <1>7, <1>8, <1>9, <1>10, ChanStep

-----------------------------------------------------------------------------
(* A connection lets a channel go *)

LEMMA DroppedCore ==
  ASSUME NEW S, Core(S), NEW k \in Conns, NEW l \in Lchans, S.lc[l].conn = k, l # S.conn[k].lchan, NEW c, ChanFine(c), c.conn = NoConn,
         NEW T, Dropped(S, T, k, l, c), T.conn[k].alive = S.conn[k].alive, T.conn[k].T10 => S.conn[k].T10,
         T.conn[k].secondary_lchan # NoLchan => T.conn[k].T10
  PROVE  Core(T)
  <1>1. PICK x : x = S.conn[k]  OBVIOUS
  <1>2. PICK y : y = T.conn[k]  OBVIOUS
  <1>3. x \in Conn /\ ConnFine(x) /\ LacksOnly(x, y, l) /\ l # NoLchan /\ l \in HeldBy(x)
    BY <1>1, <1>2, NetFields, ApiNullAssumption DEF Core, ConnsFine, Dropped, Mutual
  <1>4. HeldBy(y) = HeldBy(x) \ {l} /\ y.lchan = x.lchan /\ y.alive = x.alive
    BY <1>1, <1>2, <1>3 DEF HeldBy, LacksOnly, Minus
  <1>5. y.alive
    BY <1>3, <1>4 DEF ConnFine, NoConnection, HeldBy
  <1>6. ConnFine(y)
    BY <1>1, <1>2, <1>3, <1>4, <1>5 DEF ConnFine, LacksOnly, Minus
  <1>7. T \in Net /\ T.bad = {} /\ T.lc[l] = c /\ (\A m \in Lchans : m # l => T.lc[m] = S.lc[m])
        /\ (\A j \in Conns : j # k => T.conn[j] = S.conn[j]) /\ T.ho = Without(S, l)
    BY DEF Dropped
  <1>8. ChansFine(T)
    BY <1>7 DEF ChansFine, Core
  <1>9. k # NoConn /\ \A m \in Lchans : S.lc[m].conn = k <=> m \in HeldBy(x)
    BY <1>1, ConnAssumption DEF Core, Mutual
  <1>10. \A m \in Lchans : T.lc[m].conn = k <=> m \in HeldBy(y)
    BY <1>4, <1>7, <1>9
  <1>11. MainUp(T, y)
    <2>1. MainUp(S, x) /\ x.lchan # l
      BY <1>1 DEF Core
    <2>2. \A m \in {x.lchan, x.ho_lchan} : m \notin {NoLchan, l} => T.lc[m] = S.lc[m]
      BY <1>3, <1>7, <2>1 DEF Conn, MaybeLchan
    <2>3. y.secondary_lchan \in {NoLchan, x.secondary_lchan} /\ y.ho_lchan \in {NoLchan, x.ho_lchan} /\ y.ho_lchan # l
      BY <1>3 DEF LacksOnly, Minus
    <2> QED  BY <1>4, <2>1, <2>2, <2>3 DEF MainUp
  <1>12. HoStep(S, T, k)
    <2>1. \A h \in S.ho : h.new_lchan = l => x.ho_lchan = l
      BY <1>1, HosAtHoLchan
    <2>2. \A h \in S.ho : h.new_lchan # NoLchan
      BY NetFields, ApiNullAssumption DEF Core, Handover
    <2>3. CASE x.ho_lchan = l
      <3>1. y.ho_lchan = NoLchan
        BY <1>3, <2>3 DEF LacksOnly, Minus
      <3> QED  BY <1>1, <1>2, <1>7, <2>2, <2>3, <3>1 DEF HoStep, Without
    <2>4. CASE x.ho_lchan # l
      <3>1. y.ho_lchan = x.ho_lchan
        BY <1>3, <2>4 DEF LacksOnly, Minus
      <3>2. T.ho = S.ho
        BY <1>7, <2>1, <2>4 DEF Without
      <3>3. \A h \in S.ho : h.new_lchan = x.ho_lchan => Anchors(x, h)
        <4> SUFFICES ASSUME NEW h \in S.ho, h.new_lchan = x.ho_lchan PROVE Anchors(x, h)
          OBVIOUS
        <4>1. PICK j \in Conns : Anchors(S.conn[j], h)
          BY DEF Core, HosFine
        <4>2. h.new_lchan \in Lchans
          BY NetFields DEF Core, Handover
        <4>3. S.lc[h.new_lchan].conn = j
          BY <4>1, <4>2, <2>2 DEF Core, Mutual, HeldBy, Anchors
        <4>4. S.lc[h.new_lchan].conn = k
          BY <1>9, <2>2, <4>2 DEF HeldBy
        <4> QED  BY <1>1, <4>1, <4>3, <4>4
      <3>4. \A h \in S.ho : h.new_lchan = x.ho_lchan => Anchors(y, h)
        BY <1>4, <3>1, <3>3 DEF Anchors
      <3>5. x.ho_lchan # NoLchan => \E h \in S.ho : h.new_lchan = x.ho_lchan
        BY <1>1 DEF Core, HosFine
      <3>6. \A h, g \in S.ho : h.new_lchan = g.new_lchan => h = g
        BY DEF Core, HosFine
      <3> QED  BY <1>1, <1>2, <3>1, <3>2, <3>4, <3>5, <3>6 DEF HoStep
    <2> QED  BY <2>3, <2>4
  <1>13. \A m \in Lchans : S.lc[m].conn \notin {NoConn, k} => T.lc[m] = S.lc[m]
    BY <1>7, <1>9
  <1>14. \A m \in Lchans : S.lc[m].conn \in {NoConn, k} => T.lc[m].conn \in {NoConn, k}
    BY <1>7
  <1> QED  BY <1>2, <1>6, <1>7, <1>8, <1>10, <1>11, <1>12, <1>13, <1>14, CoreConn

\* Channel of another connection stay as they are.
LEMMA OthersKeep ==
  ASSUME NEW S, Core(S), NEW k \in Conns, NEW T, NEW j \in Conns, j # k, T.conn[j] = S.conn[j],
         \A m \in Lchans : S.lc[m].conn \notin {NoConn, k} => T.lc[m] = S.lc[m]
  PROVE  Keeps(S, T, j)
  <1>1. S.conn[j] \in Conn /\ j # NoConn
    BY NetFields, ConnAssumption DEF Core
  <1>2. ASSUME NEW m \in {S.conn[j].lchan, S.conn[j].secondary_lchan}, m # NoLchan PROVE T.lc[m] = S.lc[m]
    <2>1. m \in Lchans
      BY <1>1, <1>2 DEF Conn, MaybeLchan
    <2>2. S.lc[m].conn = j
      BY <1>2, <2>1 DEF Core, Mutual, HeldBy
    <2> QED  BY <1>1, <2>1, <2>2
  <1> QED  BY <1>2 DEF Keeps

\* Freeing channel l, in a record S between the old and the new state.
LEMMA FreedStep ==
  ASSUME ApiInv, NEW S, Core(S), NEW l \in Lchans, NEW c, ChanFine(c), c.conn = NoConn, c.state = "NONE",
         net' = Freed(S, l, c), Orders(ms), env' = env, BtsFine(bts'), \A m \in Lchans : m # l => bts'[m] = bts[m],
         Phase(c, bts'[l]), \A m \in Lchans : m # l => S.lc[m] = net.lc[m],
         \A j \in Conns : OrdFine(S, j, ms[j]), Nitb => \A k \in Conns : S.conn[k].secondary_lchan # l
  PROVE  ApiInv'
  <1>1. PICK T : T = net'  OBVIOUS
  <1>3. /\ Core(T) /\ T.lc[l] = c
        /\ \A m \in Lchans : m # l => T.lc[m] = S.lc[m] \/ (S.lc[m].conn # NoConn /\ Released(S.lc[m], T.lc[m]))
        /\ \A j \in Conns : \/ T.conn[j] = NoConnection
                            \/ T.conn[j] = S.conn[j] /\ \A m \in HeldBy(S.conn[j]) : T.lc[m] = S.lc[m]
    BY <1>1, FreedDoes
  <1>4. ASSUME NEW m \in Lchans PROVE Phase(T.lc[m], bts'[m])
    <2>1. CASE m = l
      BY <1>3, <1>4, <2>1
    <2>2. CASE m # l
      <3>1. ChanFine(S.lc[m]) /\ Phase(S.lc[m], bts[m]) /\ bts'[m] = bts[m]
        BY <1>4, <2>2 DEF Core, ChansFine, ApiInv, Phases
      <3> QED  BY <1>3, <2>2, <3>1, ReleasedPhase
    <2> QED  BY <2>1, <2>2
  <1>5. Phases(T, bts')
    BY <1>4 DEF Phases
  <1>6. ms' \in [Conns -> SUBSET Order] /\ \A j \in Conns : ms'[j] = IF T.conn[j].alive THEN ms[j] ELSE {}
    BY <1>1 DEF Orders, ApiInv
  <1>7. ASSUME NEW j \in Conns PROVE OrdFine(T, j, ms'[j])
    <2>1. CASE T.conn[j] = NoConnection
      <3>1. ~T.conn[j].alive /\ ms'[j] = {}
        BY <1>6, <2>1 DEF NoConnection
      <3> QED  BY <3>1 DEF OrdFine
    <2>2. CASE T.conn[j] = S.conn[j] /\ \A m \in HeldBy(S.conn[j]) : T.lc[m] = S.lc[m]
      <3>1. Keeps(S, T, j)
        BY <2>2 DEF Keeps, HeldBy
      <3>2. ms[j] \in SUBSET Order /\ ms'[j] \subseteq ms[j] /\ (~T.conn[j].alive => ms'[j] = {})
        BY <1>6 DEF ApiInv
      <3> QED  BY <3>1, <3>2, KeptOrders
    <2> QED  BY <1>3, <2>1, <2>2
  <1> QED  BY <1>1, <1>3, <1>5, <1>6, <1>7, Adopted

LEMMA FreedEnds ==
  ASSUME ApiInv, NEW S, Core(S), NEW l \in Lchans, NEW c \in Lchan,
         net' = Freed(S, l, c), Orders(ms), env' = env, BtsFine(bts'), Nitb, \E k \in Conns : S.conn[k].secondary_lchan = l
  PROVE  Stopped'
  <1>1. PICK k \in Conns : S.conn[k].secondary_lchan = l
    OBVIOUS
  <1>2. S.lc[l].conn = k
    BY <1>1, ApiNullAssumption DEF Core, Mutual, HeldBy
  <1>3. PICK T : T = net'  OBVIOUS
  <1>4. T \in Net /\ T.bad = {"null_assign_fail"} /\ Assignments
    BY <1>1, <1>2, <1>3, FreedStops
  <1>5. ms' \in [Conns -> SUBSET Order]
    BY DEF Orders, ApiInv
  <1> QED  BY <1>3, <1>4, <1>5, Stops

\* The record after the BTS has taken the first command of channel l.
LEMMA PopCore ==
  ASSUME ApiInv, NEW l \in Lchans, net.lc[l].out # <<>>, NEW S, S = Pop(l)
  PROVE  /\ Core(S) /\ S \in Net /\ S.lc[l] = Popped(net.lc[l]) /\ (\A m \in Lchans : m # l => S.lc[m] = net.lc[m])
         /\ S.conn = net.conn /\ S.ho = net.ho /\ S.bad = {}
         /\ ChanFine(S.lc[l]) /\ S.lc[l].conn = net.lc[l].conn /\ S.lc[l].state = net.lc[l].state
         /\ \A j \in Conns : OrdFine(S, j, ms[j])
  <1>1. Core(net) /\ net \in Net /\ net.bad = {} /\ ChanFine(net.lc[l])
    BY InvFacts
  <1>2. PICK e : e = Popped(net.lc[l])  OBVIOUS
  <1>3. ChanFine(e) /\ e.conn = net.lc[l].conn /\ e.state = net.lc[l].state /\ e.type = net.lc[l].type /\ e \in Lchan
    BY <1>1, <1>2, PopDoes DEF ChanFine
  <1>4. S = WithLc(net, l, e)
    BY <1>2, PopIs
  <1>5. S \in Net /\ S.lc[l] = e /\ (\A m \in Lchans : m # l => S.lc[m] = net.lc[m])
        /\ S.conn = net.conn /\ S.ho = net.ho /\ S.bad = net.bad
    BY <1>1, <1>3, <1>4, SetLc
  <1>6. Core(S)
    BY <1>1, <1>3, <1>5, CoreChan
  <1>7. ASSUME NEW j \in Conns PROVE OrdFine(S, j, ms[j])
    <2>1. OrdFine(net, j, ms[j]) /\ ms[j] \in SUBSET Order
      BY DEF ApiInv
    <2>2. Keeps(net, S, j)
      BY <1>1, <1>3, <1>5, ChanKeeps
    <2>3. ~S.conn[j].alive => ms[j] = {}
      BY <1>5, <2>1 DEF OrdFine
    <2> QED  BY <2>1, <2>2, <2>3, KeptOrders
  <1> QED  BY <1>1, <1>2, <1>3, <1>5, <1>6, <1>7

LEMMA RfChanRelAckInv ==
  ASSUME ApiInv, NEW l \in Lchans, RfChanRelAck(l)
  PROVE  ApiInv' \/ Stopped'
  <1>1. net.lc[l].out # <<>> /\ Head(net.lc[l].out).mt = "RF_CHAN_REL"
    BY CmdFacts DEF RfChanRelAck
  <1>2. PICK S : S = Pop(l)  OBVIOUS
  <1>3. /\ Core(S) /\ S.lc[l] = Popped(net.lc[l]) /\ (\A m \in Lchans : m # l => S.lc[m] = net.lc[m])
        /\ \A j \in Conns : OrdFine(S, j, ms[j])
    BY <1>1, <1>2, PopCore
  <1>4. PICK c : c = rsl_rx_rf_chan_rel_ack(Popped(net.lc[l]))  OBVIOUS
  <1>5. net' = Freed(S, l, c) /\ Orders(ms) /\ env' = env
    BY <1>2, <1>3, <1>4 DEF RfChanRelAck, Becomes
  <1>6. ChanFine(net.lc[l]) /\ Phase(net.lc[l], bts[l])
    BY InvFacts
  <1>7. ChanFine(c) /\ c.conn = NoConn /\ c.state = "NONE" /\ c \in Lchan
    BY <1>1, <1>4, <1>6, RelAckFine DEF ChanFine
  <1>8. PICK a : a = [active |-> FALSE, main |-> FALSE]  OBVIOUS
  <1>9. a \in [active : BOOLEAN, main : BOOLEAN] /\ ~a.main /\ ~a.active
    BY <1>8
  <1>10. bts' = SetBts(bts, l, a)
    BY <1>8 DEF RfChanRelAck, SetBts
  <1>11. BtsFine(bts') /\ bts'[l] = a /\ \A m \in Lchans : m # l => bts'[m] = bts[m]
    BY <1>9, <1>10, BtsSet
  <1>12. Phase(c, a)
    BY <1>1, <1>4, <1>6, <1>9, RelAckPhase
  <1> HIDE <1>8, <1>10
  <1>13. CASE Nitb /\ \E k \in Conns : S.conn[k].secondary_lchan = l
    BY <1>3, <1>5, <1>7, <1>11, <1>13, FreedEnds
  <1>14. CASE Nitb => \A k \in Conns : S.conn[k].secondary_lchan # l
    BY <1>3, <1>5, <1>7, <1>11, <1>12, <1>14, FreedStep
  <1> QED  BY <1>13, <1>14

\* CHANNEL ACTIVATION NACK takes the channel from an assignment ...
NackSec(x) == [x EXCEPT !.secondary_lchan = NoLchan]
NackDrops(S, k, l) == [S EXCEPT !.lc[l].conn = NoConn, !.conn[k].secondary_lchan = NoLchan]
\* ... or from a handover.
NackHo(S, k, l, hs) == [S EXCEPT !.conn[k].ho_lchan = NoLchan, !.lc[l].conn = NoConn, !.ho = @ \ hs]

LEMMA NackSecIs ==
  ASSUME NEW S, NEW l, NEW k, k = S.lc[l].conn, k # NoConn, S.conn[k].secondary_lchan = l, ~HasHo(S, l)
  PROVE  ActivateNack(S, l) = NackDrops(S, k, l)
  <1>1. {h \in S.ho : h.new_lchan = l} = {}
    BY DEF HasHo
  <1> QED  BY <1>1 DEF ActivateNack, NackDrops

LEMMA NackIs ==
  ASSUME NEW S, NEW l, NEW k, k = S.lc[l].conn, NEW hs, hs = HosOf(S, l)
  PROVE  /\ ~(k # NoConn /\ S.conn[k].secondary_lchan = l) /\ hs = {} => ActivateNack(S, l) = S
         /\ k # NoConn /\ S.conn[k].secondary_lchan # l /\ hs # {} => ActivateNack(S, l) = NackHo(S, k, l, hs)
  <1>2. ASSUME ~(k # NoConn /\ S.conn[k].secondary_lchan = l), hs = {} PROVE ActivateNack(S, l) = S
    BY <1>2 DEF ActivateNack, HosOf
  <1>3. ASSUME k # NoConn, S.conn[k].secondary_lchan # l, hs # {} PROVE ActivateNack(S, l) = NackHo(S, k, l, hs)
    BY <1>3 DEF ActivateNack, HosOf, NackHo
  <1> QED  BY <1>2, <1>3

LEMMA NackDropsDoes ==
  ASSUME NEW S, Core(S), NEW k \in Conns, NEW l \in Lchans, S.lc[l].conn = k, S.conn[k].secondary_lchan = l,
         NEW T, T = NackDrops(S, k, l)
  PROVE  /\ Dropped(S, T, k, l, NoOwner(S.lc[l])) /\ T.conn[k].secondary_lchan = NoLchan
         /\ T.conn[k].alive = S.conn[k].alive /\ T.conn[k].T10 = S.conn[k].T10
  <1>1. S \in Net /\ S.bad = {} /\ ChanFine(S.lc[l]) /\ ConnFine(S.conn[k]) /\ l # NoLchan
    BY ApiNullAssumption DEF Core, ChansFine, ConnsFine
  <1>2. PICK x : x = S.conn[k]  OBVIOUS
  <1>3. PICK y : y = NackSec(x)  OBVIOUS
  <1>4. x \in Conn
    BY <1>1, <1>2, NetFields
  <1>5. y \in Conn /\ y.lchan = x.lchan /\ y.ho_lchan = x.ho_lchan /\ y.secondary_lchan = NoLchan /\ y.alive = x.alive /\ y.T10 = x.T10
    BY <1>3, <1>4 DEF NackSec, Conn, MaybeLchan
  <1>6. PICK c : c = NoOwner(S.lc[l])  OBVIOUS
  <1>7. c \in Lchan
    BY <1>1, <1>6, NoOwnerFine DEF ChanFine
  <1>8. PICK A : A = WithLc(S, l, c)  OBVIOUS
  <1>9. A \in Net /\ A.lc[l] = c /\ (\A m \in Lchans : m # l => A.lc[m] = S.lc[m])
        /\ A.conn = S.conn /\ A.ho = S.ho /\ A.bad = S.bad
    BY <1>1, <1>7, <1>8, SetLc
  <1>10. T = WithConn(A, k, y)
    BY <1>1, <1>2, <1>3, <1>6, <1>8, NetFields DEF NackDrops, WithConn, WithLc, NackSec, NoOwner, Net
  <1>11. T \in Net /\ T.conn[k] = y /\ (\A j \in Conns : j # k => T.conn[j] = A.conn[j])
         /\ T.lc = A.lc /\ T.ho = A.ho /\ T.bad = A.bad
    BY <1>5, <1>9, <1>10, SetConn
  <1>12. LacksOnly(x, y, l)
    BY <1>1, <1>2, <1>5 DEF LacksOnly, Minus, ConnFine
  <1>13. S.ho = Without(S, l)
    <2>1. \A h \in S.ho : h.new_lchan # l
      BY <1>1, HosAtHoLchan DEF ConnFine
    <2> QED  BY <2>1 DEF Without
  <1> QED  BY <1>1, <1>2, <1>5, <1>6, <1>9, <1>11, <1>12, <1>13 DEF Dropped

LEMMA NackHoDoes ==
  ASSUME NEW S, Core(S), NEW k \in Conns, NEW l \in Lchans, S.conn[k].ho_lchan = l, NEW hs, hs = HosOf(S, l),
         NEW T, T = NackHo(S, k, l, hs)
  PROVE  /\ Dropped(S, T, k, l, NoOwner(S.lc[l])) /\ T.conn[k].secondary_lchan = S.conn[k].secondary_lchan
         /\ T.conn[k].lchan = S.conn[k].lchan /\ T.conn[k].alive = S.conn[k].alive /\ T.conn[k].T10 = S.conn[k].T10
  <1>1. S \in Net /\ S.bad = {} /\ ChanFine(S.lc[l]) /\ ConnFine(S.conn[k]) /\ l # NoLchan
    BY ApiNullAssumption DEF Core, ChansFine, ConnsFine
  <1>2. PICK x : x = S.conn[k]  OBVIOUS
  <1>3. PICK y : y = NoHo(x)  OBVIOUS
  <1>4. x \in Conn
    BY <1>1, <1>2, NetFields
  <1>5. y \in Conn /\ y.lchan = x.lchan /\ y.secondary_lchan = x.secondary_lchan /\ y.alive = x.alive /\ y.T10 = x.T10
    BY <1>3, <1>4 DEF NoHo, Conn, MaybeLchan
  <1>6. HasHo(S, l)
    BY <1>1 DEF Core, HosFine, HasHo
  <1>7. T = HoDropped(S, k)
    <2>1. HosOf(S, l) # {}
      BY <1>6 DEF HasHo, HosOf
    <2>2. HoDropped(S, k) = [S EXCEPT !.lc[l].conn = NoConn, !.conn[k].ho_lchan = NoLchan, !.ho = @ \ hs]
      BY <2>1 DEF HoDropped, bsc_clear_handover, HosOf
    <2>3. T = [S EXCEPT !.lc[l].conn = NoConn, !.conn[k].ho_lchan = NoLchan, !.ho = @ \ hs]
      BY <1>1 DEF NackHo, Net
    <2> QED  BY <2>2, <2>3
  <1>8. /\ T \in Net /\ T.lc[l] = NoOwner(S.lc[l]) /\ (\A m \in Lchans : m # l => T.lc[m] = S.lc[m])
        /\ T.conn[k] = NoHo(S.conn[k]) /\ (\A j \in Conns : j # k => T.conn[j] = S.conn[j])
        /\ T.ho = Without(S, l) /\ T.bad = S.bad
    BY <1>1, <1>6, <1>7, HoDroppedNet
  <1>9. LacksOnly(x, y, l)
    BY <1>1, <1>2, <1>3, <1>4, PointerDropped
  <1> QED  BY <1>1, <1>2, <1>3, <1>5, <1>8, <1>9 DEF Dropped

\* An activation the BTS still has to answer is one of a channel in ACT_REQ, or of one given up.
LEMMA ActivPending ==
  ASSUME ApiInv, NEW l \in Lchans, net.lc[l].out # <<>>, Head(net.lc[l].out).mt = "CHAN_ACTIV"
  PROVE  ~bts[l].active /\ (net.lc[l].conn # NoConn => net.lc[l].state = "ACT_REQ")
  <1>1. ChanFine(net.lc[l]) /\ Phase(net.lc[l], bts[l])
    BY InvFacts
  <1>2. Opening(net.lc[l], bts[l]) \/ GivenUp(net.lc[l], bts[l])
    BY <1>1, HeadTells DEF Stale
  <1> QED  BY <1>2 DEF Opening, GivenUp

LEMMA NackCore ==
  ASSUME ApiInv, NEW l \in Lchans, net.lc[l].out # <<>>, Head(net.lc[l].out).mt = "CHAN_ACTIV",
         NEW S, S = Pop(l), NEW U, U = ActivateNack(S, l)
  PROVE  /\ Core(U) /\ (\A m \in Lchans : m # l => U.lc[m] = net.lc[m])
         /\ (U.lc[l] = S.lc[l] \/ U.lc[l] = NoOwner(S.lc[l]))
         /\ \A j \in Conns : OrdFine(U, j, ms[j]) /\ U.conn[j].secondary_lchan # l
  <1>1. /\ Core(S) /\ S \in Net /\ (\A m \in Lchans : m # l => S.lc[m] = net.lc[m])
        /\ S.conn = net.conn /\ S.ho = net.ho /\ S.bad = {}
        /\ ChanFine(S.lc[l]) /\ S.lc[l].conn = net.lc[l].conn /\ S.lc[l].state = net.lc[l].state
        /\ \A j \in Conns : OrdFine(S, j, ms[j])
    BY PopCore
  <1>2. PICK hs : hs = HosOf(S, l)  OBVIOUS
  <1>3. S.lc[l].conn \in Conns \cup {NoConn}
    BY <1>1 DEF ChanFine, Lchan
  <1>4. ASSUME hs # {} PROVE S.lc[l].conn \in Conns /\ S.conn[S.lc[l].conn].ho_lchan = l
    <2>1. PICK h \in S.ho : h.new_lchan = l
      BY <1>2, <1>4 DEF HosOf
    <2>2. PICK j \in Conns : Anchors(S.conn[j], h)
      BY <1>1 DEF Core, HosFine
    <2>3. l \in HeldBy(S.conn[j]) /\ S.conn[j].ho_lchan = l
      BY <2>1, <2>2, ApiNullAssumption DEF Anchors, HeldBy
    <2>4. S.lc[l].conn = j
      BY <1>1, <2>3 DEF Core, Mutual
    <2> QED  BY <2>3, <2>4
  <1>5. ASSUME NEW k \in Conns, S.lc[l].conn = k, Dropped(S, U, k, l, NoOwner(S.lc[l])), l # S.conn[k].lchan,
               U.conn[k].alive = S.conn[k].alive, U.conn[k].T10 = S.conn[k].T10,
               U.conn[k].secondary_lchan \in {NoLchan, S.conn[k].secondary_lchan}, OrdFine(U, k, ms[k])
        PROVE  /\ Core(U) /\ (\A m \in Lchans : m # l => U.lc[m] = net.lc[m])
               /\ (U.lc[l] = S.lc[l] \/ U.lc[l] = NoOwner(S.lc[l]))
               /\ \A j \in Conns : OrdFine(U, j, ms[j]) /\ U.conn[j].secondary_lchan # l
    <2>1. PICK c : c = NoOwner(S.lc[l])  OBVIOUS
    <2>2. ChanFine(c) /\ c.conn = NoConn
      BY <1>1, <2>1, NoOwnerFine
    <2>3. S.conn[k].secondary_lchan # NoLchan => S.conn[k].T10
      BY <1>1 DEF Core, ConnsFine, ConnFine
    <2>4. Core(U)
      BY <1>1, <1>5, <2>1, <2>2, <2>3, DroppedCore
    <2>5. U.lc[l] = c /\ (\A m \in Lchans : m # l => U.lc[m] = S.lc[m]) /\ \A j \in Conns : j # k => U.conn[j] = S.conn[j]
      BY <1>5, <2>1 DEF Dropped
    <2>6. ASSUME NEW j \in Conns, j # k PROVE OrdFine(U, j, ms[j])
      <3>1. \A m \in Lchans : S.lc[m].conn \notin {NoConn, k} => U.lc[m] = S.lc[m]
        BY <1>5, <2>5
      <3>2. Keeps(S, U, j)
        BY <1>1, <2>5, <2>6, <3>1, OthersKeep
      <3>3. OrdFine(S, j, ms[j]) /\ ms[j] \in SUBSET Order
        BY <1>1 DEF ApiInv
      <3>4. ~U.conn[j].alive => ms[j] = {}
        BY <2>5, <2>6, <3>3 DEF OrdFine
      <3> QED  BY <3>2, <3>3, <3>4, KeptOrders
    <2>7. \A j \in Conns : U.conn[j].secondary_lchan # l
      BY <2>2, <2>4, <2>5, ApiNullAssumption, ConnAssumption DEF Core, Mutual, HeldBy
    <2> QED  BY <1>1, <1>5, <2>1, <2>4, <2>5, <2>6, <2>7
  <1>6. CASE S.lc[l].conn # NoConn /\ S.conn[S.lc[l].conn].secondary_lchan = l
    <2>1. PICK k \in Conns : S.lc[l].conn = k
      BY <1>3, <1>6
    <2>2. ConnFine(S.conn[k]) /\ l # NoLchan /\ S.conn[k].secondary_lchan = l
      BY <1>1, <1>6, <2>1, ApiNullAssumption DEF Core, ConnsFine
    <2>3. hs = {}
      BY <1>4, <2>1, <2>2 DEF ConnFine
    <2>4. U = NackDrops(S, k, l)
      <3>1. k # NoConn /\ k = S.lc[l].conn /\ S.conn[k].secondary_lchan = l
        BY <2>1, <2>2, ConnAssumption
      <3>2. ~HasHo(S, l)
        BY <1>2, <2>3 DEF HasHo, HosOf
      <3> QED  BY <3>1, <3>2, NackSecIs
    <2>5. /\ Dropped(S, U, k, l, NoOwner(S.lc[l])) /\ U.conn[k].secondary_lchan = NoLchan
          /\ U.conn[k].alive = S.conn[k].alive /\ U.conn[k].T10 = S.conn[k].T10
      BY <1>1, <2>1, <2>2, <2>4, NackDropsDoes
    <2>6. l # S.conn[k].lchan
      BY <2>2 DEF ConnFine
    <2>7. MainUp(S, S.conn[k]) /\ S.conn[k].lchan # NoLchan
      BY <1>1, <2>2, NoConnectionTyped DEF Core, ConnsFine, ConnFine, HeldBy
    <2>8. S.lc[l].state = "ACT_REQ"
      BY <1>1, <1>6, ActivPending
    <2>9. OrdFine(U, k, ms[k])
      <3>1. OrdFine(S, k, ms[k])
        BY <1>1
      <3>2. \A o \in ms[k] : (o.cmd = "ASS" => "late_ms" \in Faults) /\ o.cmd # "MOD"
        BY <2>2, <2>7, <2>8, <3>1 DEF OrdFine, MainUp
      <3> QED  BY <2>5, <3>1, <3>2 DEF OrdFine
    <2> QED  BY <1>5, <2>1, <2>5, <2>6, <2>9
  <1>7. CASE hs # {}
    <2>1. PICK k \in Conns : S.lc[l].conn = k
      BY <1>4, <1>7
    <2>2. S.conn[k].ho_lchan = l /\ ConnFine(S.conn[k]) /\ l # NoLchan /\ k # NoConn
      BY <1>1, <1>4, <1>7, <2>1, ApiNullAssumption, ConnAssumption DEF Core, ConnsFine
    <2>3. S.conn[k].secondary_lchan # l /\ l # S.conn[k].lchan
      BY <2>2 DEF ConnFine
    <2>4. U = NackHo(S, k, l, hs)
      BY <1>2, <1>7, <2>1, <2>2, <2>3, NackIs
    <2>5. /\ Dropped(S, U, k, l, NoOwner(S.lc[l])) /\ U.conn[k].secondary_lchan = S.conn[k].secondary_lchan
          /\ U.conn[k].lchan = S.conn[k].lchan /\ U.conn[k].alive = S.conn[k].alive /\ U.conn[k].T10 = S.conn[k].T10
      BY <1>1, <1>2, <2>2, <2>4, NackHoDoes
    <2>6. OrdFine(U, k, ms[k])
      <3>1. OrdFine(S, k, ms[k]) /\ ms[k] \in SUBSET Order
        BY <1>1 DEF ApiInv
      <3>2. \A m \in {S.conn[k].lchan, S.conn[k].secondary_lchan} : m # NoLchan => U.lc[m] = S.lc[m]
        BY <1>1, <2>3, <2>5, NetFields DEF Dropped, Conn, MaybeLchan
      <3>3. Keeps(S, U, k)
        BY <2>5, <3>2 DEF Keeps
      <3>4. ~U.conn[k].alive => ms[k] = {}
        BY <2>5, <3>1 DEF OrdFine
      <3> QED  BY <3>1, <3>3, <3>4, KeptOrders
    <2> QED  BY <1>5, <2>1, <2>3, <2>5, <2>6
  <1>8. CASE ~(S.lc[l].conn # NoConn /\ S.conn[S.lc[l].conn].secondary_lchan = l) /\ hs = {}
    <2>1. U = S
      BY <1>2, <1>8, NackIs
    <2>2. \A j \in Conns : S.conn[j].secondary_lchan # l
      BY <1>1, <1>8, ApiNullAssumption, ConnAssumption DEF Core, Mutual, HeldBy
    <2> QED  BY <1>1, <2>1, <2>2
  <1> QED  BY <1>6, <1>7, <1>8

LEMMA ChanActivNackInv ==
  ASSUME ApiInv, NEW l \in Lchans, ChanActivNack(l)
  PROVE  ApiInv'
  <1>1. net.lc[l].out # <<>> /\ Head(net.lc[l].out).mt = "CHAN_ACTIV"
    BY CmdFacts DEF ChanActivNack
  <1>2. PICK S : S = Pop(l)  OBVIOUS
  <1>3. PICK U : U = ActivateNack(S, l)  OBVIOUS
  <1>4. PICK cause \in {"ALR_ACTV", "OTHER"} : cause = IF bts[l].active THEN "ALR_ACTV" ELSE "OTHER"
    OBVIOUS
  <1>5. PICK c : c = rsl_rx_chan_act_nack(U.lc[l], cause)  OBVIOUS
  <1>6. net' = Freed(U, l, c) /\ Orders(ms) /\ env' = env /\ bts' = bts
    BY <1>2, <1>3, <1>4, <1>5 DEF ChanActivNack, Becomes
  <1>7. /\ Core(U) /\ (\A m \in Lchans : m # l => U.lc[m] = net.lc[m])
        /\ (U.lc[l] = S.lc[l] \/ U.lc[l] = NoOwner(S.lc[l]))
        /\ \A j \in Conns : OrdFine(U, j, ms[j]) /\ U.conn[j].secondary_lchan # l
    BY <1>1, <1>2, <1>3, NackCore
  <1>8. ChanFine(U.lc[l])
    BY <1>7 DEF Core, ChansFine
  <1>9. /\ ChanFine(c) /\ c.conn = NoConn /\ c.type = "NONE" /\ c.state = "NONE"
        /\ cause = "OTHER" => c.out = U.lc[l].out /\ c.T3111 = U.lc[l].T3111
    BY <1>5, <1>8, NackFine
  <1>10. Phase(c, bts[l])
    <2>1. cause = "OTHER"
      BY <1>1, <1>4, ActivPending
    <2>2. ChanFine(net.lc[l]) /\ Phase(net.lc[l], bts[l])
      BY InvFacts
    <2>3. S.lc[l] = Popped(net.lc[l]) /\ ChanFine(S.lc[l])
      BY <1>1, <1>2, PopCore
    <2>4. S.lc[l].out = Tail(net.lc[l].out) /\ S.lc[l].T3111 = net.lc[l].T3111
      BY <1>1, <2>2, <2>3, PopDoes
    <2>5. U.lc[l].out = S.lc[l].out /\ U.lc[l].T3111 = S.lc[l].T3111
      BY <1>7, <2>3, NoOwnerFine
    <2> QED  BY <1>1, <1>9, <2>1, <2>2, <2>4, <2>5, NackPhase
  <1> QED  BY <1>6, <1>7, <1>9, <1>10, BtsKept, FreedStep

LEMMA MscClearsInv ==
  ASSUME ApiInv, NEW k \in Conns, MscClears(k)
  PROVE  ApiInv'
  <1>1. PICK T : T = net'  OBVIOUS
  <1>2. T = subscr_con_free(gsm0808_clear(net, k), k) /\ Orders(ms) /\ bts' = bts /\ env' = env
    BY <1>1 DEF MscClears, Becomes
  <1>3. Core(net)
    BY DEF ApiInv
  <1>4. Gone(net, T, k) /\ \A m \in Lchans : m \in HeldBy(net.conn[k]) => Released(net.lc[m], T.lc[m])
    BY <1>2, <1>3, ClearGone
  <1>5. Core(T)
    BY <1>3, <1>4, GoneCore
  <1>6. \A m \in Lchans : net.lc[m].conn = k <=> m \in HeldBy(net.conn[k])
    BY <1>3 DEF Core, Mutual
  <1>7. ASSUME NEW m \in Lchans PROVE Phase(T.lc[m], bts'[m])
    <2>1. ChanFine(net.lc[m]) /\ Phase(net.lc[m], bts[m])
      BY <1>7, InvFacts
    <2>2. CASE m \in HeldBy(net.conn[k])
      BY <1>2, <1>4, <1>6, <2>1, <2>2, ReleasedPhase, ConnAssumption
    <2>3. CASE m \notin HeldBy(net.conn[k])
      BY <1>2, <1>4, <2>1, <2>3 DEF Gone
    <2> QED  BY <2>2, <2>3
  <1>8. Phases(T, bts')
    BY <1>7 DEF Phases
  <1>9. ms' \in [Conns -> SUBSET Order] /\ \A j \in Conns : ms'[j] = IF T.conn[j].alive THEN ms[j] ELSE {}
    BY <1>1, <1>2 DEF Orders, ApiInv
  <1>10. ASSUME NEW j \in Conns PROVE OrdFine(T, j, ms'[j])
    <2>1. CASE j = k
      <3>1. ~T.conn[j].alive /\ ms'[j] = {}
        BY <1>4, <1>9, <2>1 DEF Gone, NoConnection
      <3> QED  BY <3>1 DEF OrdFine
    <2>2. CASE j # k
      <3>1. T.conn[j] = net.conn[j] /\ \A m \in Lchans : net.lc[m].conn \notin {NoConn, k} => T.lc[m] = net.lc[m]
        BY <1>4, <1>6, <2>2 DEF Gone
      <3>2. Keeps(net, T, j)
        BY <1>3, <2>2, <3>1, OthersKeep
      <3>3. OrdFine(net, j, ms[j]) /\ ms[j] \in SUBSET Order /\ ms'[j] \subseteq ms[j] /\ (~T.conn[j].alive => ms'[j] = {})
        BY <1>9 DEF ApiInv
      <3> QED  BY <3>2, <3>3, KeptOrders
    <2> QED  BY <2>1, <2>2
  <1> QED  BY <1>1, <1>2, <1>5, <1>8, <1>9, <1>10, BtsKept, Adopted

-----------------------------------------------------------------------------
(* Assignments, handovers, new connections *)

\* Connection k lets channel l go, which is released; its orders are looked at apart.
LEMMA DropStep ==
  ASSUME ApiInv, NEW k \in Conns, NEW l \in Lchans, net.lc[l].conn = k, l # net.conn[k].lchan,
         NEW c, Released(net.lc[l], c), NEW T, net' = T, Dropped(net, T, k, l, c),
         T.conn[k].alive = net.conn[k].alive, T.conn[k].T10 => net.conn[k].T10, T.conn[k].secondary_lchan # NoLchan => T.conn[k].T10,
         bts' = bts, env' = env, ms' \in [Conns -> SUBSET Order], \A j \in Conns : ms'[j] \subseteq ms[j] /\ (~T.conn[j].alive => ms'[j] = {}),
         OrdFine(T, k, ms'[k])
  PROVE  ApiInv'
  <1>1. Core(net) /\ ChanFine(net.lc[l]) /\ k # NoConn
    BY InvFacts, ConnAssumption
  <1>2. ChanFine(c) /\ c.conn = NoConn
    BY <1>1, ReleaseFine DEF Released
  <1>3. Core(T)
    BY <1>1, <1>2, DroppedCore
  <1>4. T.lc[l] = c /\ (\A m \in Lchans : m # l => T.lc[m] = net.lc[m]) /\ \A j \in Conns : j # k => T.conn[j] = net.conn[j]
    BY DEF Dropped
  <1>5. ASSUME NEW m \in Lchans PROVE Phase(T.lc[m], bts'[m])
    <2>1. ChanFine(net.lc[m]) /\ Phase(net.lc[m], bts[m])
      BY <1>5, InvFacts
    <2> QED  BY <1>1, <1>4, <2>1, ReleasedPhase
  <1>6. Phases(T, bts')
    BY <1>5 DEF Phases
  <1>7. ASSUME NEW j \in Conns, j # k PROVE OrdFine(T, j, ms'[j])
    <2>1. \A m \in Lchans : net.lc[m].conn \notin {NoConn, k} => T.lc[m] = net.lc[m]
      BY <1>4
    <2>2. Keeps(net, T, j)
      BY <1>1, <1>4, <1>7, <2>1, OthersKeep
    <2>3. OrdFine(net, j, ms[j]) /\ ms[j] \in SUBSET Order
      BY DEF ApiInv
    <2> QED  BY <2>2, <2>3, KeptOrders
  <1> QED  BY <1>3, <1>6, <1>7, BtsKept, Adopted

\* The secondary channel is given up: T10, ASSIGNMENT FAILURE.
LEMMA SecGone ==
  ASSUME NEW S, Core(S), NEW k \in Conns, NEW l \in Lchans, S.conn[k].secondary_lchan = l, NEW R, ReleasedAt(S, R, l),
         NEW y, y = NoSec(R.conn[k]), NEW T, T = WithConn(R, k, y)
  PROVE  /\ Dropped(S, T, k, l, R.lc[l]) /\ Released(S.lc[l], R.lc[l]) /\ S.lc[l].conn = k /\ l # S.conn[k].lchan
         /\ T.conn[k].alive = S.conn[k].alive /\ ~T.conn[k].T10 /\ T.conn[k].secondary_lchan = NoLchan
  <1>1. S \in Net /\ S.bad = {} /\ ChanFine(S.lc[l]) /\ ConnFine(S.conn[k]) /\ l # NoLchan
    BY ApiNullAssumption DEF Core, ChansFine, ConnsFine
  <1>2. PICK x : x = S.conn[k]  OBVIOUS
  <1>3. y = NoSec(x)
    BY <1>2 DEF ReleasedAt
  <1>4. x \in Conn /\ l \in HeldBy(x)
    BY <1>1, <1>2, NetFields DEF HeldBy
  <1>5. y \in Conn /\ y.secondary_lchan = NoLchan /\ y.alive = x.alive /\ ~y.T10
    BY <1>3, <1>4 DEF NoSec, Conn, MaybeLchan
  <1>6. /\ R \in Net /\ Released(S.lc[l], R.lc[l]) /\ (\A m \in Lchans : m # l => R.lc[m] = S.lc[m])
        /\ R.conn = S.conn /\ R.ho = S.ho /\ R.bad = S.bad
    BY DEF ReleasedAt
  <1>8. T \in Net /\ T.conn[k] = y /\ (\A j \in Conns : j # k => T.conn[j] = R.conn[j])
        /\ T.lc = R.lc /\ T.ho = R.ho /\ T.bad = R.bad
    BY <1>5, <1>6, SetConn
  <1>9. LacksOnly(x, y, l)
    BY <1>1, <1>2, <1>3, <1>4, PointerDropped
  <1>10. S.lc[l].conn = k /\ l # S.conn[k].lchan /\ l # S.conn[k].ho_lchan
    BY <1>1, <1>2, <1>4 DEF Core, Mutual, ConnFine
  <1>11. S.ho = Without(S, l)
    <2>1. \A h \in S.ho : h.new_lchan # l
      BY <1>10, HosAtHoLchan
    <2> QED  BY <2>1 DEF Without
  <1> QED  BY <1>1, <1>2, <1>5, <1>6, <1>8, <1>9, <1>10, <1>11 DEF Dropped

SecOff(S, k) == [S EXCEPT !.conn[k].secondary_lchan = NoLchan, !.conn[k].T10 = FALSE]
LEMMA SecOut ==
  ASSUME NEW S \in Net, NEW k \in Conns
  PROVE  SecOff(S, k) = WithConn(S, k, NoSec(S.conn[k]))
  BY NetFields DEF SecOff, WithConn, NoSec, Net, Conn

\* Steps that only change the record of connection k, and no pointer of it.
LEMMA ConnOnly ==
  ASSUME ApiInv, NEW k \in Conns, NEW y \in Conn, ConnFine(y),
         /\ y.lchan = net.conn[k].lchan /\ y.secondary_lchan = net.conn[k].secondary_lchan
         /\ y.ho_lchan = net.conn[k].ho_lchan /\ y.alive = net.conn[k].alive,
         NEW T, T = WithConn(net, k, y), net' = T, bts' = bts, env' = env, ms' \in [Conns -> SUBSET Order],
         \A j \in Conns : j # k => ms'[j] \subseteq ms[j] /\ (~T.conn[j].alive => ms'[j] = {}), OrdFine(T, k, ms'[k])
  PROVE  ApiInv'
  <1>1. Core(net) /\ net \in Net /\ net.bad = {}
    BY DEF ApiInv, Core
  <1>2. T \in Net /\ T.conn[k] = y /\ (\A j \in Conns : j # k => T.conn[j] = net.conn[j])
        /\ T.lc = net.lc /\ T.ho = net.ho /\ T.bad = net.bad
    BY <1>1, SetConn
  <1>3. Core(T)
    <2>1. ChansFine(T)
      BY <1>1, <1>2 DEF Core, ChansFine
    <2>2. ConnsFine(T)
      BY <1>1, <1>2 DEF Core, ConnsFine
    <2>3. \A j \in Conns : HeldBy(T.conn[j]) = HeldBy(net.conn[j]) /\ T.conn[j].lchan = net.conn[j].lchan
          /\ T.conn[j].ho_lchan = net.conn[j].ho_lchan /\ T.conn[j].secondary_lchan = net.conn[j].secondary_lchan
      BY <1>2 DEF HeldBy
    <2>4. Mutual(T)
      BY <1>1, <1>2, <2>3 DEF Core, Mutual
    <2>5. HosFine(T)
      BY <1>1, <1>2, <2>3 DEF Core, HosFine, Anchors
    <2>6. \A j \in Conns : MainUp(T, T.conn[j])
      BY <1>1, <1>2, <2>3 DEF Core, MainUp
    <2> QED  BY <1>1, <1>2, <2>1, <2>2, <2>4, <2>5, <2>6 DEF Core
  <1>4. Phases(T, bts')
    BY <1>2 DEF ApiInv, Phases
  <1>5. ASSUME NEW j \in Conns, j # k PROVE OrdFine(T, j, ms'[j])
    <2>1. OrdFine(net, j, ms[j]) /\ ms[j] \in SUBSET Order
      BY DEF ApiInv
    <2>2. Keeps(net, T, j)
      BY <1>2, <1>5 DEF Keeps
    <2>3. ms'[j] \subseteq ms[j] /\ (~T.conn[j].alive => ms'[j] = {})
      BY <1>5
    <2> QED  BY <2>1, <2>2, <2>3, KeptOrders
  <1> QED  BY <1>3, <1>4, <1>5, BtsKept, Adopted

LEMMA OrdersAre ==
  ASSUME ApiInv, NEW f \in [Conns -> SUBSET Order], Orders(f)
  PROVE  /\ ms' \in [Conns -> SUBSET Order]
         /\ \A j \in Conns : ms'[j] = IF net'.conn[j].alive THEN f[j] ELSE {}
  BY DEF Orders

\* The orders of connection k other than o.
Fewer(k, o) == [ms EXCEPT ![k] = @ \ {o}]
LEMMA FewerIs ==
  ASSUME ApiInv, NEW k \in Conns, NEW o
  PROVE  /\ Fewer(k, o) \in [Conns -> SUBSET Order] /\ Fewer(k, o)[k] = ms[k] \ {o}
         /\ \A j \in Conns : j # k => Fewer(k, o)[j] = ms[j]
  <1>1. ms \in [Conns -> SUBSET Order]
    BY DEF ApiInv
  <1> QED  BY <1>1 DEF Fewer

LEMMA DoneIs ==
  ASSUME ApiInv, NEW k \in Conns, NEW o, Done(k, o), NEW T, T = net'
  PROVE  /\ ms' \in [Conns -> SUBSET Order] /\ env \in Env
         /\ ms'[k] = IF T.conn[k].alive THEN ms[k] \ {o} ELSE {}
         /\ \A j \in Conns : j # k => ms'[j] = IF T.conn[j].alive THEN ms[j] ELSE {}
         /\ \A j \in Conns : ms'[j] \subseteq ms[j] /\ (~T.conn[j].alive => ms'[j] = {})
  <1>1. Orders(Fewer(k, o))
    BY DEF Done, Fewer
  <1>2. env \in Env
    BY ApiEnvAssumption DEF ApiInv
  <1>3. PICK f : f = Fewer(k, o)  OBVIOUS
  <1>4. f \in [Conns -> SUBSET Order] /\ f[k] = ms[k] \ {o} /\ \A j \in Conns : j # k => f[j] = ms[j]
    BY <1>3, FewerIs
  <1>5. ms' \in [Conns -> SUBSET Order] /\ \A j \in Conns : ms'[j] = IF T.conn[j].alive THEN f[j] ELSE {}
    BY <1>1, <1>3, <1>4, OrdersAre
  <1> QED  BY <1>2, <1>4, <1>5

\* Nothing changes but that an order is gone.
LEMMA OnlyDone ==
  ASSUME ApiInv, NEW k \in Conns, NEW o, Done(k, o), net' = net, bts' = bts, env' = env
  PROVE  ApiInv'
  <1>1. PICK T : T = net'  OBVIOUS
  <1>2. ms' \in [Conns -> SUBSET Order] /\ \A j \in Conns : ms'[j] \subseteq ms[j] /\ (~T.conn[j].alive => ms'[j] = {})
    BY <1>1, DoneIs
  <1>3. Core(T) /\ Phases(T, bts') /\ T = net
    BY <1>1 DEF ApiInv
  <1>4. ASSUME NEW j \in Conns PROVE OrdFine(T, j, ms'[j])
    <2>1. OrdFine(net, j, ms[j])
      BY DEF ApiInv
    <2> QED  BY <1>2, <1>3, <2>1 DEF OrdFine
  <1> QED  BY <1>1, <1>2, <1>3, <1>4, BtsKept, Adopted

\* When the secondary channel is given up: no order is left that names it, unless the MS answers late.
LEMMA NoOthers ==
  ASSUME ApiInv, NEW k \in Conns, NEW T, NEW R, R \subseteq ms[k], ~T.conn[k].alive => R = {},
         T.conn[k].lchan = net.conn[k].lchan,
         net.conn[k].lchan # NoLchan => T.lc[net.conn[k].lchan].type = net.lc[net.conn[k].lchan].type,
         "late_ms" \notin Faults => \A o \in R : o.cmd # "ASS"
  PROVE  OrdFine(T, k, R)
  <1>1. OrdFine(net, k, ms[k])
    BY DEF ApiInv
  <1> QED  BY <1>1 DEF OrdFine

\* There is at most one ASSIGNMENT COMMAND then.
LEMMA OneOrder ==
  ASSUME ApiInv, "late_ms" \notin Faults, NEW k \in Conns, NEW o \in ms[k], o.cmd = "ASS", NEW p \in ms[k], p.cmd = "ASS"
  PROVE  p = o
  <1>1. OrdFine(net, k, ms[k]) /\ o \in Order /\ p \in Order
    BY DEF ApiInv
  <1>2. p.old = o.old /\ p.new = o.new
    BY <1>1 DEF OrdFine
  <1> QED  BY <1>1, <1>2 DEF Order

LEMMA MsIgnoresInv ==
  ASSUME ApiInv, NEW k \in Conns, NEW o \in ms[k], MsIgnores(k, o)
  PROVE  ApiInv'
  BY OnlyDone DEF MsIgnores, Becomes

NoT10(x) == [x EXCEPT !.T10 = FALSE]
LEMMA MsModifiesInv ==
  ASSUME ApiInv, NEW k \in Conns, NEW o \in ms[k], MsModifies(k, o)
  PROVE  ApiInv'
  <1>1. o.cmd = "MOD" /\ Done(k, o) /\ bts' = bts /\ env' = env
    BY DEF MsModifies
  <1>2. OrdFine(net, k, ms[k]) /\ net \in Net /\ ConnFine(net.conn[k])
    BY DEF ApiInv, Core, ConnsFine
  <1>3. net.conn[k].secondary_lchan = NoLchan /\ net.conn[k].alive
    <2>1. net.conn[k].alive /\ net.conn[k].lchan # NoLchan
      BY <1>2 DEF OrdFine, ConnFine
    <2>2. net.lc[net.conn[k].lchan].type # "SDCCH"
      BY <1>1, <1>2, <2>1 DEF OrdFine
    <2>3. MainUp(net, net.conn[k])
      BY DEF ApiInv, Core
    <2> QED  BY <2>1, <2>2, <2>3 DEF MainUp
  <1>4. PICK x : x = net.conn[k]  OBVIOUS
  <1>5. PICK y : y = NoT10(x)  OBVIOUS
  <1>6. x \in Conn
    BY <1>2, <1>4, NetFields
  <1>7. /\ y \in Conn /\ y.lchan = x.lchan /\ y.secondary_lchan = x.secondary_lchan
        /\ y.ho_lchan = x.ho_lchan /\ y.alive = x.alive /\ y.T10 = FALSE
    BY <1>5, <1>6 DEF NoT10, Conn
  <1>8. ConnFine(y)
    BY <1>2, <1>3, <1>4, <1>7 DEF ConnFine
  <1>9. PICK T : T = WithConn(net, k, y)  OBVIOUS
  <1>10. net' = T
    BY <1>2, <1>4, <1>5, <1>9, NetFields DEF MsModifies, Becomes, WithConn, NoT10, Net, Conn
  <1>11. /\ ms' \in [Conns -> SUBSET Order] /\ ms'[k] = IF T.conn[k].alive THEN ms[k] \ {o} ELSE {}
         /\ \A j \in Conns : ms'[j] \subseteq ms[j] /\ (~T.conn[j].alive => ms'[j] = {})
    BY <1>1, <1>10, DoneIs
  <1>12. OrdFine(T, k, ms'[k])
    <2>1. ms'[k] \subseteq ms[k] /\ (~T.conn[k].alive => ms'[k] = {}) /\ ms[k] \in SUBSET Order
      BY <1>11 DEF ApiInv
    <2>2. T.conn[k] = y /\ T.lc = net.lc
      BY <1>2, <1>7, <1>9, SetConn
    <2>3. Keeps(net, T, k)
      BY <1>4, <1>7, <2>2 DEF Keeps
    <2> QED  BY <1>2, <2>1, <2>3, KeptOrders
  <1>14. ms' \in [Conns -> SUBSET Order] /\ \A j \in Conns : j # k => ms'[j] \subseteq ms[j] /\ (~T.conn[j].alive => ms'[j] = {})
    BY <1>11
  <1>15. net' = T /\ bts' = bts /\ env' = env
    BY <1>1, <1>10
  <1>13. /\ y.lchan = net.conn[k].lchan /\ y.secondary_lchan = net.conn[k].secondary_lchan
         /\ y.ho_lchan = net.conn[k].ho_lchan /\ y.alive = net.conn[k].alive /\ y \in Conn
    BY <1>4, <1>7
  <1> QED  BY <1>8, <1>9, <1>12, <1>13, <1>14, <1>15, ConnOnly

LEMMA OrderFacts ==
  ASSUME ApiInv, NEW k \in Conns, NEW o \in ms[k], o.cmd = "ASS"
  PROVE  /\ o.new \in Lchans /\ o.old \in Lchans /\ net.conn[k].alive /\ ConnFine(net.conn[k]) /\ net.conn[k] \in Conn /\ Assignments
         /\ "late_ms" \notin Faults => o.new = net.conn[k].secondary_lchan /\ o.old = net.conn[k].lchan
  <1>1. OrdFine(net, k, ms[k]) /\ o \in Order /\ ConnFine(net.conn[k]) /\ net.conn[k] \in Conn
    BY NetFields DEF ApiInv, Core, ConnsFine
  <1> QED  BY <1>1 DEF OrdFine, Order

\* T10 expires: there is no order left, or the MS may answer it late.
LEMMA T10Facts ==
  ASSUME ApiInv, NEW k \in Conns, T10Expires(k)
  PROVE  /\ net.conn[k].T10 /\ ConnFine(net.conn[k]) /\ net.conn[k].alive /\ net.conn[k] \in Conn /\ Assignments
         /\ "late_ms" \notin Faults => ms[k] = {}
  <1>1. net.conn[k].T10 /\ (ms[k] = {} \/ "late_ms" \in Faults)
    BY DEF T10Expires
  <1>2. ConnFine(net.conn[k]) /\ net.conn[k] \in Conn
    BY NetFields DEF ApiInv, Core, ConnsFine
  <1>3. Assignments
    BY <1>1, <1>2 DEF ConnFine
  <1>5. net.conn[k].alive
    BY <1>1, <1>2 DEF ConnFine, NoConnection, Conn
  <1> QED  BY <1>1, <1>2, <1>3, <1>5

\* The secondary channel l, if there is one, is released and forgotten, and assign_fail() called.
SecLeft(S, k) ==
    LET R == IF S.conn[k].secondary_lchan = NoLchan THEN S ELSE LocalEnd(S, S.conn[k].secondary_lchan)
    IN  WithConn(R, k, NoSec(R.conn[k]))

LEMMA SecLeftDoes ==
  ASSUME NEW S, Core(S), NEW k \in Conns, NEW T, T = SecLeft(S, k), NEW l, l = S.conn[k].secondary_lchan
  PROVE  /\ T \in Net /\ T.bad = {} /\ T.conn[k] = NoSec(S.conn[k])
         /\ l = NoLchan => T = WithConn(S, k, NoSec(S.conn[k]))
         /\ l # NoLchan => \E c : /\ Dropped(S, T, k, l, c) /\ Released(S.lc[l], c) /\ l \in Lchans
                                  /\ S.lc[l].conn = k /\ l # S.conn[k].lchan
  <1>1. S \in Net /\ S.bad = {} /\ S.conn[k] \in Conn
    BY NetFields DEF Core
  <1>2. NoSec(S.conn[k]) \in Conn
    BY <1>1 DEF NoSec, Conn, MaybeLchan
  <1>3. CASE l = NoLchan
    <2>1. T = WithConn(S, k, NoSec(S.conn[k]))
      BY <1>3 DEF SecLeft
    <2> QED  BY <1>1, <1>2, <1>3, <2>1, SetConn
  <1>4. CASE l # NoLchan
    <2>1. l \in Lchans
      BY <1>1, <1>4 DEF Conn, MaybeLchan
    <2>2. PICK R : R = LocalEnd(S, l)  OBVIOUS
    <2>3. ChanFine(S.lc[l])
      BY <2>1 DEF Core, ChansFine
    <2>4. ReleasedAt(S, R, l) /\ R \in Net
      BY <1>1, <2>1, <2>2, <2>3, LocalEndNet DEF ReleasedAt
    <2>5. PICK y : y = NoSec(R.conn[k])  OBVIOUS
    <2>6. T = WithConn(R, k, y)
      BY <1>4, <2>2, <2>5 DEF SecLeft
    <2>7. /\ Dropped(S, T, k, l, R.lc[l]) /\ Released(S.lc[l], R.lc[l]) /\ S.lc[l].conn = k /\ l # S.conn[k].lchan
      BY <2>1, <2>4, <2>5, <2>6, SecGone
    <2>8. R.conn = S.conn
      BY <2>4 DEF ReleasedAt
    <2>9. T.conn[k] = NoSec(S.conn[k])
      BY <1>2, <2>4, <2>5, <2>6, <2>8, SetConn
    <2> QED  BY <1>4, <2>1, <2>7, <2>9 DEF Dropped
  <1> QED  BY <1>3, <1>4

\* An assignment fails: under osmo-nitb that is the end.
LEMMA SecLeftInv ==
  ASSUME ApiInv, NEW k \in Conns, net.conn[k].alive, Assignments, net' = assign_fail(SecLeft(net, k)), bts' = bts, env' = env,
         ms' \in [Conns -> SUBSET Order], \A j \in Conns : ms'[j] \subseteq ms[j] /\ (~net'.conn[j].alive => ms'[j] = {}),
         "late_ms" \notin Faults => \A o \in ms'[k] : o.cmd # "ASS"
  PROVE  ApiInv' \/ Stopped'
  <1>1. PICK T : T = SecLeft(net, k)  OBVIOUS
  <1>2. Core(net) /\ net \in Net /\ net.conn[k] \in Conn /\ ConnFine(net.conn[k]) /\ BtsFine(bts')
    BY NetFields, BtsKept DEF ApiInv, Core, ConnsFine
  <1>3. PICK l : l = net.conn[k].secondary_lchan  OBVIOUS
  <1>4. /\ T \in Net /\ T.bad = {} /\ T.conn[k] = NoSec(net.conn[k])
        /\ l = NoLchan => T = WithConn(net, k, NoSec(net.conn[k]))
        /\ l # NoLchan => \E c : /\ Dropped(net, T, k, l, c) /\ Released(net.lc[l], c) /\ l \in Lchans
                                 /\ net.lc[l].conn = k /\ l # net.conn[k].lchan
    BY <1>1, <1>2, <1>3, SecLeftDoes
  <1>5. CASE Nitb
    <2>1. PICK U : U = Fails(T, "null_assign_fail")  OBVIOUS
    <2>2. net' = U
      BY <1>1, <1>5, <2>1 DEF assign_fail
    <2>3. U \in Net /\ U.bad = {"null_assign_fail"}
      BY <1>4, <2>1, FailsTyped DEF Bad
    <2> QED  BY <1>2, <1>5, <2>2, <2>3, Stops
  <1>6. CASE ~Nitb
    <2>1. net' = T
      BY <1>1, <1>6, AssignFailIs
    <2>2. PICK y : y = NoSec(net.conn[k])  OBVIOUS
    <2>3. /\ y \in Conn /\ y.lchan = net.conn[k].lchan /\ y.secondary_lchan = NoLchan /\ y.ho_lchan = net.conn[k].ho_lchan
          /\ y.alive = net.conn[k].alive /\ y.T10 = FALSE
      BY <1>2, <2>2 DEF NoSec, Conn, MaybeLchan
    <2>4. \A j \in Conns : ms'[j] \subseteq ms[j] /\ (~T.conn[j].alive => ms'[j] = {})
      BY <2>1
    <2>5. CASE l = NoLchan
      <3>1. T = WithConn(net, k, y)
        BY <1>4, <2>2, <2>5
      <3>2. T.conn[k] = y /\ T.lc = net.lc
        BY <1>2, <2>3, <3>1, SetConn
      <3>3. OrdFine(T, k, ms'[k])
        BY <2>3, <2>4, <3>2, NoOthers
      <3>4. ConnFine(y)
        BY <1>2, <1>3, <2>3, <2>5 DEF ConnFine, NoConnection
      <3>5. /\ y.lchan = net.conn[k].lchan /\ y.secondary_lchan = net.conn[k].secondary_lchan
            /\ y.ho_lchan = net.conn[k].ho_lchan /\ y.alive = net.conn[k].alive /\ y \in Conn
        BY <1>3, <2>3, <2>5
      <3>6. net' = T /\ bts' = bts /\ env' = env /\ ms' \in [Conns -> SUBSET Order]
            /\ \A j \in Conns : j # k => ms'[j] \subseteq ms[j] /\ (~T.conn[j].alive => ms'[j] = {})
        BY <2>1, <2>4
      <3> HIDE <2>2
      <3>7. ApiInv'
        BY ONLY ApiInv, k \in Conns, <3>1, <3>3, <3>4, <3>5, <3>6, ConnOnly
      <3> QED  BY <3>7
    <2>6. CASE l # NoLchan
      <3>1. PICK c : /\ Dropped(net, T, k, l, c) /\ Released(net.lc[l], c) /\ l \in Lchans
                     /\ net.lc[l].conn = k /\ l # net.conn[k].lchan
        BY <1>4, <2>6
      <3>2. T.conn[k] = y
        BY <1>4, <2>2
      <3>3. net.conn[k].lchan # NoLchan => T.lc[net.conn[k].lchan] = net.lc[net.conn[k].lchan]
        BY <1>2, <3>1 DEF Dropped, Conn, MaybeLchan
      <3>4. OrdFine(T, k, ms'[k])
        BY <2>3, <2>4, <3>2, <3>3, NoOthers
      <3> QED  BY <2>1, <2>3, <2>4, <3>1, <3>2, <3>4, DropStep
    <2> QED  BY <2>5, <2>6
  <1> QED  BY <1>2, <1>5, <1>6, InvFacts

\* What the two handlers make of the connection.
LEMMA SecLeftIs ==
  ASSUME NEW S, Core(S), NEW k \in Conns
  PROVE  /\ assignment_t10_timeout(S, k) = assign_fail(SecLeft(S, k))
         /\ S.conn[k].secondary_lchan # NoLchan => handle_ass_fail(S, k, S.conn[k].lchan) = assign_fail(SecLeft(S, k))
  <1>1. S \in Net /\ S.conn[k] \in Conn
    BY NetFields DEF Core
  <1>2. CASE S.conn[k].secondary_lchan = NoLchan
    <2>1. assignment_t10_timeout(S, k) = assign_fail(SecOff(S, k))
      BY <1>2 DEF assignment_t10_timeout, SecOff
    <2>2. SecLeft(S, k) = WithConn(S, k, NoSec(S.conn[k]))
      BY <1>2 DEF SecLeft
    <2> QED  BY <1>1, <1>2, <2>1, <2>2, SecOut
  <1>3. CASE S.conn[k].secondary_lchan # NoLchan
    <2>1. PICK l \in Lchans : l = S.conn[k].secondary_lchan
      BY <1>1, <1>3 DEF Conn, MaybeLchan
    <2>2. PICK R : R = LocalEnd(S, l)  OBVIOUS
    <2>3. R \in Net
      BY <1>1, <2>1, <2>2, LocalEndNet DEF ReleasedAt, Core, ChansFine
    <2>4. /\ assignment_t10_timeout(S, k) = assign_fail(SecOff(R, k))
          /\ handle_ass_fail(S, k, S.conn[k].lchan) = assign_fail(SecOff(R, k))
      BY <1>3, <2>1, <2>2 DEF assignment_t10_timeout, handle_ass_fail, LocalEnd, SecOff
    <2>5. SecLeft(S, k) = WithConn(R, k, NoSec(R.conn[k]))
      BY <1>3, <2>1, <2>2 DEF SecLeft
    <2> QED  BY <1>3, <2>3, <2>4, <2>5, SecOut
  <1> QED  BY <1>2, <1>3

LEMMA T10Inv ==
  ASSUME ApiInv, NEW k \in Conns, T10Expires(k)
  PROVE  ApiInv' \/ Stopped'
  <1>1. net.conn[k].alive /\ Assignments /\ ("late_ms" \notin Faults => ms[k] = {})
    BY T10Facts
  <1>2. net' = assignment_t10_timeout(net, k) /\ Orders(ms) /\ bts' = bts /\ env' = env
    BY DEF T10Expires, Becomes
  <1>3. net' = assign_fail(SecLeft(net, k))
    BY <1>2, SecLeftIs DEF ApiInv
  <1>4. ms \in [Conns -> SUBSET Order]
    BY DEF ApiInv
  <1>5. ms' \in [Conns -> SUBSET Order] /\ \A j \in Conns : ms'[j] = IF net'.conn[j].alive THEN ms[j] ELSE {}
    BY <1>2, <1>4, OrdersAre
  <1>6. /\ \A j \in Conns : ms'[j] \subseteq ms[j] /\ (~net'.conn[j].alive => ms'[j] = {})
        /\ "late_ms" \notin Faults => \A o \in ms'[k] : o.cmd # "ASS"
    BY <1>1, <1>5
  <1> HIDE <1>3
  <1> QED  BY <1>1, <1>2, <1>3, <1>5, <1>6, SecLeftInv

\* ASSIGNMENT FAILURE.
LEMMA AssFailInv ==
  ASSUME ApiInv, NEW k \in Conns, NEW o \in ms[k], o.cmd = "ASS", net' = handle_ass_fail(net, k, o.old), Done(k, o), bts' = bts, env' = env
  PROVE  ApiInv' \/ Stopped'
  <1>1. /\ o.old \in Lchans /\ o.new \in Lchans /\ net.conn[k].alive /\ Assignments
        /\ "late_ms" \notin Faults => o.new = net.conn[k].secondary_lchan /\ o.old = net.conn[k].lchan
    BY OrderFacts
  <1>2. Core(net) /\ net \in Net /\ net.bad = {} /\ BtsFine(bts')
    BY BtsKept DEF ApiInv, Core
  <1>3. /\ ms' \in [Conns -> SUBSET Order] /\ (ms'[k] \subseteq ms[k] \ {o})
        /\ \A j \in Conns : ms'[j] \subseteq ms[j] /\ (~net'.conn[j].alive => ms'[j] = {})
    <2>1. PICK T : T = net'  OBVIOUS
    <2>2. /\ ms' \in [Conns -> SUBSET Order] /\ (ms'[k] = IF T.conn[k].alive THEN ms[k] \ {o} ELSE {})
          /\ \A j \in Conns : ms'[j] \subseteq ms[j] /\ (~T.conn[j].alive => ms'[j] = {})
      BY <2>1, DoneIs
    <2> QED  BY <2>1, <2>2
  <1>4. CASE net.conn[k].lchan # o.old
    <2>1. net' = net
      BY <1>4 DEF handle_ass_fail
    <2> QED  BY <2>1, OnlyDone
  <1>5. CASE net.conn[k].lchan = o.old /\ net.conn[k].secondary_lchan = NoLchan
    <2>1. PICK U : U = Fails(net, "null_lchan")  OBVIOUS
    <2>2. net' = U
      BY <1>5, <2>1 DEF handle_ass_fail
    <2>3. U \in Net /\ U.bad = {"null_lchan"}
      BY <1>2, <2>1, FailsTyped DEF Bad
    <2>4. "late_ms" \in Faults
      BY <1>1, <1>5, ApiNullAssumption
    <2> QED  BY <1>1, <1>2, <1>3, <2>2, <2>3, <2>4, Stops
  <1>6. CASE net.conn[k].lchan = o.old /\ net.conn[k].secondary_lchan # NoLchan
    <2>1. net' = assign_fail(SecLeft(net, k))
      BY <1>2, <1>6, SecLeftIs
    <2>2. "late_ms" \notin Faults => \A p \in ms'[k] : p.cmd # "ASS"
      BY <1>3, OneOrder
    <2> HIDE <2>1
    <2> QED  BY <1>1, <1>3, <2>1, <2>2, SecLeftInv
  <1> QED  BY <1>4, <1>5, <1>6

\* A handover record leads from the main to the handover channel of a connection; there is no assignment then.
LEMMA HoFacts ==
  ASSUME ApiInv, NEW h \in net.ho, NEW k, k = net.lc[h.new_lchan].conn
  PROVE  /\ k \in Conns /\ k # NoConn /\ h.new_lchan \in Lchans /\ h.old_lchan \in Lchans /\ h.new_lchan # h.old_lchan
         /\ net.conn[k].ho_lchan = h.new_lchan /\ net.conn[k].lchan = h.old_lchan /\ net.lc[h.old_lchan].conn = k
         /\ Nitb /\ net.conn[k].secondary_lchan = NoLchan /\ net.conn[k].alive /\ net.conn[k] \in Conn
         /\ net.lc[h.new_lchan].type # "SDCCH" /\ net.ho \ {h} = Without(net, h.new_lchan)
  <1>1. Core(net) /\ net \in Net
    BY DEF ApiInv, Core
  <1>2. h \in Handover
    BY <1>1, NetFields
  <1>3. h.new_lchan \in Lchans /\ h.old_lchan \in Lchans
    BY <1>2 DEF Handover
  <1>4. PICK j \in Conns : Anchors(net.conn[j], h)
    BY <1>1 DEF Core, HosFine
  <1>5. net.conn[j].ho_lchan = h.new_lchan /\ net.conn[j].lchan = h.old_lchan
    BY <1>4 DEF Anchors
  <1>6. h.new_lchan \in HeldBy(net.conn[j]) /\ h.old_lchan \in HeldBy(net.conn[j])
    BY <1>3, <1>5, ApiNullAssumption DEF HeldBy
  <1>7. net.lc[h.new_lchan].conn = j /\ net.lc[h.old_lchan].conn = j
    BY <1>1, <1>3, <1>4, <1>6 DEF Core, Mutual
  <1>8. j = k /\ k # NoConn
    BY <1>4, <1>7, ConnAssumption
  <1>9. ConnFine(net.conn[k]) /\ net.conn[k] \in Conn
    BY <1>1, <1>4, <1>8, NetFields DEF Core, ConnsFine
  <1>10. Nitb
    BY <1>3, <1>5, <1>8, <1>9, ApiNullAssumption, InvFacts DEF ConnFine
  <1>11. net.conn[k].secondary_lchan = NoLchan /\ net.lc[h.new_lchan].type # "SDCCH"
    <2>1. MainUp(net, net.conn[k]) /\ net.conn[k].lchan # NoLchan /\ net.conn[k].ho_lchan # NoLchan
      BY <1>1, <1>3, <1>4, <1>5, <1>8, ApiNullAssumption DEF Core
    <2>2. PICK x : x = net.conn[k]  OBVIOUS
    <2>3. MainUp(net, x) /\ x.lchan # NoLchan /\ x.ho_lchan # NoLchan
      BY <2>1, <2>2
    <2>4. x.secondary_lchan = NoLchan /\ net.lc[x.ho_lchan].type # "SDCCH"
      BY ONLY <2>3 DEF MainUp
    <2> QED  BY <1>5, <1>8, <2>2, <2>4
  <1>12. net.conn[k].alive /\ h.new_lchan # h.old_lchan
    <2>1. PICK x : x = net.conn[k]  OBVIOUS
    <2>2. x.lchan # NoLchan /\ ConnFine(x) /\ x.lchan = h.old_lchan /\ x.ho_lchan = h.new_lchan
      BY <1>3, <1>5, <1>8, <1>9, <2>1, ApiNullAssumption
    <2>3. NoConnection.lchan = NoLchan
      BY DEF NoConnection
    <2>4. x.alive /\ x.lchan # x.ho_lchan
      BY <2>2, <2>3 DEF ConnFine
    <2> QED  BY <2>1, <2>2, <2>4
  <1>13. net.ho \ {h} = Without(net, h.new_lchan)
    BY <1>1 DEF Core, HosFine, Without
  <1> QED  BY <1>3, <1>4, <1>5, <1>7, <1>8, <1>9, <1>10, <1>11, <1>12, <1>13

\* Without a secondary channel orders stay good while the main channel is a traffic channel.
LEMMA HoOrders ==
  ASSUME ApiInv, NEW k \in Conns, net.conn[k].secondary_lchan = NoLchan, NEW T, NEW R, R \subseteq ms[k],
         ~T.conn[k].alive => R = {},
         \/ T.conn[k].lchan # NoLchan => T.lc[T.conn[k].lchan].type # "SDCCH"
         \/ T.conn[k].lchan = net.conn[k].lchan /\ T.lc[net.conn[k].lchan].type = net.lc[net.conn[k].lchan].type
  PROVE  OrdFine(T, k, R)
  <1>1. OrdFine(net, k, ms[k]) /\ ms[k] \in SUBSET Order
    BY DEF ApiInv
  <1>2. "late_ms" \notin Faults => \A o \in R : o.cmd # "ASS"
    BY <1>1, ApiNullAssumption DEF OrdFine, Order
  <1> QED  BY <1>1, <1>2 DEF OrdFine

WithoutHo(S, k, h) == [S EXCEPT !.ho = @ \ {h}, !.conn[k].ho_lchan = NoLchan]
LEMMA HandoverFailedIs ==
  ASSUME NEW S \in Net, NEW h \in S.ho, NEW k \in Conns, k = S.lc[h.new_lchan].conn
  PROVE  HandoverFailed(S, h) = LocalEnd(WithoutHo(S, k, h), h.new_lchan)
  BY ConnAssumption DEF HandoverFailed, LocalEnd, WithoutHo

LEMMA WithoutHoDoes ==
  ASSUME NEW S \in Net, NEW k \in Conns, NEW h, NEW A, A = WithoutHo(S, k, h)
  PROVE  A \in Net /\ A.conn[k] = NoHo(S.conn[k]) /\ (\A j \in Conns : j # k => A.conn[j] = S.conn[j]) /\ A.lc = S.lc /\ A.bad = S.bad /\ A.ho = S.ho \ {h}
  <1>1. PICK x : x = S.conn[k]  OBVIOUS
  <1>2. PICK y : y = NoHo(x)  OBVIOUS
  <1>3. x \in Conn
    BY <1>1, NetFields
  <1>4. y \in Conn
    BY <1>2, <1>3 DEF NoHo, Conn, MaybeLchan
  <1>5. PICK B : B = WithConn(S, k, y)  OBVIOUS
  <1>6. B \in Net /\ B.conn[k] = y /\ (\A j \in Conns : j # k => B.conn[j] = S.conn[j]) /\ B.lc = S.lc /\ B.ho = S.ho /\ B.bad = S.bad
    BY <1>4, <1>5, SetConn
  <1>7. PICK H : H = S.ho \ {h}  OBVIOUS
  <1>8. A = WithHo(B, H)
    BY <1>1, <1>2, <1>5, <1>7, NetFields DEF WithoutHo, WithHo, WithConn, NoHo, Net
  <1>9. H \in SUBSET Handover
    BY <1>7, NetFields
  <1>10. A \in Net /\ A.ho = H /\ A.lc = B.lc /\ A.conn = B.conn /\ A.bad = B.bad
    BY <1>6, <1>8, <1>9, SetHo
  <1> QED  BY <1>1, <1>2, <1>6, <1>7, <1>10

\* The end of a handover without success.
LEMMA HoFailedInv ==
  ASSUME ApiInv, NEW h \in net.ho, net' = HandoverFailed(net, h), bts' = bts, env' = env, ms' \in [Conns -> SUBSET Order],
         \A j \in Conns : ms'[j] \subseteq ms[j] /\ (~net'.conn[j].alive => ms'[j] = {})
  PROVE  ApiInv'
  <1>1. PICK k : k = net.lc[h.new_lchan].conn  OBVIOUS
  <1>2. PICK l : l = h.new_lchan  OBVIOUS
  <1>3. /\ k \in Conns /\ k # NoConn /\ l \in Lchans /\ l # net.conn[k].lchan
        /\ net.conn[k].ho_lchan = l /\ net.lc[l].conn = k
        /\ Nitb /\ net.conn[k].secondary_lchan = NoLchan /\ net.conn[k].alive /\ net.conn[k] \in Conn
        /\ net.ho \ {h} = Without(net, l) /\ net.conn[k].lchan \in Lchans
    BY <1>1, <1>2, HoFacts
  <1>4. Core(net) /\ net \in Net /\ ChanFine(net.lc[l]) /\ net.bad = {} /\ ConnFine(net.conn[k])
    BY <1>3, InvFacts DEF Core, ConnsFine
  <1>5. PICK A : A = WithoutHo(net, k, h)  OBVIOUS
  <1>6. PICK T : T = net'  OBVIOUS
  <1>7. T = LocalEnd(A, l)
    <2>1. HandoverFailed(net, h) = LocalEnd(WithoutHo(net, k, h), h.new_lchan)
      BY <1>1, <1>3, <1>4, HandoverFailedIs
    <2> QED  BY <1>2, <1>5, <1>6, <2>1
  <1>8. A \in Net /\ A.conn[k] = NoHo(net.conn[k]) /\ (\A j \in Conns : j # k => A.conn[j] = net.conn[j]) /\ A.lc = net.lc /\ A.bad = net.bad /\ A.ho = net.ho \ {h}
    BY <1>3, <1>4, <1>5, WithoutHoDoes
  <1>9. ReleasedAt(A, T, l)
    BY <1>3, <1>4, <1>7, <1>8, LocalEndNet
  <1>10. /\ T \in Net /\ Released(A.lc[l], T.lc[l]) /\ (\A m \in Lchans : m # l => T.lc[m] = A.lc[m])
         /\ T.conn = A.conn /\ T.ho = A.ho /\ T.bad = A.bad
    BY <1>9 DEF ReleasedAt
  <1>11. PICK c : c = T.lc[l]  OBVIOUS
  <1>12. LacksOnly(net.conn[k], T.conn[k], l)
    BY <1>3, <1>4, <1>8, <1>10, PointerDropped
  <1>13. Dropped(net, T, k, l, c)
    BY <1>3, <1>4, <1>8, <1>10, <1>11, <1>12 DEF Dropped
  <1>14. T.conn[k].alive = net.conn[k].alive /\ T.conn[k].T10 = net.conn[k].T10 /\ T.conn[k].secondary_lchan = net.conn[k].secondary_lchan
         /\ T.conn[k].lchan = net.conn[k].lchan
    <2>1. PICK x : x = net.conn[k]  OBVIOUS
    <2>2. x \in Conn /\ T.conn[k] = NoHo(x)
      BY <1>3, <1>8, <1>10, <2>1
    <2>3. NoHo(x).alive = x.alive /\ NoHo(x).T10 = x.T10 /\ NoHo(x).secondary_lchan = x.secondary_lchan /\ NoHo(x).lchan = x.lchan
      BY <2>2 DEF NoHo, Conn
    <2> QED  BY <2>1, <2>2, <2>3
  <1>15. /\ ms' \in [Conns -> SUBSET Order] /\ net' = T
         /\ \A j \in Conns : ms'[j] \subseteq ms[j] /\ (~T.conn[j].alive => ms'[j] = {})
    BY <1>6
  <1>16. OrdFine(T, k, ms'[k])
    <2>1. T.lc[net.conn[k].lchan].type = net.lc[net.conn[k].lchan].type
      BY <1>3, <1>8, <1>10
    <2> QED  BY <1>3, <1>14, <1>15, <2>1, HoOrders
  <1>17. Released(net.lc[l], c) /\ (T.conn[k].T10 => net.conn[k].T10) /\ (T.conn[k].secondary_lchan # NoLchan => T.conn[k].T10)
    BY <1>3, <1>8, <1>10, <1>11, <1>14
  <1> QED  BY <1>3, <1>13, <1>14, <1>15, <1>16, <1>17, DropStep

LEMMA T3103Inv ==
  ASSUME ApiInv, NEW h \in net.ho, T3103Expires(h)
  PROVE  ApiInv'
  <1>1. net' = HandoverFailed(net, h) /\ Orders(ms) /\ bts' = bts /\ env' = env
    BY DEF T3103Expires, Becomes
  <1>2. ms \in [Conns -> SUBSET Order]
    BY DEF ApiInv
  <1>3. ms' \in [Conns -> SUBSET Order] /\ \A j \in Conns : ms'[j] = IF net'.conn[j].alive THEN ms[j] ELSE {}
    BY <1>1, <1>2, OrdersAre
  <1>4. \A j \in Conns : ms'[j] \subseteq ms[j] /\ (~net'.conn[j].alive => ms'[j] = {})
    BY <1>3
  <1> QED  BY <1>1, <1>3, <1>4, HoFailedInv

LEMMA MsFailsInv ==
  ASSUME ApiInv, NEW k \in Conns, NEW o \in ms[k], MsFails(k, o)
  PROVE  ApiInv' \/ Stopped'
  <1>1. Done(k, o) /\ bts' = bts /\ env' = env
    BY DEF MsFails
  <1>2. CASE o.cmd = "ASS" /\ net' = handle_ass_fail(net, k, o.old)
    BY <1>1, <1>2, AssFailInv
  <1>3. ASSUME NEW h \in net.ho, net' = HandoverFailed(net, h) PROVE ApiInv'
    <2>1. ms' \in [Conns -> SUBSET Order] /\ \A j \in Conns : ms'[j] \subseteq ms[j] /\ (~net'.conn[j].alive => ms'[j] = {})
      BY <1>1, DoneIs
    <2> QED  BY <1>1, <1>3, <2>1, HoFailedInv
  <1>4. CASE net' = net
    BY <1>1, <1>4, OnlyDone
  <1> QED  BY <1>2, <1>3, <1>4 DEF MsFails, Becomes

\* Connection k has moved from channel old to channel l, the only other one it had.
OnOne(y, l) ==
    /\ y.alive = TRUE /\ y.lchan = l /\ y.secondary_lchan = NoLchan /\ y.ho_lchan = NoLchan
    /\ y.T10 => Assignments
Moved(S, T, k, old, l) ==
    /\ T \in Net /\ T.bad = {} /\ Released(S.lc[old], T.lc[old]) /\ (\A m \in Lchans : m # old => T.lc[m] = S.lc[m])
    /\ (\A j \in Conns : j # k => T.conn[j] = S.conn[j])
    /\ OnOne(T.conn[k], l) /\ T.ho = Without(S, S.conn[k].ho_lchan)

LEMMA MovedCore ==
  ASSUME NEW S, Core(S), NEW k \in Conns, NEW old \in Lchans, NEW l \in Lchans, HeldBy(S.conn[k]) = {old, l}, old # l,
         S.lc[l].state # "ACT_REQ", NEW T, Moved(S, T, k, old, l)
  PROVE  Core(T)
  <1>1. S \in Net /\ ChansFine(S) /\ Mutual(S) /\ HosFine(S) /\ k # NoConn /\ l # NoLchan
    BY ConnAssumption, ApiNullAssumption DEF Core
  <1>2. /\ T \in Net /\ T.bad = {} /\ Released(S.lc[old], T.lc[old]) /\ (\A m \in Lchans : m # old => T.lc[m] = S.lc[m])
        /\ (\A j \in Conns : j # k => T.conn[j] = S.conn[j]) /\ T.ho = Without(S, S.conn[k].ho_lchan)
    BY DEF Moved
  <1>3. PICK y : y = T.conn[k]  OBVIOUS
  <1>4. y.alive = TRUE /\ y.lchan = l /\ y.secondary_lchan = NoLchan /\ y.ho_lchan = NoLchan /\ (y.T10 => Assignments)
    BY <1>3 DEF Moved, OnOne
  <1>5. ConnFine(y) /\ HeldBy(y) = {l}
    BY <1>1, <1>4 DEF ConnFine, HeldBy
  <1>6. ChanFine(T.lc[old]) /\ T.lc[old].conn = NoConn
    BY <1>1, <1>2, ReleaseFine DEF Released, ChansFine
  <1>7. ChansFine(T)
    BY <1>1, <1>2, <1>6 DEF ChansFine
  <1>8. \A m \in Lchans : S.lc[m].conn = k <=> m \in {old, l}
    BY <1>1 DEF Mutual
  <1>9. \A m \in Lchans : S.lc[m].conn \notin {NoConn, k} => T.lc[m] = S.lc[m]
    BY <1>2, <1>8
  <1>10. \A m \in Lchans : S.lc[m].conn \in {NoConn, k} => T.lc[m].conn \in {NoConn, k}
    BY <1>2, <1>6
  <1>11. \A m \in Lchans : T.lc[m].conn = k <=> m \in HeldBy(T.conn[k])
    BY <1>1, <1>2, <1>3, <1>5, <1>6, <1>8
  <1>12. MainUp(T, T.conn[k])
    BY <1>2, <1>3, <1>4 DEF MainUp
  <1>13. HoStep(S, T, k)
    <2>1. \A h \in T.ho : h \in S.ho /\ h.new_lchan # S.conn[k].ho_lchan
      BY <1>2 DEF Without
    <2>2. \A h \in S.ho : h.new_lchan # S.conn[k].ho_lchan => h \in T.ho
      BY <1>2 DEF Without
    <2>3. \A h \in S.ho : h.new_lchan # NoLchan
      BY <1>1, NetFields, ApiNullAssumption DEF Handover
    <2> QED  BY <1>3, <1>4, <2>1, <2>2, <2>3 DEF HoStep
  <1>14. ConnFine(T.conn[k])
    BY <1>3, <1>5
  <1> QED  BY <1>2, <1>7, <1>9, <1>10, <1>11, <1>12, <1>13, <1>14, CoreConn

LEMMA MovedStep ==
  ASSUME ApiInv, NEW k \in Conns, NEW old \in Lchans, NEW l \in Lchans, HeldBy(net.conn[k]) = {old, l}, old # l,
         net.lc[l].state # "ACT_REQ", NEW T, net' = T, Moved(net, T, k, old, l), bts' = bts, env' = env,
         ms' \in [Conns -> SUBSET Order], \A j \in Conns : ms'[j] \subseteq ms[j] /\ (~T.conn[j].alive => ms'[j] = {}),
         OrdFine(T, k, ms'[k])
  PROVE  ApiInv'
  <1>1. Core(net) /\ k # NoConn /\ net.lc[old].conn = k
    BY ConnAssumption DEF ApiInv, Core, Mutual
  <1>2. Core(T)
    BY <1>1, MovedCore
  <1>3. /\ Released(net.lc[old], T.lc[old]) /\ (\A m \in Lchans : m # old => T.lc[m] = net.lc[m])
        /\ (\A j \in Conns : j # k => T.conn[j] = net.conn[j])
    BY DEF Moved
  <1>4. ASSUME NEW m \in Lchans PROVE Phase(T.lc[m], bts'[m])
    <2>1. ChanFine(net.lc[m]) /\ Phase(net.lc[m], bts[m])
      BY <1>4, InvFacts
    <2> QED  BY <1>1, <1>3, <2>1, ReleasedPhase
  <1>5. Phases(T, bts')
    BY <1>4 DEF Phases
  <1>6. ASSUME NEW j \in Conns, j # k PROVE OrdFine(T, j, ms'[j])
    <2>1. \A m \in Lchans : net.lc[m].conn \notin {NoConn, k} => T.lc[m] = net.lc[m]
      BY <1>1, <1>3
    <2>2. Keeps(net, T, j)
      BY <1>1, <1>3, <1>6, <2>1, OthersKeep
    <2>3. OrdFine(net, j, ms[j]) /\ ms[j] \in SUBSET Order
      BY DEF ApiInv
    <2> QED  BY <2>2, <2>3, KeptOrders
  <1> QED  BY <1>2, <1>5, <1>6, BtsKept, Adopted

\* ASSIGNMENT COMPLETE.
OnSec(x, l) == [x EXCEPT !.lchan = l, !.secondary_lchan = NoLchan, !.T10 = FALSE]
OnSecNet(S, k, l) == [S EXCEPT !.conn[k].lchan = l, !.conn[k].secondary_lchan = NoLchan, !.conn[k].T10 = FALSE]
LEMMA OnSecIs ==
  ASSUME NEW S \in Net, NEW k \in Conns, NEW l
  PROVE  OnSecNet(S, k, l) = WithConn(S, k, OnSec(S.conn[k], l))
  BY NetFields DEF WithConn, OnSec, OnSecNet, Net, Conn

LEMMA AssComplIs ==
  ASSUME NEW S, NEW k, NEW l, S.conn[k].secondary_lchan = l
  PROVE  handle_ass_compl(S, k, l) = OnSecNet(LocalEnd(S, S.conn[k].lchan), k, l)
  BY DEF handle_ass_compl, LocalEnd, OnSecNet

LEMMA OnSecDoes ==
  ASSUME NEW x \in Conn, x.alive, x.ho_lchan = NoLchan, NEW l \in Lchans, NEW y, y = OnSec(x, l)
  PROVE  y \in Conn /\ OnOne(y, l)
  BY DEF OnSec, Conn, MaybeLchan, OnOne

LEMMA AssComplInv ==
  ASSUME ApiInv, NEW k \in Conns, NEW o \in ms[k], o.cmd = "ASS", net.lc[o.new].state # "ACT_REQ",
         net.conn[k].secondary_lchan = o.new, net' = handle_ass_compl(net, k, o.new), Done(k, o), bts' = bts, env' = env
  PROVE  ApiInv'
  <1>1. PICK l : l = o.new  OBVIOUS
  <1>2. PICK old : old = net.conn[k].lchan  OBVIOUS
  <1>3. PICK x : x = net.conn[k]  OBVIOUS
  <1>4. l = x.secondary_lchan /\ old = x.lchan /\ l \in Lchans /\ old \in Lchans /\ x.alive /\ ConnFine(x) /\ net.lc[l].state # "ACT_REQ"
    <2>1. l \in Lchans /\ x.alive /\ ConnFine(x) /\ x \in Conn
      BY <1>1, <1>3, OrderFacts
    <2> QED  BY <1>1, <1>2, <1>3, <2>1 DEF ConnFine, Conn, MaybeLchan
  <1>21. MainUp(net, x) /\ x.lchan # NoLchan /\ x.secondary_lchan # NoLchan
    BY <1>3, <1>4, ApiNullAssumption DEF ApiInv, Core
  <1>22. net.lc[old].type = "SDCCH" /\ x.ho_lchan = NoLchan
    BY <1>4, <1>21 DEF MainUp
  <1>5. net \in Net /\ ChanFine(net.lc[old]) /\ x \in Conn /\ net.bad = {}
    BY <1>3, <1>4, InvFacts, NetFields
  <1>6. x.ho_lchan = NoLchan /\ old # l
    BY <1>4, <1>21, <1>22 DEF ConnFine
  <1>7. HeldBy(x) = {old, l}
    BY <1>4, <1>6, ApiNullAssumption DEF HeldBy
  <1>8. PICK R : R = LocalEnd(net, old)  OBVIOUS
  <1>9. /\ R \in Net /\ Released(net.lc[old], R.lc[old]) /\ (\A m \in Lchans : m # old => R.lc[m] = net.lc[m])
        /\ R.conn = net.conn /\ R.ho = net.ho /\ R.bad = net.bad
    BY <1>4, <1>5, <1>8, LocalEndNet DEF ReleasedAt
  <1>10. PICK T : T = net'  OBVIOUS
  <1>11. PICK y : y = OnSec(x, l)  OBVIOUS
  <1>12. T = WithConn(R, k, y)
    <2>1. T = OnSecNet(R, k, l)
      BY <1>1, <1>2, <1>8, <1>10, AssComplIs
    <2>2. T = WithConn(R, k, OnSec(R.conn[k], l))
      BY <1>9, <2>1, OnSecIs
    <2> QED  BY <1>3, <1>9, <1>11, <2>2
  <1>13. y \in Conn /\ OnOne(y, l)
    BY <1>4, <1>5, <1>6, <1>11, OnSecDoes
  <1>20. y \in Conn
    BY <1>13
  <1>14. /\ T \in Net /\ T.conn[k] = y /\ (\A j \in Conns : j # k => T.conn[j] = R.conn[j])
         /\ T.lc = R.lc /\ T.ho = R.ho /\ T.bad = R.bad
    BY <1>9, <1>12, <1>20, SetConn
  <1>15. net.ho = Without(net, x.ho_lchan)
    BY <1>5, <1>6, NetFields, ApiNullAssumption DEF Without, Handover
  <1>16. Moved(net, T, k, old, l)
    BY <1>3, <1>5, <1>9, <1>13, <1>14, <1>15 DEF Moved
  <1>17. /\ ms' \in [Conns -> SUBSET Order] /\ (ms'[k] = IF T.conn[k].alive THEN ms[k] \ {o} ELSE {})
         /\ \A j \in Conns : ms'[j] \subseteq ms[j] /\ (~T.conn[j].alive => ms'[j] = {})
    BY <1>10, DoneIs
  <1>18. OrdFine(T, k, ms'[k])
    <2>1. ms'[k] \subseteq ms[k] \ {o} /\ (~T.conn[k].alive => ms'[k] = {})
      BY <1>17
    <2>2. OrdFine(net, k, ms[k])
      BY DEF ApiInv
    <2>3. \A p \in ms[k] : p.cmd # "MOD" /\ (p.cmd = "ASS" => Assignments)
      BY <1>3, <1>4, <1>21, <1>22, <2>2 DEF OrdFine
    <2>4. "late_ms" \notin Faults => \A p \in ms'[k] : p.cmd # "ASS"
      BY <2>1, OneOrder
    <2> QED  BY <2>1, <2>3, <2>4 DEF OrdFine
  <1>19. /\ net' = T /\ ms' \in [Conns -> SUBSET Order] /\ HeldBy(net.conn[k]) = {old, l}
         /\ \A j \in Conns : ms'[j] \subseteq ms[j] /\ (~T.conn[j].alive => ms'[j] = {})
    BY <1>3, <1>7, <1>10, <1>17
  <1> QED  BY <1>4, <1>6, <1>16, <1>18, <1>19, MovedStep

\* HANDOVER COMPLETE.
OnHo(x, l) == [x EXCEPT !.ho_lchan = NoLchan, !.lchan = l]
OnHoNet(S, k, h) == [S EXCEPT !.conn[k].ho_lchan = NoLchan, !.conn[k].lchan = h.new_lchan, !.ho = @ \ {h}]
LEMMA OnHoIs ==
  ASSUME NEW S \in Net, NEW k \in Conns, NEW h
  PROVE  OnHoNet(S, k, h) = WithHo(WithConn(S, k, OnHo(S.conn[k], h.new_lchan)), S.ho \ {h})
  BY NetFields DEF WithConn, WithHo, OnHo, OnHoNet, Net, Conn

LEMMA HoComplIs ==
  ASSUME NEW S \in Net, NEW h \in S.ho, NEW k \in Conns, k = S.lc[h.new_lchan].conn, S.lc[h.old_lchan].conn # NoConn
  PROVE  ho_gsm48_ho_compl(S, h) = LocalEnd(OnHoNet(S, k, h), h.old_lchan)
  BY ConnAssumption DEF ho_gsm48_ho_compl, LocalEnd, OnHoNet

LEMMA OnHoDoes ==
  ASSUME NEW x \in Conn, x.alive, x.T10 => Assignments, x.secondary_lchan = NoLchan, NEW l \in Lchans, NEW y, y = OnHo(x, l)
  PROVE  y \in Conn /\ OnOne(y, l)
  BY DEF OnHo, Conn, MaybeLchan, OnOne

LEMMA HoComplInv ==
  ASSUME ApiInv, NEW h \in net.ho, net.lc[h.new_lchan].state # "ACT_REQ", net' = ho_gsm48_ho_compl(net, h), bts' = bts, env' = env, ms' \in [Conns -> SUBSET Order],
         \A j \in Conns : ms'[j] \subseteq ms[j] /\ (~net'.conn[j].alive => ms'[j] = {})
  PROVE  ApiInv'
  <1>1. PICK k : k = net.lc[h.new_lchan].conn  OBVIOUS
  <1>2. PICK l : l = h.new_lchan  OBVIOUS
  <1>3. PICK old : old = h.old_lchan  OBVIOUS
  <1>4. PICK x : x = net.conn[k]  OBVIOUS
  <1>5. /\ k \in Conns /\ l \in Lchans /\ old \in Lchans /\ old # l /\ x.lchan = old /\ net.lc[h.old_lchan].conn # NoConn
        /\ x.ho_lchan = l /\ Nitb /\ x.secondary_lchan = NoLchan /\ x.alive /\ x \in Conn
        /\ net.ho \ {h} = Without(net, l) /\ net.lc[l].type # "SDCCH"
    BY <1>1, <1>2, <1>3, <1>4, HoFacts
  <1>27. x.T10 => Assignments
    BY <1>4, <1>5 DEF ApiInv, Core, ConnsFine, ConnFine
  <1>6. net \in Net /\ ChanFine(net.lc[old]) /\ net.bad = {}
    BY <1>5, InvFacts
  <1>7. PICK A : A = OnHoNet(net, k, h)  OBVIOUS
  <1>8. PICK T : T = net'  OBVIOUS
  <1>9. T = LocalEnd(A, old)
    <2>1. ho_gsm48_ho_compl(net, h) = LocalEnd(OnHoNet(net, k, h), h.old_lchan)
      BY <1>1, <1>5, <1>6, HoComplIs
    <2> QED  BY <1>3, <1>7, <1>8, <2>1
  <1>10. PICK y : y = OnHo(x, l)  OBVIOUS
  <1>11. y \in Conn /\ OnOne(y, l)
    BY <1>5, <1>10, <1>27, OnHoDoes
  <1>25. y \in Conn
    BY <1>11
  <1>26. net \in Net /\ k \in Conns /\ y \in Conn
    BY <1>5, <1>6, <1>25
  <1>12. PICK B : B = WithConn(net, k, y)  OBVIOUS
  <1>13. B \in Net /\ B.conn[k] = y /\ (\A j \in Conns : j # k => B.conn[j] = net.conn[j]) /\ B.lc = net.lc /\ B.ho = net.ho /\ B.bad = net.bad
    BY <1>12, <1>26, SetConn
  <1>14. PICK H : H = net.ho \ {h}  OBVIOUS
  <1>15. A = WithHo(B, H)
    BY <1>2, <1>4, <1>5, <1>6, <1>7, <1>10, <1>12, <1>14, OnHoIs
  <1>16. H \in SUBSET Handover
    BY <1>6, <1>14, NetFields
  <1>17. A \in Net /\ A.ho = H /\ A.lc = B.lc /\ A.conn = B.conn /\ A.bad = B.bad
    BY <1>13, <1>15, <1>16, SetHo
  <1>18. ChanFine(A.lc[old])
    BY <1>6, <1>13, <1>17
  <1>19. /\ T \in Net /\ Released(A.lc[old], T.lc[old]) /\ (\A m \in Lchans : m # old => T.lc[m] = A.lc[m])
         /\ T.conn = A.conn /\ T.ho = A.ho /\ T.bad = A.bad
    BY <1>5, <1>9, <1>17, <1>18, LocalEndNet DEF ReleasedAt
  <1>20. T.ho = Without(net, net.conn[k].ho_lchan) /\ T.bad = {}
    BY <1>4, <1>5, <1>6, <1>13, <1>14, <1>17, <1>19
  <1>21. Moved(net, T, k, old, l)
    BY <1>11, <1>13, <1>17, <1>19, <1>20 DEF Moved
  <1>22. /\ ms' \in [Conns -> SUBSET Order] /\ net' = T
         /\ \A j \in Conns : ms'[j] \subseteq ms[j] /\ (~T.conn[j].alive => ms'[j] = {})
    BY <1>8
  <1>23. OrdFine(T, k, ms'[k])
    <2>1. T.conn[k].lchan = l /\ T.lc[l] = net.lc[l]
      BY <1>5, <1>21 DEF Moved, OnOne
    <2> QED  BY <1>4, <1>5, <1>22, <2>1, HoOrders
  <1>24. HeldBy(net.conn[k]) = {old, l}
    BY <1>4, <1>5, ApiNullAssumption DEF HeldBy
  <1>28. net.lc[l].state # "ACT_REQ"
    BY <1>2
  <1> QED  BY <1>5, <1>21, <1>22, <1>23, <1>24, <1>28, MovedStep

LEMMA MsCompletesInv ==
  ASSUME ApiInv, NEW k \in Conns, NEW o \in ms[k], MsCompletes(k, o)
  PROVE  ApiInv'
  <1>1. Done(k, o) /\ bts' = bts /\ env' = env /\ net.lc[o.new].state # "ACT_REQ"
    BY DEF MsCompletes, Delivered
  <1>2. CASE o.cmd = "ASS" /\ net' = handle_ass_compl(net, k, o.new) /\ net.conn[k].secondary_lchan = o.new
    BY <1>1, <1>2, AssComplInv
  <1>5. CASE net' = handle_ass_compl(net, k, o.new) /\ net.conn[k].secondary_lchan # o.new
    <2>1. net' = net
      BY <1>5 DEF handle_ass_compl
    <2> QED  BY <1>1, <2>1, OnlyDone
  <1>3. ASSUME NEW h \in net.ho, h.new_lchan = o.new, net' = ho_gsm48_ho_compl(net, h) PROVE ApiInv'
    <2>1. ms' \in [Conns -> SUBSET Order] /\ \A j \in Conns : ms'[j] \subseteq ms[j] /\ (~net'.conn[j].alive => ms'[j] = {})
      BY <1>1, DoneIs
    <2> QED  BY <1>1, <1>3, <2>1, HoComplInv
  <1>4. CASE net' = net
    BY <1>1, <1>4, OnlyDone
  <1> QED  BY <1>2, <1>3, <1>4, <1>5 DEF MsCompletes, Becomes

-----------------------------------------------------------------------------
(* CHANNEL ACTIVATION ACK *)

AckHo(h, l) == IF h.new_lchan = l THEN [h EXCEPT !.T3103 = TRUE] ELSE h
AckHos(H, l) == {AckHo(h, l) : h \in H}

LEMMA AckHoIs ==
  ASSUME NEW h \in Handover, NEW l, NEW g, g = AckHo(h, l)
  PROVE  g \in Handover /\ g.new_lchan = h.new_lchan /\ g.old_lchan = h.old_lchan
  BY DEF AckHo, Handover

LEMMA AckHosCore ==
  ASSUME NEW S, Core(S), NEW l \in Lchans, NEW T, T = WithHo(S, AckHos(S.ho, l))
  PROVE  Core(T) /\ T.lc = S.lc /\ T.conn = S.conn
  <1>1. S \in Net /\ S.ho \in SUBSET Handover /\ HosFine(S)
    BY NetFields DEF Core
  <1>2. PICK H : H = AckHos(S.ho, l)  OBVIOUS
  <1>3. \A h \in S.ho : AckHo(h, l) \in Handover /\ AckHo(h, l).new_lchan = h.new_lchan /\ AckHo(h, l).old_lchan = h.old_lchan
    BY <1>1, AckHoIs
  <1>4. \A g \in H : \E h \in S.ho : g = AckHo(h, l)
    BY <1>2 DEF AckHos
  <1>5. \A h \in S.ho : AckHo(h, l) \in H
    BY <1>2 DEF AckHos
  <1>6. H \in SUBSET Handover
    BY <1>3, <1>4
  <1>7. T \in Net /\ T.ho = H /\ T.lc = S.lc /\ T.conn = S.conn /\ T.bad = S.bad
    BY <1>1, <1>2, <1>6, SetHo
  <1>8. \A g \in H : \E k \in Conns : Anchors(S.conn[k], g)
    BY <1>1, <1>3, <1>4 DEF HosFine, Anchors
  <1>9. \A f, g \in H : f.new_lchan = g.new_lchan => f = g
    BY <1>1, <1>3, <1>4 DEF HosFine
  <1>10. \A k \in Conns : S.conn[k].ho_lchan # NoLchan => \E g \in H : g.new_lchan = S.conn[k].ho_lchan
    BY <1>1, <1>3, <1>5 DEF HosFine
  <1>11. HosFine(T)
    BY <1>7, <1>8, <1>9, <1>10 DEF HosFine
  <1> QED  BY <1>7, <1>11 DEF Core, ChansFine, ConnsFine, Mutual, MainUp

\* What the acknowledgement of channel l leaves, when S is the network with l's record brought up.
AckLeaves(S, l) ==
  /\ net' = WithHo(S, AckHos(S.ho, l)) /\ env' = env
  /\ bts' = [bts EXCEPT ![l] = [active |-> TRUE, main |-> FALSE]]
  /\ ms' = IF S.lc[l].conn = NoConn THEN ms ELSE [ms EXCEPT ![S.lc[l].conn] = @ \cup OrdersOnAck(S, l)]

\* The record of the channel and the handover records after the acknowledgement.
LEMMA AckNet ==
  ASSUME ApiInv, NEW l \in Lchans, ChanActivAck(l), NEW d, d = rsl_rx_chan_act_ack(Popped(net.lc[l])), NEW S, S = WithLc(net, l, d)
  PROVE  AckLeaves(S, l)
  <1>1. net \in Net
    BY InvFacts
  <1>2. Pop(l).lc[l] = Popped(net.lc[l])
    BY <1>1, PopIs, LcTwice
  <1>3. S = [Pop(l) EXCEPT !.lc[l] = rsl_rx_chan_act_ack(@)]
    <2>1. [Pop(l) EXCEPT !.lc[l] = rsl_rx_chan_act_ack(@)] = WithLc(Pop(l), l, rsl_rx_chan_act_ack(Pop(l).lc[l]))
      BY DEF WithLc
    <2> QED  BY <1>1, <1>2, <2>1, PopIs, LcTwice
  <1>4. ActivateAck(S, l) = WithHo(S, AckHos(S.ho, l))
    BY DEF ActivateAck, WithHo, AckHos, AckHo
  <1> QED  BY <1>3, <1>4 DEF ChanActivAck, Becomes, AckLeaves

\* The orders sent with it: an ASSIGNMENT COMMAND to the channel that is up now, or a HANDOVER COMMAND.
LEMMA AckOrders ==
  ASSUME NEW S, Core(S), NEW l \in Lchans, NEW k \in Conns, k = S.lc[l].conn, S.lc[l].state = "ACTIVE", NEW Q, Q = OrdersOnAck(S, l)
  PROVE  Q \in SUBSET Order /\ OrdFine(S, k, Q) /\ S.conn[k].alive
  <1>1. S \in Net /\ ConnFine(S.conn[k]) /\ S.conn[k] \in Conn /\ l # NoLchan /\ k # NoConn
    BY NetFields, ApiNullAssumption, ConnAssumption DEF Core, ConnsFine
  <1>2. l \in HeldBy(S.conn[k])
    BY DEF Core, Mutual
  <1>3. S.conn[k].alive /\ S.conn[k].lchan \in Lchans
    <2>1. PICK x : x = S.conn[k]  OBVIOUS
    <2>2. HeldBy(x) # {} /\ ConnFine(x) /\ x \in Conn
      BY <1>1, <1>2, <2>1
    <2>3. x # NoConnection
      BY <2>2, NoConnectionTyped
    <2>4. x.alive /\ x.lchan # NoLchan
      BY <2>2, <2>3 DEF ConnFine
    <2> QED  BY <2>1, <2>2, <2>4 DEF Conn, MaybeLchan
  <1>4. ASSUME NEW o \in Q
        PROVE  /\ o \in Order /\ o.cmd # "MOD"
               /\ o.cmd = "ASS" => o.new = l /\ l = S.conn[k].secondary_lchan /\ o.old = S.conn[k].lchan /\ Assignments
    <2>1. CASE S.conn[k].secondary_lchan = l /\ o = [cmd |-> "ASS", old |-> S.conn[k].lchan, new |-> l]
      <3>1. Assignments
        BY <1>1, <2>1 DEF ConnFine
      <3> QED  BY <1>3, <2>1, <3>1 DEF Order
    <2>2. ASSUME NEW h \in S.ho, o = [cmd |-> "HO", old |-> h.old_lchan, new |-> l]
          PROVE  o \in Order /\ o.cmd = "HO"
      <3>1. h.old_lchan \in Lchans
        BY <1>1, NetFields DEF Handover
      <3> QED  BY <2>2, <3>1 DEF Order
    <2> QED  BY <1>4, <2>1, <2>2 DEF OrdersOnAck
  <1>5. OrdFine(S, k, Q)
    BY <1>3, <1>4 DEF OrdFine
  <1> QED  BY <1>3, <1>4, <1>5

LEMMA ChanActivAckInv ==
  ASSUME ApiInv, NEW l \in Lchans, ChanActivAck(l)
  PROVE  ApiInv'
  <1>1. net.lc[l].out # <<>> /\ Head(net.lc[l].out).mt = "CHAN_ACTIV"
    BY CmdFacts DEF ChanActivAck
  <1>2. Core(net) /\ net \in Net /\ ChanFine(net.lc[l]) /\ net.bad = {} /\ Phase(net.lc[l], bts[l])
    BY InvFacts
  <1>3. PICK d : d = rsl_rx_chan_act_ack(Popped(net.lc[l]))  OBVIOUS
  <1>4. PICK S : S = WithLc(net, l, d)  OBVIOUS
  <1>5. PICK T : T = net'  OBVIOUS
  <1>6. /\ T = WithHo(S, AckHos(S.ho, l)) /\ env' = env
        /\ bts' = [bts EXCEPT ![l] = [active |-> TRUE, main |-> FALSE]]
        /\ ms' = IF S.lc[l].conn = NoConn THEN ms ELSE [ms EXCEPT ![S.lc[l].conn] = @ \cup OrdersOnAck(S, l)]
    <2>1. AckLeaves(S, l)
      BY <1>3, <1>4, AckNet
    <2> QED  BY <1>5, <2>1 DEF AckLeaves
  <1>7. ChanFine(d) /\ d.conn = net.lc[l].conn /\ d.state = "ACTIVE" /\ d.type = net.lc[l].type
    BY <1>1, <1>2, <1>3, AckFine
  <1>8. d \in Lchan
    BY <1>7 DEF ChanFine
  <1>9. /\ S \in Net /\ S.lc[l] = d /\ (\A m \in Lchans : m # l => S.lc[m] = net.lc[m])
        /\ S.conn = net.conn /\ S.ho = net.ho /\ S.bad = net.bad
    BY <1>2, <1>4, <1>8, SetLc
  <1>10. Core(S)
    BY <1>2, <1>7, <1>9, CoreChan
  <1>11. T = WithHo(S, AckHos(S.ho, l))
    BY <1>6
  <1>12. Core(T) /\ T.lc = S.lc /\ T.conn = S.conn
    BY <1>10, <1>11, AckHosCore
  <1>13. PICK a : a = [active |-> TRUE, main |-> FALSE]  OBVIOUS
  <1>14. a \in [active : BOOLEAN, main : BOOLEAN] /\ a.active /\ ~a.main
    BY <1>13
  <1>15. bts' = SetBts(bts, l, a)
    BY <1>6, <1>13 DEF SetBts
  <1>16. BtsFine(bts') /\ bts'[l] = a /\ \A m \in Lchans : m # l => bts'[m] = bts[m]
    BY <1>14, <1>15, BtsSet
  <1>17. ASSUME NEW m \in Lchans PROVE Phase(T.lc[m], bts'[m])
    <2>1. CASE m = l
      <3>1. Phase(d, a)
        BY <1>1, <1>2, <1>3, <1>14, <1>17, AckPhase
      <3> QED  BY <1>9, <1>12, <1>16, <2>1, <3>1
    <2>2. CASE m # l
      BY <1>9, <1>12, <1>16, <1>17, <2>2, InvFacts
    <2> QED  BY <2>1, <2>2
  <1>18. Phases(T, bts')
    BY <1>17 DEF Phases
  <1>19. ASSUME NEW j \in Conns PROVE OrdFine(T, j, ms[j])
    <2>1. OrdFine(net, j, ms[j]) /\ ms[j] \in SUBSET Order
      BY DEF ApiInv
    <2>2. Keeps(net, T, j)
      BY <1>2, <1>7, <1>9, <1>12, ChanKeeps
    <2>3. ~T.conn[j].alive => ms[j] = {}
      BY <1>9, <1>12, <2>1 DEF OrdFine
    <2> QED  BY <2>1, <2>2, <2>3, KeptOrders
  <1>20. ms' \in [Conns -> SUBSET Order] /\ \A j \in Conns : OrdFine(T, j, ms'[j])
    <2>1. ms \in [Conns -> SUBSET Order]
      BY DEF ApiInv
    <2>2. CASE S.lc[l].conn = NoConn
      BY <1>6, <1>19, <2>1, <2>2
    <2>3. CASE S.lc[l].conn # NoConn
      <3>1. PICK k : k = S.lc[l].conn  OBVIOUS
      <3>2. k \in Conns
        BY <1>8, <1>9, <2>3, <3>1 DEF Lchan
      <3>3. PICK Q : Q = OrdersOnAck(S, l)  OBVIOUS
      <3>4. Q \in SUBSET Order /\ OrdFine(S, k, Q) /\ S.conn[k].alive
        BY <1>7, <1>9, <1>10, <3>1, <3>2, <3>3, AckOrders
      <3>5. ms' = [ms EXCEPT ![k] = @ \cup Q]
        BY <1>6, <2>3, <3>1, <3>3
      <3>6. ms' \in [Conns -> SUBSET Order] /\ ms'[k] = ms[k] \cup Q /\ \A j \in Conns : j # k => ms'[j] = ms[j]
        BY <2>1, <3>2, <3>4, <3>5
      <3>7. OrdFine(T, k, ms[k])
        BY <1>19, <3>2
      <3>8. OrdFine(T, k, ms[k] \cup Q)
        BY <1>12, <3>4, <3>7 DEF OrdFine
      <3> QED  BY <1>19, <3>6, <3>8
    <2> QED  BY <2>2, <2>3
  <1>21. env' = env /\ net' = T
    BY <1>5, <1>6
  <1> HIDE <1>6
  <1> QED  BY <1>12, <1>16, <1>18, <1>20, <1>21, Adopted

-----------------------------------------------------------------------------
(* A connection gets a channel *)

\* Connection k, now y, gets channel l, now c.
Gained(S, T, k, y, l, c) ==
    /\ T \in Net /\ T.bad = {} /\ T.lc[l] = c /\ (\A m \in Lchans : m # l => T.lc[m] = S.lc[m])
    /\ T.conn[k] = y /\ (\A j \in Conns : j # k => T.conn[j] = S.conn[j])

LEMMA GainStep ==
  ASSUME ApiInv, NEW k \in Conns, NEW l \in Lchans, net.lc[l].conn = NoConn, NEW c, ChanFine(c), c.conn = k,
         NEW y, ConnFine(y), HeldBy(y) = HeldBy(net.conn[k]) \cup {l}, NEW T, Gained(net, T, k, y, l, c), MainUp(T, y), HoStep(net, T, k),
         net' = T, env' = env, BtsFine(bts'), \A m \in Lchans : m # l => bts'[m] = bts[m], Phase(c, bts'[l]),
         ms' = ms, OrdFine(T, k, ms[k])
  PROVE  ApiInv'
  <1>1. Core(net) /\ k # NoConn /\ ms \in [Conns -> SUBSET Order] /\ ChansFine(net) /\ Mutual(net)
    BY ConnAssumption DEF ApiInv, Core
  <1>2. /\ T \in Net /\ T.bad = {} /\ T.lc[l] = c /\ (\A m \in Lchans : m # l => T.lc[m] = net.lc[m])
        /\ T.conn[k] = y /\ (\A j \in Conns : j # k => T.conn[j] = net.conn[j])
    BY DEF Gained
  <1>3. ChansFine(T)
    BY <1>1, <1>2 DEF ChansFine
  <1>4. \A m \in Lchans : net.lc[m].conn \notin {NoConn, k} => T.lc[m] = net.lc[m]
    BY <1>2
  <1>5. \A m \in Lchans : net.lc[m].conn \in {NoConn, k} => T.lc[m].conn \in {NoConn, k}
    BY <1>2
  <1>6. \A m \in Lchans : T.lc[m].conn = k <=> m \in HeldBy(T.conn[k])
    BY <1>1, <1>2 DEF Mutual
  <1>7. ConnFine(T.conn[k]) /\ MainUp(T, T.conn[k])
    BY <1>2
  <1>8. Core(T)
    BY <1>1, <1>2, <1>3, <1>4, <1>5, <1>6, <1>7, CoreConn
  <1>9. ASSUME NEW m \in Lchans PROVE Phase(T.lc[m], bts'[m])
    <2>1. CASE m = l
      BY <1>2, <1>9, <2>1
    <2>2. CASE m # l
      BY <1>2, <1>9, <2>2, InvFacts
    <2> QED  BY <2>1, <2>2
  <1>10. Phases(T, bts')
    BY <1>9 DEF Phases
  <1>11. ASSUME NEW j \in Conns PROVE OrdFine(T, j, ms'[j])
    <2>1. CASE j = k
      BY <2>1
    <2>2. CASE j # k
      <3>1. Keeps(net, T, j)
        BY <1>1, <1>2, <1>4, <2>2, OthersKeep
      <3>2. OrdFine(net, j, ms[j]) /\ ms[j] \in SUBSET Order
        BY DEF ApiInv
      <3>3. ~T.conn[j].alive => ms[j] = {}
        BY <1>2, <2>2, <3>2 DEF OrdFine
      <3> QED  BY <3>1, <3>2, <3>3, KeptOrders
    <2> QED  BY <2>1, <2>2
  <1>12. ms' \in [Conns -> SUBSET Order]
    BY <1>1
  <1> QED  BY <1>8, <1>10, <1>11, <1>12, Adopted

\* Records of handovers that stay.
LEMMA HosStay ==
  ASSUME NEW S, Core(S), NEW k \in Conns, NEW T, T.ho = S.ho, S.conn[k].ho_lchan = NoLchan, T.conn[k].ho_lchan = NoLchan
  PROVE  HoStep(S, T, k)
  <1>1. \A h \in S.ho : h.new_lchan # NoLchan
    BY NetFields, ApiNullAssumption DEF Core, Handover
  <1> QED  BY <1>1 DEF HoStep

Alloc(c, type, k) == rsl_lchan_set_state(rsl_chan_activate_lchan([lchan_take(c, type) EXCEPT !.conn = k]), "ACT_REQ")
LEMMA AllocIs ==
  ASSUME NEW c \in Lchan, NEW type, NEW k
  PROVE  Alloc(c, type, k) = Taken(c, type, k, c.rqd_ref, c.act_timer)
  <1>1. [lchan_take(c, type) EXCEPT !.conn = k, !.rqd_ref = c.rqd_ref, !.act_timer = c.act_timer] = [lchan_take(c, type) EXCEPT !.conn = k]
    BY DEF lchan_take, Lchan
  <1> QED  BY <1>1 DEF Alloc, Taken

\* A free channel is taken for connection k.
LEMMA AllocFine ==
  ASSUME ApiInv, NEW l \in Free("TCH_F"), NEW k \in Conns, NEW c, c = Alloc(net.lc[l], Pchan[l], k)
  PROVE  /\ l \in Lchans /\ net.lc[l].conn = NoConn /\ ChanFine(c) /\ c \in Lchan /\ c.conn = k
         /\ c.type = "TCH_F" /\ Phase(c, bts[l])
  <1>1. PICK type \in {"SDCCH", "TCH_F"} : type = "TCH_F"  OBVIOUS
  <1>2. l \in Lchans /\ Pchan[l] = type /\ LchanIsFree(net.lc[l]) /\ net.lc[l].conn = NoConn
    BY <1>1, FreeLchan
  <1>3. ChanFine(net.lc[l]) /\ net.lc[l] \in Lchan /\ Phase(net.lc[l], bts[l])
    BY <1>2, InvFacts
  <1>4. PICK rqd : rqd = net.lc[l].rqd_ref  OBVIOUS
  <1>5. PICK tmr : tmr = net.lc[l].act_timer  OBVIOUS
  <1>6. c = Taken(net.lc[l], type, k, rqd, tmr)
    BY <1>2, <1>3, <1>4, <1>5, AllocIs
  <1>7. rqd \in BOOLEAN /\ tmr \in {"off", "act", "deact"} /\ ~rqd
    BY <1>2, <1>3, <1>4, <1>5 DEF Lchan, ChanFine, LchanIsFree
  <1>8. k \in Conns \cup {NoConn}
    OBVIOUS
  <1>9. ChanFine(c) /\ c.conn = k /\ c.type = type /\ (\A b : Phase(net.lc[l], b) => Phase(c, b))
    BY <1>2, <1>3, <1>6, <1>7, <1>8, TakenFine
  <1>10. c \in Lchan
    BY <1>9 DEF ChanFine
  <1> QED  BY <1>1, <1>2, <1>3, <1>9, <1>10

\* Channel and connection changed at once.
LEMMA BothSet ==
  ASSUME NEW S \in Net, S.bad = {}, NEW k \in Conns, NEW l \in Lchans, NEW c \in Lchan, NEW y \in Conn, NEW T, T = WithConn(WithLc(S, l, c), k, y)
  PROVE  Gained(S, T, k, y, l, c) /\ T.ho = S.ho
  <1>1. PICK A : A = WithLc(S, l, c)  OBVIOUS
  <1>2. /\ A \in Net /\ A.lc[l] = c /\ (\A m \in Lchans : m # l => A.lc[m] = S.lc[m])
        /\ A.conn = S.conn /\ A.ho = S.ho /\ A.bad = S.bad
    BY <1>1, SetLc
  <1>3. T = WithConn(A, k, y)
    BY <1>1
  <1>4. /\ T \in Net /\ T.conn[k] = y /\ (\A j \in Conns : j # k => T.conn[j] = A.conn[j])
        /\ T.lc = A.lc /\ T.ho = A.ho /\ T.bad = A.bad
    BY <1>2, <1>3, SetConn
  <1> QED  BY <1>2, <1>4 DEF Gained

-----------------------------------------------------------------------------
(* Assignments *)

OnAssign(x, l) == [x EXCEPT !.secondary_lchan = l, !.T10 = TRUE]
LEMMA NewAssignmentIs ==
  ASSUME NEW S \in Net, NEW k \in Conns, NEW l \in Lchans
  PROVE  [handle_new_assignment(S, k, l) EXCEPT !.conn[k].T10 = TRUE]
         = WithConn(WithLc(S, l, Alloc(S.lc[l], Pchan[l], k)), k, OnAssign(S.conn[k], l))
  BY NetFields DEF handle_new_assignment, WithConn, WithLc, Alloc, OnAssign, Net, Conn

\* The MSC side asks for an assignment: there is none going on.
LEMMA AssignFacts ==
  ASSUME ApiInv, NEW k \in Conns, gsm0808_assign_req(k)
  PROVE  /\ Assignments /\ ~net.conn[k].T10 /\ net.conn[k].secondary_lchan = NoLchan
         /\ net.conn[k].alive /\ net.conn[k].lchan \in Lchans /\ net.conn[k] \in Conn /\ ConnFine(net.conn[k])
         /\ net.lc[net.conn[k].lchan].type = "SDCCH" => net.conn[k].ho_lchan = NoLchan
  <1>1. Assignments /\ net.conn[k].alive /\ net.conn[k].lchan # NoLchan /\ (~net.conn[k].T10 \/ "reassign" \in Faults)
    BY DEF gsm0808_assign_req
  <1>2. "reassign" \notin Faults
    BY <1>1 DEF ApiInv, OneAtATime, Faults
  <1>3. ConnFine(net.conn[k]) /\ net.conn[k] \in Conn /\ MainUp(net, net.conn[k])
    BY NetFields DEF ApiInv, Core, ConnsFine
  <1>4. net.conn[k].secondary_lchan = NoLchan
    BY <1>1, <1>2, <1>3 DEF ConnFine
  <1>5. net.conn[k].lchan \in Lchans
    BY <1>1, <1>3 DEF Conn, MaybeLchan
  <1>6. net.lc[net.conn[k].lchan].type = "SDCCH" => net.conn[k].ho_lchan = NoLchan
    BY <1>1, <1>3 DEF MainUp
  <1> QED  BY <1>1, <1>2, <1>3, <1>4, <1>5, <1>6

LEMMA NewAssignmentInv ==
  ASSUME ApiInv, NEW k \in Conns, gsm0808_assign_req(k), NEW l \in Free("TCH_F"), net.lc[net.conn[k].lchan].type = "SDCCH",
         net' = [handle_new_assignment(net, k, l) EXCEPT !.conn[k].T10 = TRUE], ms' = ms, bts' = bts, env' = env
  PROVE  ApiInv'
  <1>1. PICK x : x = net.conn[k]  OBVIOUS
  <1>2. /\ Assignments /\ ~x.T10 /\ x.secondary_lchan = NoLchan /\ x.ho_lchan = NoLchan
        /\ x.alive /\ x.lchan \in Lchans /\ x \in Conn /\ ConnFine(x) /\ net.lc[x.lchan].type = "SDCCH"
    BY <1>1, AssignFacts
  <1>3. PICK c : c = Alloc(net.lc[l], Pchan[l], k)  OBVIOUS
  <1>4. l \in Lchans /\ net.lc[l].conn = NoConn /\ ChanFine(c) /\ c \in Lchan /\ c.conn = k /\ Phase(c, bts[l])
    BY <1>3, AllocFine
  <1>5. Core(net) /\ net \in Net /\ net.bad = {} /\ k # NoConn
    BY <1>4, InvFacts, ConnAssumption
  <1>6. l \notin HeldBy(x) /\ l # NoLchan
    BY <1>1, <1>4, <1>5, ApiNullAssumption DEF Core, Mutual
  <1>7. PICK y : y = OnAssign(x, l)  OBVIOUS
  <1>8. /\ y \in Conn /\ y.secondary_lchan = l /\ y.T10 = TRUE /\ y.alive = x.alive /\ y.lchan = x.lchan /\ y.ho_lchan = x.ho_lchan
    BY <1>2, <1>4, <1>7 DEF OnAssign, Conn, MaybeLchan
  <1>9. ConnFine(y)
    BY <1>2, <1>6, <1>8 DEF ConnFine, HeldBy
  <1>10. HeldBy(y) = HeldBy(net.conn[k]) \cup {l}
    BY <1>1, <1>2, <1>6, <1>8 DEF HeldBy
  <1>11. PICK T : T = net'  OBVIOUS
  <1>12. T = WithConn(WithLc(net, l, c), k, y)
    BY <1>1, <1>3, <1>4, <1>5, <1>7, <1>11, NewAssignmentIs
  <1>13. Gained(net, T, k, y, l, c) /\ T.ho = net.ho
    BY <1>4, <1>5, <1>8, <1>12, BothSet
  <1>14. T.conn[k] = y /\ \A m \in Lchans : m # l => T.lc[m] = net.lc[m]
    BY <1>13 DEF Gained
  <1>15. HoStep(net, T, k)
    BY <1>1, <1>2, <1>5, <1>8, <1>13, <1>14, HosStay
  <1>16. MainUp(T, y)
    <2>1. MainUp(net, x) /\ x.lchan # l
      BY <1>1, <1>2, <1>5, <1>6 DEF Core, HeldBy
    <2> QED  BY <1>2, <1>8, <1>14, <2>1 DEF MainUp
  <1>17. OrdFine(T, k, ms[k])
    <2>1. ~T.conn[k].alive => ms[k] = {}
      BY <1>2, <1>8, <1>14
    <2>2. T.conn[k].lchan = net.conn[k].lchan /\ T.lc[net.conn[k].lchan].type = net.lc[net.conn[k].lchan].type
      BY <1>1, <1>2, <1>6, <1>8, <1>14 DEF HeldBy
    <2> QED  BY <1>1, <1>2, <2>1, <2>2, HoOrders
  <1>18. BtsFine(bts') /\ (\A m \in Lchans : m # l => bts'[m] = bts[m]) /\ Phase(c, bts'[l])
    BY <1>4, BtsKept
  <1>19. net' = T /\ l \in Lchans
    BY <1>4, <1>11
  <1> QED  BY <1>4, <1>9, <1>10, <1>13, <1>15, <1>16, <1>17, <1>18, <1>19, GainStep

InMode(x) == [x EXCEPT !.T10 = TRUE]
LEMMA ModifyInv ==
  ASSUME ApiInv, NEW k \in Conns, gsm0808_assign_req(k), net' = [net EXCEPT !.conn[k].T10 = TRUE], bts' = bts, env' = env,
         net.lc[net.conn[k].lchan].type # "SDCCH",
         ms' = [ms EXCEPT ![k] = @ \cup {[cmd |-> "MOD", old |-> net.conn[k].lchan, new |-> net.conn[k].lchan]}]
  PROVE  ApiInv'
  <1>1. PICK x : x = net.conn[k]  OBVIOUS
  <1>2. /\ Assignments /\ ~x.T10 /\ x.secondary_lchan = NoLchan
        /\ x.alive /\ x.lchan \in Lchans /\ x \in Conn /\ ConnFine(x)
    BY <1>1, AssignFacts
  <1>3. net \in Net /\ ms \in [Conns -> SUBSET Order]
    BY DEF ApiInv, Core
  <1>4. PICK y : y = InMode(x)  OBVIOUS
  <1>5. y \in Conn /\ y.T10 = TRUE /\ y.alive = x.alive /\ y.lchan = x.lchan /\ y.secondary_lchan = x.secondary_lchan /\ y.ho_lchan = x.ho_lchan
    BY <1>2, <1>4 DEF InMode, Conn
  <1>6. ConnFine(y)
    BY <1>2, <1>5 DEF ConnFine
  <1>7. PICK T : T = WithConn(net, k, y)  OBVIOUS
  <1>8. net' = T
    BY <1>1, <1>3, <1>4, <1>7 DEF WithConn, InMode
  <1>9. T.conn[k] = y /\ T.lc = net.lc
    BY <1>3, <1>5, <1>7, SetConn
  <1>10. PICK o : o = [cmd |-> "MOD", old |-> x.lchan, new |-> x.lchan]  OBVIOUS
  <1>11. o \in Order /\ o.cmd = "MOD" /\ o.old = x.lchan /\ o.new = x.lchan
    BY <1>2, <1>10 DEF Order
  <1>12. ms' = [ms EXCEPT ![k] = @ \cup {o}]
    BY <1>1, <1>10
  <1>13. ms' \in [Conns -> SUBSET Order] /\ ms'[k] = ms[k] \cup {o} /\ \A j \in Conns : j # k => ms'[j] = ms[j]
    BY <1>3, <1>11, <1>12
  <1>14. OrdFine(T, k, ms[k])
    <2>1. ~T.conn[k].alive => ms[k] = {}
      BY <1>2, <1>5, <1>9
    <2>2. T.conn[k].lchan = net.conn[k].lchan /\ T.lc[net.conn[k].lchan].type = net.lc[net.conn[k].lchan].type
      BY <1>1, <1>5, <1>9
    <2> QED  BY <1>1, <1>2, <2>1, <2>2, HoOrders
  <1>15. OrdFine(T, k, ms'[k])
    BY <1>1, <1>2, <1>5, <1>9, <1>11, <1>13, <1>14 DEF OrdFine
  <1>16. \A j \in Conns : j # k => ms'[j] \subseteq ms[j] /\ (~T.conn[j].alive => ms'[j] = {})
    <2>1. \A j \in Conns : j # k => T.conn[j] = net.conn[j]
      BY <1>3, <1>5, <1>7, SetConn
    <2> QED  BY <1>13, <2>1, DeadOrders
  <1>17. /\ y.lchan = net.conn[k].lchan /\ y.secondary_lchan = net.conn[k].secondary_lchan
         /\ y.ho_lchan = net.conn[k].ho_lchan /\ y.alive = net.conn[k].alive /\ y \in Conn
    BY <1>1, <1>5
  <1>18. ms' \in [Conns -> SUBSET Order]
    BY <1>13
  <1>19. net' = T /\ bts' = bts /\ env' = env
    BY <1>8
  <1> QED  BY <1>6, <1>7, <1>15, <1>16, <1>17, <1>18, <1>19, ConnOnly

\* A step that changes nothing.
LEMMA Stutters == ASSUME ApiInv, net' = net, bts' = bts, ms' = ms, env' = env PROVE ApiInv'
  <1>1. PICK T : T = net'  OBVIOUS
  <1>2. Core(T) /\ Phases(T, bts') /\ ms' \in [Conns -> SUBSET Order] /\ \A k \in Conns : OrdFine(T, k, ms'[k])
    BY <1>1 DEF ApiInv
  <1> QED  BY <1>1, <1>2, BtsKept, Adopted

LEMMA AssignReqInv ==
  ASSUME ApiInv, NEW k \in Conns, gsm0808_assign_req(k)
  PROVE  ApiInv' \/ Stopped'
  <1>1. bts' = bts /\ env' = env
    BY DEF gsm0808_assign_req
  <1>2. ASSUME NEW l \in Free("TCH_F"), net' = [handle_new_assignment(net, k, l) EXCEPT !.conn[k].T10 = TRUE], ms' = ms,
               net.lc[net.conn[k].lchan].type = "SDCCH"
        PROVE  ApiInv'
    BY <1>1, <1>2, NewAssignmentInv
  <1>3. CASE net' = assign_fail(net) /\ ms' = ms
    <2>1. net \in Net /\ net.bad = {} /\ Assignments /\ BtsFine(bts') /\ ms' \in [Conns -> SUBSET Order]
      BY <1>1, <1>3, AssignFacts, BtsKept DEF ApiInv, Core
    <2>2. CASE Nitb
      <3>1. PICK U : U = Fails(net, "null_assign_fail")  OBVIOUS
      <3>2. net' = U
        BY <1>3, <2>2, <3>1 DEF assign_fail
      <3>3. U \in Net /\ U.bad = {"null_assign_fail"}
        BY <2>1, <3>1, FailsTyped DEF Bad
      <3> QED  BY <1>1, <2>1, <2>2, <3>2, <3>3, Stops
    <2>3. CASE ~Nitb
      <3>1. net' = net
        BY <1>3, <2>3, AssignFailIs
      <3> QED  BY <1>1, <1>3, <3>1, Stutters
    <2> QED  BY <2>2, <2>3
  <1>4. CASE /\ net' = [net EXCEPT !.conn[k].T10 = TRUE] /\ net.lc[net.conn[k].lchan].type # "SDCCH"
             /\ ms' = [ms EXCEPT ![k] = @ \cup {[cmd |-> "MOD", old |-> net.conn[k].lchan, new |-> net.conn[k].lchan]}]
    BY <1>1, <1>4, ModifyInv
  <1> QED  BY <1>2, <1>3, <1>4, Zenon DEF gsm0808_assign_req, Becomes

-----------------------------------------------------------------------------
(* The start of a handover *)

OnHandover(x, l) == [x EXCEPT !.ho_lchan = l]
NewHo(old, l) == [old_lchan |-> old, new_lchan |-> l, T3103 |-> FALSE]
LEMMA HandoverStartIs ==
  ASSUME NEW S \in Net, NEW old, NEW l \in Lchans, NEW k \in Conns, k = S.lc[old].conn
  PROVE  bsc_handover_start(S, old, l)
         = WithHo(WithConn(WithLc(S, l, Alloc(S.lc[l], Pchan[l], k)), k, OnHandover(S.conn[k], l)), S.ho \cup {NewHo(old, l)})
  BY NetFields DEF bsc_handover_start, WithHo, WithConn, WithLc, Alloc, OnHandover, NewHo, Net, Conn

\* The connection has no other handover going on.
LEMMA StartFacts ==
  ASSUME ApiInv, NEW old \in Lchans, StartHandover(old), NEW k, k = net.lc[old].conn
  PROVE  /\ k \in Conns /\ Nitb /\ net.conn[k].lchan = old /\ net.conn[k].ho_lchan = NoLchan /\ net.conn[k].alive
         /\ net.conn[k] \in Conn /\ ConnFine(net.conn[k]) /\ net.conn[k].secondary_lchan = NoLchan /\ net.lc[old].type = "TCH_F"
  <1>1. Nitb /\ k # NoConn /\ net.lc[old].type = "TCH_F" /\ (net.conn[k].lchan = old \/ "early_ho" \in Faults) /\ \A h \in net.ho : h.old_lchan # old
    BY DEF StartHandover
  <1>2. net.lc[old] \in Lchan /\ Core(net)
    BY InvFacts
  <1>3. k \in Conns
    BY <1>1, <1>2 DEF Lchan
  <1>4. net.conn[k].lchan = old
    BY <1>1 DEF ApiInv, OneAtATime, Faults
  <1>5. ConnFine(net.conn[k]) /\ net.conn[k] \in Conn
    BY <1>2, <1>3, NetFields DEF Core, ConnsFine
  <1>6. net.conn[k].secondary_lchan = NoLchan
    <2>1. MainUp(net, net.conn[k]) /\ net.conn[k].lchan # NoLchan
      BY <1>2, <1>3, <1>4, ApiNullAssumption DEF Core
    <2> QED  BY <1>1, <1>4, <2>1 DEF MainUp
  <1>7. net.conn[k].alive
    <2>1. PICK x : x = net.conn[k]  OBVIOUS
    <2>2. x.lchan # NoLchan /\ ConnFine(x) /\ NoConnection.lchan = NoLchan
      BY <1>4, <1>5, <2>1, ApiNullAssumption DEF NoConnection
    <2> QED  BY <2>1, <2>2 DEF ConnFine
  <1>8. net.conn[k].ho_lchan = NoLchan
    <2>1. SUFFICES ASSUME net.conn[k].ho_lchan # NoLchan PROVE FALSE
      OBVIOUS
    <2>2. PICK h \in net.ho : h.new_lchan = net.conn[k].ho_lchan
      BY <1>2, <1>3, <2>1 DEF Core, HosFine
    <2>3. PICK n : n = h.new_lchan  OBVIOUS
    <2>4. n \in Lchans
      BY <2>3, HoFacts
    <2>5. n \in HeldBy(net.conn[k])
      BY <2>1, <2>2, <2>3 DEF HeldBy
    <2>6. net.lc[n].conn = k
      BY <1>2, <1>3, <2>4, <2>5 DEF Core, Mutual
    <2>7. net.conn[k].lchan = h.old_lchan
      BY <2>3, <2>6, HoFacts
    <2> QED  BY <1>1, <1>4, <2>7
  <1> QED  BY <1>1, <1>3, <1>4, <1>5, <1>6, <1>7, <1>8

LEMMA StartHandoverInv ==
  ASSUME ApiInv, NEW old \in Lchans, StartHandover(old)
  PROVE  ApiInv'
  <1>1. PICK k : k = net.lc[old].conn  OBVIOUS
  <1>2. PICK x : x = net.conn[k]  OBVIOUS
  <1>3. k \in Conns /\ Nitb /\ x.lchan = old /\ x.ho_lchan = NoLchan /\ x.alive /\ x \in Conn /\ ConnFine(x) /\ x.secondary_lchan = NoLchan
        /\ net.lc[old].type = "TCH_F"
    BY <1>1, <1>2, StartFacts
  <1>4. PICK l \in Free("TCH_F") : net' = bsc_handover_start(net, old, l)
    BY DEF StartHandover, Becomes
  <1>5. PICK c : c = Alloc(net.lc[l], Pchan[l], k)  OBVIOUS
  <1>6. l \in Lchans /\ net.lc[l].conn = NoConn /\ ChanFine(c) /\ c \in Lchan /\ c.conn = k /\ c.type = "TCH_F" /\ Phase(c, bts[l])
    BY <1>3, <1>5, AllocFine
  <1>7. Core(net) /\ net \in Net /\ net.bad = {} /\ k # NoConn
    BY <1>3, <1>6, InvFacts, ConnAssumption
  <1>8. l # old /\ l # NoLchan
    BY <1>1, <1>6, <1>7, ApiNullAssumption
  <1>9. PICK y : y = OnHandover(x, l)  OBVIOUS
  <1>10. y \in Conn /\ y.ho_lchan = l /\ y.T10 = x.T10 /\ y.alive = x.alive /\ y.lchan = x.lchan /\ y.secondary_lchan = x.secondary_lchan
    BY <1>3, <1>6, <1>9 DEF OnHandover, Conn, MaybeLchan
  <1>11. ConnFine(y)
    BY <1>3, <1>8, <1>10 DEF ConnFine
  <1>12. HeldBy(y) = HeldBy(net.conn[k]) \cup {l}
    BY <1>2, <1>3, <1>8, <1>10 DEF HeldBy
  <1>13. PICK B : B = WithConn(WithLc(net, l, c), k, y)  OBVIOUS
  <1>14. Gained(net, B, k, y, l, c) /\ B.ho = net.ho
    BY <1>3, <1>6, <1>7, <1>10, <1>13, BothSet
  <1>15. PICK g : g = NewHo(old, l)  OBVIOUS
  <1>16. g \in Handover /\ g.old_lchan = old /\ g.new_lchan = l
    BY <1>6, <1>15 DEF NewHo, Handover
  <1>17. PICK H : H = net.ho \cup {g}  OBVIOUS
  <1>18. PICK T : T = net'  OBVIOUS
  <1>19. T = WithHo(B, H)
    <2>1. bsc_handover_start(net, old, l)
          = WithHo(WithConn(WithLc(net, l, Alloc(net.lc[l], Pchan[l], k)), k, OnHandover(net.conn[k], l)), net.ho \cup {NewHo(old, l)})
      <3>1. net \in Net /\ l \in Lchans /\ k \in Conns /\ k = net.lc[old].conn
        BY <1>1, <1>3, <1>6, <1>7
      <3> QED  BY <3>1, HandoverStartIs
    <2> QED  BY <1>2, <1>4, <1>5, <1>9, <1>13, <1>15, <1>17, <1>18, <2>1
  <1>20. H \in SUBSET Handover /\ B \in Net
    BY <1>7, <1>14, <1>16, <1>17, NetFields DEF Gained
  <1>21. T \in Net /\ T.ho = H /\ T.lc = B.lc /\ T.conn = B.conn /\ T.bad = B.bad
    BY <1>19, <1>20, SetHo
  <1>22. Gained(net, T, k, y, l, c)
    BY <1>14, <1>21 DEF Gained
  <1>23. T.conn[k] = y
    BY <1>22 DEF Gained
  <1>24. HoStep(net, T, k)
    <2>1. \A h \in net.ho : h.new_lchan # l /\ h.new_lchan # NoLchan
      BY <1>6, HoFacts, ApiNullAssumption
    <2>2. Anchors(T.conn[k], g)
      BY <1>3, <1>10, <1>16, <1>23 DEF Anchors
    <2>3. \A h \in T.ho : h = g \/ h \in net.ho
      BY <1>17, <1>21
    <2>4. g \in T.ho /\ \A h \in net.ho : h \in T.ho
      BY <1>17, <1>21
    <2>5. net.conn[k].ho_lchan = NoLchan /\ T.conn[k].ho_lchan = l
      BY <1>2, <1>3, <1>10, <1>23
    <2> QED  BY <1>16, <2>1, <2>2, <2>3, <2>4, <2>5 DEF HoStep
  <1>30. T.lc[l] = c /\ T.lc[old] = net.lc[old]
    BY <1>8, <1>22 DEF Gained
  <1>25. MainUp(T, y)
    <2>1. net.lc[old].state # "ACT_REQ"
      BY <1>2, <1>3, <1>7, ApiNullAssumption DEF Core, MainUp
    <2> QED  BY <1>3, <1>6, <1>10, <1>30, <2>1 DEF MainUp
  <1>26. OrdFine(T, k, ms[k])
    <2>1. ~T.conn[k].alive => ms[k] = {}
      BY <1>3, <1>10, <1>23
    <2>2. T.conn[k].lchan = net.conn[k].lchan /\ T.lc[net.conn[k].lchan].type = net.lc[net.conn[k].lchan].type
      BY <1>2, <1>3, <1>10, <1>23, <1>30
    <2> QED  BY <1>2, <1>3, <2>1, <2>2, HoOrders
  <1>27. ms' = ms /\ bts' = bts /\ env' = env
    BY DEF StartHandover
  <1>28. BtsFine(bts') /\ (\A m \in Lchans : m # l => bts'[m] = bts[m]) /\ Phase(c, bts'[l])
    BY <1>6, <1>27, BtsKept
  <1>29. net' = T /\ l \in Lchans /\ k \in Conns
    BY <1>3, <1>6, <1>18
  <1> QED  BY <1>6, <1>11, <1>12, <1>22, <1>24, <1>25, <1>26, <1>27, <1>28, <1>29, GainStep

-----------------------------------------------------------------------------
(* The first message of an MS *)

Owned(c, k) == [c EXCEPT !.conn = k]
NewConn(l) == [NoConnection EXCEPT !.alive = TRUE, !.lchan = l]
LEMMA AllocateIs ==
  ASSUME NEW S \in Net, NEW k \in Conns, NEW l \in Lchans, NEW e \in Lchan
  PROVE  subscr_con_allocate(WithLc(S, l, e), k, l) = WithConn(WithLc(S, l, Owned(e, k)), k, NewConn(l))
  BY NetFields DEF subscr_con_allocate, WithConn, WithLc, Owned, NewConn, Net, Lchan

LEMMA NewConnIs ==
  ASSUME NEW l \in Lchans, NEW y, y = NewConn(l)
  PROVE  y \in Conn /\ y.alive /\ y.lchan = l /\ y.secondary_lchan = NoLchan /\ y.ho_lchan = NoLchan /\ y.T10 = FALSE
  BY DEF NewConn, NoConnection, Conn, MaybeLchan

LEMMA OwnedFine ==
  ASSUME NEW e, ChanFine(e), ~e.T3101, ~e.rqd_ref, e.type # "NONE", NEW k \in Conns, NEW f, f = Owned(e, k)
  PROVE  /\ ChanFine(f) /\ f \in Lchan /\ f.conn = k /\ f.state = e.state
         /\ \A b : Up(e, b) /\ e.out = <<>> => Up(f, b)
  <1>1. e \in Lchan
    BY DEF ChanFine
  <1>2. f \in Lchan
    BY <1>1 DEF Owned, Lchan
  <1>3. /\ f.conn = k /\ f.state = e.state /\ f.type = e.type /\ f.T3101 = e.T3101
        /\ f.T3111 = e.T3111 /\ f.rqd_ref = e.rqd_ref /\ f.sapis = e.sapis /\ f.out = e.out
    BY <1>1 DEF Owned, Lchan
  <1>4. ChanFine(f)
    BY <1>2, <1>3 DEF ChanFine
  <1>5. \A b : Up(e, b) /\ e.out = <<>> => Up(f, b)
    BY <1>3 DEF Up
  <1> QED  BY <1>2, <1>3, <1>4, <1>5

LEMMA MsAccessInv ==
  ASSUME ApiInv, NEW l \in Lchans, NEW k \in Conns, MsAccess(l, k)
  PROVE  ApiInv'
  <1>1. /\ bts[l].active /\ net.lc[l].state = "ACTIVE" /\ net.lc[l].conn = NoConn /\ net.lc[l].T3101 /\ ~net.conn[k].alive
        /\ ms' = ms /\ env' = env
    BY DEF MsAccess
  <1>2. bts' = [bts EXCEPT ![l].main = TRUE]
    BY DEF MsAccess
  <1>3. Core(net) /\ net \in Net /\ net.bad = {} /\ ChanFine(net.lc[l]) /\ Phase(net.lc[l], bts[l])
    BY InvFacts
  <1>4. PICK e : e = rll_est_ind(net.lc[l], 0)  OBVIOUS
  <1>5. PICK S : S = WithLc(net, l, e)  OBVIOUS
  <1>6. S = [net EXCEPT !.lc[l] = rll_est_ind(@, 0)]
    BY <1>4, <1>5 DEF WithLc
  <1>7. /\ ChanFine(e) /\ e.conn = NoConn /\ e.type = net.lc[l].type /\ e.state = "ACTIVE" /\ ~e.T3101 /\ e.out = net.lc[l].out
        /\ e.rqd_ref = net.lc[l].rqd_ref /\ \A b : Up(net.lc[l], b) => Up(e, b)
    BY <1>1, <1>3, <1>4, EstIndFine
  <1>8. ~e.rqd_ref /\ e.type # "NONE" /\ e \in Lchan
    BY <1>1, <1>3, <1>7 DEF ChanFine
  <1>9. BtsFine(bts') /\ bts'[l].active /\ \A m \in Lchans : m # l => bts'[m] = bts[m]
    BY <1>1, <1>2, LinkUpDoes
  <1>10. Up(e, bts'[l]) /\ Phase(e, bts'[l]) /\ e.out = <<>>
    <2>2. Up(net.lc[l], bts[l])
      BY <1>1, <1>3, ActiveIsUp
    <2>3. net.lc[l].out = <<>> /\ Up(e, bts[l])
      BY <1>1, <1>7, <2>2 DEF Up
    <2> QED  BY <1>7, <1>9, <2>3, UpAny
  <1>11. CASE net' = subscr_con_allocate(S, k, l)
    <2>1. PICK f : f = Owned(e, k)  OBVIOUS
    <2>2. PICK y : y = NewConn(l)  OBVIOUS
    <2>3. PICK T : T = net'  OBVIOUS
    <2>4. /\ ChanFine(f) /\ f \in Lchan /\ f.conn = k /\ f.state = e.state
          /\ \A b : Up(e, b) /\ e.out = <<>> => Up(f, b)
      BY <1>7, <1>8, <2>1, OwnedFine
    <2>5. y \in Conn /\ y.alive /\ y.lchan = l /\ y.secondary_lchan = NoLchan /\ y.ho_lchan = NoLchan /\ y.T10 = FALSE
      BY <2>2, NewConnIs
    <2>6. T = WithConn(WithLc(net, l, f), k, y)
      BY <1>3, <1>5, <1>8, <1>11, <2>1, <2>2, <2>3, AllocateIs
    <2>7. Gained(net, T, k, y, l, f) /\ T.ho = net.ho
      BY <1>3, <2>4, <2>5, <2>6, BothSet
    <2>8. T.conn[k] = y /\ T.lc[l] = f
      BY <2>7 DEF Gained
    <2>9. ConnFine(y) /\ HeldBy(y) = {l}
      BY <2>5, ApiNullAssumption DEF ConnFine, HeldBy
    <2>10. net.conn[k] = NoConnection /\ net.conn[k].ho_lchan = NoLchan
      <3>1. ConnFine(net.conn[k])
        BY <1>3 DEF Core, ConnsFine
      <3>2. net.conn[k] = NoConnection
        BY <1>1, <3>1 DEF ConnFine
      <3>3. NoConnection.ho_lchan = NoLchan
        BY DEF NoConnection
      <3> QED  BY <3>2, <3>3
    <2>11. HeldBy(y) = HeldBy(net.conn[k]) \cup {l}
      BY <2>9, <2>10, NoConnectionTyped
    <2>12. HoStep(net, T, k)
      BY <1>3, <2>5, <2>7, <2>8, <2>10, HosStay
    <2>13. MainUp(T, y)
      BY <1>7, <2>4, <2>5, <2>8 DEF MainUp
    <2>14. OrdFine(T, k, ms[k])
      BY <1>1, DeadOrders DEF OrdFine
    <2>15. Phase(f, bts'[l])
      BY <1>10, <2>4 DEF Phase
    <2>16. net' = T /\ env' = env /\ ms' = ms /\ net.lc[l].conn = NoConn
      BY <1>1, <2>3
    <2> QED  BY <1>9, <2>4, <2>7, <2>9, <2>11, <2>12, <2>13, <2>14, <2>15, <2>16, GainStep
  <1>12. CASE net' = Release(S, l, FALSE, "NORMAL")
    <2>1. PICK d : d = lchan_release(e, FALSE, "NORMAL")  OBVIOUS
    <2>2. net' = WithLc(net, l, d)
      <3>1. net' = WithLc(S, l, lchan_release(S.lc[l], FALSE, "NORMAL"))
        BY <1>12 DEF Release, WithLc
      <3>2. S.lc[l] = e
        BY <1>3, <1>5, LcTwice
      <3>3. net' = WithLc(WithLc(net, l, e), l, d)
        BY <1>5, <2>1, <3>1, <3>2
      <3> QED  BY <1>3, <3>3, LcTwice
    <2>3. PICK sd \in BOOLEAN : d = lchan_release(e, sd, "NORMAL")
      BY <2>1
    <2>4. PICK r \in ReleaseModes : d = lchan_release(e, sd, r)
      BY <2>3 DEF ReleaseModes
    <2> HIDE <2>1, <2>3
    <2>5. ChanFine(d) /\ d.conn = NoConn /\ d.state = "REL_REQ"
      BY <1>7, <2>4, ReleaseFine
    <2>6. Phase(d, bts'[l])
      BY <1>7, <1>8, <1>10, <2>4, ReleasePhase
    <2>7. d.conn = net.lc[l].conn /\ ms' = ms /\ env' = env
      BY <1>1, <2>5
    <2> QED  BY <1>9, <2>2, <2>5, <2>6, <2>7, ChanStep
  <1> QED  BY <1>6, <1>11, <1>12 DEF MsAccess, Becomes

-----------------------------------------------------------------------------
(* The invariant holds *)

LEMMA InitLchan == ChanFine(LchanInit) /\ LchanInit.conn = NoConn /\ \A b : ~b.active => Phase(LchanInit, b)
  <1>1. LchanInit \in Lchan
    BY DEF LchanInit, Lchan, ReleaseModes, LchanTypes, LchanStates, SapiStates
  <1>2. /\ LchanInit.type = "NONE" /\ LchanInit.state = "NONE" /\ LchanInit.conn = NoConn /\ ~LchanInit.T3101 /\ ~LchanInit.T3111
        /\ ~LchanInit.rqd_ref /\ LchanInit.out = <<>> /\ LchanInit.sapis = [s \in Sapis |-> "UNUSED"]
    BY DEF LchanInit
  <1>3. ChanFine(LchanInit)
    BY <1>1, <1>2 DEF ChanFine
  <1>4. AllStale(LchanInit.out)
    BY <1>2 DEF AllStale
  <1> QED  BY <1>2, <1>3, <1>4 DEF Phase, Idle

LEMMA InitApi == ASSUME Init, OneAtATime PROVE ApiInv
  <1>1. env \in Envs /\ OneAtATime
    BY DEF Init
  <1>2. net.lc = [l \in Lchans |-> LchanInit] /\ net.conn = [k \in Conns |-> NoConnection] /\ net.ho = {} /\ net.bad = {}
    BY DEF Init
  <1>3. bts = [l \in Lchans |-> [active |-> FALSE, main |-> FALSE]] /\ ms = [k \in Conns |-> {}]
    BY DEF Init
  <1>4. BtsFine(bts) /\ \A l \in Lchans : ~bts[l].active
    BY <1>3 DEF BtsFine
  <1>5. ms \in [Conns -> SUBSET Order] /\ \A k \in Conns : ms[k] = {}
    BY <1>3
  <1>6. LchanInit \in Lchan /\ NoConnection \in Conn
    BY InitLchan, NoConnectionTyped DEF ChanFine
  <1>7. net \in Net
    <2>1. net = [lc |-> [l \in Lchans |-> LchanInit], conn |-> [k \in Conns |-> NoConnection], ho |-> {}, bad |-> {}]
      BY DEF Init
    <2> QED  BY <1>6, <2>1 DEF Net
  <1>8. ChansFine(net)
    BY <1>2, InitLchan DEF ChansFine
  <1>9. ConnsFine(net)
    BY <1>2, NoConnectionTyped DEF ConnsFine
  <1>10. Mutual(net)
    BY <1>2, InitLchan, NoConnectionTyped, ConnAssumption DEF Mutual
  <1>11. NoConnection.lchan = NoLchan /\ NoConnection.ho_lchan = NoLchan
    BY DEF NoConnection
  <1>12. HosFine(net)
    BY <1>2, <1>11 DEF HosFine
  <1>13. \A k \in Conns : MainUp(net, net.conn[k])
    BY <1>2, <1>11 DEF MainUp
  <1>14. Core(net)
    BY <1>2, <1>7, <1>8, <1>9, <1>10, <1>12, <1>13 DEF Core
  <1>15. Phases(net, bts)
    BY <1>2, <1>4, InitLchan DEF Phases
  <1>16. \A k \in Conns : OrdFine(net, k, ms[k])
    BY <1>5 DEF OrdFine
  <1> QED  BY <1>1, <1>4, <1>5, <1>14, <1>15, <1>16 DEF ApiInv

LEMMA NextApi == ASSUME ApiInv, [Next]_vars PROVE ApiInv' \/ Stopped'
  <1>1. CASE UNCHANGED vars
    BY <1>1, Stutters DEF vars
  <1>2. ASSUME NEW type \in {"SDCCH", "TCH_F"}, rsl_rx_chan_rqd(type) PROVE ApiInv' \/ Stopped'
    BY <1>2, RqdInv
  <1>3. ASSUME NEW l \in Lchans, BtsAnswers(l) PROVE ApiInv' \/ Stopped'
    BY <1>3, ChanActivAckInv, ChanActivNackInv, RfChanRelAckInv, RelConfInv, RrChanRelInv DEF BtsAnswers
  <1>4. ASSUME NEW l \in Lchans, ConnFail(l) \/ ChannelTimer(l) \/ StartHandover(l) PROVE ApiInv' \/ Stopped'
    BY <1>4, ConnFailInv, ChannelTimerInv, StartHandoverInv
  <1>5. ASSUME NEW l \in Lchans, NEW k \in Conns, MsAccess(l, k) PROVE ApiInv' \/ Stopped'
    BY <1>5, MsAccessInv
  <1>6. ASSUME NEW k \in Conns, gsm0808_assign_req(k) \/ MscClears(k) \/ T10Expires(k) PROVE ApiInv' \/ Stopped'
    BY <1>6, AssignReqInv, MscClearsInv, T10Inv
  <1>7. ASSUME NEW k \in Conns, NEW o \in ms[k],
               MsMoves(k, o) \/ MsCompletes(k, o) \/ MsFails(k, o) \/ MsModifies(k, o) \/ MsIgnores(k, o)
        PROVE  ApiInv' \/ Stopped'
    BY <1>7, MsMovesInv, MsCompletesInv, MsFailsInv, MsModifiesInv, MsIgnoresInv
  <1>8. ASSUME NEW h \in net.ho, T3103Expires(h) PROVE ApiInv' \/ Stopped'
    BY <1>8, T3103Inv
  <1>9. CASE Crashed
    BY <1>9, Stutters DEF Crashed, vars
  <1> QED  BY <1>1, <1>2, <1>3, <1>4, <1>5, <1>6, <1>7, <1>8, <1>9 DEF Next

\* Nothing happens any more.
LEMMA StoppedStays == ASSUME Stopped, [Next]_vars PROVE Stopped'
  <1>1. UNCHANGED vars
    <2>1. ~Running
      BY DEF Stopped
    <2>2. CASE Crashed
      BY <2>2 DEF Crashed
    <2>3. ASSUME NEW type \in {"SDCCH", "TCH_F"}, rsl_rx_chan_rqd(type) PROVE FALSE
      BY <2>1, <2>3, Zenon DEF rsl_rx_chan_rqd
    <2>4. \A l \in Lchans : ~BtsAnswers(l)
      BY <2>1 DEF BtsAnswers, ChanActivAck, ChanActivNack, RfChanRelAck, RelConf, RrChanRel, Cmd
    <2>5. \A l \in Lchans : ~ConnFail(l) /\ ~ChannelTimer(l) /\ ~StartHandover(l) /\ \A k \in Conns : ~MsAccess(l, k)
      BY <2>1 DEF ConnFail, ChannelTimer, StartHandover, MsAccess
    <2>6. \A k \in Conns : ~gsm0808_assign_req(k) /\ ~MscClears(k) /\ ~T10Expires(k)
      BY <2>1 DEF gsm0808_assign_req, MscClears, T10Expires
    <2>7. \A k \in Conns : \A o \in ms[k] : ~MsMoves(k, o) /\ ~MsCompletes(k, o) /\ ~MsFails(k, o) /\ ~MsModifies(k, o) /\ ~MsIgnores(k, o)
      BY <2>1 DEF MsMoves, MsCompletes, MsFails, MsModifies, MsIgnores, Delivered
    <2>8. \A h \in net.ho : ~T3103Expires(h)
      BY <2>1 DEF T3103Expires
    <2> QED  BY <2>2, <2>3, <2>4, <2>5, <2>6, <2>7, <2>8 DEF Next
  <1> QED  BY <1>1 DEF vars, Stopped, Running, OneAtATime, Faults, TypeOK, OnlyKnownCrashes, Nitb, Assignments

LEMMA OtherwiseStays == ASSUME ~OneAtATime, [Next]_vars PROVE ~OneAtATime'
  <1>1. env' = env
    <2>1. CASE UNCHANGED vars \/ Crashed
      BY <2>1 DEF Crashed, vars
    <2>2. ASSUME NEW type \in {"SDCCH", "TCH_F"}, rsl_rx_chan_rqd(type) PROVE env' = env
      BY <2>2, Zenon DEF rsl_rx_chan_rqd
    <2>3. ASSUME NEW l \in Lchans, BtsAnswers(l) PROVE env' = env
      BY <2>3, Zenon DEF BtsAnswers, ChanActivAck, ChanActivNack, RfChanRelAck, RelConf, RrChanRel
    <2>4. ASSUME NEW l \in Lchans, ConnFail(l) \/ ChannelTimer(l) \/ StartHandover(l) PROVE env' = env
      BY <2>4, Zenon DEF ConnFail, ChannelTimer, StartHandover
    <2>5. ASSUME NEW l \in Lchans, NEW k \in Conns, MsAccess(l, k) PROVE env' = env
      BY <2>5, Zenon DEF MsAccess
    <2>6. ASSUME NEW k \in Conns, gsm0808_assign_req(k) \/ MscClears(k) \/ T10Expires(k) PROVE env' = env
      BY <2>6, Zenon DEF gsm0808_assign_req, MscClears, T10Expires
    <2>7. ASSUME NEW k \in Conns, NEW o \in ms[k],
                 MsMoves(k, o) \/ MsCompletes(k, o) \/ MsFails(k, o) \/ MsModifies(k, o) \/ MsIgnores(k, o)
          PROVE  env' = env
      BY <2>7, Zenon DEF MsMoves, MsCompletes, MsFails, MsModifies, MsIgnores
    <2>8. ASSUME NEW h \in net.ho, T3103Expires(h) PROVE env' = env
      BY <2>8, Zenon DEF T3103Expires
    <2> QED  BY <2>1, <2>2, <2>3, <2>4, <2>5, <2>6, <2>7, <2>8 DEF Next
  <1> QED  BY <1>1 DEF OneAtATime, Faults


LEMMA ApiSound == ASSUME ApiInv PROVE PointersSound
  <1>1. Core(net) /\ net \in Net
    BY DEF ApiInv, Core
  <1>2. /\ net.lc \in [Lchans -> Lchan] /\ net.conn \in [Conns -> Conn] /\ net.ho \in SUBSET Handover /\ net.bad \in SUBSET Bad
    BY <1>1, NetFields
  <1>3. TypeOK
    BY <1>2 DEF TypeOK, ApiInv, BtsFine
  <1>4. PointersMutual
    <2>1. SUFFICES ASSUME NEW l \in Lchans, NEW k \in Conns
                   PROVE  net.lc[l].conn = k <=> net.conn[k].alive /\ l \in Held(net, k)
      BY DEF PointersMutual
    <2>2. Held(net, k) = HeldBy(net.conn[k]) /\ (net.lc[l].conn = k <=> l \in HeldBy(net.conn[k]))
      BY <1>1 DEF Held, HeldBy, Core, Mutual
    <2>3. l \in HeldBy(net.conn[k]) => net.conn[k].alive
      BY <1>1, NoConnectionTyped DEF Core, ConnsFine, ConnFine
    <2> QED  BY <2>2, <2>3
  <1>5. HandoverAnchored
    BY HoFacts DEF HandoverAnchored
  <1>6. OnlyKnownCrashes
    BY <1>1 DEF Core, OnlyKnownCrashes
  <1>7. AssignmentTimed
    BY <1>1 DEF Core, ConnsFine, ConnFine, AssignmentTimed
  <1> QED  BY <1>3, <1>4, <1>5, <1>6, <1>7 DEF PointersSound

\* bsc_api.c and handover_logic.c, with osmo-nitb's MSC side as well as with osmo-bsc's:
\* whatever the BTS, the MS and the timers do, late answers included, and as long as the
\* MSC side asks for one assignment at a time and handovers start from the main channel:
\* channels and connections point at each other, a handover record leads from the main
\* to the handover channel of a living connection, an assignment is under T10, and the
\* only null pointers followed are assign_fail() of osmo-nitb and the secondary channel
\* of an assignment whose failure the MS reports after T10.
THEOREM PointersSoundHolds == Spec => []PointersSound
  <1> DEFINE Good == ApiInv \/ Stopped \/ ~OneAtATime
  <1>1. Init => Good
    BY InitApi
  <1>2. Good /\ [Next]_vars => Good'
    BY NextApi, StoppedStays, OtherwiseStays
  <1>3. Good => PointersSound
    BY ApiSound DEF Stopped, PointersSound
  <1> HIDE DEF Good
  <1> QED  BY <1>1, <1>2, <1>3, PTL DEF Spec
=============================================================================
