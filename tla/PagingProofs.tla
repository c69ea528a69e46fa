------------------------------ MODULE PagingProofs ------------------------------
(***************************************************************************)
(* Paging for any set of subscribers, base stations and surroundings: a    *)
(* subscriber whose request is marked as paged is paged for it, in its     *)
(* area and for nothing else, or its channel is being secured for it.      *)
(*                                                                         *)
(* PagingSound is not inductive: what stops a paging looks only into the   *)
(* subscriber's present area, what starts one does not look whether one is *)
(* running.  PgInv adds that every paging is for the subscriber's queue    *)
(* and in its area, that only the head of a queue is paged for, and what   *)
(* a connection has pending while it is being secured.                     *)
(***************************************************************************)
EXTENDS Paging, SequenceTheorems, TLAPS

\* What a subscriber is paged for on a base station: the callbacks of its requests.
Cb(p, s) == {p.reqs[i].cb : i \in {j \in DOMAIN p.reqs : p.reqs[j].sub = s}}

\* A subscriber has at most one request on a base station, and one with requests is awake.
Single(p) == \A i, j \in DOMAIN p.reqs : p.reqs[i].sub = p.reqs[j].sub => i = j
Awake(p) == p.reqs # <<>> => p.work \/ p.credit
BtsGood(p) == p \in PagingState /\ Single(p) /\ Awake(p)

\* p has for every subscriber but s what o has.
SameBut(o, p, s) == \A t \in Subs \ {s} : Cb(p, t) = Cb(o, t)
Same(o, p) == \A t \in Subs : Cb(p, t) = Cb(o, t)

-----------------------------------------------------------------------------
(* One base station *)

\* A sequence without its i-th element.
LEMMA RemoveAtElements ==
    ASSUME NEW T, NEW q \in Seq(T), NEW i \in DOMAIN q, NEW r, r = RemoveAt(q, i)
    PROVE  /\ r \in Seq(T) /\ Len(r) = Len(q) - 1
           /\ \A j \in DOMAIN r : r[j] = q[IF j < i THEN j ELSE j + 1]
  <1>1. Len(q) \in Nat /\ i \in 1..Len(q)
    OBVIOUS
  <1>2. PICK a, b : a = SubSeq(q, 1, i - 1) /\ b = SubSeq(q, i + 1, Len(q))
    OBVIOUS
  <1>3. a \in Seq(T) /\ Len(a) = i - 1 /\ \A j \in 1..(i - 1) : a[j] = q[j]
    BY <1>1, <1>2
  <1>4. b \in Seq(T) /\ Len(b) = Len(q) - i /\ \A j \in 1..(Len(q) - i) : b[j] = q[i + j]
    BY <1>1, <1>2
  <1>5. r = a \o b
    BY <1>2 DEF RemoveAt
  <1>6. r \in Seq(T) /\ Len(r) = Len(q) - 1
    BY <1>1, <1>3, <1>4, <1>5
  <1>7. ASSUME NEW j \in 1..(Len(q) - 1)
        PROVE  r[j] = q[IF j < i THEN j ELSE j + 1]
    <2>1. CASE j < i
      BY <1>1, <1>3, <1>4, <1>5, <2>1
    <2>2. CASE ~(j < i)
      <3>1. PICK k \in 1..(Len(q) - i) : k = j - (i - 1)
        BY <1>1, <1>7, <2>2
      <3>2. r[j] = b[k]
        <4>1. (a \o b)[j] = b[j - Len(a)]
          <5>1. a \in Seq(T) /\ b \in Seq(T)
            BY <1>3, <1>4
          <5>2. \A x \in 1..(Len(a) + Len(b)) : (a \o b)[x] = IF x <= Len(a) THEN a[x] ELSE b[x - Len(a)]
            BY <5>1, ConcatProperties
          <5>3. j \in 1..(Len(a) + Len(b)) /\ ~(j <= Len(a))
            BY <1>1, <1>3, <1>4, <2>2
          <5> QED BY <5>2, <5>3
        <4> QED BY <1>3, <1>5, <3>1, <4>1
      <3> QED BY <1>1, <1>4, <2>2, <3>1, <3>2, SMTT(60)
    <2> QED BY <2>1, <2>2
  <1> QED BY <1>6, <1>7

\* The requests of a base station replaced: the rest stays.
PutReqs(p, q) == [p EXCEPT !.reqs = q]

\* Such a replacement changes the requests and nothing else of the base station.
LEMMA SetReqs ==
    ASSUME NEW p \in PagingState, NEW q \in Seq(PagingRequest), NEW d, d = PutReqs(p, q)
    PROVE  /\ d \in PagingState
           /\ d.reqs = q /\ d.work = p.work /\ d.credit = p.credit /\ d.usable = p.usable /\ d.slots = p.slots
  <1>1. d \in PagingState
    BY DEF PagingState, PutReqs
  <1> QED BY <1>1 DEF PagingState, PutReqs

\* paging_remove_request(): the subscriber is paged no more, the others are as before.
LEMMA RemovedGood ==
    ASSUME NEW p, BtsGood(p), NEW s \in Subs, NEW d, d = Removed(p, s)
    PROVE  BtsGood(d) /\ Cb(d, s) = {} /\ SameBut(p, d, s) /\ d.usable = p.usable
  <1> DEFINE mine == {i \in DOMAIN p.reqs : p.reqs[i].sub = s}
  <1>0. p \in PagingState /\ Single(p) /\ Awake(p)
    BY DEF BtsGood
  <1>1. CASE mine = {}
    <2>1. d = p
      BY <1>1 DEF Removed
    <2> QED BY <1>1, <2>1 DEF Cb, SameBut
  <1>2. CASE mine # {}
    <2>1. PICK i \in DOMAIN p.reqs : p.reqs[i].sub = s
      BY <1>2
    <2>2. mine = {i}
      BY <2>1, <1>0 DEF Single
    <2>3. (CHOOSE k \in mine : \A j \in mine : k <= j) = i
      <3>1. p.reqs \in Seq(PagingRequest)
        BY <1>0 DEF PagingState
      <3>2. i \in Nat
        BY <2>1, <3>1
      <3>3. i \in mine /\ \A j \in mine : i <= j
        BY <2>2, <3>2
      <3> HIDE DEF mine
      <3> QED BY <2>2, <3>3
    <2>4. PICK q, r : q = p.reqs /\ r = RemoveAt(q, i)
      OBVIOUS
    <2>5. d = PutReqs(p, r)
      BY <1>2, <2>3, <2>4 DEF Removed, PutReqs
    <2>6. q \in Seq(PagingRequest) /\ i \in DOMAIN q
      BY <1>0, <2>1, <2>4 DEF PagingState
    <2>7. /\ r \in Seq(PagingRequest) /\ Len(r) = Len(q) - 1
          /\ \A j \in DOMAIN r : r[j] = q[IF j < i THEN j ELSE j + 1]
      BY <2>4, <2>6, RemoveAtElements
    <2>8. /\ d \in PagingState /\ d.reqs = r
          /\ d.work = p.work /\ d.credit = p.credit /\ d.usable = p.usable
      BY <1>0, <2>5, <2>7, SetReqs
    <2>9. Len(q) \in Nat /\ DOMAIN q = 1..Len(q) /\ i \in 1..Len(q) /\ DOMAIN r = 1..(Len(q) - 1)
      BY <2>6, <2>7
    <2> HIDE DEF mine
    <2>10. Single(d)
      <3> SUFFICES ASSUME NEW j \in DOMAIN r, NEW k \in DOMAIN r, r[j].sub = r[k].sub
                   PROVE  j = k
        BY <2>8 DEF Single
      <3>1. PICK a, b : a = (IF j < i THEN j ELSE j + 1) /\ b = (IF k < i THEN k ELSE k + 1)
        OBVIOUS
      <3>2. a \in DOMAIN q /\ b \in DOMAIN q
        BY <2>9, <3>1
      <3>3. r[j] = q[a] /\ r[k] = q[b]
        BY <2>7, <3>1
      <3>4. a = b
        BY <1>0, <2>4, <3>2, <3>3 DEF Single
      <3> QED BY <2>9, <3>1, <3>4
    <2>11. Awake(d)
      <3>1. q # <<>>
        BY <2>9, <2>6
      <3> QED BY <1>0, <2>4, <2>8, <3>1 DEF Awake
    <2>12. Cb(d, s) = {}
      <3> SUFFICES ASSUME NEW j \in DOMAIN r, r[j].sub = s
                   PROVE  FALSE
        BY <2>8 DEF Cb
      <3>1. PICK a : a = (IF j < i THEN j ELSE j + 1)
        OBVIOUS
      <3>2. a \in DOMAIN q /\ a # i
        BY <2>9, <3>1
      <3>3. q[a].sub = s
        BY <2>7, <3>1
      <3> QED BY <1>0, <2>1, <2>4, <3>2, <3>3 DEF Single
    <2>13. SameBut(p, d, s)
      <3> SUFFICES ASSUME NEW t \in Subs, t # s
                   PROVE  Cb(d, t) = Cb(p, t)
        BY DEF SameBut
      <3>1. ASSUME NEW j \in DOMAIN r, r[j].sub = t
            PROVE  \E k \in DOMAIN q : q[k].sub = t /\ q[k].cb = r[j].cb
        <4>1. PICK a : a = (IF j < i THEN j ELSE j + 1)
          OBVIOUS
        <4>2. a \in DOMAIN q /\ r[j] = q[a]
          BY <2>7, <2>9, <4>1
        <4> QED BY <3>1, <4>2
      <3>2. ASSUME NEW k \in DOMAIN q, q[k].sub = t
            PROVE  \E j \in DOMAIN r : r[j].sub = t /\ r[j].cb = q[k].cb
        <4>1. k # i
          BY <3>2, <2>1, <2>4
        <4>2. PICK j : j = (IF k < i THEN k ELSE k - 1)
          OBVIOUS
        <4>3. j \in DOMAIN r /\ (IF j < i THEN j ELSE j + 1) = k
          BY <2>9, <4>1, <4>2
        <4>4. r[j] = q[k]
          BY <2>7, <4>3
        <4> QED BY <3>2, <4>3, <4>4
      <3>3. Cb(d, t) = {r[j].cb : j \in {x \in DOMAIN r : r[x].sub = t}}
        BY <2>8 DEF Cb
      <3>4. Cb(p, t) = {q[j].cb : j \in {x \in DOMAIN q : q[x].sub = t}}
        BY <2>4 DEF Cb
      <3> QED BY <3>1, <3>2, <3>3, <3>4
    <2> QED BY <2>8, <2>10, <2>11, <2>12, <2>13 DEF BtsGood
  <1> QED BY <1>1, <1>2

\* Timers and counters changed, and requests as they were.
LEMMA ReqsAlike ==
    ASSUME NEW p, BtsGood(p), NEW d \in PagingState, d.reqs = p.reqs, Awake(d)
    PROVE  BtsGood(d) /\ Same(p, d)
  <1>1. Single(d)
    BY DEF BtsGood, Single
  <1>2. Same(p, d)
    BY DEF Same, Cb
  <1> QED BY <1>1, <1>2 DEF BtsGood

\* _paging_request(): the subscriber, who had no request there, has one.
LEMMA AddedGood ==
    ASSUME NEW p, BtsGood(p), NEW s \in Subs, Cb(p, s) = {}, NEW cb \in {"subscr", "silent"},
           NEW d, d = Added(p, s, cb)
    PROVE  BtsGood(d) /\ Cb(d, s) = {cb} /\ SameBut(p, d, s) /\ d.usable = p.usable
  <1>0. p \in PagingState /\ Single(p)
    BY DEF BtsGood
  <1>1. PICK q, m : q = p.reqs /\ m = [sub |-> s, cb |-> cb, paged |-> FALSE, fresh |-> TRUE]
    OBVIOUS
  <1>2. q \in Seq(PagingRequest) /\ m \in PagingRequest /\ m.sub = s /\ m.cb = cb
    BY <1>0, <1>1 DEF PagingState, PagingRequest
  <1>3. PICK r : r = Append(q, m)
    OBVIOUS
  <1>4. /\ r \in Seq(PagingRequest) /\ Len(r) = Len(q) + 1 /\ r # <<>> /\ r[Len(q) + 1] = m
        /\ DOMAIN q = 1..Len(q) /\ Len(q) \in Nat /\ DOMAIN r = 1..(Len(q) + 1)
        /\ \A j \in DOMAIN q : r[j] = q[j]
    BY <1>2, <1>3
  <1>5. PICK e : e = PutReqs(p, r)
    OBVIOUS
  <1>6. e \in PagingState /\ e.reqs = r /\ e.usable = p.usable
    BY <1>0, <1>4, <1>5, SetReqs
  <1>7. d = [e EXCEPT !.work = TRUE]
    <2>1. d = paging_schedule_if_needed(e)
      BY <1>1, <1>3, <1>5 DEF Added, PutReqs
    <2> QED BY <2>1, <1>4, <1>6 DEF paging_schedule_if_needed
  <1>8. d \in PagingState
    BY <1>6, <1>7 DEF PagingState
  <1>9. d.reqs = r /\ d.work /\ d.usable = p.usable
    BY <1>6, <1>7 DEF PagingState
  <1>10. \A j \in DOMAIN q : q[j].sub # s
    BY <1>1 DEF Cb
  <1>11. Single(d)
    <2> SUFFICES ASSUME NEW j \in DOMAIN r, NEW k \in DOMAIN r, r[j].sub = r[k].sub
                 PROVE  j = k
      BY <1>9 DEF Single
    <2>1. CASE j \in DOMAIN q /\ k \in DOMAIN q
      BY <1>0, <1>1, <1>4, <2>1 DEF Single
    <2>2. CASE j \notin DOMAIN q /\ k \notin DOMAIN q
      BY <1>4, <2>2
    <2>3. CASE j \in DOMAIN q /\ k \notin DOMAIN q
      BY <1>2, <1>4, <1>10, <2>3
    <2>4. CASE j \notin DOMAIN q /\ k \in DOMAIN q
      BY <1>2, <1>4, <1>10, <2>4
    <2> QED BY <2>1, <2>2, <2>3, <2>4
  <1>12. Cb(d, s) = {cb}
    <2>1. \A j \in DOMAIN r : r[j].sub = s <=> j = Len(q) + 1
      BY <1>2, <1>4, <1>10
    <2>2. Cb(d, s) = {r[j].cb : j \in {x \in DOMAIN r : r[x].sub = s}}
      BY <1>9 DEF Cb
    <2>3. {x \in DOMAIN r : r[x].sub = s} = {Len(q) + 1}
      BY <1>4, <2>1
    <2> QED BY <1>2, <1>4, <2>2, <2>3
  <1>13. SameBut(p, d, s)
    <2> SUFFICES ASSUME NEW t \in Subs, t # s
                 PROVE  Cb(d, t) = Cb(p, t)
      BY DEF SameBut
    <2>1. {x \in DOMAIN r : r[x].sub = t} = {x \in DOMAIN q : q[x].sub = t}
      BY <1>2, <1>4
    <2>2. Cb(d, t) = {r[j].cb : j \in {x \in DOMAIN r : r[x].sub = t}}
      BY <1>9 DEF Cb
    <2>3. Cb(p, t) = {q[j].cb : j \in {x \in DOMAIN q : q[x].sub = t}}
      BY <1>1 DEF Cb
    <2> QED BY <1>4, <2>1, <2>2, <2>3
  <1> QED BY <1>8, <1>9, <1>11, <1>12, <1>13 DEF BtsGood, Awake

\* paging_handle_pending_requests(): a command is sent, or it is tried again later.
LEMMA HandleGood ==
    ASSUME NEW p \in PagingState, Single(p), NEW skip \in BOOLEAN,
           NEW d, d = paging_handle_pending_requests(p, skip)
    PROVE  BtsGood(d) /\ Same(p, d) /\ d.usable = p.usable
  <1>0. p.reqs \in Seq(PagingRequest) /\ p.slots \in 0..Slots /\ Slots \in Nat
    BY PagingBoundsAssumption DEF PagingState
  <1>1. CASE p.reqs = <<>>
    <2>1. d = p
      BY <1>1 DEF paging_handle_pending_requests
    <2> QED BY <1>1, <2>1 DEF BtsGood, Awake, Same
  <1>2. CASE p.reqs # <<>> /\ p.slots = 0
    <2>1. d = [p EXCEPT !.credit = TRUE]
      BY <1>2 DEF paging_handle_pending_requests
    <2>2. d \in PagingState
      BY <2>1 DEF PagingState
    <2>3. d.reqs = p.reqs /\ d.credit /\ d.usable = p.usable
      BY <2>1, <2>2 DEF PagingState
    <2> QED BY <2>2, <2>3 DEF BtsGood, Awake, Single, Same, Cb
  <1>3. CASE p.reqs # <<>> /\ p.slots > 0 /\ skip
    <2>1. d = [p EXCEPT !.work = TRUE]
      BY <1>0, <1>3 DEF paging_handle_pending_requests
    <2>2. d \in PagingState
      BY <2>1 DEF PagingState
    <2>3. d.reqs = p.reqs /\ d.work /\ d.usable = p.usable
      BY <2>1, <2>2 DEF PagingState
    <2> QED BY <2>2, <2>3 DEF BtsGood, Awake, Single, Same, Cb
  <1>4. CASE p.reqs # <<>> /\ p.slots > 0 /\ ~skip
    <2>1. PICK q, h, m, r : q = p.reqs /\ h = Head(q) /\ m = [h EXCEPT !.paged = TRUE] /\ r = Append(Tail(q), m)
      OBVIOUS
    <2>2. q \in Seq(PagingRequest) /\ q # <<>> /\ h \in PagingRequest /\ h = q[1]
      BY <1>0, <1>4, <2>1
    <2>3. m \in PagingRequest
      BY <2>1, <2>2 DEF PagingRequest
    <2>4. m.sub = h.sub /\ m.cb = h.cb
      BY <2>1, <2>2, <2>3 DEF PagingRequest
    <2>5. PICK n, t : n = Len(q) /\ t = Tail(q)
      OBVIOUS
    <2>6. t \in Seq(PagingRequest) /\ Len(t) = n - 1 /\ n \in Nat /\ n >= 1 /\ \A i \in 1..(n - 1) : t[i] = q[i + 1]
      BY <2>2, <2>5
    <2>7. r \in Seq(PagingRequest) /\ Len(r) = n /\ r[n] = m /\ \A i \in 1..(n - 1) : r[i] = q[i + 1]
      BY <2>1, <2>3, <2>5, <2>6
    <2>8. d = [p EXCEPT !.slots = p.slots - 1, !.work = TRUE, !.reqs = r]
      BY <1>0, <1>4, <2>1 DEF paging_handle_pending_requests
    <2>9. d \in PagingState
      <3>1. p.slots - 1 \in 0..Slots
        BY <1>0, <1>4
      <3> QED BY <2>7, <2>8, <3>1 DEF PagingState
    <2>10. d.reqs = r /\ d.work /\ d.usable = p.usable
      BY <2>8, <2>9 DEF PagingState
    <2>11. DOMAIN q = 1..n /\ DOMAIN r = 1..n
      BY <2>2, <2>5, <2>7
    <2>12. ASSUME NEW i \in DOMAIN r
           PROVE  \E k \in DOMAIN q : k = (IF i = n THEN 1 ELSE i + 1) /\ r[i].sub = q[k].sub /\ r[i].cb = q[k].cb
      <3>1. CASE i = n
        BY <2>2, <2>4, <2>6, <2>7, <2>11, <3>1
      <3>2. CASE i # n
        <4>1. i \in 1..(n - 1) /\ i + 1 \in DOMAIN q
          BY <2>6, <2>11, <3>2
        <4> QED BY <2>7, <3>2, <4>1
      <3> QED BY <3>1, <3>2
    <2>13. Single(d)
      <3> SUFFICES ASSUME NEW j \in DOMAIN r, NEW k \in DOMAIN r, r[j].sub = r[k].sub
                   PROVE  j = k
        BY <2>10 DEF Single
      <3>1. PICK a \in DOMAIN q : a = (IF j = n THEN 1 ELSE j + 1) /\ r[j].sub = q[a].sub
        BY <2>12
      <3>2. PICK b \in DOMAIN q : b = (IF k = n THEN 1 ELSE k + 1) /\ r[k].sub = q[b].sub
        BY <2>12
      <3>3. a = b
        BY <2>1, <3>1, <3>2 DEF Single
      <3> QED BY <2>6, <2>11, <3>1, <3>2, <3>3
    <2>14. Same(p, d)
      <3> SUFFICES ASSUME NEW s \in Subs
                   PROVE  Cb(d, s) = Cb(p, s)
        BY DEF Same
      <3>1. \A j \in DOMAIN r : \E k \in DOMAIN q : r[j].sub = q[k].sub /\ r[j].cb = q[k].cb
        BY <2>12
      <3>2. ASSUME NEW k \in DOMAIN q
            PROVE  \E j \in DOMAIN r : r[j].sub = q[k].sub /\ r[j].cb = q[k].cb
        <4>1. PICK j : j = (IF k = 1 THEN n ELSE k - 1)
          OBVIOUS
        <4>2. j \in DOMAIN r /\ (IF j = n THEN 1 ELSE j + 1) = k
          BY <2>6, <2>11, <4>1
        <4> QED BY <2>12, <4>2
      <3>3. Cb(d, s) = {r[j].cb : j \in {x \in DOMAIN r : r[x].sub = s}}
        BY <2>10 DEF Cb
      <3>4. Cb(p, s) = {q[j].cb : j \in {x \in DOMAIN q : q[x].sub = s}}
        BY <2>1 DEF Cb
      <3> QED BY <3>1, <3>2, <3>3, <3>4
    <2> QED BY <2>9, <2>10, <2>13, <2>14 DEF BtsGood, Awake
  <1> QED BY <1>0, <1>1, <1>2, <1>3, <1>4

\* paging_worker(), paging_give_credit() and paging_update_buffer_space(): nobody is forgotten.
LEMMA WorkerGood ==
    ASSUME NEW p, BtsGood(p), NEW skip \in BOOLEAN, NEW d, d = paging_worker(p, skip)
    PROVE  BtsGood(d) /\ Same(p, d)
  <1>1. PICK e : e = [p EXCEPT !.work = FALSE]
    OBVIOUS
  <1>2. e \in PagingState
    BY <1>1 DEF BtsGood, PagingState
  <1>3. e.reqs = p.reqs
    BY <1>1, <1>2 DEF BtsGood, PagingState
  <1>4. Single(e)
    BY <1>3 DEF BtsGood, Single
  <1>5. d = paging_handle_pending_requests(e, skip)
    BY <1>1 DEF paging_worker
  <1>6. BtsGood(d) /\ Same(e, d)
    BY <1>2, <1>4, <1>5, HandleGood
  <1>7. \A t \in Subs : Cb(e, t) = Cb(p, t)
    BY <1>3 DEF Cb
  <1> QED BY <1>6, <1>7 DEF Same

\* The same with the counter of free slots set to its maximum.
LEMMA CreditGood ==
    ASSUME NEW p, BtsGood(p), NEW skip \in BOOLEAN, NEW d, d = paging_give_credit(p, skip)
    PROVE  BtsGood(d) /\ Same(p, d)
  <1>1. PICK e : e = [p EXCEPT !.credit = FALSE, !.slots = Slots]
    OBVIOUS
  <1>2. e \in PagingState
    <2>1. Slots \in 0..Slots
      BY PagingBoundsAssumption
    <2> QED BY <1>1, <2>1 DEF BtsGood, PagingState
  <1>3. e.reqs = p.reqs
    BY <1>1, <1>2 DEF BtsGood, PagingState
  <1>4. Single(e)
    BY <1>3 DEF BtsGood, Single
  <1>5. d = paging_handle_pending_requests(e, skip)
    BY <1>1 DEF paging_give_credit
  <1>6. BtsGood(d) /\ Same(e, d)
    BY <1>2, <1>4, <1>5, HandleGood
  <1>7. \A t \in Subs : Cb(e, t) = Cb(p, t)
    BY <1>3 DEF Cb
  <1> QED BY <1>6, <1>7 DEF Same

\* CCCH LOAD INDICATION stops the credit timer, but starts the work timer.
LEMMA BufferGood ==
    ASSUME NEW p, BtsGood(p), NEW n \in 0..Slots, NEW d, d = paging_update_buffer_space(p, n)
    PROVE  BtsGood(d) /\ Same(p, d)
  <1>1. PICK e : e = [p EXCEPT !.credit = FALSE, !.slots = n]
    OBVIOUS
  <1>2. e \in PagingState
    BY <1>1 DEF BtsGood, PagingState
  <1>3. e.reqs = p.reqs
    BY <1>1, <1>2 DEF BtsGood, PagingState
  <1>4. d = paging_schedule_if_needed(e)
    BY <1>1 DEF paging_update_buffer_space
  <1>5. CASE e.reqs = <<>>
    <2>1. d = e
      BY <1>4, <1>5 DEF paging_schedule_if_needed
    <2> QED BY <1>2, <1>3, <1>5, <2>1, ReqsAlike DEF Awake
  <1>6. CASE e.reqs # <<>>
    <2>1. d = [e EXCEPT !.work = TRUE]
      BY <1>4, <1>6 DEF paging_schedule_if_needed
    <2>2. d \in PagingState
      BY <1>2, <2>1 DEF PagingState
    <2>3. d.reqs = p.reqs /\ d.work
      BY <1>2, <1>3, <2>1 DEF PagingState
    <2> QED BY <2>2, <2>3, ReqsAlike DEF Awake
  <1> QED BY <1>5, <1>6

\* A base station comes or goes.
LEMMA UsableGood ==
    ASSUME NEW p, BtsGood(p), NEW d, d = [p EXCEPT !.usable = ~p.usable]
    PROVE  BtsGood(d) /\ Same(p, d)
  <1>1. d \in PagingState
    BY DEF BtsGood, PagingState
  <1>2. d.reqs = p.reqs /\ d.work = p.work /\ d.credit = p.credit
    BY <1>1 DEF BtsGood, PagingState
  <1> QED BY <1>1, <1>2, ReqsAlike DEF Awake, BtsGood

\* A location update marks the requests of the subscriber as old.
AgedReqs(q, s) == [i \in DOMAIN q |-> IF q[i].sub = s THEN [q[i] EXCEPT !.fresh = FALSE] ELSE q[i]]

\* Marking requests as old keeps the base station in order and every subscriber's callbacks.
LEMMA AgedGood ==
    ASSUME NEW p, BtsGood(p), NEW s \in Subs, NEW d, d = Aged(p, s)
    PROVE  BtsGood(d) /\ Same(p, d)
  <1> PICK q : q = AgedReqs(p.reqs, s)
    OBVIOUS
  <1>0. p \in PagingState /\ p.reqs \in Seq(PagingRequest)
    BY DEF BtsGood, PagingState
  <1>1. ASSUME NEW i \in DOMAIN p.reqs
        PROVE  q[i] \in PagingRequest /\ q[i].sub = p.reqs[i].sub /\ q[i].cb = p.reqs[i].cb
    <2>1. PICK m, n : m = p.reqs[i] /\ n = [m EXCEPT !.fresh = FALSE]
      OBVIOUS
    <2>2. m \in PagingRequest
      BY <1>0, <2>1
    <2>3. n \in PagingRequest
      BY <2>1, <2>2 DEF PagingRequest
    <2>4. n.sub = m.sub /\ n.cb = m.cb
      BY <2>1, <2>2 DEF PagingRequest
    <2>5. q[i] = IF m.sub = s THEN n ELSE m
      BY <2>1 DEF AgedReqs
    <2> QED BY <2>1, <2>2, <2>3, <2>4, <2>5
  <1>2. PICK k \in Nat : DOMAIN p.reqs = 1..k /\ (p.reqs = <<>> => k = 0)
    <2>1. DOMAIN p.reqs = 1..Len(p.reqs) /\ Len(p.reqs) \in Nat /\ (p.reqs = <<>> => Len(p.reqs) = 0)
      BY <1>0
    <2> QED BY <2>1
  <1>3. q \in [1..k -> PagingRequest]
    BY <1>1, <1>2 DEF AgedReqs
  <1>4. q \in Seq(PagingRequest) /\ DOMAIN q = DOMAIN p.reqs
    <2>1. q \in Seq(PagingRequest)
      BY <1>3, SeqDef
    <2> QED BY <1>2, <1>3, <2>1
  <1>5. /\ d \in PagingState /\ d.reqs = q
        /\ d.work = p.work /\ d.credit = p.credit
    <2>1. d = PutReqs(p, q)
      BY DEF Aged, AgedReqs, PutReqs
    <2> QED BY <1>0, <1>4, <2>1, SetReqs
  <1>6. Single(d)
    BY <1>1, <1>4, <1>5 DEF BtsGood, Single
  <1>7. q # <<>> => p.reqs # <<>>
    BY <1>2, <1>3
  <1>8. Same(p, d)
    <2> SUFFICES ASSUME NEW t \in Subs
                 PROVE  Cb(d, t) = Cb(p, t)
      BY DEF Same
    <2>1. {x \in DOMAIN q : q[x].sub = t} = {x \in DOMAIN p.reqs : p.reqs[x].sub = t}
      BY <1>1, <1>4
    <2>2. Cb(d, t) = {q[j].cb : j \in {x \in DOMAIN q : q[x].sub = t}}
      BY <1>5 DEF Cb
    <2>3. Cb(p, t) = {p.reqs[j].cb : j \in {x \in DOMAIN p.reqs : p.reqs[x].sub = t}}
      BY DEF Cb
    <2> QED BY <1>1, <2>1, <2>2, <2>3
  <1> QED BY <1>5, <1>6, <1>7, <1>8 DEF BtsGood, Awake

-----------------------------------------------------------------------------
(* The network: every function acts on one subscriber *)

NetState == [bts : [Bts -> PagingState], sub : [Subs -> Subscriber], conn : [Subs -> Connection]]
Fine(S) == S \in NetState /\ \A b \in Bts : BtsGood(S.bts[b])

\* Every other subscriber has the queue, the connection and the pagings it had.
Apart(S, T, s) ==
    \A t \in Subs \ {s} :
        /\ T.sub[t] = S.sub[t] /\ T.conn[t] = S.conn[t]
        /\ \A b \in Bts : Cb(T.bts[b], t) = Cb(S.bts[b], t)

Pending(S, s) == \E b \in Bts : Cb(S.bts[b], s) # {}

\* Pagings are for the queue and in the subscriber's area; only the head can have been paged for;
\* and the requests are of users there are.
QueueGood(S, s) ==
    /\ \A b \in Bts : Cb(S.bts[b], s) \subseteq {"subscr"}
    /\ \A b \in Bts : Cb(S.bts[b], s) # {} => env.lac[b] = S.sub[s].lac
    /\ \A i \in DOMAIN S.sub[s].requests : i # 1 => S.sub[s].requests[i].state = "QUEUED"
    /\ \A i \in DOMAIN S.sub[s].requests : S.sub[s].requests[i].user \in env.users
\* The subscriber is paged if and only if the head of the queue has been paged for.
Watched(S, s) == Pending(S, s) <=> S.sub[s].requests # <<>> /\ S.sub[s].requests[1].state = "PAGED"
\* While the channel is being secured nothing else is done on it, and nobody is paged.
SecQuiet(c) == c.up /\ c.users = {} /\ ~c.put_channel /\ ~c.leftover /\ ~c.silent
Good(S, s) ==
    /\ QueueGood(S, s)
    /\ S.conn[s].sec => ~Pending(S, s) /\ SecQuiet(S.conn[s])
    /\ ~S.conn[s].sec => Watched(S, s)

\* Steps on one subscriber follow each other.
LEMMA ApartTrans ==
    ASSUME NEW S, NEW T, NEW U, NEW s \in Subs, Apart(S, T, s), Apart(T, U, s)
    PROVE  Apart(S, U, s)
  BY DEF Apart

\* What is good for another subscriber stays good.
LEMMA ApartGood ==
    ASSUME NEW S, NEW T, NEW s \in Subs, Apart(S, T, s), NEW t \in Subs \ {s}, Good(S, t)
    PROVE  Good(T, t)
  <1>1. T.sub[t] = S.sub[t] /\ T.conn[t] = S.conn[t] /\ \A b \in Bts : Cb(T.bts[b], t) = Cb(S.bts[b], t)
    BY DEF Apart
  <1>2. Pending(T, t) <=> Pending(S, t)
    BY <1>1 DEF Pending
  <1> QED BY <1>1, <1>2 DEF Good, QueueGood, Watched

PutBts(S, f) == [S EXCEPT !.bts = f]
PutSub(S, s, x) == [S EXCEPT !.sub[s] = x]
PutQueue(S, s, q) == [S EXCEPT !.sub[s].requests = q]
PutConn(S, s, x) == [S EXCEPT !.conn[s] = x]

\* The base stations replaced.
LEMMA SetBts ==
    ASSUME NEW S \in NetState, NEW f \in [Bts -> PagingState], NEW d, d = PutBts(S, f)
    PROVE  d \in NetState /\ d.bts = f /\ d.sub = S.sub /\ d.conn = S.conn
  <1>1. d \in NetState
    BY DEF NetState, PutBts
  <1> QED BY <1>1 DEF NetState, PutBts

\* The record of one subscriber replaced.
LEMMA SetSub ==
    ASSUME NEW S \in NetState, NEW s \in Subs, NEW x \in Subscriber, NEW d, d = PutSub(S, s, x)
    PROVE  /\ d \in NetState /\ d.bts = S.bts /\ d.conn = S.conn
           /\ d.sub[s] = x /\ \A t \in Subs \ {s} : d.sub[t] = S.sub[t]
  <1>1. PICK f : f = [S.sub EXCEPT ![s] = x]
    OBVIOUS
  <1>2. f \in [Subs -> Subscriber] /\ f[s] = x /\ \A t \in Subs \ {s} : f[t] = S.sub[t]
    BY <1>1 DEF NetState
  <1>3. d = [S EXCEPT !.sub = f]
    BY <1>1 DEF NetState, PutSub
  <1>4. d \in NetState
    BY <1>2, <1>3 DEF NetState
  <1>5. d.bts = S.bts /\ d.conn = S.conn /\ d.sub = f
    BY <1>3, <1>4 DEF NetState
  <1> QED BY <1>2, <1>4, <1>5

\* The connection of one subscriber replaced.
LEMMA SetConn ==
    ASSUME NEW S \in NetState, NEW s \in Subs, NEW x \in Connection, NEW d, d = PutConn(S, s, x)
    PROVE  /\ d \in NetState /\ d.bts = S.bts /\ d.sub = S.sub
           /\ d.conn[s] = x /\ \A t \in Subs \ {s} : d.conn[t] = S.conn[t]
  <1>1. PICK f : f = [S.conn EXCEPT ![s] = x]
    OBVIOUS
  <1>2. f \in [Subs -> Connection] /\ f[s] = x /\ \A t \in Subs \ {s} : f[t] = S.conn[t]
    BY <1>1 DEF NetState
  <1>3. d = [S EXCEPT !.conn = f]
    BY <1>1 DEF NetState, PutConn
  <1>4. d \in NetState
    BY <1>2, <1>3 DEF NetState
  <1>5. d.bts = S.bts /\ d.sub = S.sub /\ d.conn = f
    BY <1>3, <1>4 DEF NetState
  <1> QED BY <1>2, <1>4, <1>5

\* The connection of a subscriber replaced, seen from outside.
LEMMA ConnFine ==
    ASSUME NEW S, Fine(S), NEW s \in Subs, NEW x \in Connection, NEW d, d = PutConn(S, s, x)
    PROVE  Fine(d) /\ Apart(S, d, s) /\ d.bts = S.bts /\ d.sub = S.sub /\ d.conn[s] = x
  <1>1. S \in NetState
    BY DEF Fine
  <1>2. /\ d \in NetState /\ d.bts = S.bts /\ d.sub = S.sub
        /\ d.conn[s] = x /\ \A t \in Subs \ {s} : d.conn[t] = S.conn[t]
    BY <1>1, SetConn
  <1> QED BY <1>2 DEF Fine, Apart

\* Its record replaced, seen from outside.
LEMMA SubFine ==
    ASSUME NEW S, Fine(S), NEW s \in Subs, NEW x \in Subscriber, NEW d, d = PutSub(S, s, x)
    PROVE  Fine(d) /\ Apart(S, d, s) /\ d.bts = S.bts /\ d.conn = S.conn /\ d.sub[s] = x
  <1>1. S \in NetState
    BY DEF Fine
  <1>2. /\ d \in NetState /\ d.bts = S.bts /\ d.conn = S.conn
        /\ d.sub[s] = x /\ \A t \in Subs \ {s} : d.sub[t] = S.sub[t]
    BY <1>1, SetSub
  <1> QED BY <1>2 DEF Fine, Apart

\* Its queue replaced.
LEMMA QueueFine ==
    ASSUME NEW S, Fine(S), NEW s \in Subs, NEW q \in Seq(SubscrRequest),
           NEW d, d = PutQueue(S, s, q)
    PROVE  /\ Fine(d) /\ Apart(S, d, s) /\ d.bts = S.bts /\ d.conn = S.conn
           /\ d.sub[s].requests = q /\ d.sub[s].lac = S.sub[s].lac /\ d.sub[s].no_detach = S.sub[s].no_detach
  <1>1. PICK o, x : o = S.sub[s] /\ x = [o EXCEPT !.requests = q]
    OBVIOUS
  <1>2. o \in Subscriber
    BY <1>1 DEF Fine, NetState
  <1>3. x \in Subscriber
    BY <1>1, <1>2 DEF Subscriber
  <1>4. x.requests = q /\ x.lac = o.lac /\ x.no_detach = o.no_detach
    BY <1>1, <1>2 DEF Subscriber
  <1>5. d = PutSub(S, s, x)
    BY <1>1 DEF PutSub, PutQueue
  <1>6. Fine(d) /\ Apart(S, d, s) /\ d.bts = S.bts /\ d.conn = S.conn /\ d.sub[s] = x
    BY <1>3, <1>5, SubFine
  <1> QED BY <1>1, <1>4, <1>6

\* The pagings of one subscriber replaced, on every base station.
LEMMA BtsFine ==
    ASSUME NEW S, Fine(S), NEW s \in Subs, NEW f,
           f = [b \in Bts |-> f[b]], \A b \in Bts : BtsGood(f[b]) /\ SameBut(S.bts[b], f[b], s),
           NEW d, d = PutBts(S, f)
    PROVE  Fine(d) /\ Apart(S, d, s) /\ d.bts = f /\ d.sub = S.sub /\ d.conn = S.conn
  <1>1. S \in NetState
    BY DEF Fine
  <1>2. f \in [Bts -> PagingState]
    <2>1. \A b \in Bts : f[b] \in PagingState
      BY DEF BtsGood
    <2> QED BY <2>1
  <1>3. d \in NetState /\ d.bts = f /\ d.sub = S.sub /\ d.conn = S.conn
    BY <1>1, <1>2, SetBts
  <1> QED BY <1>3 DEF Fine, Apart, SameBut

\* The pagings and the queue are all that QueueGood and Watched are about.
LEMMA Unmoved ==
    ASSUME NEW S, NEW T, NEW s \in Subs, T.bts = S.bts, T.sub[s] = S.sub[s]
    PROVE  /\ QueueGood(S, s) => QueueGood(T, s)
           /\ Watched(S, s) => Watched(T, s)
           /\ Pending(T, s) => Pending(S, s)
  <1>1. Pending(T, s) <=> Pending(S, s)
    BY DEF Pending
  <1> QED BY <1>1 DEF QueueGood, Watched

-----------------------------------------------------------------------------
(* Pagings and the queue *)

\* The requests of s on a base station, and the callbacks they have.
LEMMA OfCb ==
    ASSUME NEW S, NEW b \in Bts, NEW s \in Subs
    PROVE  paging_pending_request(S, b, s) <=> Cb(S.bts[b], s) # {}
  BY DEF paging_pending_request, Of, Cb

\* A base station whose requests for s are gone, and one that is as it was.
LEMMA SameButSelf ==
    ASSUME NEW p, NEW s \in Subs
    PROVE  SameBut(p, p, s)
  BY DEF SameBut

\* paging_request_stop(): in the area nobody pages for the subscriber any more.
LEMMA StopFine ==
    ASSUME NEW S, Fine(S), NEW s \in Subs, NEW T, T = StopInLac(S, s)
    PROVE  /\ Fine(T) /\ Apart(S, T, s) /\ T.sub = S.sub /\ T.conn = S.conn
           /\ \A b \in Bts : /\ T.bts[b].usable = S.bts[b].usable
                             /\ env.lac[b] = S.sub[s].lac => Cb(T.bts[b], s) = {}
                             /\ env.lac[b] # S.sub[s].lac => Cb(T.bts[b], s) = Cb(S.bts[b], s)
  <1>1. PICK f : f = [b \in Bts |-> IF b \in BtsOfLac(S.sub[s].lac) THEN Removed(S.bts[b], s) ELSE S.bts[b]]
    OBVIOUS
  <1>2. T = PutBts(S, f)
    BY <1>1 DEF StopInLac, PutBts
  <1>3. \A b \in Bts : b \in BtsOfLac(S.sub[s].lac) <=> env.lac[b] = S.sub[s].lac
    BY DEF BtsOfLac
  <1>4. ASSUME NEW b \in Bts
        PROVE  /\ BtsGood(f[b]) /\ SameBut(S.bts[b], f[b], s) /\ f[b].usable = S.bts[b].usable
               /\ env.lac[b] = S.sub[s].lac => Cb(f[b], s) = {}
               /\ env.lac[b] # S.sub[s].lac => Cb(f[b], s) = Cb(S.bts[b], s)
    <2>1. PICK p, d : p = S.bts[b] /\ d = Removed(p, s)
      OBVIOUS
    <2>2. BtsGood(p)
      BY <2>1 DEF Fine
    <2>3. BtsGood(d) /\ Cb(d, s) = {} /\ SameBut(p, d, s) /\ d.usable = p.usable
      BY <2>1, <2>2, RemovedGood
    <2>4. CASE env.lac[b] = S.sub[s].lac
      <3>1. f[b] = d
        BY <1>1, <1>3, <2>1, <2>4
      <3> QED BY <2>1, <2>3, <2>4, <3>1
    <2>5. CASE env.lac[b] # S.sub[s].lac
      <3>1. f[b] = p
        BY <1>1, <1>3, <2>1, <2>5
      <3> QED BY <2>1, <2>2, <2>5, <3>1, SameButSelf
    <2> QED BY <2>4, <2>5
  <1>5. f = [b \in Bts |-> f[b]]
    BY <1>1
  <1>6. Fine(T) /\ Apart(S, T, s) /\ T.bts = f /\ T.sub = S.sub /\ T.conn = S.conn
    BY <1>2, <1>4, <1>5, BtsFine
  <1> QED BY <1>4, <1>6

\* paging_request(): base stations of the area, with no request for the subscriber before, have one.
Asked(S, T, s, cb) ==
    /\ Fine(T) /\ Apart(S, T, s) /\ T.sub = S.sub /\ T.conn = S.conn
    /\ \A b \in Bts : \/ Cb(T.bts[b], s) = Cb(S.bts[b], s)
                      \/ Cb(T.bts[b], s) = {cb} /\ env.lac[b] = S.sub[s].lac
    /\ Blocking(S, s) = {} => \A b \in Targets(S, s) : Cb(T.bts[b], s) = {cb}

\* paging_request() keeps the state in order and reaches every target when nothing blocks it.
LEMMA RequestFine ==
    ASSUME NEW S, Fine(S), NEW s \in Subs, NEW cb \in {"subscr", "silent"}, NEW T, T = paging_request(S, s, cb)
    PROVE  Asked(S, T, s, cb)
  <1>1. PICK reached : reached = {b \in Targets(S, s) : \A x \in Blocking(S, s) : b < x}
    OBVIOUS
  <1>2. PICK f : f = [b \in Bts |-> IF b \in reached THEN Added(S.bts[b], s, cb) ELSE S.bts[b]]
    OBVIOUS
  <1>3. T = PutBts(S, f)
    BY <1>1, <1>2 DEF paging_request, PutBts
  <1>4. ASSUME NEW b \in reached
        PROVE  b \in Bts /\ b \notin Blocking(S, s) /\ b \in Targets(S, s) /\ env.lac[b] = S.sub[s].lac
    <2>1. b \in Targets(S, s) /\ \A x \in Blocking(S, s) : b < x
      BY <1>1
    <2>2. b \in Bts /\ env.lac[b] = S.sub[s].lac
      BY <2>1 DEF Targets, BtsOfLac
    <2>3. b \in Nat
      BY <2>2, PagingBoundsAssumption DEF Bts
    <2> QED BY <2>1, <2>2, <2>3
  <1>5. ASSUME NEW b \in Bts
        PROVE  /\ BtsGood(f[b]) /\ SameBut(S.bts[b], f[b], s)
               /\ b \in reached => Cb(f[b], s) = {cb} /\ env.lac[b] = S.sub[s].lac
               /\ b \notin reached => Cb(f[b], s) = Cb(S.bts[b], s)
    <2>1. PICK p, d : p = S.bts[b] /\ d = Added(p, s, cb)
      OBVIOUS
    <2>2. BtsGood(p)
      BY <2>1 DEF Fine
    <2>3. CASE b \in reached
      <3>1. Cb(p, s) = {}
        <4>1. ~paging_pending_request(S, b, s)
          BY <1>4, <2>3 DEF Blocking
        <4> QED BY <2>1, <4>1, OfCb
      <3>2. BtsGood(d) /\ Cb(d, s) = {cb} /\ SameBut(p, d, s)
        BY <2>1, <2>2, <3>1, AddedGood
      <3>3. f[b] = d
        BY <1>2, <2>1, <2>3
      <3> QED BY <1>4, <2>1, <2>3, <3>2, <3>3
    <2>4. CASE b \notin reached
      <3>1. f[b] = p
        BY <1>2, <2>1, <2>4
      <3> QED BY <2>1, <2>2, <2>4, <3>1, SameButSelf
    <2> QED BY <2>3, <2>4
  <1>6. f = [b \in Bts |-> f[b]]
    BY <1>2
  <1>7. Fine(T) /\ Apart(S, T, s) /\ T.bts = f /\ T.sub = S.sub /\ T.conn = S.conn
    BY <1>3, <1>5, <1>6, BtsFine
  <1>8. \A b \in Bts : \/ Cb(T.bts[b], s) = Cb(S.bts[b], s)
                       \/ Cb(T.bts[b], s) = {cb} /\ env.lac[b] = S.sub[s].lac
    BY <1>5, <1>7
  <1>9. ASSUME Blocking(S, s) = {}, NEW b \in Targets(S, s)
        PROVE  Cb(T.bts[b], s) = {cb}
    <2>1. b \in reached /\ b \in Bts
      BY <1>1, <1>9 DEF Targets, BtsOfLac
    <2> QED BY <1>5, <1>7, <2>1
  <1> QED BY <1>7, <1>8, <1>9 DEF Asked

\* What a subscriber's step may change: the queue and the pagings.
Queues(S, T, s) ==
    /\ Fine(T) /\ Apart(S, T, s) /\ T.conn = S.conn
    /\ T.sub[s].lac = S.sub[s].lac /\ T.sub[s].no_detach = S.sub[s].no_detach

\* The head of the queue is marked and paged for where it can be.
Marked(S, s) == [S EXCEPT !.sub[s].requests[1].state = "PAGED"]

\* Marking the head and paging for it leaves the subscriber's queue watched.
LEMMA PageGood ==
    ASSUME NEW S, Fine(S), NEW s \in Subs, S.sub[s].requests # <<>>, Targets(S, s) # {}, Blocking(S, s) = {},
           NEW T, T = paging_request(Marked(S, s), s, "subscr")
    PROVE  Queues(S, T, s) /\ (QueueGood(S, s) => QueueGood(T, s) /\ Watched(T, s))
  <1>1. PICK q : q = S.sub[s].requests
    OBVIOUS
  <1>2. q \in Seq(SubscrRequest) /\ q # <<>>
    BY <1>1 DEF Fine, NetState, Subscriber
  <1>3. PICK h, m, r : h = q[1] /\ m = [h EXCEPT !.state = "PAGED"] /\ r = [q EXCEPT ![1] = m]
    OBVIOUS
  <1>4. h \in SubscrRequest
    BY <1>2, <1>3
  <1>5. m \in SubscrRequest
    BY <1>3, <1>4 DEF SubscrRequest
  <1>6. m.state = "PAGED" /\ m.user = h.user
    BY <1>3, <1>4 DEF SubscrRequest
  <1>7. /\ r \in Seq(SubscrRequest) /\ DOMAIN r = DOMAIN q /\ r # <<>> /\ r[1] = m
        /\ \A i \in DOMAIN q : i # 1 => r[i] = q[i]
    BY <1>2, <1>3, <1>5
  <1>8. PICK U : U = Marked(S, s)
    OBVIOUS
  <1>9. U = PutQueue(S, s, r)
    BY <1>1, <1>3, <1>8 DEF Marked, PutQueue
  <1>10. /\ Fine(U) /\ Apart(S, U, s) /\ U.bts = S.bts /\ U.conn = S.conn
         /\ U.sub[s].requests = r /\ U.sub[s].lac = S.sub[s].lac /\ U.sub[s].no_detach = S.sub[s].no_detach
    BY <1>7, <1>9, QueueFine
  <1>11. Targets(U, s) = Targets(S, s) /\ Blocking(U, s) = {}
    BY <1>10 DEF Targets, Blocking, paging_pending_request, Of
  <1>12. /\ Fine(T) /\ Apart(U, T, s) /\ T.sub = U.sub /\ T.conn = U.conn
         /\ \A b \in Bts : \/ Cb(T.bts[b], s) = Cb(U.bts[b], s)
                           \/ Cb(T.bts[b], s) = {"subscr"} /\ env.lac[b] = U.sub[s].lac
         /\ \A b \in Targets(S, s) : Cb(T.bts[b], s) = {"subscr"}
    <2>1. PICK cb \in {"subscr", "silent"} : cb = "subscr"
      OBVIOUS
    <2>2. PICK W : W = paging_request(U, s, cb)
      OBVIOUS
    <2>3. Fine(U)
      BY <1>10
    <2>4. Asked(U, W, s, cb)
      BY <2>2, <2>3, RequestFine
    <2>5. T = W
      BY <1>8, <2>1, <2>2
    <2> QED BY <1>11, <2>1, <2>4, <2>5 DEF Asked
  <1>13. Queues(S, T, s)
    BY <1>10, <1>12, ApartTrans DEF Queues
  <1>14. ASSUME QueueGood(S, s)
         PROVE  QueueGood(T, s) /\ Watched(T, s)
    <2>1. Pending(T, s)
      <3>1. PICK b \in Targets(S, s) : TRUE
        OBVIOUS
      <3>2. b \in Bts
        BY DEF Targets, BtsOfLac
      <3> QED BY <1>12, <3>2 DEF Pending
    <2>2. T.sub[s].requests = r /\ T.sub[s].lac = S.sub[s].lac
      BY <1>10, <1>12
    <2>3. \A b \in Bts : Cb(T.bts[b], s) \subseteq {"subscr"}
      BY <1>10, <1>12, <1>14 DEF QueueGood
    <2>4. \A b \in Bts : Cb(T.bts[b], s) # {} => env.lac[b] = T.sub[s].lac
      BY <1>10, <1>12, <1>14, <2>2 DEF QueueGood
    <2>5. \A i \in DOMAIN r : r[i].user = q[i].user /\ (i # 1 => r[i].state = q[i].state)
      BY <1>3, <1>6, <1>7
    <2>6. \A i \in DOMAIN q : q[i].user \in env.users /\ (i # 1 => q[i].state = "QUEUED")
      BY <1>1, <1>14 DEF QueueGood
    <2>7. \A i \in DOMAIN r : r[i].user \in env.users /\ (i # 1 => r[i].state = "QUEUED")
      BY <1>7, <2>5, <2>6
    <2>8. QueueGood(T, s)
      BY <2>2, <2>3, <2>4, <2>7 DEF QueueGood
    <2>9. Watched(T, s)
      BY <1>6, <1>7, <2>1, <2>2 DEF Watched
    <2> QED BY <2>8, <2>9
  <1> QED BY <1>13, <1>14

\* The head of the queue leaves it: the others have not been paged for.
LEMMA TailQueue ==
    ASSUME NEW S, Fine(S), NEW s \in Subs, S.sub[s].requests # <<>>, NEW q, q = Tail(S.sub[s].requests)
    PROVE  /\ q \in Seq(SubscrRequest)
           /\ QueueGood(S, s) => \A i \in DOMAIN q : q[i].state = "QUEUED" /\ q[i].user \in env.users
  <1>1. PICK o : o = S.sub[s].requests
    OBVIOUS
  <1>2. o \in Seq(SubscrRequest) /\ o # <<>>
    BY <1>1 DEF Fine, NetState, Subscriber
  <1>3. q \in Seq(SubscrRequest) /\ Len(q) = Len(o) - 1 /\ Len(o) \in Nat /\ \A i \in 1..Len(q) : q[i] = o[i + 1]
    BY <1>1, <1>2
  <1>4. ASSUME QueueGood(S, s), NEW i \in DOMAIN q
        PROVE  q[i].state = "QUEUED" /\ q[i].user \in env.users
    <2>1. PICK j : j = i + 1
      OBVIOUS
    <2>2. j \in DOMAIN o /\ j # 1 /\ q[i] = o[j]
      BY <1>2, <1>3, <2>1
    <2> QED BY <1>1, <1>4, <2>2 DEF QueueGood
  <1> QED BY <1>3, <1>4

\* subscr_send_paging_request(): whatever was pending, in the end the head of the queue is paged for,
\* or there is none.
LEMMA SendGood ==
    ASSUME NEW S, Fine(S), NEW s \in Subs, S.sub[s].requests # <<>>, NEW T, T = SendPaging(S, s)
    PROVE  Queues(S, T, s) /\ (QueueGood(S, s) => QueueGood(T, s) /\ Watched(T, s))
  <1>1. CASE Targets(S, s) = {}
    <2>0. PICK q : q = <<>>
      OBVIOUS
    <2>1. PICK U : U = PutQueue(S, s, q)
      OBVIOUS
    <2>2. /\ Fine(U) /\ Apart(S, U, s) /\ U.bts = S.bts /\ U.conn = S.conn
          /\ U.sub[s].requests = q /\ U.sub[s].lac = S.sub[s].lac /\ U.sub[s].no_detach = S.sub[s].no_detach
      <3>1. q \in Seq(SubscrRequest)
        BY <2>0
      <3> QED BY <2>1, <3>1, QueueFine
    <2>3. PICK W : W = StopInLac(U, s)
      OBVIOUS
    <2>7. T = W
      <3>1. Blocking(S, s) = {}
        BY <1>1 DEF Blocking
      <3> QED BY <1>1, <2>0, <2>1, <2>3, <3>1 DEF SendPaging, PutQueue
    <2>4. /\ Fine(T) /\ Apart(U, T, s) /\ T.sub = U.sub /\ T.conn = U.conn
          /\ \A b \in Bts : /\ env.lac[b] = U.sub[s].lac => Cb(T.bts[b], s) = {}
                            /\ env.lac[b] # U.sub[s].lac => Cb(T.bts[b], s) = Cb(U.bts[b], s)
      <3>1. Fine(U)
        BY <2>2
      <3>2. /\ Fine(W) /\ Apart(U, W, s) /\ W.sub = U.sub /\ W.conn = U.conn
            /\ \A b \in Bts : /\ env.lac[b] = U.sub[s].lac => Cb(W.bts[b], s) = {}
                              /\ env.lac[b] # U.sub[s].lac => Cb(W.bts[b], s) = Cb(U.bts[b], s)
        BY <2>3, <3>1, StopFine, ZenonT(80)
      <3> QED BY <2>7, <3>2
    <2>5. Queues(S, T, s)
      BY <2>2, <2>4, ApartTrans DEF Queues
    <2>6. ASSUME QueueGood(S, s)
          PROVE  QueueGood(T, s) /\ Watched(T, s)
      <3>1. \A b \in Bts : Cb(T.bts[b], s) = {}
        BY <2>2, <2>4, <2>6 DEF QueueGood
      <3>2. T.sub[s].requests = <<>>
        BY <2>0, <2>2, <2>4
      <3>3. DOMAIN T.sub[s].requests = {}
        BY <3>2
      <3> QED BY <3>1, <3>2, <3>3 DEF QueueGood, Watched, Pending
    <2> QED BY <2>5, <2>6
  <1>2. CASE Targets(S, s) # {} /\ Blocking(S, s) = {}
    <2>1. T = paging_request(Marked(S, s), s, "subscr")
      BY <1>2 DEF SendPaging, Marked
    <2> QED BY <1>2, <2>1, PageGood
  <1>3. CASE Blocking(S, s) # {}
    <2>0. Targets(S, s) # {}
      BY <1>3 DEF Blocking
    <2>1. PICK q : q = Tail(S.sub[s].requests)
      OBVIOUS
    <2>11. PICK U : U = PutQueue(S, s, q)
      OBVIOUS
    <2>12. PICK V : V = StopInLac(U, s)
      OBVIOUS
    <2>2. /\ q \in Seq(SubscrRequest)
          /\ QueueGood(S, s) => \A i \in DOMAIN q : q[i].state = "QUEUED" /\ q[i].user \in env.users
      BY <2>1, TailQueue
    <2>3. /\ Fine(U) /\ Apart(S, U, s) /\ U.bts = S.bts /\ U.conn = S.conn
          /\ U.sub[s].requests = q /\ U.sub[s].lac = S.sub[s].lac /\ U.sub[s].no_detach = S.sub[s].no_detach
      BY <2>11, <2>2, QueueFine
    <2>4. /\ Fine(V) /\ Apart(U, V, s) /\ V.sub = U.sub /\ V.conn = U.conn
          /\ \A b \in Bts : /\ V.bts[b].usable = U.bts[b].usable
                            /\ env.lac[b] = U.sub[s].lac => Cb(V.bts[b], s) = {}
                            /\ env.lac[b] # U.sub[s].lac => Cb(V.bts[b], s) = Cb(U.bts[b], s)
      <3>1. Fine(U)
        BY <2>3
      <3> QED BY <2>12, <3>1, StopFine, ZenonT(80)
    <2>5. Queues(S, V, s)
      BY <2>3, <2>4, ApartTrans DEF Queues
    <2>6. V.sub[s].requests = q /\ V.sub[s].lac = S.sub[s].lac
      BY <2>3, <2>4
    <2>7. ASSUME QueueGood(S, s)
          PROVE  QueueGood(V, s) /\ ~Pending(V, s)
      <3>1. \A b \in Bts : Cb(V.bts[b], s) = {}
        BY <2>3, <2>4, <2>7 DEF QueueGood
      <3> QED BY <2>2, <2>6, <2>7, <3>1 DEF QueueGood, Pending
    <2>8. T = IF q = <<>> THEN V ELSE paging_request(Marked(V, s), s, "subscr")
      <3>1. V = StopInLac([S EXCEPT !.sub[s].requests = Tail(@)], s)
        BY <2>1, <2>11, <2>12 DEF PutQueue
      <3> QED BY <1>3, <2>0, <2>6, <3>1 DEF SendPaging, Marked
    <2>9. CASE q = <<>>
      <3>1. QueueGood(S, s) => Watched(V, s)
        BY <2>6, <2>7, <2>9 DEF Watched
      <3> QED BY <2>5, <2>7, <2>8, <2>9, <3>1
    <2>10. CASE q # <<>>
      <3>1. Targets(V, s) = Targets(S, s)
        BY <2>3, <2>4, <2>6 DEF Targets, BtsOfLac
      <3>2. Blocking(V, s) = {}
        <4>1. ASSUME NEW b \in Targets(V, s)
              PROVE  ~paging_pending_request(V, b, s)
          <5>1. b \in Bts /\ env.lac[b] = V.sub[s].lac
            BY DEF Targets, BtsOfLac
          <5>2. Cb(V.bts[b], s) = {}
            BY <2>4, <5>1
          <5> QED BY <5>1, <5>2, OfCb
        <4> QED BY <4>1 DEF Blocking
      <3>3. Queues(V, T, s) /\ (QueueGood(V, s) => QueueGood(T, s) /\ Watched(T, s))
        BY <2>0, <2>4, <2>6, <2>8, <2>10, <3>1, <3>2, PageGood
      <3>4. Queues(S, T, s)
        BY <2>5, <3>3, ApartTrans DEF Queues
      <3> QED BY <2>7, <3>3, <3>4
    <2> QED BY <2>9, <2>10
  <1> QED BY <1>1, <1>2, <1>3

\* subscr_put_channel(): the next request of the queue is paged for.
LEMMA PutGood ==
    ASSUME NEW S, Fine(S), NEW s \in Subs, NEW T, T = subscr_put_channel(S, s)
    PROVE  /\ Queues(S, T, s)
           /\ QueueGood(S, s) /\ (S.sub[s].requests = <<>> => ~Pending(S, s)) => QueueGood(T, s) /\ Watched(T, s)
  <1>1. CASE S.sub[s].requests = <<>>
    <2>1. T = S
      BY <1>1 DEF subscr_put_channel
    <2> QED BY <1>1, <2>1 DEF Queues, Apart, Watched
  <1>2. CASE S.sub[s].requests # <<>>
    <2>1. PICK W : W = SendPaging(S, s)
      OBVIOUS
    <2>2. Queues(S, W, s) /\ (QueueGood(S, s) => QueueGood(W, s) /\ Watched(W, s))
      BY <1>2, <2>1, SendGood
    <2>3. T = W
      BY <1>2, <2>1 DEF subscr_put_channel
    <2> QED BY <2>2, <2>3
  <1> QED BY <1>1, <1>2

\* The location area of a subscriber replaced.
PutLac(S, s, lac) == [S EXCEPT !.sub[s].lac = lac]

\* Such a replacement keeps the state in order and touches no other subscriber.
LEMMA LacFine ==
    ASSUME NEW S, Fine(S), NEW s \in Subs, NEW lac \in Lacs \cup {Detached}, NEW d, d = PutLac(S, s, lac)
    PROVE  /\ Fine(d) /\ Apart(S, d, s) /\ d.bts = S.bts /\ d.conn = S.conn
           /\ d.sub[s].requests = S.sub[s].requests /\ d.sub[s].lac = lac
  <1>1. PICK o, x : o = S.sub[s] /\ x = [o EXCEPT !.lac = lac]
    OBVIOUS
  <1>2. o \in Subscriber
    BY <1>1 DEF Fine, NetState
  <1>3. x \in Subscriber
    BY <1>1, <1>2 DEF Subscriber
  <1>4. x.requests = o.requests /\ x.lac = lac
    BY <1>1, <1>2 DEF Subscriber
  <1>5. d = PutSub(S, s, x)
    BY <1>1 DEF PutSub, PutLac
  <1>6. Fine(d) /\ Apart(S, d, s) /\ d.bts = S.bts /\ d.conn = S.conn /\ d.sub[s] = x
    BY <1>3, <1>5, SubFine
  <1> QED BY <1>1, <1>4, <1>6

\* The callback of a request that failed makes the subscriber detached at most, and only for an SMS.
LEMMA TellFine ==
    ASSUME NEW S, Fine(S), NEW s \in Subs, NEW user, NEW event, NEW d, d = Tell(S, s, user, event)
    PROVE  /\ Fine(d) /\ Apart(S, d, s) /\ d.bts = S.bts /\ d.conn = S.conn
           /\ d.sub[s].requests = S.sub[s].requests
           /\ d.sub[s].lac = S.sub[s].lac \/ user = "sms"
  <1>1. PICK lac \in Lacs \cup {Detached} : lac = Detached
    OBVIOUS
  <1>2. PICK W : W = PutLac(S, s, lac)
    OBVIOUS
  <1>3. /\ Fine(W) /\ Apart(S, W, s) /\ W.bts = S.bts /\ W.conn = S.conn
        /\ W.sub[s].requests = S.sub[s].requests /\ W.sub[s].lac = lac
    BY <1>2, LacFine
  <1>4. CASE event = "EXPIRED" /\ user = "sms" /\ ~S.sub[s].no_detach
    <2>1. d = W
      BY <1>1, <1>2, <1>4 DEF Tell, PutLac
    <2> QED BY <1>3, <1>4, <2>1
  <1>5. CASE ~(event = "EXPIRED" /\ user = "sms" /\ ~S.sub[s].no_detach)
    <2>1. d = S
      BY <1>5 DEF Tell
    <2> QED BY <2>1 DEF Apart
  <1> QED BY <1>4, <1>5

\* No request of the queue has been paged for.
Unpaged(S, s) == \A i \in DOMAIN S.sub[s].requests : S.sub[s].requests[i].state = "QUEUED"

\* Then, with nobody paging, the subscriber is as it should be.
LEMMA UnpagedWatched ==
    ASSUME NEW S, Fine(S), NEW s \in Subs, Unpaged(S, s), ~Pending(S, s)
    PROVE  Watched(S, s)
  <1>1. PICK q : q = S.sub[s].requests
    OBVIOUS
  <1>2. q \in Seq(SubscrRequest)
    BY <1>1 DEF Fine, NetState, Subscriber
  <1>3. q # <<>> => 1 \in DOMAIN q
    BY <1>2
  <1> QED BY <1>1, <1>3 DEF Unpaged, Watched

\* subscr_paging_dispatch() of a failure: the head is told, the next one paged for.
LEMMA FailureGood ==
    ASSUME NEW S, Fine(S), NEW s \in Subs, NEW event, NEW T, T = DispatchFailure(S, s, event)
    PROVE  /\ Fine(T) /\ Apart(S, T, s) /\ T.conn = S.conn
           /\ QueueGood(S, s) /\ ("sms" \in env.users \/ S.sub[s].requests = <<>> => ~Pending(S, s))
                => QueueGood(T, s) /\ Watched(T, s)
  <1>1. CASE S.sub[s].requests = <<>>
    <2>1. T = S
      BY <1>1 DEF DispatchFailure
    <2> QED BY <1>1, <2>1 DEF Apart, Watched
  <1>2. CASE S.sub[s].requests # <<>>
    <2>1. PICK q : q = Tail(S.sub[s].requests)
      OBVIOUS
    <2>2. PICK user : user = Head(S.sub[s].requests).user
      OBVIOUS
    <2>3. PICK U : U = PutQueue(S, s, q)
      OBVIOUS
    <2>4. PICK V : V = Tell(U, s, user, event)
      OBVIOUS
    <2>5. PICK W : W = StopInLac(V, s)
      OBVIOUS
    <2>6. PICK X : X = subscr_put_channel(W, s)
      OBVIOUS
    <2>7. T = X
      BY <1>2, <2>1, <2>2, <2>3, <2>4, <2>5, <2>6 DEF DispatchFailure, PutQueue
    <2>8. /\ q \in Seq(SubscrRequest)
          /\ QueueGood(S, s) => \A i \in DOMAIN q : q[i].state = "QUEUED" /\ q[i].user \in env.users
      BY <1>2, <2>1, TailQueue
    <2>9. /\ Fine(U) /\ Apart(S, U, s) /\ U.bts = S.bts /\ U.conn = S.conn
          /\ U.sub[s].requests = q /\ U.sub[s].lac = S.sub[s].lac
      BY <2>3, <2>8, QueueFine
    <2>10. /\ Fine(V) /\ Apart(U, V, s) /\ V.bts = U.bts /\ V.conn = U.conn
           /\ V.sub[s].requests = U.sub[s].requests
           /\ V.sub[s].lac = U.sub[s].lac \/ user = "sms"
      <3>1. Fine(U)
        BY <2>9
      <3> QED BY <2>4, <3>1, TellFine
    <2>11. /\ Fine(W) /\ Apart(V, W, s) /\ W.sub = V.sub /\ W.conn = V.conn
           /\ \A b \in Bts : /\ env.lac[b] = V.sub[s].lac => Cb(W.bts[b], s) = {}
                             /\ env.lac[b] # V.sub[s].lac => Cb(W.bts[b], s) = Cb(V.bts[b], s)
      <3>1. Fine(V)
        BY <2>10
      <3> QED BY <2>5, <3>1, StopFine
    <2>12. /\ Queues(W, X, s)
           /\ QueueGood(W, s) /\ (W.sub[s].requests = <<>> => ~Pending(W, s)) => QueueGood(X, s) /\ Watched(X, s)
      <3>1. Fine(W)
        BY <2>11
      <3> QED BY <2>6, <3>1, PutGood
    <2>13. Apart(S, V, s)
      BY <2>9, <2>10, ApartTrans
    <2>14. Apart(S, W, s)
      BY <2>11, <2>13, ApartTrans
    <2>15. Fine(X) /\ Apart(S, X, s) /\ X.conn = S.conn
      BY <2>9, <2>10, <2>11, <2>12, <2>14, ApartTrans DEF Queues
    <2>16. ASSUME QueueGood(S, s), "sms" \in env.users \/ S.sub[s].requests = <<>> => ~Pending(S, s)
           PROVE  QueueGood(X, s) /\ Watched(X, s)
      <3>1. \A b \in Bts : Cb(W.bts[b], s) = {}
        <4>1. CASE user = "sms"
          <5>1. PICK o : o = S.sub[s].requests
            OBVIOUS
          <5>2. o \in Seq(SubscrRequest) /\ o # <<>>
            BY <1>2, <5>1 DEF Fine, NetState, Subscriber
          <5>3. 1 \in DOMAIN o /\ o[1].user = "sms"
            BY <2>2, <4>1, <5>1, <5>2
          <5>4. "sms" \in env.users
            BY <2>16, <5>1, <5>3 DEF QueueGood
          <5>5. \A b \in Bts : Cb(S.bts[b], s) = {}
            BY <2>16, <5>4 DEF Pending
          <5> QED BY <2>9, <2>10, <2>11, <5>5
        <4>2. CASE user # "sms"
          <5>1. V.sub[s].lac = S.sub[s].lac
            BY <2>9, <2>10, <4>2
          <5> QED BY <2>9, <2>10, <2>11, <2>16, <5>1 DEF QueueGood
        <4> QED BY <4>1, <4>2
      <3>2. W.sub[s].requests = q
        BY <2>9, <2>10, <2>11
      <3>3. QueueGood(W, s) /\ ~Pending(W, s)
        BY <2>8, <2>16, <3>1, <3>2 DEF QueueGood, Pending
      <3> QED BY <2>12, <3>3
    <2> QED BY <2>7, <2>15, <2>16
  <1> QED BY <1>1, <1>2

\* The fields of a connection that a request that is served changes.
LEMMA ServedConn ==
    ASSUME NEW c \in Connection, NEW user \in Users, NEW x,
           x = [c EXCEPT !.users = c.users \cup {user}, !.put_channel = c.put_channel \/ user = "call"]
    PROVE  x \in Connection /\ x.sec = c.sec /\ x.up = c.up
  <1>1. PICK u, p : u = c.users \cup {user} /\ p = (c.put_channel \/ user = "call")
    OBVIOUS
  <1>2. u \in SUBSET Users /\ p \in BOOLEAN
    BY <1>1 DEF Connection
  <1>3. x = [c EXCEPT !.users = u, !.put_channel = p]
    BY <1>1
  <1>4. x \in Connection
    BY <1>2, <1>3 DEF Connection
  <1> QED BY <1>3, <1>4 DEF Connection

\* subscr_paging_dispatch() of a success: the head of the queue is served.
LEMMA SuccessGood ==
    ASSUME NEW S, Fine(S), NEW s \in Subs, NEW T, T = DispatchSuccess(S, s)
    PROVE  /\ Fine(T) /\ Apart(S, T, s) /\ T.bts = S.bts /\ T.sub[s].lac = S.sub[s].lac
           /\ T.conn[s].sec = S.conn[s].sec
           /\ QueueGood(S, s) => QueueGood(T, s) /\ Unpaged(T, s)
  <1>1. CASE S.sub[s].requests = <<>>
    <2>1. T = S
      BY <1>1 DEF DispatchSuccess
    <2> QED BY <1>1, <2>1 DEF Apart, Unpaged
  <1>2. CASE S.sub[s].requests # <<>>
    <2>1. PICK q : q = Tail(S.sub[s].requests)
      OBVIOUS
    <2>2. PICK user \in Users : user = Head(S.sub[s].requests).user
      <3>1. PICK o : o = S.sub[s].requests
        OBVIOUS
      <3>2. o \in Seq(SubscrRequest) /\ o # <<>>
        BY <1>2, <3>1 DEF Fine, NetState, Subscriber
      <3>3. Head(o) \in SubscrRequest
        BY <3>2
      <3>4. Head(o).user \in Users
        BY <3>3 DEF SubscrRequest
      <3> QED BY <3>1, <3>4
    <2>3. PICK U : U = PutQueue(S, s, q)
      OBVIOUS
    <2>4. PICK c : c = S.conn[s]
      OBVIOUS
    <2>5. PICK x : x = [c EXCEPT !.users = c.users \cup {user}, !.put_channel = c.put_channel \/ user = "call"]
      OBVIOUS
    <2>6. c \in Connection
      BY <2>4 DEF Fine, NetState
    <2>7. x \in Connection /\ x.sec = c.sec
      BY <2>5, <2>6, ServedConn, ZenonT(80)
    <2>8. PICK W : W = PutConn(U, s, x)
      OBVIOUS
    <2>9. T = W
      BY <1>2, <2>1, <2>2, <2>3, <2>4, <2>5, <2>8, ZenonT(80) DEF DispatchSuccess, PutQueue, PutConn, Fine, NetState
    <2>10. /\ q \in Seq(SubscrRequest)
           /\ QueueGood(S, s) => \A i \in DOMAIN q : q[i].state = "QUEUED" /\ q[i].user \in env.users
      BY <1>2, <2>1, TailQueue
    <2>11. /\ Fine(U) /\ Apart(S, U, s) /\ U.bts = S.bts /\ U.conn = S.conn
           /\ U.sub[s].requests = q /\ U.sub[s].lac = S.sub[s].lac
      BY <2>3, <2>10, QueueFine
    <2>12. Fine(W) /\ Apart(U, W, s) /\ W.bts = U.bts /\ W.sub = U.sub /\ W.conn[s] = x
      <3>1. Fine(U)
        BY <2>11
      <3> QED BY <2>7, <2>8, <3>1, ConnFine
    <2>13. Apart(S, W, s)
      BY <2>11, <2>12, ApartTrans
    <2>14. W.sub[s].requests = q /\ W.sub[s].lac = S.sub[s].lac /\ W.bts = S.bts /\ W.conn[s].sec = S.conn[s].sec
      BY <2>4, <2>7, <2>11, <2>12
    <2>15. QueueGood(S, s) => QueueGood(W, s) /\ Unpaged(W, s)
      BY <2>10, <2>14 DEF QueueGood, Unpaged
    <2> QED BY <2>9, <2>12, <2>13, <2>14, <2>15
  <1> QED BY <1>1, <1>2

-----------------------------------------------------------------------------
(* Connections *)

\* NoConn is a connection on which nothing is secured.
LEMMA NoConnIs == NoConn \in Connection /\ ~NoConn.sec
  <1>1. 1 \in Bts
    BY PagingBoundsAssumption DEF Bts
  <1> QED BY <1>1 DEF NoConn, Connection

\* The connection replaced: the queue and the pagings are untouched.
LEMMA ConnGood ==
    ASSUME NEW S, Fine(S), NEW s \in Subs, NEW x \in Connection, NEW d, d = PutConn(S, s, x)
    PROVE  /\ Fine(d) /\ Apart(S, d, s) /\ d.conn[s] = x
           /\ d.bts = S.bts /\ d.sub = S.sub
           /\ Good(S, s) /\ x.sec = S.conn[s].sec /\ (x.sec => SecQuiet(x)) => Good(d, s)
           /\ QueueGood(S, s) /\ Watched(S, s) /\ ~x.sec => Good(d, s)
  <1>1. Fine(d) /\ Apart(S, d, s) /\ d.bts = S.bts /\ d.sub = S.sub /\ d.conn[s] = x
    BY ConnFine
  <1>2. /\ QueueGood(S, s) => QueueGood(d, s)
        /\ Watched(S, s) => Watched(d, s)
        /\ Pending(d, s) => Pending(S, s)
    BY <1>1, Unmoved
  <1> QED BY <1>1, <1>2 DEF Good

\* msc_release_connection(): the connection stays, or the queue goes on without it.
LEMMA ReleaseGood ==
    ASSUME NEW S, Fine(S), NEW s \in Subs, NEW T, T = msc_release_connection(S, s)
    PROVE  /\ Fine(T) /\ Apart(S, T, s) /\ T.conn[s] \in {S.conn[s], NoConn}
           /\ Good(S, s) => Good(T, s)
  <1>1. PICK c : c = S.conn[s]
    OBVIOUS
  <1>2. CASE ~c.up \/ c.anchor \/ c.sec \/ c.silent \/ c.users # {} \/ c.leftover
    <2>1. T = S
      BY <1>1, <1>2 DEF msc_release_connection
    <2> QED BY <2>1 DEF Apart
  <1>3. CASE ~(~c.up \/ c.anchor \/ c.sec \/ c.silent \/ c.users # {} \/ c.leftover)
    <2>1. PICK x : x = NoConn
      OBVIOUS
    <2>2. x \in Connection /\ ~x.sec
      BY <2>1, NoConnIs
    <2>3. PICK U : U = PutConn(S, s, x)
      OBVIOUS
    <2>4. /\ Fine(U) /\ Apart(S, U, s) /\ U.conn[s] = x
          /\ QueueGood(S, s) /\ Watched(S, s) /\ ~x.sec => Good(U, s)
      BY <2>2, <2>3, ConnGood
    <2>5. Good(S, s) => Good(U, s)
      BY <1>1, <1>3, <2>2, <2>4 DEF Good
    <2>6. PICK V : V = subscr_put_channel(U, s)
      OBVIOUS
    <2>7. /\ Queues(U, V, s)
          /\ QueueGood(U, s) /\ (U.sub[s].requests = <<>> => ~Pending(U, s)) => QueueGood(V, s) /\ Watched(V, s)
      <3>1. Fine(U)
        BY <2>4
      <3> QED BY <2>6, <3>1, PutGood
    <2>8. T = IF c.put_channel THEN V ELSE U
      BY <1>1, <1>3, <2>1, <2>3, <2>6 DEF msc_release_connection, PutConn
    <2>9. Fine(V) /\ Apart(S, V, s) /\ V.conn[s] = x
      BY <2>4, <2>7, ApartTrans DEF Queues
    <2>10. Good(S, s) => Good(V, s)
      BY <2>2, <2>4, <2>5, <2>7, <2>9 DEF Good, Watched
    <2> QED BY <2>1, <2>4, <2>5, <2>8, <2>9, <2>10
  <1> QED BY <1>2, <1>3

\* A change of the connection, then its release.
LEMMA ChangeReleaseGood ==
    ASSUME NEW S, Fine(S), NEW s \in Subs, NEW x \in Connection, NEW T, T = msc_release_connection(PutConn(S, s, x), s)
    PROVE  /\ Fine(T) /\ Apart(S, T, s) /\ T.conn[s] \in {x, NoConn}
           /\ Good(S, s) /\ x.sec = S.conn[s].sec /\ (x.sec => SecQuiet(x)) => Good(T, s)
           /\ QueueGood(S, s) /\ Watched(S, s) /\ ~x.sec => Good(T, s)
  <1>1. PICK U : U = PutConn(S, s, x)
    OBVIOUS
  <1>2. /\ Fine(U) /\ Apart(S, U, s) /\ U.conn[s] = x
        /\ U.bts = S.bts /\ U.sub = S.sub
        /\ Good(S, s) /\ x.sec = S.conn[s].sec /\ (x.sec => SecQuiet(x)) => Good(U, s)
        /\ QueueGood(S, s) /\ Watched(S, s) /\ ~x.sec => Good(U, s)
    BY <1>1, ConnGood
  <1>3. PICK W : W = msc_release_connection(U, s)
    OBVIOUS
  <1>4. /\ Fine(W) /\ Apart(U, W, s) /\ W.conn[s] \in {U.conn[s], NoConn}
        /\ Good(U, s) => Good(W, s)
    <2>1. Fine(U)
      BY <1>2
    <2> QED BY <1>3, <2>1, ReleaseGood
  <1>5. T = W
    BY <1>1, <1>3
  <1> QED BY <1>2, <1>4, <1>5, ApartTrans

\* One base station replaced.
PutBt(S, b, p) == [S EXCEPT !.bts[b] = p]

\* Replacing a base station by one that differs only for s keeps the state in order.
LEMMA BtFine ==
    ASSUME NEW S, Fine(S), NEW b \in Bts, NEW s \in Subs, NEW p, BtsGood(p), SameBut(S.bts[b], p, s),
           NEW d, d = PutBt(S, b, p)
    PROVE  /\ Fine(d) /\ Apart(S, d, s) /\ d.sub = S.sub /\ d.conn = S.conn
           /\ d.bts[b] = p /\ \A x \in Bts \ {b} : d.bts[x] = S.bts[x]
  <1>1. S \in NetState /\ S.bts \in [Bts -> PagingState]
    BY DEF Fine, NetState
  <1>2. PICK f : f = [S.bts EXCEPT ![b] = p]
    OBVIOUS
  <1>3. f = [x \in Bts |-> f[x]] /\ f[b] = p /\ \A x \in Bts \ {b} : f[x] = S.bts[x]
    BY <1>1, <1>2
  <1>4. d = PutBts(S, f)
    BY <1>1, <1>2 DEF PutBt, PutBts, NetState
  <1>5. \A x \in Bts : BtsGood(f[x]) /\ SameBut(S.bts[x], f[x], s)
    BY <1>3, SameButSelf DEF Fine
  <1>6. Fine(d) /\ Apart(S, d, s) /\ d.bts = f /\ d.sub = S.sub /\ d.conn = S.conn
    BY <1>3, <1>4, <1>5, BtsFine
  <1> QED BY <1>3, <1>6

\* The request of s on base station b is removed, nothing else: the others are paged as before.
Drop(S, b, s) == [S EXCEPT !.bts[b] = Removed(S.bts[b], s)]
Dropped(S, d, b, s) ==
    /\ Fine(d) /\ Apart(S, d, s) /\ d.sub = S.sub /\ d.conn = S.conn
    /\ Cb(d.bts[b], s) = {} /\ \A x \in Bts \ {b} : d.bts[x] = S.bts[x]
    /\ QueueGood(S, s) => QueueGood(d, s)

\* _paging_request_stop() on one base station removes the request of s and nothing else.
LEMMA DropFine ==
    ASSUME NEW S, Fine(S), NEW b \in Bts, NEW s \in Subs, NEW d, d = Drop(S, b, s)
    PROVE  Dropped(S, d, b, s)
  <1>1. PICK p : p = Removed(S.bts[b], s)
    OBVIOUS
  <1>2. BtsGood(p) /\ Cb(p, s) = {} /\ SameBut(S.bts[b], p, s)
    <2>1. PICK o : o = S.bts[b]
      OBVIOUS
    <2>2. BtsGood(o)
      BY <2>1 DEF Fine
    <2>3. p = Removed(o, s)
      BY <1>1, <2>1
    <2>4. BtsGood(p) /\ Cb(p, s) = {} /\ SameBut(o, p, s)
      BY <2>2, <2>3, RemovedGood
    <2> QED BY <2>1, <2>4
  <1>3. PICK W : W = PutBt(S, b, p)
    OBVIOUS
  <1>4. /\ Fine(W) /\ Apart(S, W, s) /\ W.sub = S.sub /\ W.conn = S.conn
        /\ W.bts[b] = p /\ \A x \in Bts \ {b} : W.bts[x] = S.bts[x]
    BY <1>2, <1>3, BtFine
  <1>5. d = W
    BY <1>1, <1>3 DEF Drop, PutBt
  <1>6. \A x \in Bts : Cb(d.bts[x], s) \subseteq Cb(S.bts[x], s)
    BY <1>2, <1>4, <1>5
  <1>7. QueueGood(S, s) => QueueGood(d, s)
    BY <1>4, <1>5, <1>6 DEF QueueGood
  <1> QED BY <1>2, <1>4, <1>5, <1>7 DEF Dropped

\* paging_request_stop() once more.
Stopped(S, T, s) ==
    /\ Fine(T) /\ Apart(S, T, s) /\ T.sub = S.sub /\ T.conn = S.conn
    /\ \A b \in Bts : /\ env.lac[b] = S.sub[s].lac => Cb(T.bts[b], s) = {}
                      /\ env.lac[b] # S.sub[s].lac => Cb(T.bts[b], s) = Cb(S.bts[b], s)

\* paging_request_stop() ends the paging in the subscriber's area, and only there.
LEMMA StopStops ==
    ASSUME NEW S, Fine(S), NEW s \in Subs, NEW T, T = StopInLac(S, s)
    PROVE  Stopped(S, T, s)
  BY StopFine, ZenonT(80) DEF Stopped

\* A new connection of the MS.
Fresh(x) == x \in Connection /\ ~x.sec /\ SecQuiet(x)

\* The connection an MS opens is fresh: nothing is pending on it.
LEMMA NewConnIs ==
    ASSUME NEW S, NEW s \in Subs, NEW b \in Bts
    PROVE  \E x : Fresh(x) /\ NewConn(S, s, b) = PutConn(S, s, x)
  <1>1. PICK x : x = [NoConn EXCEPT !.up = TRUE, !.bts = b, !.anchor = TRUE]
    OBVIOUS
  <1>2. x \in Connection
    BY <1>1 DEF NoConn, Connection
  <1>3. x.up /\ ~x.sec /\ x.users = {} /\ ~x.put_channel /\ ~x.leftover /\ ~x.silent
    BY <1>1 DEF NoConn
  <1>4. NewConn(S, s, b) = PutConn(S, s, x)
    BY <1>1 DEF NewConn, PutConn
  <1> QED BY <1>2, <1>3, <1>4 DEF Fresh, SecQuiet

\* What gsm48_handle_paging_resp() does to the connection and the queue, before the pagings are stopped.
LEMMA AnswerGood ==
    ASSUME NEW S, Fine(S), NEW s \in Subs, NEW b \in Bts, NEW encr \in BOOLEAN, Fresh(S.conn[s]),
           NEW T, T = PagingResponse(S, s, b, encr)
    PROVE  /\ Fine(T) /\ Apart(S, T, s)
           /\ QueueGood(S, s) /\ Watched(S, s) /\ (Cb(S.bts[b], s) # {} \/ ~Pending(S, s)) => Good(T, s)
  <1>0. PICK c : c = S.conn[s]
    OBVIOUS
  <1>1. c \in Connection /\ ~c.sec /\ SecQuiet(c)
    BY <1>0 DEF Fresh
  <1>2. PICK V : V = CASE Of(S, b, s) = {} -> S
                       [] Of(S, b, s) # {} /\ S.bts[b].reqs[CHOOSE i \in Of(S, b, s) : TRUE].cb = "silent" ->
                            [S EXCEPT !.conn[s].silent = TRUE]
                       [] Of(S, b, s) # {} /\ S.bts[b].reqs[CHOOSE i \in Of(S, b, s) : TRUE].cb = "subscr" ->
                            IF encr THEN [S EXCEPT !.conn[s].sec = TRUE] ELSE DispatchSuccess(S, s)
    OBVIOUS
  <1>3. PICK W : W = Drop(V, b, s)
    OBVIOUS
  <1>4. PICK X : X = StopInLac(W, s)
    OBVIOUS
  <1>5. ASSUME Of(S, b, s) # {}
        PROVE  \E cb \in Cb(S.bts[b], s) : /\ cb \in {"subscr", "silent"}
                                           /\ cb = S.bts[b].reqs[CHOOSE i \in Of(S, b, s) : TRUE].cb
    <2>1. PICK i : i = CHOOSE k \in Of(S, b, s) : TRUE
      OBVIOUS
    <2>2. i \in Of(S, b, s)
      BY <1>5, <2>1
    <2>3. PICK p : p = S.bts[b]
      OBVIOUS
    <2>4. p \in PagingState /\ p.reqs \in Seq(PagingRequest)
      BY <2>3 DEF Fine, BtsGood, PagingState
    <2>5. i \in DOMAIN p.reqs /\ p.reqs[i].sub = s
      BY <2>2, <2>3 DEF Of
    <2>6. p.reqs[i] \in PagingRequest
      BY <2>4, <2>5
    <2>7. p.reqs[i].cb \in {"subscr", "silent"}
      BY <2>6 DEF PagingRequest
    <2>8. p.reqs[i].cb \in Cb(p, s)
      BY <2>5 DEF Cb
    <2> QED BY <2>1, <2>3, <2>7, <2>8
  <1>6. T = X
    <2>1. CASE Of(S, b, s) = {}
      BY <1>2, <1>3, <1>4, <2>1 DEF PagingResponse, Drop
    <2>2. CASE Of(S, b, s) # {}
      <3>1. PICK cb \in {"subscr", "silent"} : cb = S.bts[b].reqs[CHOOSE i \in Of(S, b, s) : TRUE].cb
        BY <1>5, <2>2
      <3>2. V = CASE cb = "none"   -> S
                  [] cb = "silent" -> [S EXCEPT !.conn[s].silent = TRUE]
                  [] cb = "subscr" -> IF encr THEN [S EXCEPT !.conn[s].sec = TRUE] ELSE DispatchSuccess(S, s)
        <4>1. CASE cb = "silent"
          BY <1>2, <2>2, <3>1, <4>1
        <4>2. CASE cb = "subscr"
          BY <1>2, <2>2, <3>1, <4>2
        <4> QED BY <4>1, <4>2
      <3> QED BY <1>3, <1>4, <2>2, <3>1, <3>2 DEF PagingResponse, Drop
    <2> QED BY <2>1, <2>2
  \* The connection, and what is left of the queue.
  <1>7. /\ Fine(V) /\ Apart(S, V, s) /\ V.bts = S.bts /\ V.sub[s].lac = S.sub[s].lac
        /\ QueueGood(S, s) /\ Watched(S, s) /\ (Cb(S.bts[b], s) # {} \/ ~Pending(S, s)) =>
              /\ QueueGood(V, s)
              /\ V.conn[s].sec => SecQuiet(V.conn[s])
              /\ ~V.conn[s].sec => Unpaged(V, s)
    <2>1. CASE Of(S, b, s) = {}
      <3>1. V = S
        BY <1>2, <2>1
      <3>2. Cb(S.bts[b], s) = {}
        BY <2>1, OfCb DEF paging_pending_request
      <3>3. QueueGood(S, s) /\ Watched(S, s) /\ ~Pending(S, s) => Unpaged(S, s)
        <4>1. PICK q : q = S.sub[s].requests
          OBVIOUS
        <4>2. q \in Seq(SubscrRequest)
          BY <4>1 DEF Fine, NetState, Subscriber
        <4>3. ASSUME NEW i \in DOMAIN q
              PROVE  q[i].state \in {"QUEUED", "PAGED"} /\ q # <<>>
          <5>1. q[i] \in SubscrRequest
            BY <4>2
          <5> QED BY <5>1 DEF SubscrRequest
        <4> QED BY <4>1, <4>3 DEF QueueGood, Watched, Unpaged
      <3> QED BY <1>0, <1>1, <3>1, <3>2, <3>3 DEF Apart
    <2>2. CASE Of(S, b, s) # {}
      <3>1. PICK cb \in Cb(S.bts[b], s) : /\ cb \in {"subscr", "silent"}
                                          /\ cb = S.bts[b].reqs[CHOOSE i \in Of(S, b, s) : TRUE].cb
        BY <1>5, <2>2
      <3>2. CASE cb = "silent"
        <4>1. ~QueueGood(S, s)
          BY <3>1, <3>2 DEF QueueGood
        <4>2. PICK x : x = [c EXCEPT !.silent = TRUE]
          OBVIOUS
        <4>3. x \in Connection
          BY <1>1, <4>2 DEF Connection
        <4>4. V = PutConn(S, s, x)
          BY <1>0, <1>2, <2>2, <3>1, <3>2, <4>2 DEF PutConn
        <4>5. Fine(V) /\ Apart(S, V, s) /\ V.bts = S.bts /\ V.sub = S.sub /\ V.conn[s] = x
          BY <4>3, <4>4, ConnFine
        <4> QED BY <4>1, <4>5
      <3>3. CASE cb = "subscr" /\ encr
        <4>1. PICK x : x = [c EXCEPT !.sec = TRUE]
          OBVIOUS
        <4>2. x \in Connection
          BY <1>1, <4>1 DEF Connection
        <4>3. x.sec /\ SecQuiet(x)
          BY <1>1, <4>1 DEF Connection, SecQuiet
        <4>4. V = PutConn(S, s, x)
          BY <1>0, <1>2, <2>2, <3>1, <3>3, <4>1 DEF PutConn
        <4>5. Fine(V) /\ Apart(S, V, s) /\ V.bts = S.bts /\ V.sub = S.sub /\ V.conn[s] = x
          BY <4>2, <4>4, ConnFine
        <4>6. QueueGood(S, s) => QueueGood(V, s)
          BY <4>5, Unmoved
        <4> QED BY <4>3, <4>5, <4>6
      <3>4. CASE cb = "subscr" /\ ~encr
        <4>1. V = DispatchSuccess(S, s)
          BY <1>2, <2>2, <3>1, <3>4
        <4>2. /\ Fine(V) /\ Apart(S, V, s) /\ V.bts = S.bts /\ V.sub[s].lac = S.sub[s].lac
              /\ V.conn[s].sec = S.conn[s].sec
              /\ QueueGood(S, s) => QueueGood(V, s) /\ Unpaged(V, s)
          BY <4>1, SuccessGood
        <4> QED BY <1>0, <1>1, <4>2
      <3> QED BY <3>1, <3>2, <3>3, <3>4
    <2> QED BY <2>1, <2>2
  <1>8. /\ Fine(W) /\ Apart(V, W, s) /\ W.sub = V.sub /\ W.conn = V.conn
        /\ Cb(W.bts[b], s) = {} /\ \A x \in Bts \ {b} : W.bts[x] = V.bts[x]
        /\ QueueGood(V, s) => QueueGood(W, s)
    <2>1. Fine(V)
      BY <1>7
    <2>2. Dropped(V, W, b, s)
      BY <1>3, <2>1, DropFine
    <2> QED BY <2>2 DEF Dropped
  <1>9. /\ Fine(X) /\ Apart(W, X, s) /\ X.sub = W.sub /\ X.conn = W.conn
        /\ \A x \in Bts : /\ env.lac[x] = W.sub[s].lac => Cb(X.bts[x], s) = {}
                          /\ env.lac[x] # W.sub[s].lac => Cb(X.bts[x], s) = Cb(W.bts[x], s)
    <2>1. Fine(W)
      BY <1>8
    <2>2. Stopped(W, X, s)
      BY <1>4, <2>1, StopStops
    <2> QED BY <2>2 DEF Stopped
  <1>10. Apart(S, W, s)
    BY <1>7, <1>8, ApartTrans
  <1>11. Apart(S, X, s)
    BY <1>9, <1>10, ApartTrans
  <1>12. ASSUME QueueGood(S, s), Watched(S, s), Cb(S.bts[b], s) # {} \/ ~Pending(S, s)
         PROVE  Good(X, s)
    <2>1. QueueGood(W, s)
      BY <1>7, <1>8, <1>12
    <2>2. \A x \in Bts : Cb(X.bts[x], s) = {}
      BY <1>9, <2>1 DEF QueueGood
    <2>3. ~Pending(X, s)
      BY <2>2 DEF Pending
    <2>4. QueueGood(X, s)
      BY <1>9, <2>1, <2>2 DEF QueueGood
    <2>5. X.conn[s] = V.conn[s] /\ X.sub[s] = V.sub[s]
      BY <1>8, <1>9
    <2>6. CASE V.conn[s].sec
      BY <1>7, <1>12, <2>3, <2>4, <2>5, <2>6 DEF Good
    <2>7. CASE ~V.conn[s].sec
      <3>1. Unpaged(X, s)
        BY <1>7, <1>12, <2>5, <2>7 DEF Unpaged
      <3>2. Watched(X, s)
        BY <1>9, <2>3, <3>1, UnpagedWatched
      <3> QED BY <2>4, <2>5, <2>7, <3>2 DEF Good
    <2> QED BY <2>6, <2>7
  <1> QED BY <1>6, <1>9, <1>11, <1>12

-----------------------------------------------------------------------------
(* The steps *)

\* Where SMS are sent, an area has one base station: subscr_paging_dispatch() stops the pagings of the
\* area the subscriber is in after the callback, and the callback of an SMS that expired takes it out.
SmsAlone ==
    \A e \in Envs : e.faults \cap {"leaves", "early_use", "silent", "vty"} = {} /\ "sms" \in e.users =>
        \A a, b \in Bts : e.lac[a] = e.lac[b] => a = b

PgInv == Fine(net) /\ env \in Envs /\ (Tame => \A s \in Subs : Good(net, s))

\* The state and the surroundings after a step.
LEMMA StateAfter ==
    ASSUME PgInv, NEW T, Fine(T), Tame => \A t \in Subs : Good(T, t), Becomes(T)
    PROVE  PgInv'
  <1>1. net' = T /\ env' = env
    BY DEF Becomes
  <1>2. Tame' <=> Tame
    BY <1>1 DEF Tame
  <1>3. ASSUME NEW t \in Subs, Good(T, t)
        PROVE  Good(net, t)'
    BY <1>1, <1>3 DEF Good, QueueGood, Watched, Pending
  <1>4. Fine(net)' /\ (env \in Envs)'
    BY <1>1 DEF PgInv
  <1> QED BY <1>2, <1>3, <1>4 DEF PgInv

\* A step of one subscriber.
LEMMA SubStep ==
    ASSUME PgInv, NEW s \in Subs, NEW T, Fine(T), Apart(net, T, s), Tame => Good(T, s), Becomes(T)
    PROVE  PgInv'
  <1>1. ASSUME Tame, NEW t \in Subs
        PROVE  Good(T, t)
    <2>1. CASE t = s
      BY <1>1, <2>1
    <2>2. CASE t # s
      BY <1>1, <2>2, ApartGood DEF PgInv
    <2> QED BY <2>1, <2>2
  <1> QED BY <1>1, StateAfter

\* A step of a base station that leaves its requests alone.
LEMMA BtStep ==
    ASSUME PgInv, NEW b \in Bts, NEW p, BtsGood(p), Same(net.bts[b], p), NEW T, T = PutBt(net, b, p), Becomes(T)
    PROVE  PgInv'
  <1>0. Fine(net)
    BY DEF PgInv
  <1>1. CASE Subs = {}
    <2>1. net \in NetState /\ net.bts \in [Bts -> PagingState]
      BY <1>0 DEF Fine, NetState
    <2>2. PICK f : f = [net.bts EXCEPT ![b] = p]
      OBVIOUS
    <2>3. f \in [Bts -> PagingState] /\ \A x \in Bts : BtsGood(f[x])
      BY <1>0, <2>1, <2>2 DEF Fine, BtsGood
    <2>4. T = PutBts(net, f)
      BY <2>1, <2>2 DEF PutBt, PutBts, NetState
    <2>5. Fine(T)
      BY <2>1, <2>3, <2>4, SetBts DEF Fine
    <2> QED BY <1>1, <2>5, StateAfter
  <1>2. CASE Subs # {}
    <2>1. PICK s \in Subs : TRUE
      BY <1>2
    <2>2. \A t \in Subs : SameBut(net.bts[b], p, t)
      BY DEF Same, SameBut
    <2>3. ASSUME NEW t \in Subs
          PROVE  /\ Fine(T) /\ T.sub = net.sub /\ T.conn = net.conn
                 /\ T.bts[b] = p /\ \A x \in Bts \ {b} : T.bts[x] = net.bts[x]
      <3>1. SameBut(net.bts[b], p, t)
        BY <2>2
      <3> QED BY <1>0, <3>1, BtFine
    <2>4. ASSUME Tame, NEW t \in Subs
          PROVE  Good(T, t)
      <3>1. \A x \in Bts : Cb(T.bts[x], t) = Cb(net.bts[x], t)
        BY <2>3 DEF Same
      <3>2. T.sub = net.sub /\ T.conn = net.conn
        BY <2>3
      <3>3. Good(net, t)
        BY <2>4 DEF PgInv
      <3>4. Pending(T, t) <=> Pending(net, t)
        BY <3>1 DEF Pending
      <3> QED BY <3>1, <3>2, <3>3, <3>4 DEF Good, QueueGood, Watched
    <2>5. Fine(T)
      BY <2>1, <2>3
    <2> QED BY <2>4, <2>5, StateAfter
  <1> QED BY <1>1, <1>2

\* The work of a base station.
LEMMA BtsSteps ==
    ASSUME PgInv, NEW b \in Bts, Worker(b) \/ Credit(b) \/ BufferSpace(b) \/ BtsUpOrDown(b)
    PROVE  PgInv'
  <1>0. PICK o : o = net.bts[b]
    OBVIOUS
  <1>1. BtsGood(o)
    BY <1>0 DEF PgInv, Fine
  <1>2. CASE Worker(b)
    <2>1. PICK skip \in BOOLEAN : Becomes([net EXCEPT !.bts[b] = paging_worker(@, skip)])
      BY <1>2 DEF Worker
    <2>2. PICK p : p = paging_worker(o, skip)
      OBVIOUS
    <2>3. BtsGood(p) /\ Same(o, p)
      BY <1>1, <2>2, WorkerGood
    <2>4. PICK T : T = PutBt(net, b, p)
      OBVIOUS
    <2>5. Becomes(T)
      BY <1>0, <2>1, <2>2, <2>4 DEF PutBt
    <2> QED BY <1>0, <2>3, <2>4, <2>5, BtStep
  <1>3. CASE Credit(b)
    <2>1. PICK skip \in BOOLEAN : Becomes([net EXCEPT !.bts[b] = paging_give_credit(@, skip)])
      BY <1>3 DEF Credit
    <2>2. PICK p : p = paging_give_credit(o, skip)
      OBVIOUS
    <2>3. BtsGood(p) /\ Same(o, p)
      BY <1>1, <2>2, CreditGood
    <2>4. PICK T : T = PutBt(net, b, p)
      OBVIOUS
    <2>5. Becomes(T)
      BY <1>0, <2>1, <2>2, <2>4 DEF PutBt
    <2> QED BY <1>0, <2>3, <2>4, <2>5, BtStep
  <1>4. CASE BufferSpace(b)
    <2>1. PICK n \in 0..Slots : Becomes([net EXCEPT !.bts[b] = paging_update_buffer_space(@, n)])
      BY <1>4 DEF BufferSpace
    <2>2. PICK p : p = paging_update_buffer_space(o, n)
      OBVIOUS
    <2>3. BtsGood(p) /\ Same(o, p)
      BY <1>1, <2>2, BufferGood
    <2>4. PICK T : T = PutBt(net, b, p)
      OBVIOUS
    <2>5. Becomes(T)
      BY <1>0, <2>1, <2>2, <2>4 DEF PutBt
    <2> QED BY <1>0, <2>3, <2>4, <2>5, BtStep
  <1>5. CASE BtsUpOrDown(b)
    <2>1. Becomes([net EXCEPT !.bts[b].usable = ~@])
      BY <1>5 DEF BtsUpOrDown
    <2>2. PICK p : p = [o EXCEPT !.usable = ~o.usable]
      OBVIOUS
    <2>3. BtsGood(p) /\ Same(o, p)
      BY <1>1, <2>2, UsableGood
    <2>4. PICK T : T = PutBt(net, b, p)
      OBVIOUS
    <2>5. Becomes(T)
      BY <1>0, <2>1, <2>2, <2>4 DEF PutBt
    <2> QED BY <1>0, <2>3, <2>4, <2>5, BtStep
  <1> QED BY <1>2, <1>3, <1>4, <1>5

\* T3113 expires: the request it belongs to is told, the next one paged for.
LEMMA T3113Step ==
    ASSUME SmsAlone, PgInv, NEW b \in Bts, NEW s \in Subs, paging_T3113_expired(b, s)
    PROVE  PgInv'
  <1>0. Fine(net)
    BY DEF PgInv
  <1>1. PICK i \in Of(net, b, s) :
            Becomes(IF net.bts[b].reqs[i].cb = "subscr"
                    THEN DispatchFailure([net EXCEPT !.bts[b] = Removed(@, s)], s,
                                         IF net.bts[b].reqs[i].paged THEN "EXPIRED" ELSE "BUSY")
                    ELSE [net EXCEPT !.bts[b] = Removed(@, s)])
    BY DEF paging_T3113_expired
  <1>2. PICK S : S = Drop(net, b, s)
    OBVIOUS
  <1>3. Dropped(net, S, b, s)
    BY <1>0, <1>2, DropFine
  <1>4. /\ Fine(S) /\ Apart(net, S, s) /\ S.sub = net.sub /\ S.conn = net.conn
        /\ Cb(S.bts[b], s) = {} /\ \A x \in Bts \ {b} : S.bts[x] = net.bts[x]
        /\ QueueGood(net, s) => QueueGood(S, s)
    BY <1>3 DEF Dropped
  <1>5. PICK cb : cb = net.bts[b].reqs[i].cb
    OBVIOUS
  <1>6. PICK event : event = IF net.bts[b].reqs[i].paged THEN "EXPIRED" ELSE "BUSY"
    OBVIOUS
  <1>7. cb \in Cb(net.bts[b], s)
    BY <1>5 DEF Of, Cb
  <1>8. Becomes(IF cb = "subscr" THEN DispatchFailure(S, s, event) ELSE S)
    BY <1>1, <1>2, <1>5, <1>6 DEF Drop
  <1>9. CASE cb = "subscr"
    <2>1. PICK T : T = DispatchFailure(S, s, event)
      OBVIOUS
    <2>2. /\ Fine(T) /\ Apart(S, T, s) /\ T.conn = S.conn
          /\ QueueGood(S, s) /\ ("sms" \in env.users \/ S.sub[s].requests = <<>> => ~Pending(S, s))
               => QueueGood(T, s) /\ Watched(T, s)
      BY <1>4, <2>1, FailureGood
    <2>3. ASSUME Tame
          PROVE  Good(T, s)
      <3>1. Good(net, s) /\ Pending(net, s)
        BY <2>3, <1>7 DEF PgInv, Pending
      <3>2. ~net.conn[s].sec /\ QueueGood(net, s) /\ net.sub[s].requests # <<>>
        BY <3>1 DEF Good, Watched
      <3>3. "sms" \in env.users => ~Pending(S, s)
        <4> SUFFICES ASSUME "sms" \in env.users, NEW x \in Bts, Cb(S.bts[x], s) # {}
                     PROVE  FALSE
          BY DEF Pending
        <4>1. x # b /\ Cb(net.bts[x], s) # {}
          BY <1>4
        <4>2. env.lac[x] = net.sub[s].lac /\ env.lac[b] = net.sub[s].lac
          BY <1>7, <3>2, <4>1 DEF QueueGood
        <4>3. env \in Envs /\ env.faults \cap {"leaves", "early_use", "silent", "vty"} = {}
          BY <2>3 DEF PgInv, Tame
        <4> QED BY <4>1, <4>2, <4>3 DEF SmsAlone
      <3>4. QueueGood(T, s) /\ Watched(T, s)
        BY <1>4, <2>2, <3>2, <3>3
      <3>5. ~T.conn[s].sec
        BY <1>4, <2>2, <3>2
      <3> QED BY <3>4, <3>5 DEF Good
    <2>4. Apart(net, T, s)
      BY <1>4, <2>2, ApartTrans
    <2>5. Becomes(T)
      BY <1>8, <1>9, <2>1
    <2> QED BY <2>2, <2>3, <2>4, <2>5, SubStep
  <1>10. CASE cb # "subscr"
    <2>1. ~Tame
      BY <1>7, <1>10 DEF PgInv, Good, QueueGood
    <2>2. Becomes(S)
      BY <1>8, <1>10
    <2> QED BY <1>4, <2>1, <2>2, SubStep
  <1> QED BY <1>9, <1>10

\* A new connection is good when nothing is secured on the old one.
LEMMA NewConnGood ==
    ASSUME NEW S, Fine(S), NEW s \in Subs, NEW b \in Bts, NEW T, T = NewConn(S, s, b)
    PROVE  /\ Fine(T) /\ Apart(S, T, s) /\ Fresh(T.conn[s]) /\ T.bts = S.bts /\ T.sub = S.sub
           /\ QueueGood(S, s) /\ Watched(S, s) => Good(T, s) /\ QueueGood(T, s) /\ Watched(T, s)
  <1>1. PICK x : Fresh(x) /\ NewConn(S, s, b) = PutConn(S, s, x)
    BY NewConnIs
  <1>2. x \in Connection /\ ~x.sec
    BY <1>1 DEF Fresh
  <1>3. PICK W : W = PutConn(S, s, x)
    OBVIOUS
  <1>4. /\ Fine(W) /\ Apart(S, W, s) /\ W.conn[s] = x
        /\ W.bts = S.bts /\ W.sub = S.sub
        /\ QueueGood(S, s) /\ Watched(S, s) /\ ~x.sec => Good(W, s)
    BY <1>2, <1>3, ConnGood
  <1>5. T = W
    BY <1>1, <1>3
  <1>6. Good(W, s) => QueueGood(W, s) /\ Watched(W, s)
    BY <1>2, <1>4 DEF Good
  <1> QED BY <1>1, <1>2, <1>4, <1>5, <1>6

\* A subscriber without a connection is not being secured.
LEMMA DownGood ==
    ASSUME NEW S, NEW s \in Subs, ~S.conn[s].up, Good(S, s)
    PROVE  QueueGood(S, s) /\ Watched(S, s) /\ ~S.conn[s].sec
  BY DEF Good, SecQuiet

\* The MS answers, or connects for reasons of its own.
LEMMA MsSteps ==
    ASSUME PgInv, NEW b \in Bts, NEW s \in Subs, MsAnswers(s, b) \/ MsConnects(s, b)
    PROVE  PgInv'
  <1>0. Fine(net) /\ ~net.conn[s].up
    BY DEF PgInv, MsAnswers, MsConnects, Conn
  <1>1. PICK S : S = NewConn(net, s, b)
    OBVIOUS
  <1>2. /\ Fine(S) /\ Apart(net, S, s) /\ Fresh(S.conn[s]) /\ S.bts = net.bts /\ S.sub = net.sub
        /\ QueueGood(net, s) /\ Watched(net, s) => Good(S, s) /\ QueueGood(S, s) /\ Watched(S, s)
    BY <1>0, <1>1, NewConnGood
  <1>3. Tame => Good(S, s) /\ QueueGood(S, s) /\ Watched(S, s)
    BY <1>0, <1>2, DownGood DEF PgInv
  <1>4. CASE MsConnects(s, b)
    <2>1. Becomes(S)
      BY <1>1, <1>4 DEF MsConnects
    <2> QED BY <1>2, <1>3, <2>1, SubStep
  <1>5. CASE MsAnswers(s, b)
    <2>1. PICK encr \in BOOLEAN : Becomes(PagingResponse(S, s, b, encr))
      BY <1>1, <1>5 DEF MsAnswers
    <2>2. PICK T : T = PagingResponse(S, s, b, encr)
      OBVIOUS
    <2>3. /\ Fine(T) /\ Apart(S, T, s)
          /\ QueueGood(S, s) /\ Watched(S, s) /\ (Cb(S.bts[b], s) # {} \/ ~Pending(S, s)) => Good(T, s)
      BY <1>2, <2>2, AnswerGood
    <2>4. Cb(S.bts[b], s) # {} \/ ~Pending(S, s)
      <3>1. \/ Of(net, b, s) # {}
            \/ \A x \in Bts : ~paging_pending_request(net, x, s)
        BY <1>5 DEF MsAnswers
      <3>2. CASE Of(net, b, s) # {}
        BY <1>2, <3>2 DEF Of, Cb
      <3>3. CASE \A x \in Bts : ~paging_pending_request(net, x, s)
        BY <1>2, <3>3, OfCb DEF Pending
      <3> QED BY <3>1, <3>2, <3>3
    <2>5. Apart(net, T, s)
      BY <1>2, <2>3, ApartTrans
    <2>6. Becomes(T)
      BY <2>1, <2>2
    <2> QED BY <1>3, <2>3, <2>4, <2>5, <2>6, SubStep
  <1> QED BY <1>4, <1>5

\* subscr_get_channel(): the request waits, or is paged for at once.
LEMMA GetGood ==
    ASSUME NEW S, Fine(S), NEW s \in Subs, NEW u \in Users, NEW T, T = subscr_get_channel(S, s, u)
    PROVE  /\ Fine(T) /\ Apart(S, T, s) /\ T.conn = S.conn
           /\ QueueGood(S, s) /\ Watched(S, s) /\ u \in env.users => QueueGood(T, s) /\ Watched(T, s)
  <1>1. PICK o, m : o = S.sub[s].requests /\ m = [user |-> u, state |-> "QUEUED"]
    OBVIOUS
  <1>2. o \in Seq(SubscrRequest) /\ m \in SubscrRequest /\ m.user = u /\ m.state = "QUEUED"
    BY <1>1 DEF Fine, NetState, Subscriber, SubscrRequest
  <1>3. PICK q : q = Append(o, m)
    OBVIOUS
  <1>4. /\ q \in Seq(SubscrRequest) /\ q # <<>> /\ Len(o) \in Nat /\ DOMAIN o = 1..Len(o) /\ DOMAIN q = 1..(Len(o) + 1)
        /\ q[Len(o) + 1] = m /\ \A i \in DOMAIN o : q[i] = o[i]
    BY <1>2, <1>3
  <1>5. PICK U : U = PutQueue(S, s, q)
    OBVIOUS
  <1>6. /\ Fine(U) /\ Apart(S, U, s) /\ U.bts = S.bts /\ U.conn = S.conn
        /\ U.sub[s].requests = q /\ U.sub[s].lac = S.sub[s].lac
    BY <1>4, <1>5, QueueFine
  <1>7. ASSUME QueueGood(S, s), u \in env.users
        PROVE  QueueGood(U, s)
    <2>1. \A i \in DOMAIN q : (i # 1 => q[i].state = "QUEUED") /\ q[i].user \in env.users
      <3> SUFFICES ASSUME NEW i \in DOMAIN q
                   PROVE  (i # 1 => q[i].state = "QUEUED") /\ q[i].user \in env.users
        OBVIOUS
      <3>1. CASE i \in DOMAIN o
        BY <1>1, <1>4, <1>7, <3>1 DEF QueueGood
      <3>2. CASE i \notin DOMAIN o
        BY <1>2, <1>4, <1>7, <3>2
      <3> QED BY <3>1, <3>2
    <2> QED BY <1>6, <1>7, <2>1 DEF QueueGood
  <1>8. CASE o = <<>>
    <2>1. PICK W : W = SendPaging(U, s)
      OBVIOUS
    <2>2. Queues(U, W, s) /\ (QueueGood(U, s) => QueueGood(W, s) /\ Watched(W, s))
      BY <1>4, <1>6, <2>1, SendGood
    <2>3. T = W
      BY <1>1, <1>3, <1>5, <1>8, <2>1 DEF subscr_get_channel, PutQueue
    <2> QED BY <1>6, <1>7, <2>2, <2>3, ApartTrans DEF Queues
  <1>9. CASE o # <<>>
    <2>1. T = U
      BY <1>1, <1>3, <1>5, <1>9 DEF subscr_get_channel, PutQueue
    <2>2. 1 \in DOMAIN o /\ q[1] = o[1]
      BY <1>2, <1>4, <1>9
    <2>3. Pending(U, s) <=> Pending(S, s)
      BY <1>6 DEF Pending
    <2>4. Watched(S, s) => Watched(U, s)
      BY <1>1, <1>4, <1>6, <1>9, <2>2, <2>3 DEF Watched
    <2> QED BY <1>6, <1>7, <2>1, <2>4
  <1> QED BY <1>8, <1>9

\* The flag that keeps a subscriber from being made detached is set or taken back.
PutNoDetach(S, s, f) == [S EXCEPT !.sub[s].no_detach = f]

\* The flag plays no part in whether the subscriber's paging is in order.
LEMMA NoDetachGood ==
    ASSUME NEW S, Fine(S), NEW s \in Subs, NEW f \in BOOLEAN, NEW d, d = PutNoDetach(S, s, f)
    PROVE  /\ Fine(d) /\ Apart(S, d, s) /\ d.bts = S.bts /\ d.conn = S.conn
           /\ Good(S, s) => Good(d, s)
  <1>1. PICK o, x : o = S.sub[s] /\ x = [o EXCEPT !.no_detach = f]
    OBVIOUS
  <1>2. o \in Subscriber
    BY <1>1 DEF Fine, NetState
  <1>3. x \in Subscriber
    BY <1>1, <1>2 DEF Subscriber
  <1>4. x.requests = o.requests /\ x.lac = o.lac
    BY <1>1, <1>2 DEF Subscriber
  <1>5. d = PutSub(S, s, x)
    BY <1>1 DEF PutSub, PutNoDetach
  <1>6. Fine(d) /\ Apart(S, d, s) /\ d.bts = S.bts /\ d.conn = S.conn /\ d.sub[s] = x
    BY <1>3, <1>5, SubFine
  <1>7. d.sub[s].requests = S.sub[s].requests /\ d.sub[s].lac = S.sub[s].lac
    BY <1>1, <1>4, <1>6
  <1>8. Pending(d, s) <=> Pending(S, s)
    BY <1>6 DEF Pending
  <1> QED BY <1>6, <1>7, <1>8 DEF Good, QueueGood, Watched

\* A user asks for a channel.
LEMMA RequestStep ==
    ASSUME PgInv, NEW s \in Subs, NEW u \in Users, Request(s, u)
    PROVE  PgInv'
  <1>0. Fine(net) /\ net.sub[s].no_detach \in BOOLEAN
    BY DEF PgInv, Fine, NetState, Subscriber
  <1>1. PICK f \in BOOLEAN : f = (IF u = "sms" THEN FALSE ELSE net.sub[s].no_detach)
    BY <1>0
  <1>2. PICK S : S = PutNoDetach(net, s, f)
    OBVIOUS
  <1>3. /\ Fine(S) /\ Apart(net, S, s) /\ S.bts = net.bts /\ S.conn = net.conn
        /\ Good(net, s) => Good(S, s)
    BY <1>0, <1>2, NoDetachGood
  <1>4. Tame => Good(S, s)
    BY <1>3 DEF PgInv
  <1>5. u \in env.users /\ (net.conn[s].sec => Has("early_use"))
    BY DEF Request, Conn
  <1>6. IF net.conn[s].up THEN Becomes([S EXCEPT !.conn[s].users = @ \cup {u}]) ELSE Becomes(subscr_get_channel(S, s, u))
    BY <1>1, <1>2 DEF Request, Conn, PutNoDetach
  <1>7. CASE net.conn[s].up
    <2>1. PICK c, w : c = S.conn[s] /\ w = c.users \cup {u}
      OBVIOUS
    <2>2. PICK x : x = [c EXCEPT !.users = w]
      OBVIOUS
    <2>3. c \in Connection
      BY <1>3, <2>1 DEF Fine, NetState
    <2>4. w \in SUBSET Users
      BY <2>1, <2>3 DEF Connection
    <2>5. x \in Connection
      BY <2>2, <2>3, <2>4 DEF Connection
    <2>6. x.sec = c.sec
      BY <2>2, <2>3 DEF Connection
    <2>7. PICK T : T = PutConn(S, s, x)
      OBVIOUS
    <2>8. /\ Fine(T) /\ Apart(S, T, s) /\ T.conn[s] = x
          /\ T.bts = S.bts /\ T.sub = S.sub
          /\ Good(S, s) /\ x.sec = S.conn[s].sec /\ (x.sec => SecQuiet(x)) => Good(T, s)
      BY <1>3, <2>5, <2>7, ConnGood
    <2>9. Tame => ~x.sec
      BY <1>3, <1>5, <2>1, <2>6 DEF Tame, Has
    <2>10. Becomes(T)
      BY <1>6, <1>7, <2>1, <2>2, <2>7 DEF PutConn
    <2>11. Apart(net, T, s)
      BY <1>3, <2>8, ApartTrans
    <2> QED BY <1>4, <2>1, <2>6, <2>8, <2>9, <2>10, <2>11, SubStep
  <1>8. CASE ~net.conn[s].up
    <2>1. PICK T : T = subscr_get_channel(S, s, u)
      OBVIOUS
    <2>2. /\ Fine(T) /\ Apart(S, T, s) /\ T.conn = S.conn
          /\ QueueGood(S, s) /\ Watched(S, s) /\ u \in env.users => QueueGood(T, s) /\ Watched(T, s)
      BY <1>3, <2>1, GetGood
    <2>3. Tame => QueueGood(S, s) /\ Watched(S, s) /\ ~S.conn[s].sec
      <3>1. ~S.conn[s].up
        BY <1>3, <1>8
      <3> QED BY <1>4, <3>1, DownGood
    <2>4. Tame => Good(T, s)
      BY <1>5, <2>2, <2>3 DEF Good
    <2>5. Apart(net, T, s)
      BY <1>3, <2>2, ApartTrans
    <2>6. Becomes(T)
      BY <1>6, <1>8, <2>1
    <2> QED BY <2>2, <2>4, <2>5, <2>6, SubStep
  <1> QED BY <1>7, <1>8

\* Silent calls and the operator: the surroundings are not tame.
LEMMA WildSteps ==
    ASSUME PgInv, NEW s \in Subs, SilentCall(s) \/ Operator(s)
    PROVE  PgInv'
  <1>0. Fine(net) /\ ~Tame
    BY DEF PgInv, SilentCall, Operator, Has, Tame
  <1>1. CASE SilentCall(s) /\ Becomes(paging_request(net, s, "silent"))
    <2>1. PICK cb \in {"subscr", "silent"} : cb = "silent"
      OBVIOUS
    <2>2. PICK T : T = paging_request(net, s, cb)
      OBVIOUS
    <2>3. Asked(net, T, s, cb)
      BY <1>0, <2>2, RequestFine
    <2> QED BY <1>0, <1>1, <2>1, <2>2, <2>3, SubStep DEF Asked
  <1>2. CASE SilentCall(s) /\ Becomes(msc_release_connection([net EXCEPT !.conn[s].silent = FALSE], s))
    <2>1. PICK c : c = net.conn[s]
      OBVIOUS
    <2>2. PICK x : x = [c EXCEPT !.silent = FALSE]
      OBVIOUS
    <2>3. x \in Connection
      BY <1>0, <2>1, <2>2, ZenonT(80) DEF Fine, NetState, Connection
    <2>4. PICK T : T = msc_release_connection(PutConn(net, s, x), s)
      OBVIOUS
    <2>5. Fine(T) /\ Apart(net, T, s)
      BY <1>0, <2>3, <2>4, ChangeReleaseGood
    <2>6. Becomes(T)
      BY <1>2, <2>1, <2>2, <2>4 DEF PutConn
    <2> QED BY <1>0, <2>5, <2>6, SubStep
  <1>3. CASE Becomes([net EXCEPT !.sub[s].requests = <<>>])
    <2>1. PICK q : q = <<>>
      OBVIOUS
    <2>2. q \in Seq(SubscrRequest)
      BY <2>1
    <2>3. PICK T : T = PutQueue(net, s, q)
      OBVIOUS
    <2>4. Fine(T) /\ Apart(net, T, s)
      BY <1>0, <2>2, <2>3, QueueFine
    <2>5. Becomes(T)
      BY <1>3, <2>1, <2>3 DEF PutQueue
    <2> QED BY <1>0, <2>4, <2>5, SubStep
  <1>4. CASE Becomes(subscr_put_channel(net, s))
    <2>1. PICK T : T = subscr_put_channel(net, s)
      OBVIOUS
    <2>2. Queues(net, T, s)
      BY <1>0, <2>1, PutGood
    <2> QED BY <1>0, <1>4, <2>1, <2>2, SubStep DEF Queues
  <1> QED BY <1>1, <1>2, <1>3, <1>4 DEF SilentCall, Operator

\* The connection of a subscriber is changed and perhaps released.
LEMMA ReleaseStep ==
    ASSUME PgInv, NEW s \in Subs, NEW x \in Connection, x.sec = net.conn[s].sec,
           Tame /\ x.sec => SecQuiet(x), Becomes(msc_release_connection(PutConn(net, s, x), s))
    PROVE  PgInv'
  <1>0. Fine(net)
    BY DEF PgInv
  <1>1. PICK T : T = msc_release_connection(PutConn(net, s, x), s)
    OBVIOUS
  <1>2. /\ Fine(T) /\ Apart(net, T, s)
        /\ Good(net, s) /\ x.sec = net.conn[s].sec /\ (x.sec => SecQuiet(x)) => Good(T, s)
    BY <1>0, <1>1, ChangeReleaseGood
  <1>3. Tame => Good(T, s)
    BY <1>2 DEF PgInv
  <1> QED BY <1>1, <1>2, <1>3, SubStep

\* The anchor ends, a call ends.
LEMMA EndSteps ==
    ASSUME PgInv, NEW s \in Subs, AnchorEnds(s) \/ CallEnds(s)
    PROVE  PgInv'
  <1>1. PICK c : c = net.conn[s]
    OBVIOUS
  <1>2. c \in Connection
    BY <1>1 DEF PgInv, Fine, NetState
  <1>3. Tame /\ c.sec => SecQuiet(c)
    BY <1>1 DEF PgInv, Good
  <1>4. CASE AnchorEnds(s)
    <2>1. PICK x : x = [c EXCEPT !.anchor = FALSE]
      OBVIOUS
    <2>2. x \in Connection
      BY <1>2, <2>1 DEF Connection
    <2>3. x.sec = c.sec /\ (SecQuiet(c) => SecQuiet(x))
      BY <1>2, <2>1 DEF Connection, SecQuiet
    <2>4. Becomes(msc_release_connection(PutConn(net, s, x), s))
      BY <1>1, <1>4, <2>1 DEF AnchorEnds, PutConn
    <2> QED BY <1>1, <1>3, <2>2, <2>3, <2>4, ReleaseStep
  <1>5. CASE CallEnds(s)
    <2>1. PICK w : w = c.users \ {"call"}
      OBVIOUS
    <2>2. PICK x : x = [c EXCEPT !.users = w]
      OBVIOUS
    <2>3. w \in SUBSET Users
      BY <1>2, <2>1 DEF Connection
    <2>4. x \in Connection
      BY <1>2, <2>2, <2>3 DEF Connection
    <2>5. x.sec = c.sec
      BY <1>2, <2>2 DEF Connection
    <2>6. Tame => ~c.sec
      BY <1>1, <1>3, <1>5 DEF CallEnds, Conn, SecQuiet
    <2>7. Becomes(msc_release_connection(PutConn(net, s, x), s))
      BY <1>1, <1>5, <2>1, <2>2 DEF CallEnds, PutConn
    <2> QED BY <1>1, <2>4, <2>5, <2>6, <2>7, ReleaseStep
  <1> QED BY <1>4, <1>5

\* The channel is secured, or cannot be: the head of the queue is told, and the queue goes on.
LEMMA SecurityStep ==
    ASSUME PgInv, NEW s \in Subs, SecurityEnds(s)
    PROVE  PgInv'
  <1>0. Fine(net) /\ net.conn[s].sec
    BY DEF PgInv, SecurityEnds, Conn
  <1>1. PICK S \in {DispatchSuccess(net, s), DispatchFailure(net, s, "EXPIRED")} :
            Becomes(msc_release_connection([S EXCEPT !.conn[s].sec = FALSE], s))
    BY DEF SecurityEnds
  <1>2. Tame => QueueGood(net, s) /\ ~Pending(net, s)
    BY <1>0 DEF PgInv, Good
  <1>3. Fine(S) /\ Apart(net, S, s) /\ (Tame => QueueGood(S, s) /\ Watched(S, s))
    <2>1. CASE S = DispatchSuccess(net, s)
      <3>1. /\ Fine(S) /\ Apart(net, S, s) /\ S.bts = net.bts
            /\ QueueGood(net, s) => QueueGood(S, s) /\ Unpaged(S, s)
        BY <1>0, <2>1, SuccessGood
      <3>2. Pending(S, s) <=> Pending(net, s)
        BY <3>1 DEF Pending
      <3>3. Tame => Watched(S, s)
        BY <1>2, <3>1, <3>2, UnpagedWatched
      <3> QED BY <1>2, <3>1, <3>3
    <2>2. CASE S = DispatchFailure(net, s, "EXPIRED")
      <3>1. PICK event : event = "EXPIRED"
        OBVIOUS
      <3>2. S = DispatchFailure(net, s, event)
        BY <2>2, <3>1
      <3>3. /\ Fine(S) /\ Apart(net, S, s) /\ S.conn = net.conn
            /\ QueueGood(net, s) /\ ("sms" \in env.users \/ net.sub[s].requests = <<>> => ~Pending(net, s))
                 => QueueGood(S, s) /\ Watched(S, s)
        BY <1>0, <3>2, FailureGood
      <3> QED BY <1>2, <3>3
    <2> QED BY <1>1, <2>1, <2>2
  <1>4. PICK c : c = S.conn[s]
    OBVIOUS
  <1>5. PICK x : x = [c EXCEPT !.sec = FALSE]
    OBVIOUS
  <1>6. c \in Connection
    BY <1>3, <1>4 DEF Fine, NetState
  <1>7. x \in Connection
    BY <1>5, <1>6 DEF Connection
  <1>8. ~x.sec
    BY <1>5, <1>6 DEF Connection
  <1>9. PICK T : T = msc_release_connection(PutConn(S, s, x), s)
    OBVIOUS
  <1>10. /\ Fine(T) /\ Apart(S, T, s)
         /\ QueueGood(S, s) /\ Watched(S, s) /\ ~x.sec => Good(T, s)
    BY <1>3, <1>7, <1>9, ChangeReleaseGood
  <1>11. Becomes(T)
    BY <1>1, <1>4, <1>5, <1>9 DEF PutConn
  <1>12. Apart(net, T, s)
    BY <1>3, <1>10, ApartTrans
  <1> QED BY <1>3, <1>8, <1>10, <1>11, <1>12, SubStep

\* The connection is lost: so is the security procedure, and the queue goes on.
LEMMA LostStep ==
    ASSUME PgInv, NEW s \in Subs, ConnectionLost(s)
    PROVE  PgInv'
  <1>0. Fine(net)
    BY DEF PgInv
  <1>1. PICK event : event = "EXPIRED"
    OBVIOUS
  <1>2. PICK S : S = IF net.conn[s].sec THEN DispatchFailure(net, s, event) ELSE net
    OBVIOUS
  <1>3. Fine(S) /\ Apart(net, S, s) /\ (Tame => QueueGood(S, s) /\ Watched(S, s))
    <2>1. CASE net.conn[s].sec
      <3>1. S = DispatchFailure(net, s, event)
        BY <1>2, <2>1
      <3>2. /\ Fine(S) /\ Apart(net, S, s) /\ S.conn = net.conn
            /\ QueueGood(net, s) /\ ("sms" \in env.users \/ net.sub[s].requests = <<>> => ~Pending(net, s))
                 => QueueGood(S, s) /\ Watched(S, s)
        BY <1>0, <3>1, FailureGood
      <3>3. Tame => QueueGood(net, s) /\ ~Pending(net, s)
        BY <2>1 DEF PgInv, Good
      <3> QED BY <3>2, <3>3
    <2>2. CASE ~net.conn[s].sec
      BY <1>0, <1>2, <2>2 DEF PgInv, Good, Apart
    <2> QED BY <2>1, <2>2
  <1>4. PICK x : x = NoConn
    OBVIOUS
  <1>5. x \in Connection /\ ~x.sec
    BY <1>4, NoConnIs
  <1>6. PICK U : U = PutConn(S, s, x)
    OBVIOUS
  <1>7. /\ Fine(U) /\ Apart(S, U, s) /\ U.conn[s] = x
        /\ QueueGood(S, s) /\ Watched(S, s) /\ ~x.sec => Good(U, s)
    BY <1>3, <1>5, <1>6, ConnGood
  <1>8. PICK V : V = subscr_put_channel(U, s)
    OBVIOUS
  <1>9. /\ Queues(U, V, s)
        /\ QueueGood(U, s) /\ (U.sub[s].requests = <<>> => ~Pending(U, s)) => QueueGood(V, s) /\ Watched(V, s)
    <2>1. Fine(U)
      BY <1>7
    <2> QED BY <1>8, <2>1, PutGood
  <1>10. Fine(V) /\ Apart(U, V, s) /\ V.conn[s] = x
    BY <1>7, <1>9 DEF Queues
  <1>11. Apart(net, U, s)
    BY <1>3, <1>7, ApartTrans
  <1>12. Apart(net, V, s)
    BY <1>10, <1>11, ApartTrans
  <1>13. Tame => Good(U, s)
    BY <1>3, <1>5, <1>7
  <1>14. Tame => Good(V, s)
    BY <1>5, <1>7, <1>9, <1>10, <1>13 DEF Good, Watched
  <1>15. Becomes(IF net.conn[s].put_channel THEN V ELSE U)
    BY <1>1, <1>2, <1>4, <1>6, <1>8 DEF ConnectionLost, msc_clear_request, PutConn
  <1>16. CASE net.conn[s].put_channel
    <2>1. Becomes(V)
      BY <1>15, <1>16
    <2> QED BY <1>10, <1>12, <1>14, <2>1, SubStep
  <1>17. CASE ~net.conn[s].put_channel
    <2>1. Becomes(U)
      BY <1>15, <1>17
    <2> QED BY <1>7, <1>11, <1>13, <2>1, SubStep
  <1> QED BY <1>16, <1>17

\* The last SMS is delivered, or one fails: the queue goes on, the connection perhaps not.
LEMMA SmsSteps ==
    ASSUME PgInv, NEW s \in Subs, SmsDelivered(s) \/ SmsFails(s)
    PROVE  PgInv'
  <1>0. Fine(net) /\ "sms" \in net.conn[s].users
    BY DEF PgInv, SmsDelivered, SmsFails, Conn
  <1>1. PICK c : c = net.conn[s]
    OBVIOUS
  <1>2. c \in Connection
    BY <1>0, <1>1 DEF Fine, NetState
  <1>3. Tame => ~c.sec
    BY <1>0, <1>1 DEF PgInv, Good, SecQuiet
  <1>4. PICK w : w = c.users \ {"sms"}
    OBVIOUS
  <1>5. w \in SUBSET Users
    BY <1>2, <1>4 DEF Connection
  <1>6. PICK x : x = [c EXCEPT !.users = w]
    OBVIOUS
  <1>7. x \in Connection
    BY <1>2, <1>5, <1>6 DEF Connection
  <1>8. x.sec = c.sec
    BY <1>2, <1>6 DEF Connection
  <1>9. CASE SmsDelivered(s)
    <2>1. PICK U : U = subscr_put_channel(net, s)
      OBVIOUS
    <2>2. /\ Queues(net, U, s)
          /\ QueueGood(net, s) /\ (net.sub[s].requests = <<>> => ~Pending(net, s)) => QueueGood(U, s) /\ Watched(U, s)
      BY <1>0, <2>1, PutGood
    <2>3. Fine(U) /\ Apart(net, U, s) /\ U.conn = net.conn
      BY <2>2 DEF Queues
    <2>4. Tame => QueueGood(U, s) /\ Watched(U, s) /\ ~x.sec
      BY <1>1, <1>3, <1>8, <2>2 DEF PgInv, Good, Watched
    <2>5. PICK T : T = msc_release_connection(PutConn(U, s, x), s)
      OBVIOUS
    <2>6. /\ Fine(T) /\ Apart(U, T, s)
          /\ QueueGood(U, s) /\ Watched(U, s) /\ ~x.sec => Good(T, s)
      BY <1>7, <2>3, <2>5, ChangeReleaseGood
    <2>7. Becomes(T)
      BY <1>1, <1>4, <1>6, <1>9, <2>1, <2>3, <2>5 DEF SmsDelivered, PutConn
    <2>8. Apart(net, T, s)
      BY <2>3, <2>6, ApartTrans
    <2> QED BY <2>4, <2>6, <2>7, <2>8, SubStep
  <1>10. CASE Becomes(msc_release_connection([net EXCEPT !.conn[s].users = @ \ {"sms"}], s))
    <2>1. Becomes(msc_release_connection(PutConn(net, s, x), s))
      BY <1>1, <1>4, <1>6, <1>10 DEF PutConn
    <2> QED BY <1>1, <1>3, <1>7, <1>8, <2>1, ReleaseStep
  <1>11. CASE Becomes([net EXCEPT !.conn[s].users = @ \ {"sms"}, !.conn[s].leftover = TRUE])
    <2>1. PICK y : y = [c EXCEPT !.users = w, !.leftover = TRUE]
      OBVIOUS
    <2>2. y \in Connection
      BY <1>2, <1>5, <2>1 DEF Connection
    <2>3. y.sec = c.sec
      BY <1>2, <2>1 DEF Connection
    <2>4. PICK T : T = PutConn(net, s, y)
      OBVIOUS
    <2>5. /\ Fine(T) /\ Apart(net, T, s) /\ T.conn[s] = y
          /\ T.bts = net.bts /\ T.sub = net.sub
          /\ Good(net, s) /\ y.sec = net.conn[s].sec /\ (y.sec => SecQuiet(y)) => Good(T, s)
      BY <1>0, <2>2, <2>4, ConnGood
    <2>6. Tame => Good(T, s)
      BY <1>1, <1>3, <2>3, <2>5 DEF PgInv
    <2>7. Becomes(T)
      BY <1>0, <1>1, <1>4, <1>11, <2>1, <2>4 DEF PutConn, Fine, NetState
    <2> QED BY <2>5, <2>6, <2>7, SubStep
  <1>12. CASE Becomes(subscr_put_channel(msc_release_connection([net EXCEPT !.conn[s].users = @ \ {"sms"}], s), s))
    <2>1. PICK U : U = msc_release_connection(PutConn(net, s, x), s)
      OBVIOUS
    <2>2. /\ Fine(U) /\ Apart(net, U, s) /\ U.conn[s] \in {x, NoConn}
          /\ Good(net, s) /\ x.sec = net.conn[s].sec /\ (x.sec => SecQuiet(x)) => Good(U, s)
      BY <1>0, <1>7, <2>1, ChangeReleaseGood
    <2>3. Tame => Good(U, s) /\ ~U.conn[s].sec
      BY <1>1, <1>3, <1>8, <2>2, NoConnIs DEF PgInv
    <2>4. PICK T : T = subscr_put_channel(U, s)
      OBVIOUS
    <2>5. /\ Queues(U, T, s)
          /\ QueueGood(U, s) /\ (U.sub[s].requests = <<>> => ~Pending(U, s)) => QueueGood(T, s) /\ Watched(T, s)
      BY <2>2, <2>4, PutGood
    <2>6. Fine(T) /\ Apart(U, T, s) /\ T.conn = U.conn
      BY <2>5 DEF Queues
    <2>7. Tame => Good(T, s)
      BY <2>3, <2>5, <2>6 DEF Good, Watched
    <2>8. Becomes(T)
      BY <1>1, <1>4, <1>6, <1>12, <2>1, <2>4 DEF PutConn
    <2>9. Apart(net, T, s)
      BY <2>2, <2>6, ApartTrans
    <2> QED BY <2>6, <2>7, <2>8, <2>9, SubStep
  <1> QED BY <1>9, <1>10, <1>11, <1>12 DEF SmsFails

\* With nobody paging for the subscriber, or in the area it was in, its area may change.
LEMMA AreaGood ==
    ASSUME NEW S, NEW T, NEW s \in Subs, Good(S, s), T.conn[s] = S.conn[s], T.sub[s].requests = S.sub[s].requests,
           \A b \in Bts : Cb(T.bts[b], s) = Cb(S.bts[b], s), ~Pending(S, s) \/ T.sub[s].lac = S.sub[s].lac
    PROVE  Good(T, s)
  <1>1. Pending(T, s) <=> Pending(S, s)
    BY DEF Pending
  <1>2. \A b \in Bts : Cb(T.bts[b], s) # {} => env.lac[b] = T.sub[s].lac
    BY DEF Good, QueueGood, Pending
  <1> QED BY <1>1, <1>2 DEF Good, QueueGood, Watched

\* IMSI DETACH INDICATION.
LEMMA DetachStep ==
    ASSUME PgInv, NEW s \in Subs, ImsiDetach(s)
    PROVE  PgInv'
  <1>0. Fine(net)
    BY DEF PgInv
  <1>1. PICK lac \in Lacs \cup {Detached} : lac = Detached
    OBVIOUS
  <1>2. PICK T : T = PutLac(net, s, lac)
    OBVIOUS
  <1>3. /\ Fine(T) /\ Apart(net, T, s) /\ T.bts = net.bts /\ T.conn = net.conn
        /\ T.sub[s].requests = net.sub[s].requests /\ T.sub[s].lac = lac
    BY <1>0, <1>2, LacFine
  <1>4. Tame => ~Pending(net, s)
    BY OfCb DEF ImsiDetach, MayMove, Has, Tame, Pending
  <1>5. Tame => Good(T, s)
    BY <1>3, <1>4, AreaGood DEF PgInv
  <1>6. Becomes(T)
    BY <1>1, <1>2 DEF ImsiDetach, PutLac
  <1> QED BY <1>3, <1>5, <1>6, SubStep

\* A location update: pagings of the subscriber, in the area it comes from, are there only if it stays.
LEMMA UpdateStep ==
    ASSUME PgInv, NEW s \in Subs, LocationUpdate(s)
    PROVE  PgInv'
  <1>0. Fine(net) /\ env \in Env
    BY PagingEnvAssumption DEF PgInv
  <1>1. net.conn[s].bts \in Bts
    BY <1>0 DEF Fine, NetState, Connection
  <1>2. PICK lac : lac = env.lac[net.conn[s].bts]
    OBVIOUS
  <1>3. lac \in Lacs /\ \A b \in Bts : env.lac[b] \in Lacs
    BY <1>0, <1>1, <1>2 DEF Env
  <1>4. PICK o, f : o = net.sub[s] /\ f = (o.no_detach \/ Waits(s, "sms") \/ "sms" \in net.conn[s].users)
    OBVIOUS
  <1>5. PICK x : x = [o EXCEPT !.lac = lac, !.no_detach = f]
    OBVIOUS
  <1>6. o \in Subscriber
    BY <1>0, <1>4 DEF Fine, NetState
  <1>7. x \in Subscriber
    <2>1. f \in BOOLEAN
      BY <1>4
    <2> HIDE <1>4
    <2> QED BY <1>3, <1>5, <1>6, <2>1 DEF Subscriber
  <1>8. x.lac = lac /\ x.requests = o.requests
    BY <1>5, <1>6 DEF Subscriber
  <1>9. PICK g : g = [b \in Bts |-> Aged(net.bts[b], s)]
    OBVIOUS
  <1>10. ASSUME NEW b \in Bts
         PROVE  BtsGood(g[b]) /\ Same(net.bts[b], g[b])
    <2>1. PICK p : p = net.bts[b]
      OBVIOUS
    <2>3. g[b] = Aged(p, s)
      BY <1>9, <2>1
    <2>4. BtsGood(p)
      BY <1>0, <2>1 DEF Fine
    <2>5. BtsGood(g[b]) /\ Same(p, g[b])
      BY <2>3, <2>4, AgedGood
    <2> QED BY <2>1, <2>5
  <1>11. PICK S : S = PutBts(net, g)
    OBVIOUS
  <1>12. Fine(S) /\ Apart(net, S, s) /\ S.bts = g /\ S.sub = net.sub /\ S.conn = net.conn
    <2>1. \A b \in Bts : BtsGood(g[b]) /\ SameBut(net.bts[b], g[b], s)
      BY <1>10 DEF Same, SameBut
    <2>2. g = [b \in Bts |-> g[b]]
      BY <1>9
    <2> QED BY <1>0, <1>11, <2>1, <2>2, BtsFine
  <1>13. PICK T : T = PutSub(S, s, x)
    OBVIOUS
  <1>14. Fine(T) /\ Apart(S, T, s) /\ T.bts = S.bts /\ T.conn = S.conn /\ T.sub[s] = x
    BY <1>7, <1>12, <1>13, SubFine
  <1>15. ASSUME Tame
         PROVE  Good(T, s)
    <2>1. \A b \in Bts : Cb(T.bts[b], s) = Cb(net.bts[b], s)
      BY <1>10, <1>12, <1>14 DEF Same
    <2>2. Good(net, s)
      BY <1>15 DEF PgInv
    <2>3. ~Pending(net, s) \/ x.lac = net.sub[s].lac
      <3>1. \/ lac = net.sub[s].lac \/ net.sub[s].lac = Detached
            \/ \A b \in Bts : ~paging_pending_request(net, b, s)
        BY <1>2, <1>15 DEF LocationUpdate, Conn, MayMove, Has, Tame
      <3>2. net.sub[s].lac = Detached => ~Pending(net, s)
        BY <1>3, <2>2, LacsAssumption DEF Good, QueueGood, Pending
      <3> QED BY <1>8, <3>1, <3>2, OfCb DEF Pending
    <2>4. T.conn[s] = net.conn[s] /\ T.sub[s].requests = net.sub[s].requests /\ T.sub[s].lac = x.lac
      BY <1>4, <1>8, <1>12, <1>14
    <2> QED BY <2>1, <2>2, <2>3, <2>4, AreaGood
  <1>16. Becomes(T)
    <2>1. Becomes([net EXCEPT
            !.sub[s].lac = lac,
            !.sub[s].no_detach = @ \/ Waits(s, "sms") \/ "sms" \in net.conn[s].users,
            !.bts = g])
      BY <1>2, <1>9 DEF LocationUpdate, Conn
    <2>3. T = [net EXCEPT
            !.sub[s].lac = lac,
            !.sub[s].no_detach = @ \/ Waits(s, "sms") \/ "sms" \in net.conn[s].users,
            !.bts = g]
      BY <1>0, <1>4, <1>5, <1>11, <1>13 DEF PutBts, PutSub, Fine, NetState, Subscriber
    <2> QED BY <2>1, <2>3
  <1>17. Apart(net, T, s)
    BY <1>12, <1>14, ApartTrans
  <1> QED BY <1>14, <1>15, <1>16, <1>17, SubStep

-----------------------------------------------------------------------------
(* The theorems *)

\* At the start nobody is paged and nobody waits.
LEMMA PgInit ==
    ASSUME Init
    PROVE  PgInv
  <1>1. PICK p : p = [usable |-> TRUE, reqs |-> <<>>, slots |-> Slots, work |-> FALSE, credit |-> FALSE]
    OBVIOUS
  <1>2. p \in PagingState /\ p.reqs = <<>>
    <2>1. Slots \in 0..Slots
      BY PagingBoundsAssumption
    <2> QED BY <1>1, <2>1 DEF PagingState
  <1>3. BtsGood(p) /\ \A s \in Subs : Cb(p, s) = {}
    <2>1. DOMAIN p.reqs = {}
      BY <1>2
    <2> QED BY <1>2, <2>1 DEF BtsGood, Single, Awake, Cb
  <1>4. env \in Envs /\ env \in Env /\ 1 \in Bts
    BY PagingEnvAssumption, PagingBoundsAssumption DEF Init, Bts
  <1>5. PICK x : x = [lac |-> env.lac[1], requests |-> <<>>, no_detach |-> FALSE]
    OBVIOUS
  <1>6. x \in Subscriber /\ x.requests = <<>>
    <2>1. env.lac[1] \in Lacs
      BY <1>4 DEF Env
    <2> QED BY <1>5, <2>1 DEF Subscriber
  <1>7. net = [bts |-> [b \in Bts |-> p], sub |-> [s \in Subs |-> x], conn |-> [s \in Subs |-> NoConn]]
    BY <1>1, <1>5 DEF Init
  <1>8. Fine(net)
    BY <1>2, <1>3, <1>6, <1>7, NoConnIs DEF Fine, NetState
  <1>9. ASSUME NEW s \in Subs
        PROVE  Good(net, s)
    <2>1. net.sub[s] = x /\ net.conn[s] = NoConn /\ \A b \in Bts : net.bts[b] = p
      BY <1>7
    <2>2. \A b \in Bts : Cb(net.bts[b], s) = {}
      BY <1>3, <2>1
    <2>3. net.sub[s].requests = <<>> /\ DOMAIN net.sub[s].requests = {} /\ ~net.conn[s].sec
      BY <1>6, <2>1, NoConnIs
    <2> QED BY <2>2, <2>3 DEF Good, QueueGood, Watched, Pending
  <1> QED BY <1>4, <1>8, <1>9 DEF PgInv

\* Every step keeps the invariant.
LEMMA PgNext ==
    ASSUME SmsAlone, PgInv, Next
    PROVE  PgInv'
  <1>1. ASSUME NEW b \in Bts, Worker(b) \/ Credit(b) \/ BufferSpace(b) \/ BtsUpOrDown(b)
        PROVE  PgInv'
    BY <1>1, BtsSteps
  <1>2. ASSUME NEW b \in Bts, NEW s \in Subs, paging_T3113_expired(b, s)
        PROVE  PgInv'
    BY <1>2, T3113Step
  <1>3. ASSUME NEW b \in Bts, NEW s \in Subs, MsAnswers(s, b) \/ MsConnects(s, b)
        PROVE  PgInv'
    BY <1>3, MsSteps
  <1>4. ASSUME NEW s \in Subs, NEW u \in Users, Request(s, u)
        PROVE  PgInv'
    BY <1>4, RequestStep
  <1>5. ASSUME NEW s \in Subs, SilentCall(s) \/ Operator(s)
        PROVE  PgInv'
    BY <1>5, WildSteps
  <1>6. ASSUME NEW s \in Subs, AnchorEnds(s) \/ CallEnds(s)
        PROVE  PgInv'
    BY <1>6, EndSteps
  <1>7. ASSUME NEW s \in Subs, SmsDelivered(s) \/ SmsFails(s)
        PROVE  PgInv'
    BY <1>7, SmsSteps
  <1>8. ASSUME NEW s \in Subs, SecurityEnds(s)
        PROVE  PgInv'
    BY <1>8, SecurityStep
  <1>9. ASSUME NEW s \in Subs, LocationUpdate(s)
        PROVE  PgInv'
    BY <1>9, UpdateStep
  <1>10. ASSUME NEW s \in Subs, ImsiDetach(s)
         PROVE  PgInv'
    BY <1>10, DetachStep
  <1>11. ASSUME NEW s \in Subs, ConnectionLost(s)
         PROVE  PgInv'
    BY <1>11, LostStep
  <1> QED BY <1>1, <1>2, <1>3, <1>4, <1>5, <1>6, <1>7, <1>8, <1>9, <1>10, <1>11 DEF Next

\* Nothing happens.
LEMMA PgStutter ==
    ASSUME PgInv, UNCHANGED vars
    PROVE  PgInv'
  <1>1. Becomes(net)
    BY DEF vars, Becomes
  <1>2. Fine(net) /\ (Tame => \A t \in Subs : Good(net, t))
    BY DEF PgInv
  <1> QED BY <1>1, <1>2, StateAfter

\* The invariant is what PagingSound needs: the pagings, the queue and the security procedure agree.
LEMMA PgEnough ==
    ASSUME PgInv
    PROVE  PagingSound
  <1>0. Fine(net)
    BY DEF PgInv
  <1>1. TypeOK
    BY <1>0 DEF TypeOK, PgInv, Fine, NetState
  <1>2. PagingAlive
    BY <1>0 DEF PagingAlive, Fine, BtsGood, Awake
  <1>3. ASSUME NEW s \in Subs, Tame
        PROVE  PagedForQueue(s) <=> Pending(net, s)
    <2>1. ASSUME NEW b \in Bts
          PROVE  (\E i \in Of(net, b, s) : net.bts[b].reqs[i].cb = "subscr") <=> Cb(net.bts[b], s) # {}
      <3>1. Cb(net.bts[b], s) \subseteq {"subscr"}
        BY <1>3 DEF PgInv, Good, QueueGood
      <3>2. Cb(net.bts[b], s) = {net.bts[b].reqs[i].cb : i \in Of(net, b, s)}
        BY DEF Cb, Of
      <3> QED BY <3>1, <3>2
    <2> QED BY <2>1 DEF PagedForQueue, Pending
  <1>4. \A s \in Subs : Head(net.sub[s].requests) = net.sub[s].requests[1]
    OBVIOUS
  <1>5. PagedForHead
    BY <1>3, <1>4 DEF PagedForHead, PgInv, Good, Watched, Conn
  <1>6. HeadWatched
    BY <1>3, <1>4 DEF HeadWatched, PgInv, Good, Watched, Conn
  <1> QED BY <1>1, <1>2, <1>5, <1>6 DEF PagingSound

\* The invariant of paging.c and of the request queue of gsm_subscriber.c, in all surroundings: a base
\* station holds one request of a subscriber at most and sleeps only without requests; and in tame ones
\* the subscriber is paged, in its area, exactly while the head of its queue waits for the answer.
THEOREM PagingInvariant ==
    ASSUME SmsAlone
    PROVE  Spec => []PgInv
  <1>1. Init => PgInv
    BY PgInit
  <1>2. PgInv /\ [Next]_vars => PgInv'
    BY PgNext, PgStutter
  <1> QED BY <1>1, <1>2, PTL DEF Spec

\* PagingSound, for any number of base stations, subscribers and areas, and any surroundings.
THEOREM PagingSoundHolds ==
    ASSUME SmsAlone
    PROVE  Spec => []PagingSound
  <1>1. PgInv => PagingSound
    BY PgEnough
  <1> QED BY <1>1, PagingInvariant, PTL
=============================================================================
