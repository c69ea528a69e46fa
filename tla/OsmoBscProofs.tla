---------------------------- MODULE OsmoBscProofs ----------------------------
(***************************************************************************)
(* What osmo-bsc sends to its MSC arrives in order, the loss of the link   *)
(* leaves nothing behind, and the transmitters follow the last command,    *)
(* for every number of connections and messages and every set of faults.   *)
(*                                                                         *)
(* The refinement of FifoLink needs to know that the numbers of one        *)
(* connection grow along the wire, then along its queue, and lie between   *)
(* the number that arrived last and the one given last; that a confirmed   *)
(* connection has an empty queue (a message written at once would overtake *)
(* what is queued); that a CR on the wire is the first the MSC hears of    *)
(* its connection; and that numbers are left for the messages that end a   *)
(* connection.                                                             *)
(***************************************************************************)
EXTENDS OsmoBsc, TLAPS

-----------------------------------------------------------------------------
(* Messages: the numbers of w on each connection grow, and some ask for a connection *)


Types == {"CR", "DT", "CLEAR_REQ", "CLEAR_COMPL"}
Msg == {m \in [s : Sccps, t : Types, n : Nat] : m.t = "CR" => m.n = 1}
Growing(w) == \A i, j \in 1..Len(w) : i < j /\ w[i].s = w[j].s => w[i].n < w[j].n
Asking(w) == {w[i].s : i \in {j \in 1..Len(w) : w[j].t = "CR"}}

\* Nothing under way.
LEMMA NoMessages ==
  \A s : Numbers(<<>>, s) = {} /\ Growing(<<>>) /\ Asking(<<>>) = {}
  BY DEF Numbers, Growing, Asking

\* One message more: its number is added to those of its connection.
LEMMA AppendMessage ==
  ASSUME NEW w \in Seq(Msg), NEW m \in Msg
  PROVE  /\ Append(w, m) \in Seq(Msg) /\ Len(Append(w, m)) = Len(w) + 1
         /\ (\A i \in 1..Len(w) : w[i].s = m.s) => \A i \in 1..Len(Append(w, m)) : Append(w, m)[i].s = m.s
         /\ Numbers(Append(w, m), m.s) = Numbers(w, m.s) \cup {m.n}
         /\ \A s \in Sccps \ {m.s} : Numbers(Append(w, m), s) = Numbers(w, s)
         /\ m.t # "CR" => Asking(Append(w, m)) = Asking(w)
         /\ Asking(Append(w, m)) \subseteq Asking(w) \cup {m.s} /\ Asking(w) \subseteq Asking(Append(w, m))
         /\ Growing(w) /\ (\A x \in Numbers(w, m.s) : x < m.n) => Growing(Append(w, m))
<1> DEFINE v == Append(w, m)
<1>1. v \in Seq(Msg) /\ Len(v) = Len(w) + 1 /\ Len(w) \in Nat /\ v[Len(w) + 1] = m
      /\ \A i \in 1..Len(w) : v[i] = w[i] /\ w[i] \in Msg
  OBVIOUS
<1> HIDE DEF v
<1>2. Numbers(v, m.s) = Numbers(w, m.s) \cup {m.n}
  BY <1>1 DEF Numbers
<1>3. ASSUME NEW s \in Sccps \ {m.s} PROVE Numbers(v, s) = Numbers(w, s)
  BY <1>1 DEF Numbers
<1>4. m.t # "CR" => Asking(v) = Asking(w)
  BY <1>1 DEF Asking
<1>5. Asking(v) \subseteq Asking(w) \cup {m.s} /\ Asking(w) \subseteq Asking(v)
  BY <1>1 DEF Asking
<1>6. ASSUME Growing(w), \A x \in Numbers(w, m.s) : x < m.n PROVE Growing(v)
  <2> SUFFICES ASSUME NEW i \in 1..Len(v), NEW j \in 1..Len(v), i < j, v[i].s = v[j].s
               PROVE  v[i].n < v[j].n
    BY DEF Growing
  <2>1. i \in 1..Len(w)  BY <1>1
  <2>2. CASE j \in 1..Len(w)  BY <1>1, <1>6, <2>1, <2>2 DEF Growing
  <2>3. CASE j = Len(w) + 1
    <3>1. w[i].n \in Numbers(w, m.s)  BY <1>1, <2>1, <2>3 DEF Numbers
    <3> QED  BY <1>1, <1>6, <2>1, <2>3, <3>1
  <2> QED  BY <1>1, <2>2, <2>3
<1> QED  BY <1>1, <1>2, <1>3, <1>4, <1>5, <1>6 DEF v

\* The queue of one connection is put on the wire behind what is there.
LEMMA ConcatMessages ==
  ASSUME NEW w \in Seq(Msg), NEW q \in Seq(Msg), NEW r \in Sccps, \A i \in 1..Len(q) : q[i].s = r
  PROVE  /\ w \o q \in Seq(Msg)
         /\ Numbers(w \o q, r) = Numbers(w, r) \cup Numbers(q, r)
         /\ \A s \in Sccps \ {r} : Numbers(w \o q, s) = Numbers(w, s)
         /\ Asking(w \o q) = Asking(w) \cup Asking(q)
         /\ Growing(w) /\ Growing(q) /\ (\A x \in Numbers(w, r), y \in Numbers(q, r) : x < y) => Growing(w \o q)
<1> DEFINE v == w \o q
<1>1. v \in Seq(Msg) /\ Len(v) = Len(w) + Len(q) /\ Len(w) \in Nat /\ Len(q) \in Nat
      /\ (\A i \in 1..Len(w) : v[i] = w[i] /\ w[i] \in Msg)
      /\ (\A i \in 1..Len(q) : v[Len(w) + i] = q[i] /\ q[i] \in Msg)
      /\ (\A i \in 1..Len(v) : i \notin 1..Len(w) => i - Len(w) \in 1..Len(q) /\ v[i] = q[i - Len(w)])
  OBVIOUS
<1> HIDE DEF v
<1>2. Numbers(v, r) = Numbers(w, r) \cup Numbers(q, r)
  <2>1. Numbers(v, r) \subseteq Numbers(w, r) \cup Numbers(q, r)
    <3> SUFFICES ASSUME NEW i \in 1..Len(v), v[i].s = r
                 PROVE v[i].n \in Numbers(w, r) \cup Numbers(q, r)
      BY DEF Numbers
    <3>1. CASE i \in 1..Len(w)  BY <1>1, <3>1 DEF Numbers
    <3>2. CASE i \notin 1..Len(w)  BY <1>1, <3>2 DEF Numbers
    <3> QED  BY <3>1, <3>2
  <2>2. Numbers(w, r) \subseteq Numbers(v, r)
    <3> SUFFICES ASSUME NEW i \in 1..Len(w), w[i].s = r PROVE w[i].n \in Numbers(v, r)
      BY DEF Numbers
    <3>1. i \in 1..Len(v)  BY <1>1
    <3> QED  BY <1>1, <3>1 DEF Numbers
  <2>3. Numbers(q, r) \subseteq Numbers(v, r)
    <3> SUFFICES ASSUME NEW i \in 1..Len(q), q[i].s = r PROVE q[i].n \in Numbers(v, r)
      BY DEF Numbers
    <3>1. Len(w) + i \in 1..Len(v)  BY <1>1
    <3> QED  BY <1>1, <3>1 DEF Numbers
  <2> QED  BY <2>1, <2>2, <2>3
<1>3. ASSUME NEW s \in Sccps \ {r} PROVE Numbers(v, s) = Numbers(w, s)
  <2>1. ASSUME NEW i \in 1..Len(v), v[i].s = s PROVE i \in 1..Len(w) /\ v[i] = w[i]
    BY <1>1, <1>3, <2>1
  <2>2. 1..Len(w) \subseteq 1..Len(v)  BY <1>1
  <2>3. Numbers(v, s) \subseteq Numbers(w, s)  BY <2>1 DEF Numbers
  <2>4. Numbers(w, s) \subseteq Numbers(v, s)  BY <1>1, <2>2 DEF Numbers
  <2> QED  BY <2>3, <2>4
<1>4. Asking(v) = Asking(w) \cup Asking(q)
  <2>1. Asking(v) \subseteq Asking(w) \cup Asking(q)
    <3> SUFFICES ASSUME NEW i \in 1..Len(v), v[i].t = "CR"
                 PROVE v[i].s \in Asking(w) \cup Asking(q)
      BY DEF Asking
    <3>1. CASE i \in 1..Len(w)  BY <1>1, <3>1 DEF Asking
    <3>2. CASE i \notin 1..Len(w)  BY <1>1, <3>2 DEF Asking
    <3> QED  BY <3>1, <3>2
  <2>2. Asking(w) \subseteq Asking(v)
    <3> SUFFICES ASSUME NEW i \in 1..Len(w), w[i].t = "CR" PROVE w[i].s \in Asking(v)
      BY DEF Asking
    <3>1. i \in 1..Len(v)  BY <1>1
    <3> QED  BY <1>1, <3>1 DEF Asking
  <2>3. Asking(q) \subseteq Asking(v)
    <3> SUFFICES ASSUME NEW i \in 1..Len(q), q[i].t = "CR" PROVE q[i].s \in Asking(v)
      BY DEF Asking
    <3>1. Len(w) + i \in 1..Len(v)  BY <1>1
    <3> QED  BY <1>1, <3>1 DEF Asking
  <2> QED  BY <2>1, <2>2, <2>3
<1>5. ASSUME Growing(w), Growing(q), \A x \in Numbers(w, r), y \in Numbers(q, r) : x < y PROVE Growing(v)
  <2> SUFFICES ASSUME NEW i \in 1..Len(v), NEW j \in 1..Len(v), i < j, v[i].s = v[j].s
               PROVE  v[i].n < v[j].n
    BY DEF Growing
  <2>1. CASE j \in 1..Len(w)
    <3>1. i \in 1..Len(w)  BY <1>1, <2>1
    <3> QED  BY <1>1, <1>5, <2>1, <3>1 DEF Growing
  <2>2. CASE i \in 1..Len(w) /\ j \notin 1..Len(w)
    <3>1. j - Len(w) \in 1..Len(q) /\ v[j] = q[j - Len(w)] /\ v[i] = w[i]  BY <1>1, <2>2
    <3>2. w[i].n \in Numbers(w, r)  BY <1>1, <2>2, <3>1 DEF Numbers
    <3>3. q[j - Len(w)].n \in Numbers(q, r)  BY <3>1 DEF Numbers
    <3> QED  BY <1>5, <3>1, <3>2, <3>3
  <2>3. CASE i \notin 1..Len(w) /\ j \notin 1..Len(w)
    <3>1. j - Len(w) \in 1..Len(q) /\ v[j] = q[j - Len(w)] /\ i - Len(w) \in 1..Len(q) /\ v[i] = q[i - Len(w)]
      BY <1>1, <2>3
    <3>2. i - Len(w) < j - Len(w)  BY <1>1
    <3> QED  BY <1>5, <3>1, <3>2 DEF Growing
  <2> QED  BY <2>1, <2>2, <2>3
<1> QED  BY <1>1, <1>2, <1>3, <1>4, <1>5 DEF v

\* A queue whose first k messages are written: what is dropped comes after what is kept.
LEMMA FirstMessages ==
  ASSUME NEW q \in Seq(Msg), NEW s \in Sccps, NEW k \in 0..Len(q), Growing(q), \A i \in 1..Len(q) : q[i].s = s
  PROVE  /\ SubSeq(q, 1, k) \in Seq(Msg) /\ Growing(SubSeq(q, 1, k)) /\ Asking(SubSeq(q, 1, k)) \subseteq Asking(q)
         /\ \A i \in 1..Len(SubSeq(q, 1, k)) : SubSeq(q, 1, k)[i].s = s
         /\ Numbers(SubSeq(q, 1, k), s) \subseteq Numbers(q, s)
         /\ \A x \in Numbers(SubSeq(q, 1, k), s), y \in Numbers(q, s) \ Numbers(SubSeq(q, 1, k), s) : x < y
<1> DEFINE p == SubSeq(q, 1, k)
<1>1. p \in Seq(Msg) /\ Len(p) = k /\ k \in Nat /\ k <= Len(q) /\ Len(q) \in Nat
      /\ \A i \in 1..k : p[i] = q[i] /\ i \in 1..Len(q)
  OBVIOUS
<1> HIDE DEF p
<1>2. Growing(p)  BY <1>1 DEF Growing
<1>3. Asking(p) \subseteq Asking(q)  BY <1>1 DEF Asking
<1>4. Numbers(p, s) \subseteq Numbers(q, s)  BY <1>1 DEF Numbers
<1>5. ASSUME NEW x \in Numbers(p, s), NEW y \in Numbers(q, s) \ Numbers(p, s) PROVE x < y
  <2>1. PICK i \in 1..k : x = q[i].n  BY <1>1 DEF Numbers
  <2>2. PICK j \in 1..Len(q) : y = q[j].n  BY DEF Numbers
  <2>3. j \notin 1..k  BY <1>1, <2>2 DEF Numbers
  <2>4. i < j /\ i \in 1..Len(q)  BY <1>1, <2>3
  <2> QED  BY <2>1, <2>2, <2>4 DEF Growing
<1> QED  BY <1>1, <1>2, <1>3, <1>4, <1>5 DEF p

\* The first message is read: of its connection it is the smallest number.
LEMMA TailMessages ==
  ASSUME NEW w \in Seq(Msg), w # <<>>, Growing(w)
  PROVE  /\ Head(w) \in Msg /\ Tail(w) \in Seq(Msg) /\ Growing(Tail(w))
         /\ Head(w).n \in Numbers(w, Head(w).s)
         /\ \A x \in Numbers(w, Head(w).s) : Head(w).n <= x
         /\ Numbers(Tail(w), Head(w).s) = Numbers(w, Head(w).s) \ {Head(w).n}
         /\ \A s \in Sccps \ {Head(w).s} : Numbers(Tail(w), s) = Numbers(w, s)
         /\ Asking(Tail(w)) \subseteq Asking(w)
         /\ \A s \in Sccps \ {Head(w).s} : s \in Asking(w) => s \in Asking(Tail(w))
         /\ Head(w).t = "CR" => Head(w).s \in Asking(w) /\ Head(w).s \notin Asking(Tail(w))
<1> DEFINE v == Tail(w)
           m == Head(w)
<1>1. v \in Seq(Msg) /\ Len(w) = Len(v) + 1 /\ Len(v) \in Nat /\ w[1] = m /\ m \in Msg
      /\ \A i \in 1..Len(v) : v[i] = w[i + 1] /\ i + 1 \in 1..Len(w) /\ v[i] \in Msg
  OBVIOUS
<1>2. \A j \in 1..Len(w) : w[j] \in Msg /\ (j = 1 \/ (j - 1 \in 1..Len(v) /\ w[j] = v[j - 1]))
  OBVIOUS
<1> HIDE DEF v, m
<1>3. Growing(v)
  <2> SUFFICES ASSUME NEW i \in 1..Len(v), NEW j \in 1..Len(v), i < j, v[i].s = v[j].s
               PROVE  v[i].n < v[j].n
    BY DEF Growing
  <2>1. i + 1 < j + 1  OBVIOUS
  <2> QED  BY <1>1, <2>1 DEF Growing
<1>4. m.n \in Numbers(w, m.s)
  BY <1>1 DEF Numbers
<1>5. ASSUME NEW i \in 1..Len(v), v[i].s = m.s PROVE m.n < v[i].n
  <2>1. 1 < i + 1 /\ 1 \in 1..Len(w)  BY <1>1
  <2> QED  BY <1>1, <1>5, <2>1 DEF Growing
<1>6. \A x \in Numbers(v, m.s) : m.n < x
  BY <1>5 DEF Numbers
<1>7. Numbers(w, m.s) = Numbers(v, m.s) \cup {m.n}
  <2>1. ASSUME NEW j \in 1..Len(w), w[j].s = m.s PROVE w[j].n \in Numbers(v, m.s) \cup {m.n}
    BY <1>1, <1>2, <2>1 DEF Numbers
  <2>2. ASSUME NEW i \in 1..Len(v), v[i].s = m.s PROVE v[i].n \in Numbers(w, m.s)
    BY <1>1, <2>2 DEF Numbers
  <2> QED  BY <1>4, <2>1, <2>2 DEF Numbers
<1>8. \A x \in Numbers(v, m.s) : x \in Nat  BY <1>1 DEF Numbers, Msg
<1>9. \A x \in Numbers(w, m.s) : m.n <= x
  BY <1>1, <1>6, <1>7, <1>8 DEF Msg
<1>10. Numbers(v, m.s) = Numbers(w, m.s) \ {m.n}
  BY <1>1, <1>6, <1>7, <1>8 DEF Msg
<1>11. ASSUME NEW s \in Sccps \ {m.s} PROVE Numbers(v, s) = Numbers(w, s)
  <2>1. ASSUME NEW j \in 1..Len(w), w[j].s = s PROVE w[j].n \in Numbers(v, s)
    BY <1>1, <1>2, <1>11, <2>1 DEF Numbers
  <2>2. ASSUME NEW i \in 1..Len(v), v[i].s = s PROVE v[i].n \in Numbers(w, s)
    BY <1>1, <2>2 DEF Numbers
  <2> QED  BY <2>1, <2>2 DEF Numbers
<1>12. Asking(v) \subseteq Asking(w)
  BY <1>1 DEF Asking
<1>13. m.t = "CR" => m.s \in Asking(w)
  BY <1>1 DEF Asking
<1>15. ASSUME NEW s \in Sccps \ {m.s}, s \in Asking(w) PROVE s \in Asking(v)
  <2>1. PICK j \in 1..Len(w) : w[j].t = "CR" /\ w[j].s = s  BY <1>15 DEF Asking
  <2> QED  BY <1>1, <1>2, <2>1 DEF Asking
<1>14. m.t = "CR" => m.s \notin Asking(v)
  <2> SUFFICES ASSUME m.t = "CR", NEW i \in 1..Len(v), v[i].t = "CR", v[i].s = m.s PROVE FALSE
    BY DEF Asking
  <2>1. v[i] \in Msg /\ m \in Msg  BY <1>1
  <2>2. v[i].n = 1 /\ m.n = 1  BY <2>1 DEF Msg
  <2>3. m.n < v[i].n  BY <1>5
  <2> QED  BY <2>2, <2>3
<1> QED  BY <1>1, <1>3, <1>4, <1>9, <1>10, <1>11, <1>12, <1>13, <1>14, <1>15 DEF v, m

-----------------------------------------------------------------------------
(* The invariant *)

SccpT == [st : {"free", "request", "established"}, conn : {0} \cup Radio, q : Seq(Msg), qs : Nat,
          cc : BOOLEAN, ciph : BOOLEAN, n : Nat, mute : BOOLEAN]
ObState ==
    [link : {"connecting", "up", "down"}, auth : BOOLEAN, ping : BOOLEAN, pong : BOOLEAN,
     timeout : BOOLEAN, reconnect : BOOLEAN, sccp : [Sccps -> SccpT], radio : [Radio -> {0} \cup Sccps],
     rf : ObRf, wire : Seq(Msg), alive : BOOLEAN,
     msc : [Sccps -> {"none", "asked", "up", "clear", "cleared", "done"}], got : [Sccps -> Nat]]
Cleared == {"cleared", "done"}
Confirmed == {"up", "clear"} \cup Cleared

\* Of one connection: its record, the numbers on the wire, the number that arrived last, what the
\* MSC knows of it, and whether its CR is on the wire.
QueueFine(sc, s) ==
    /\ sc.st = "free" => sc = NoSccp
    /\ sc.st = "established" => sc.q = <<>>
    /\ sc.qs = Len(sc.q)
    /\ Growing(sc.q) /\ Asking(sc.q) = {}
    /\ \A i \in 1..Len(sc.q) : sc.q[i].s = s
OrderFine(sc, s, W, got) ==
    /\ \A x \in W \cup Numbers(sc.q, s) : got < x /\ (sc.st # "free" => x <= sc.n)
    /\ \A x \in W, y \in Numbers(sc.q, s) : x < y
    /\ sc.st # "free" => got <= sc.n
KnownFine(sc, msc, asking) ==
    /\ msc \in Confirmed => sc.st = "established"
    /\ asking => msc = "none"
Fine(sc, s, W, got, msc, asking) ==
    QueueFine(sc, s) /\ OrderFine(sc, s, W, got) /\ KnownFine(sc, msc, asking)
ConFine(S, s) == Fine(S.sccp[s], s, Numbers(S.wire, s), S.got[s], S.msc[s], s \in Asking(S.wire))
Mutual(S) ==
    /\ \A c \in Radio : S.radio[c] # 0 => S.sccp[S.radio[c]].conn = c
    /\ \A s \in Sccps : S.sccp[s].conn # 0 => S.radio[S.sccp[s].conn] = s
Good(S) == S \in ObState /\ Growing(S.wire) /\ Mutual(S) /\ \A s \in Sccps : ConFine(S, s)
Fits(S, s) ==
    S.sccp[s].st # "free" =>
        /\ S.sccp[s].n <= ObMaxMsg
        /\ S.sccp[s].conn # 0 => S.sccp[s].n + 1 <= ObMaxMsg
        /\ S.msc[s] \notin Cleared => S.sccp[s].n + 1 <= ObMaxMsg
        /\ S.sccp[s].conn # 0 /\ S.msc[s] \notin Cleared => S.sccp[s].n + 2 <= ObMaxMsg
Linked(S, faults) ==
    /\ S.link # "up" =>
          /\ \A s \in Sccps : S.sccp[s].st = "free"
          /\ ~S.auth /\ ~S.ping /\ ~S.pong /\ S.wire = <<>>
          /\ S.reconnect \/ S.timeout \/ "no_socket" \in faults
    /\ S.reconnect => S.link = "down"
    /\ S.timeout => S.link = "connecting"
RfFine(rf) ==
    /\ rf.grace <=> rf.policy = "GRACE"
    /\ rf.check => rf.policy = "ON"
    /\ ~rf.delay => /\ rf.req = "ON" => rf.policy = "ON"
                    /\ rf.req = "D_OFF" => rf.policy = "OFF"
                    /\ rf.req = "OFF" => rf.policy \in {"GRACE", "OFF"}
FineState(S, faults) ==
    /\ Good(S) /\ Linked(S, faults) /\ RfFine(S.rf)
    /\ \A s \in Sccps : Fits(S, s)
ObInv == FineState(ob, obEnv.faults)
-----------------------------------------------------------------------------
(* Updates of a state, and what each keeps *)

Chan(S) == [s \in Sccps |-> Numbers(S.wire, s) \cup Numbers(S.sccp[s].q, s)]
SameLink(S, T) ==
    /\ T.link = S.link /\ T.auth = S.auth /\ T.ping = S.ping /\ T.pong = S.pong
    /\ T.timeout = S.timeout /\ T.reconnect = S.reconnect /\ T.rf = S.rf
SameCons(S, T) ==
    /\ T.sccp = S.sccp /\ T.radio = S.radio /\ T.wire = S.wire /\ T.msc = S.msc /\ T.got = S.got

\* The numbers under way are numbers.
LEMMA NumbersNat ==
  ASSUME NEW w \in Seq(Msg), NEW s PROVE Numbers(w, s) \subseteq Nat
  BY DEF Numbers, Msg

\* What leaves the connections and the wire alone keeps their part of the invariant.
LEMMA QuietGood ==
  ASSUME NEW S, NEW T \in ObState, Good(S), SameCons(S, T)
  PROVE  Good(T) /\ Chan(T) = Chan(S) /\ \A s \in Sccps : Fits(S, s) => Fits(T, s)
<1>1. \A s \in Sccps : ConFine(T, s)  BY DEF Good, SameCons, ConFine
<1>2. Mutual(T)  BY DEF Good, SameCons, Mutual
<1> QED  BY <1>1, <1>2 DEF Good, SameCons, Chan, Fits

With(S, sccp, radio, wire, msc, got) ==
    [S EXCEPT !.sccp = sccp, !.radio = radio, !.wire = wire, !.msc = msc, !.got = got]
Changed(S, T, sccp, radio, wire, msc, got) ==
    /\ T \in ObState /\ SameLink(S, T) /\ T.alive = S.alive
    /\ T.sccp = sccp /\ T.radio = radio /\ T.wire = wire /\ T.msc = msc /\ T.got = got

\* The fields With sets, and those it leaves alone.
LEMMA WithChanges ==
  ASSUME NEW S \in ObState, NEW sccp \in [Sccps -> SccpT], NEW radio \in [Radio -> {0} \cup Sccps],
         NEW wire \in Seq(Msg), NEW msc \in [Sccps -> {"none", "asked", "up", "clear", "cleared", "done"}],
         NEW got \in [Sccps -> Nat]
  PROVE  Changed(S, With(S, sccp, radio, wire, msc, got), sccp, radio, wire, msc, got)
  BY DEF Changed, With, ObState, SameLink

\* The types of the fields of a state.
LEMMA StateFields ==
  ASSUME NEW S \in ObState
  PROVE  /\ S.sccp \in [Sccps -> SccpT] /\ S.radio \in [Radio -> {0} \cup Sccps] /\ S.wire \in Seq(Msg)
         /\ S.msc \in [Sccps -> {"none", "asked", "up", "clear", "cleared", "done"}] /\ S.got \in [Sccps -> Nat]
  BY DEF ObState

Sent(S, s, t) == [s |-> s, t |-> t, n |-> S.sccp[s].n + 1]
WithSccp(S, s, U, wire) == With(S, [S.sccp EXCEPT ![s] = U], S.radio, wire, S.msc, S.got)
\* The write queue takes some of the messages, and drops the others.
LEMMA TakesSome ==
  ASSUME NEW w, Len(w) \in Nat, NEW k \in Nat PROVE Takes(w, k) \in 0..k
  BY ObBounds DEF Takes

\* bsc_queue_for_msc as an update of one connection and of the wire: written, dropped by the write queue,
\* dropped by the queue of the connection, or queued there.
LEMMA SendForm ==
  ASSUME NEW S \in ObState, NEW s \in Sccps, NEW t
  PROVE  /\ S.sccp[s].st = "established" /\ S.sccp[s].qs = 0 /\ Takes(S.wire, 1) = 1 =>
               bsc_queue_for_msc(S, s, t) =
                   WithSccp(S, s, [S.sccp[s] EXCEPT !.n = @ + 1], Append(S.wire, Sent(S, s, t)))
         /\ S.sccp[s].st = "established" /\ S.sccp[s].qs = 0 /\ Takes(S.wire, 1) # 1 =>
               bsc_queue_for_msc(S, s, t) =
                   WithSccp(S, s, [S.sccp[s] EXCEPT !.n = @ + 1, !.mute = @ \/ t \in Clearing], S.wire)
         /\ ~(S.sccp[s].st = "established" /\ S.sccp[s].qs = 0) /\ S.sccp[s].qs > ObLimit =>
               bsc_queue_for_msc(S, s, t) =
                   WithSccp(S, s, [S.sccp[s] EXCEPT !.n = @ + 1, !.mute = @ \/ t = "CLEAR_REQ"], S.wire)
         /\ ~(S.sccp[s].st = "established" /\ S.sccp[s].qs = 0) /\ ~(S.sccp[s].qs > ObLimit) =>
               bsc_queue_for_msc(S, s, t) =
                   WithSccp(S, s, [S.sccp[s] EXCEPT !.n = @ + 1, !.qs = @ + 1, !.q = Append(@, Sent(S, s, t))], S.wire)
<1> DEFINE sc == S.sccp[s]
           sd == [sc EXCEPT !.n = @ + 1]
           m == Sent(S, s, t)
<1>0. sc \in SccpT  BY DEF ObState
<1>1. sd.n = sc.n + 1 /\ sd.st = sc.st /\ sd.qs = sc.qs
      /\ m = [s |-> s, t |-> t, n |-> sd.n]
  BY <1>0 DEF SccpT, Sent
<1>2. ASSUME NEW U, NEW wire PROVE [[S EXCEPT !.sccp[s] = U] EXCEPT !.wire = wire] = WithSccp(S, s, U, wire)
  BY DEF With, WithSccp, ObState
<1>3. ASSUME NEW U PROVE [S EXCEPT !.sccp[s] = U] = WithSccp(S, s, U, S.wire)
  BY DEF With, WithSccp, ObState
<1>7. [S EXCEPT !.sccp[s] = sd].wire = S.wire
  BY DEF ObState
<1>8. CASE sc.st = "established" /\ sc.qs = 0 /\ Takes(S.wire, 1) # 1
  <2> DEFINE U == [sc EXCEPT !.n = @ + 1, !.mute = @ \/ t \in Clearing]
             A == [S EXCEPT !.sccp[s] = sd]
  <2>1. bsc_queue_for_msc(S, s, t) = [A EXCEPT !.sccp[s].mute = @ \/ t \in Clearing]
    BY <1>1, <1>7, <1>8 DEF bsc_queue_for_msc, msc_queue_write
  <2>2. A.sccp[s] = sd  BY DEF ObState
  <2>3. [sd EXCEPT !.mute = @ \/ t \in Clearing] = U
    BY <1>0 DEF SccpT
  <2>4. [A EXCEPT !.sccp[s].mute = @ \/ t \in Clearing] = [A EXCEPT !.sccp[s] = [sd EXCEPT !.mute = @ \/ t \in Clearing]]
    BY <2>2
  <2>5. [A EXCEPT !.sccp[s] = U] = [S EXCEPT !.sccp[s] = U]
    BY DEF ObState
  <2> QED  BY <1>3, <1>8, <2>1, <2>3, <2>4, <2>5
<1>4. CASE sc.st = "established" /\ sc.qs = 0 /\ Takes(S.wire, 1) = 1
  <2>1. bsc_queue_for_msc(S, s, t) = [[S EXCEPT !.sccp[s] = sd] EXCEPT !.wire = Append(@, m)]
    BY <1>1, <1>4, <1>7 DEF bsc_queue_for_msc, msc_queue_write
  <2>2. [S EXCEPT !.sccp[s] = sd].wire = S.wire
    BY <1>7
  <2>3. bsc_queue_for_msc(S, s, t) = [[S EXCEPT !.sccp[s] = sd] EXCEPT !.wire = Append(S.wire, m)]
    BY <2>1, <2>2
  <2> QED  BY <1>2, <1>4, <2>3
<1>5. CASE ~(sc.st = "established" /\ sc.qs = 0) /\ sc.qs > ObLimit
  <2> DEFINE U == [sc EXCEPT !.n = @ + 1, !.mute = @ \/ t = "CLEAR_REQ"]
  <2>1. bsc_queue_for_msc(S, s, t) = [S EXCEPT !.sccp[s] = [sd EXCEPT !.mute = @ \/ t = "CLEAR_REQ"]]
    BY <1>1, <1>5 DEF bsc_queue_for_msc
  <2>2. [sd EXCEPT !.mute = @ \/ t = "CLEAR_REQ"] = U
    BY <1>0 DEF SccpT
  <2> QED  BY <1>3, <1>5, <2>1, <2>2
<1>6. CASE ~(sc.st = "established" /\ sc.qs = 0) /\ ~(sc.qs > ObLimit)
  <2> DEFINE U == [sc EXCEPT !.n = @ + 1, !.qs = @ + 1, !.q = Append(@, m)]
  <2>1. bsc_queue_for_msc(S, s, t) = [S EXCEPT !.sccp[s] = [sd EXCEPT !.qs = @ + 1, !.q = Append(@, m)]]
    BY <1>1, <1>6 DEF bsc_queue_for_msc
  <2>2. [sd EXCEPT !.qs = @ + 1, !.q = Append(@, m)] = U
    BY <1>0 DEF SccpT
  <2> QED  BY <1>3, <1>6, <2>1, <2>2
<1> QED  BY <1>4, <1>5, <1>6, <1>8

\* Who belongs to whom depends on the radio connections and on the conn field only.
LEMMA SameMutual ==
  ASSUME NEW S \in ObState, NEW T, Mutual(S), T.radio = S.radio,
         \A r \in Sccps : T.sccp[r].conn = S.sccp[r].conn
  PROVE  Mutual(T)
<1>1. S.radio \in [Radio -> {0} \cup Sccps] /\ S.sccp \in [Sccps -> SccpT]  BY StateFields
<1> QED  BY <1>1, ObBounds DEF Mutual, SccpT

States == {"none", "asked", "up", "clear", "cleared", "done"}
\* Only connection s changes.
OnlyOne(S, T, s) ==
    \A r \in Sccps \ {s} : /\ T.sccp[r] = S.sccp[r] /\ T.msc[r] = S.msc[r] /\ T.got[r] = S.got[r]
                           /\ Numbers(T.wire, r) = Numbers(S.wire, r)
                           /\ r \in Asking(T.wire) <=> r \in Asking(S.wire)

\* To keep the invariant when one connection changes, look at that connection.
LEMMA OneSccp ==
  ASSUME NEW S, Good(S), NEW T \in ObState, NEW s \in Sccps, OnlyOne(S, T, s),
         Growing(T.wire), Mutual(T), ConFine(T, s)
  PROVE  /\ Good(T)
         /\ \A r \in Sccps \ {s} : Fits(S, r) => Fits(T, r)
         /\ Chan(T) = [Chan(S) EXCEPT ![s] = Numbers(T.wire, s) \cup Numbers(T.sccp[s].q, s)]
<1>1. ASSUME NEW r \in Sccps \ {s} PROVE ConFine(T, r)
  <2>1. ConFine(S, r)  BY DEF Good
  <2> QED  BY <2>1 DEF ConFine, OnlyOne
<1>2. ASSUME NEW r \in Sccps \ {s} PROVE Fits(S, r) => Fits(T, r)
  BY DEF Fits, OnlyOne
<1>3. Chan(T) = [Chan(S) EXCEPT ![s] = Numbers(T.wire, s) \cup Numbers(T.sccp[s].q, s)]
  BY DEF Chan, OnlyOne
<1> QED  BY <1>1, <1>2, <1>3 DEF Good

\* The fields WithSccp sets, and those it leaves alone.
LEMMA WithSccpFields ==
  ASSUME NEW S \in ObState, NEW s \in Sccps, NEW U \in SccpT, NEW wire \in Seq(Msg)
  PROVE  /\ WithSccp(S, s, U, wire) \in ObState /\ SameLink(S, WithSccp(S, s, U, wire))
         /\ WithSccp(S, s, U, wire).alive = S.alive
         /\ WithSccp(S, s, U, wire).sccp[s] = U
         /\ \A r \in Sccps \ {s} : WithSccp(S, s, U, wire).sccp[r] = S.sccp[r]
         /\ WithSccp(S, s, U, wire).radio = S.radio /\ WithSccp(S, s, U, wire).wire = wire
         /\ WithSccp(S, s, U, wire).msc = S.msc /\ WithSccp(S, s, U, wire).got = S.got
<1> DEFINE sccp == [S.sccp EXCEPT ![s] = U]
<1>1. S.sccp \in [Sccps -> SccpT]  BY StateFields
<1>2. sccp \in [Sccps -> SccpT] /\ sccp[s] = U /\ \A r \in Sccps \ {s} : sccp[r] = S.sccp[r]
  BY <1>1
<1> HIDE DEF sccp
<1>3. Changed(S, WithSccp(S, s, U, wire), sccp, S.radio, wire, S.msc, S.got)
  BY <1>2, WithChanges, StateFields DEF sccp, WithSccp
<1> QED  BY <1>2, <1>3 DEF Changed

\* What is under way on one connection.
LEMMA ChanFields ==
  ASSUME NEW S \in ObState, NEW s \in Sccps
  PROVE  /\ Chan(S) \in [Sccps -> SUBSET Nat]
         /\ Chan(S)[s] = Numbers(S.wire, s) \cup Numbers(S.sccp[s].q, s)
<1>1. \A r \in Sccps : S.sccp[r].q \in Seq(Msg) /\ S.wire \in Seq(Msg)  BY DEF ObState, SccpT
<1> QED  BY <1>1, NumbersNat DEF Chan

\* bsc_queue_for_msc() writes to the socket, queues or drops.
LEMMA SendGood ==
  ASSUME NEW S, Good(S), NEW s \in Sccps, NEW t \in Types \ {"CR"}, S.sccp[s].st # "free",
         NEW T, T = bsc_queue_for_msc(S, s, t)
  PROVE  /\ Good(T) /\ SameLink(S, T) /\ T.alive = S.alive /\ T.radio = S.radio /\ T.msc = S.msc /\ T.got = S.got
         /\ \A r \in Sccps \ {s} : T.sccp[r] = S.sccp[r] /\ (Fits(S, r) => Fits(T, r))
         /\ T.sccp[s].n = S.sccp[s].n + 1 /\ T.sccp[s].conn = S.sccp[s].conn /\ T.sccp[s].st = S.sccp[s].st
         /\ Chan(T) \in {Chan(S), [Chan(S) EXCEPT ![s] = @ \cup {S.sccp[s].n + 1}]}
         /\ \A x \in Chan(S)[s] : x < S.sccp[s].n + 1
         /\ S.got[s] < S.sccp[s].n + 1
<1> DEFINE sc == S.sccp[s]
           n == sc.n + 1
           m == Sent(S, s, t)
           W == Numbers(S.wire, s)
<1>0. S \in ObState /\ sc \in SccpT /\ S.wire \in Seq(Msg) /\ sc.q \in Seq(Msg) /\ sc.n \in Nat /\ n \in Nat
      /\ sc.qs \in Nat /\ S.got \in [Sccps -> Nat] /\ Growing(S.wire) /\ Mutual(S)
  BY DEF Good, ObState, SccpT
<1>1. m \in Msg /\ m.s = s /\ m.n = n /\ m.t # "CR"
  BY <1>0 DEF Msg, Types, Sent
<1>2. ConFine(S, s)  BY DEF Good
<1>3. QueueFine(sc, s) /\ OrderFine(sc, s, W, S.got[s]) /\ KnownFine(sc, S.msc[s], s \in Asking(S.wire))
  BY <1>2 DEF ConFine, Fine
<1>4. W \subseteq Nat /\ Numbers(sc.q, s) \subseteq Nat
  BY <1>0, NumbersNat
<1>5. (\A x \in W \cup Numbers(sc.q, s) : x < n) /\ S.got[s] < n /\ S.got[s] \in Nat
  BY <1>0, <1>3, <1>4 DEF OrderFine
<1>6. Chan(S) \in [Sccps -> SUBSET Nat] /\ Chan(S)[s] = W \cup Numbers(sc.q, s)
  BY <1>0, ChanFields
\* Everything but the connection itself, for the four cases.
<1>7. ASSUME NEW U \in SccpT, NEW wire \in Seq(Msg), T = WithSccp(S, s, U, wire),
             U.n = n, U.conn = sc.conn, U.st = sc.st, Growing(wire), Asking(wire) = Asking(S.wire),
             \A r \in Sccps \ {s} : Numbers(wire, r) = Numbers(S.wire, r),
             QueueFine(U, s), OrderFine(U, s, Numbers(wire, s), S.got[s]),
             Numbers(wire, s) \cup Numbers(U.q, s) \in {Chan(S)[s], Chan(S)[s] \cup {n}}
      PROVE  /\ Good(T) /\ SameLink(S, T) /\ T.alive = S.alive /\ T.radio = S.radio /\ T.msc = S.msc /\ T.got = S.got
             /\ \A r \in Sccps \ {s} : T.sccp[r] = S.sccp[r] /\ (Fits(S, r) => Fits(T, r))
             /\ T.sccp[s].n = n /\ T.sccp[s].conn = sc.conn /\ T.sccp[s].st = sc.st
             /\ Chan(T) \in {Chan(S), [Chan(S) EXCEPT ![s] = @ \cup {n}]}
  <2>0. S \in ObState /\ T = WithSccp(S, s, U, wire)  BY <1>0, <1>7
  <2>1. /\ T \in ObState /\ SameLink(S, T) /\ T.alive = S.alive
        /\ T.sccp[s] = U /\ \A r \in Sccps \ {s} : T.sccp[r] = S.sccp[r]
        /\ T.radio = S.radio /\ T.wire = wire /\ T.msc = S.msc /\ T.got = S.got
    BY <2>0, WithSccpFields
  <2>2. \A r \in Sccps : T.sccp[r].conn = S.sccp[r].conn  BY <1>7, <2>1
  <2>3. Mutual(T)
    BY <1>0, <2>1, <2>2, SameMutual
  <2>4. KnownFine(U, S.msc[s], s \in Asking(wire))  BY <1>3, <1>7 DEF KnownFine
  <2>5. ConFine(T, s)  BY <1>7, <2>1, <2>4 DEF ConFine, Fine
  <2>6. OnlyOne(S, T, s)  BY <1>7, <2>1 DEF OnlyOne
  <2>7. Good(T) /\ (\A r \in Sccps \ {s} : Fits(S, r) => Fits(T, r))
        /\ Chan(T) = [Chan(S) EXCEPT ![s] = Numbers(wire, s) \cup Numbers(U.q, s)]
    BY <1>7, <2>1, <2>3, <2>5, <2>6, OneSccp
  <2>8. Chan(T) \in {Chan(S), [Chan(S) EXCEPT ![s] = @ \cup {n}]}
    <3>1. PICK x : x = Numbers(wire, s) \cup Numbers(U.q, s)  OBVIOUS
    <3>2. x \in {Chan(S)[s], Chan(S)[s] \cup {n}} /\ Chan(T) = [Chan(S) EXCEPT ![s] = x]  BY <1>7, <2>7, <3>1
    <3> QED  BY <1>6, <3>2
  <2> QED  BY <1>7, <2>1, <2>7, <2>8
<1>9. \A x \in Chan(S)[s] : x < n  BY <1>5, <1>6
<1>10. CASE sc.st = "established" /\ sc.qs = 0 /\ Takes(S.wire, 1) = 1
  <2> DEFINE U == [sc EXCEPT !.n = @ + 1]
             wire == Append(S.wire, m)
  <2>1. T = WithSccp(S, s, U, wire)
    BY <1>0, <1>10, SendForm
  <2>2. U \in SccpT /\ U.n = n /\ U.conn = sc.conn /\ U.st = sc.st /\ U.q = sc.q /\ U.qs = sc.qs
    BY <1>0 DEF SccpT
  <2>3. wire \in Seq(Msg) /\ Growing(wire) /\ Numbers(wire, s) = W \cup {n}
        /\ Asking(wire) = Asking(S.wire) /\ \A r \in Sccps \ {s} : Numbers(wire, r) = Numbers(S.wire, r)
    <3>1. S.wire \in Seq(Msg) /\ m \in Msg /\ \A x \in Numbers(S.wire, m.s) : x < m.n  BY <1>0, <1>1, <1>5
    <3>2. /\ Append(S.wire, m) \in Seq(Msg)
          /\ Numbers(Append(S.wire, m), m.s) = Numbers(S.wire, m.s) \cup {m.n}
          /\ \A r \in Sccps \ {m.s} : Numbers(Append(S.wire, m), r) = Numbers(S.wire, r)
          /\ m.t # "CR" => Asking(Append(S.wire, m)) = Asking(S.wire)
          /\ Growing(S.wire) => Growing(Append(S.wire, m))
      BY <3>1, AppendMessage
    <3> QED  BY <1>0, <1>1, <3>2
  <2> HIDE DEF U, wire
  <2>4. Numbers(sc.q, s) = {}  BY <1>3, <1>10, NoMessages DEF QueueFine
  <2>5. QueueFine(U, s)  BY <1>3, <2>2 DEF QueueFine
  <2>6. OrderFine(U, s, W \cup {n}, S.got[s])  BY <1>0, <1>3, <1>4, <1>5, <2>2, <2>4 DEF OrderFine
  <2>7. Numbers(wire, s) \cup Numbers(U.q, s) = Chan(S)[s] \cup {n}
    BY <1>6, <2>2, <2>3
  <2> QED  BY <1>5, <1>9, <1>7, <2>1, <2>2, <2>3, <2>5, <2>6, <2>7
<1>13. CASE sc.st = "established" /\ sc.qs = 0 /\ Takes(S.wire, 1) # 1
  <2> DEFINE U == [sc EXCEPT !.n = @ + 1, !.mute = @ \/ t \in Clearing]
  <2>1. T = WithSccp(S, s, U, S.wire)
    BY <1>0, <1>13, SendForm
  <2>2. U \in SccpT /\ U.n = n /\ U.conn = sc.conn /\ U.st = sc.st /\ U.q = sc.q /\ U.qs = sc.qs
    BY <1>0 DEF SccpT
  <2> HIDE DEF U
  <2>3. QueueFine(U, s)  BY <1>3, <2>2 DEF QueueFine
  <2>4. OrderFine(U, s, W, S.got[s])  BY <1>0, <1>3, <1>4, <1>5, <2>2 DEF OrderFine
  <2>5. Numbers(S.wire, s) \cup Numbers(U.q, s) = Chan(S)[s]
    BY <1>6, <2>2
  <2> QED  BY <1>0, <1>5, <1>9, <1>7, <2>1, <2>2, <2>3, <2>4, <2>5
<1>11. CASE ~(sc.st = "established" /\ sc.qs = 0) /\ sc.qs > ObLimit
  <2> DEFINE U == [sc EXCEPT !.n = @ + 1, !.mute = @ \/ t = "CLEAR_REQ"]
  <2>1. T = WithSccp(S, s, U, S.wire)
    BY <1>0, <1>11, SendForm
  <2>2. U \in SccpT /\ U.n = n /\ U.conn = sc.conn /\ U.st = sc.st /\ U.q = sc.q /\ U.qs = sc.qs
    BY <1>0 DEF SccpT
  <2> HIDE DEF U
  <2>3. QueueFine(U, s)  BY <1>3, <2>2 DEF QueueFine
  <2>4. OrderFine(U, s, W, S.got[s])  BY <1>0, <1>3, <1>4, <1>5, <2>2 DEF OrderFine
  <2>5. Numbers(S.wire, s) \cup Numbers(U.q, s) = Chan(S)[s]
    BY <1>6, <2>2
  <2> QED  BY <1>0, <1>5, <1>9, <1>7, <2>1, <2>2, <2>3, <2>4, <2>5
<1>12. CASE ~(sc.st = "established" /\ sc.qs = 0) /\ ~(sc.qs > ObLimit)
  <2> DEFINE q == Append(sc.q, m)
             U == [sc EXCEPT !.n = @ + 1, !.qs = @ + 1, !.q = Append(@, m)]
  <2>1. T = WithSccp(S, s, U, S.wire)
    BY <1>0, <1>12, SendForm
  <2>2. /\ q \in Seq(Msg) /\ Growing(q) /\ Asking(q) = {} /\ Numbers(q, s) = Numbers(sc.q, s) \cup {n}
    <3>1. sc.q \in Seq(Msg) /\ m \in Msg /\ \A x \in Numbers(sc.q, m.s) : x < m.n  BY <1>0, <1>1, <1>5
    <3>2. Growing(sc.q) /\ Asking(sc.q) = {}  BY <1>3 DEF QueueFine
    <3>3. /\ Append(sc.q, m) \in Seq(Msg)
          /\ Numbers(Append(sc.q, m), m.s) = Numbers(sc.q, m.s) \cup {m.n}
          /\ m.t # "CR" => Asking(Append(sc.q, m)) = Asking(sc.q)
          /\ Growing(sc.q) => Growing(Append(sc.q, m))
      BY <3>1, AppendMessage
    <3> QED  BY <1>1, <3>2, <3>3
  <2>3. Len(q) = Len(sc.q) + 1 /\ \A i \in 1..Len(q) : q[i].s = s
    <3>1. \A i \in 1..Len(sc.q) : sc.q[i].s = m.s  BY <1>1, <1>3 DEF QueueFine
    <3>2. Len(Append(sc.q, m)) = Len(sc.q) + 1 /\ \A i \in 1..Len(Append(sc.q, m)) : Append(sc.q, m)[i].s = m.s
      BY <1>0, <1>1, <3>1, AppendMessage, ZenonT(80)
    <3> QED  BY <1>1, <3>2
  <2>4. U = [sc EXCEPT !.n = n, !.qs = sc.qs + 1, !.q = q]
    BY <1>0 DEF SccpT
  <2> HIDE DEF q, U
  <2>5. U \in SccpT /\ U.n = n /\ U.conn = sc.conn /\ U.st = sc.st /\ U.q = q /\ U.qs = sc.qs + 1
    <3>1. sc.qs + 1 \in Nat  BY <1>0
    <3> QED  BY <1>0, <2>2, <2>4, <3>1 DEF SccpT
  <2>6. sc.st # "established"
    BY <1>3, <1>12 DEF QueueFine
  <2>7. QueueFine(U, s)  BY <1>3, <2>2, <2>3, <2>5, <2>6 DEF QueueFine
  <2>8. OrderFine(U, s, W, S.got[s])  BY <1>0, <1>3, <1>4, <1>5, <2>2, <2>5 DEF OrderFine
  <2>9. Numbers(S.wire, s) \cup Numbers(U.q, s) = Chan(S)[s] \cup {n}
    BY <1>6, <2>2, <2>5
  <2> QED  BY <1>0, <1>5, <1>9, <1>7, <2>1, <2>5, <2>7, <2>8, <2>9
<1> QED  BY <1>10, <1>11, <1>12, <1>13
-----------------------------------------------------------------------------
Turn(S, s, U, radio, wire, msc, got) == With(S, [S.sccp EXCEPT ![s] = U], radio, wire, msc, got)

\* The fields Turn sets, and those it leaves alone.
LEMMA TurnFields ==
  ASSUME NEW S \in ObState, NEW s \in Sccps, NEW U \in SccpT, NEW radio \in [Radio -> {0} \cup Sccps],
         NEW wire \in Seq(Msg), NEW msc \in [Sccps -> States], NEW got \in [Sccps -> Nat]
  PROVE  /\ Turn(S, s, U, radio, wire, msc, got) \in ObState
         /\ SameLink(S, Turn(S, s, U, radio, wire, msc, got))
         /\ Turn(S, s, U, radio, wire, msc, got).alive = S.alive
         /\ Turn(S, s, U, radio, wire, msc, got).sccp[s] = U
         /\ \A r \in Sccps \ {s} : Turn(S, s, U, radio, wire, msc, got).sccp[r] = S.sccp[r]
         /\ Turn(S, s, U, radio, wire, msc, got).radio = radio
         /\ Turn(S, s, U, radio, wire, msc, got).wire = wire
         /\ Turn(S, s, U, radio, wire, msc, got).msc = msc
         /\ Turn(S, s, U, radio, wire, msc, got).got = got
<1> DEFINE sccp == [S.sccp EXCEPT ![s] = U]
<1>1. S.sccp \in [Sccps -> SccpT]  BY StateFields
<1>2. sccp \in [Sccps -> SccpT] /\ sccp[s] = U /\ \A r \in Sccps \ {s} : sccp[r] = S.sccp[r]
  BY <1>1
<1> HIDE DEF sccp
<1>3. Changed(S, Turn(S, s, U, radio, wire, msc, got), sccp, radio, wire, msc, got)
  BY <1>2, WithChanges DEF sccp, Turn, States
<1> QED  BY <1>2, <1>3 DEF Changed

Unlinked(S, c) == IF c = 0 THEN S.radio ELSE [S.radio EXCEPT ![c] = 0]
Detached(S, s) ==
    Turn(S, s, [S.sccp[s] EXCEPT !.conn = 0], Unlinked(S, S.sccp[s].conn), S.wire, S.msc, S.got)
Freed(S, s) == Turn(S, s, NoSccp, Unlinked(S, S.sccp[s].conn), S.wire, S.msc, S.got)

\* Letting a radio connection go, if there is one, touches no other.
LEMMA UnlinkedType ==
  ASSUME NEW S \in ObState, NEW c \in {0} \cup Radio
  PROVE  /\ Unlinked(S, c) \in [Radio -> {0} \cup Sccps]
         /\ \A d \in Radio : Unlinked(S, c)[d] = IF d = c THEN 0 ELSE S.radio[d]
<1>1. S.radio \in [Radio -> {0} \cup Sccps]  BY StateFields
<1> QED  BY <1>1, ObBounds DEF Unlinked

\* ... and leaves the others with their partners.
LEMMA UnlinkMutual ==
  ASSUME NEW S \in ObState, Mutual(S), NEW T, NEW s \in Sccps,
         T.radio = Unlinked(S, S.sccp[s].conn), T.sccp[s].conn = 0,
         \A r \in Sccps \ {s} : T.sccp[r] = S.sccp[r]
  PROVE  Mutual(T)
<1>1. S.radio \in [Radio -> {0} \cup Sccps] /\ \A r \in Sccps : S.sccp[r].conn \in {0} \cup Radio
  BY StateFields DEF SccpT
<1>2. \A d \in Radio : T.radio[d] = IF d = S.sccp[s].conn THEN 0 ELSE S.radio[d]
  <2>1. S.sccp[s].conn \in {0} \cup Radio  BY <1>1
  <2>2. \A d \in Radio : Unlinked(S, S.sccp[s].conn)[d] = IF d = S.sccp[s].conn THEN 0 ELSE S.radio[d]
    BY <2>1, UnlinkedType
  <2> QED  BY <2>2
<1>3. ASSUME NEW c \in Radio, T.radio[c] # 0 PROVE T.sccp[T.radio[c]].conn = c
  <2>1. c # S.sccp[s].conn /\ T.radio[c] = S.radio[c] /\ S.radio[c] \in Sccps  BY <1>1, <1>2, <1>3
  <2>2. S.sccp[S.radio[c]].conn = c  BY <1>3, <2>1 DEF Mutual
  <2> QED  BY <2>1, <2>2
<1>4. ASSUME NEW r \in Sccps, T.sccp[r].conn # 0 PROVE T.radio[T.sccp[r].conn] = r
  <2>1. r # s /\ T.sccp[r].conn = S.sccp[r].conn /\ S.sccp[r].conn \in Radio  BY <1>1, <1>4
  <2>2. S.radio[S.sccp[r].conn] = r  BY <1>4, <2>1 DEF Mutual
  <2>3. S.sccp[s].conn # S.sccp[r].conn  BY <1>4, <2>1, <2>2 DEF Mutual
  <2> QED  BY <1>2, <2>1, <2>2, <2>3
<1> QED  BY <1>3, <1>4 DEF Mutual

\* bsc_clear_request detaches the radio connection and queues a CLEAR REQUEST.
LEMMA ClearRequestForm ==
  ASSUME NEW S \in ObState, Mutual(S), NEW c \in Radio, S.radio[c] # 0
  PROVE  /\ S.radio[c] \in Sccps /\ S.sccp[S.radio[c]].conn = c /\ c # 0
         /\ bsc_clear_request(S, c) = bsc_queue_for_msc(Detached(S, S.radio[c]), S.radio[c], "CLEAR_REQ")
<1>1. S.radio[c] \in Sccps /\ S.sccp[S.radio[c]].conn = c /\ c # 0
  BY StateFields, ObBounds DEF Mutual
<1>2. PICK s : s = S.radio[c]  OBVIOUS
<1>3. [S EXCEPT !.sccp[s].conn = 0, !.radio[c] = 0] = Detached(S, s)
  BY <1>1, <1>2 DEF Detached, Turn, With, Unlinked, ObState
<1> QED  BY <1>1, <1>2, <1>3 DEF bsc_clear_request

\* A CLEAR COMMAND detaches the radio connection, if there is one, and queues a CLEAR COMPLETE.
LEMMA ClearCommandForm ==
  ASSUME NEW S \in ObState, NEW s \in Sccps
  PROVE  bssmap_handle_clear_command(S, s) = bsc_queue_for_msc(Detached(S, s), s, "CLEAR_COMPL")
<1>1. [FreeRadio(S, S.sccp[s].conn) EXCEPT !.sccp[s].conn = 0] = Detached(S, s)
  BY DEF Detached, Turn, With, Unlinked, ObState, FreeRadio
<1> QED  BY <1>1 DEF bssmap_handle_clear_command

\* bsc_sccp_force_free, and the connection reported gone, free the record and let the radio connection go.
LEMMA FreeForm ==
  ASSUME NEW S \in ObState, NEW s \in Sccps
  PROVE  /\ bsc_delete_connection(free_queued(FreeRadio(S, S.sccp[s].conn), s), s) = Freed(S, s)
         /\ bsc_sccp_force_free(S, s) = Freed(S, s)
<1> DEFINE F == FreeRadio(S, S.sccp[s].conn)
<1>1. F = [S EXCEPT !.radio = Unlinked(S, S.sccp[s].conn)]
  BY DEF FreeRadio, Unlinked, ObState
<1>2. bsc_delete_connection(free_queued(F, s), s) = [F EXCEPT !.sccp = [S.sccp EXCEPT ![s] = NoSccp]]
  BY <1>1 DEF bsc_delete_connection, free_queued, ObState
<1>3. [F EXCEPT !.sccp = [S.sccp EXCEPT ![s] = NoSccp]] = Freed(S, s)
  BY <1>1 DEF Freed, Turn, With, ObState
<1> QED  BY <1>2, <1>3 DEF bsc_sccp_force_free
\* Without its radio connection an SCCP connection is as before.
LEMMA DetachGood ==
  ASSUME NEW S, Good(S), NEW s \in Sccps, S.sccp[s].st # "free", NEW T, T = Detached(S, s)
  PROVE  /\ Good(T) /\ SameLink(S, T) /\ T.alive = S.alive /\ T.msc = S.msc /\ T.got = S.got
         /\ \A r \in Sccps \ {s} : T.sccp[r] = S.sccp[r] /\ (Fits(S, r) => Fits(T, r))
         /\ T.sccp[s].n = S.sccp[s].n /\ T.sccp[s].conn = 0 /\ T.sccp[s].st = S.sccp[s].st
         /\ Chan(T) = Chan(S)
<1> DEFINE U == [S.sccp[s] EXCEPT !.conn = 0]
           radio == Unlinked(S, S.sccp[s].conn)
<1>0. S \in ObState /\ S.sccp[s] \in SccpT /\ S.wire \in Seq(Msg) /\ Growing(S.wire) /\ Mutual(S)
      /\ S.msc \in [Sccps -> States] /\ S.got \in [Sccps -> Nat] /\ S.sccp[s].conn \in {0} \cup Radio
  BY DEF Good, ObState, SccpT, States
<1>1. U \in SccpT /\ U.n = S.sccp[s].n /\ U.st = S.sccp[s].st /\ U.q = S.sccp[s].q /\ U.qs = S.sccp[s].qs
      /\ U.conn = 0
  BY <1>0 DEF SccpT
<1>2. radio \in [Radio -> {0} \cup Sccps]  BY <1>0, UnlinkedType
<1>3. T = Turn(S, s, U, radio, S.wire, S.msc, S.got)  BY DEF Detached
<1> HIDE DEF U
<1>4. /\ T \in ObState /\ SameLink(S, T) /\ T.alive = S.alive
      /\ T.sccp[s] = U /\ \A r \in Sccps \ {s} : T.sccp[r] = S.sccp[r]
      /\ T.radio = radio /\ T.wire = S.wire /\ T.msc = S.msc /\ T.got = S.got
  BY <1>0, <1>1, <1>2, <1>3, TurnFields
<1>5. Mutual(T)
  BY <1>0, <1>1, <1>4, UnlinkMutual
<1>6. OnlyOne(S, T, s)  BY <1>4 DEF OnlyOne
<1>7. ConFine(T, s)
  <2>1. ConFine(S, s)  BY DEF Good
  <2>2. QueueFine(U, s)  BY <1>1, <2>1 DEF ConFine, Fine, QueueFine
  <2>3. OrderFine(U, s, Numbers(S.wire, s), S.got[s])  BY <1>1, <2>1 DEF ConFine, Fine, OrderFine
  <2>4. KnownFine(U, S.msc[s], s \in Asking(S.wire))  BY <1>1, <2>1 DEF ConFine, Fine, KnownFine
  <2> QED  BY <1>4, <2>2, <2>3, <2>4 DEF ConFine, Fine
<1>8. Good(T) /\ (\A r \in Sccps \ {s} : Fits(S, r) => Fits(T, r))
  BY <1>0, <1>4, <1>5, <1>6, <1>7, OneSccp
<1>9. Chan(T) = Chan(S)
  BY <1>1, <1>4 DEF Chan
<1> QED  BY <1>1, <1>4, <1>8, <1>9

\* Freed, an SCCP connection loses what it had queued.
LEMMA FreeGood ==
  ASSUME NEW S, Good(S), NEW s \in Sccps, S.msc[s] \notin Confirmed, NEW T, T = Freed(S, s)
  PROVE  /\ Good(T) /\ SameLink(S, T) /\ T.alive = S.alive /\ T.msc = S.msc /\ T.got = S.got /\ T.wire = S.wire
         /\ \A r \in Sccps \ {s} : T.sccp[r] = S.sccp[r] /\ (Fits(S, r) => Fits(T, r))
         /\ T.sccp[s] = NoSccp /\ Fits(T, s)
         /\ Chan(T) = [Chan(S) EXCEPT ![s] = Numbers(S.wire, s)]
         /\ \A x \in Numbers(S.wire, s), y \in Numbers(S.sccp[s].q, s) : x < y
<1> DEFINE radio == Unlinked(S, S.sccp[s].conn)
<1>0. S \in ObState /\ S.sccp[s] \in SccpT /\ S.wire \in Seq(Msg) /\ Growing(S.wire) /\ Mutual(S)
      /\ S.msc \in [Sccps -> States] /\ S.got \in [Sccps -> Nat] /\ S.sccp[s].conn \in {0} \cup Radio
  BY DEF Good, ObState, SccpT, States
<1>1. NoSccp \in SccpT /\ NoSccp.st = "free" /\ NoSccp.q = <<>> /\ NoSccp.qs = 0 /\ NoSccp.conn = 0
  BY DEF SccpT, NoSccp
<1>2. radio \in [Radio -> {0} \cup Sccps]  BY <1>0, UnlinkedType
<1>3. T = Turn(S, s, NoSccp, radio, S.wire, S.msc, S.got)  BY DEF Freed
<1>4. /\ T \in ObState /\ SameLink(S, T) /\ T.alive = S.alive
      /\ T.sccp[s] = NoSccp /\ \A r \in Sccps \ {s} : T.sccp[r] = S.sccp[r]
      /\ T.radio = radio /\ T.wire = S.wire /\ T.msc = S.msc /\ T.got = S.got
  BY <1>0, <1>1, <1>2, <1>3, TurnFields, SMTT(60)
<1>5. Mutual(T)
  BY <1>0, <1>1, <1>4, UnlinkMutual
<1>6. OnlyOne(S, T, s)  BY <1>4 DEF OnlyOne
<1>7. ConFine(S, s)  BY DEF Good
<1>8. Numbers(<<>>, s) = {} /\ Growing(<<>>) /\ Asking(<<>>) = {} /\ Len(<<>>) = 0
  BY NoMessages
<1>9. ConFine(T, s)
  <2>1. QueueFine(NoSccp, s)  BY <1>1, <1>8 DEF QueueFine
  <2>2. OrderFine(NoSccp, s, Numbers(S.wire, s), S.got[s])  BY <1>1, <1>7, <1>8 DEF ConFine, Fine, OrderFine
  <2>3. KnownFine(NoSccp, S.msc[s], s \in Asking(S.wire))  BY <1>1, <1>7 DEF ConFine, Fine, KnownFine
  <2> QED  BY <1>4, <2>1, <2>2, <2>3 DEF ConFine, Fine
<1>10. Good(T) /\ (\A r \in Sccps \ {s} : Fits(S, r) => Fits(T, r))
       /\ Chan(T) = [Chan(S) EXCEPT ![s] = Numbers(T.wire, s) \cup Numbers(T.sccp[s].q, s)]
  BY <1>0, <1>4, <1>5, <1>6, <1>9, OneSccp
<1>11. Chan(T) = [Chan(S) EXCEPT ![s] = Numbers(S.wire, s)]
  BY <1>1, <1>4, <1>8, <1>10
<1>12. Fits(T, s)  BY <1>1, <1>4 DEF Fits
<1>13. \A x \in Numbers(S.wire, s), y \in Numbers(S.sccp[s].q, s) : x < y
  BY <1>7 DEF ConFine, Fine, OrderFine
<1> QED  BY <1>4, <1>10, <1>11, <1>12, <1>13

\* What the MSC knows of the connection changes, and nothing else.
Told(S, s, v) == [S EXCEPT !.msc[s] = v]
ToldState(S, M, s, v) ==
    /\ Good(M) /\ SameLink(S, M) /\ M.got = S.got /\ M.wire = S.wire /\ M.sccp = S.sccp /\ M.msc[s] = v
    /\ \A r \in Sccps \ {s} : Fits(M, r)
    /\ Chan(M) = Chan(S)
\* A legal change of it keeps the invariant.
LEMMA ToldGood ==
  ASSUME NEW S, Good(S), NEW s \in Sccps, \A r \in Sccps : Fits(S, r), NEW v \in States,
         v \in Confirmed => S.sccp[s].st = "established", s \in Asking(S.wire) => v = "none"
  PROVE  ToldState(S, Told(S, s, v), s, v)
<1> DEFINE T == Told(S, s, v)
<1> DEFINE msc == [S.msc EXCEPT ![s] = v]
<1>0. S \in ObState /\ Growing(S.wire) /\ Mutual(S) /\ S.msc \in [Sccps -> States]
  BY DEF Good, ObState, States
<1>1. msc \in [Sccps -> States] /\ msc[s] = v /\ \A r \in Sccps \ {s} : msc[r] = S.msc[r]
  BY <1>0
<1> HIDE DEF msc
<1>2. T = With(S, S.sccp, S.radio, S.wire, msc, S.got)
  BY <1>0 DEF With, ObState, msc, Told
<1> HIDE DEF T
<1>3. Changed(S, T, S.sccp, S.radio, S.wire, msc, S.got)
  <2>1. /\ S.sccp \in [Sccps -> SccpT] /\ S.radio \in [Radio -> {0} \cup Sccps] /\ S.wire \in Seq(Msg)
        /\ S.got \in [Sccps -> Nat]
    BY <1>0, StateFields
  <2>2. Changed(S, With(S, S.sccp, S.radio, S.wire, msc, S.got), S.sccp, S.radio, S.wire, msc, S.got)
    BY <1>0, <1>1, <2>1, WithChanges DEF States
  <2> QED  BY <1>2, <2>2
<1>4. /\ T \in ObState /\ SameLink(S, T) /\ T.alive = S.alive
      /\ T.sccp = S.sccp /\ T.radio = S.radio /\ T.wire = S.wire /\ T.msc = msc /\ T.got = S.got
  BY <1>3 DEF Changed
<1>5. Mutual(T)  BY <1>0, <1>4 DEF Mutual
<1>6. OnlyOne(S, T, s)  BY <1>1, <1>4 DEF OnlyOne
<1>7. ConFine(T, s)
  <2>1. ConFine(S, s)  BY DEF Good
  <2>2. KnownFine(S.sccp[s], v, s \in Asking(S.wire))  BY DEF KnownFine
  <2> QED  BY <1>1, <1>4, <2>1, <2>2 DEF ConFine, Fine
<1>8. Good(T) /\ (\A r \in Sccps \ {s} : Fits(S, r) => Fits(T, r))
  BY <1>0, <1>4, <1>5, <1>6, <1>7, OneSccp
<1>9. Chan(T) = Chan(S)  BY <1>4 DEF Chan
<1>10. ToldState(S, T, s, v)  BY <1>1, <1>4, <1>8, <1>9 DEF ToldState
<1> QED  BY <1>10 DEF T
\* The messages of the queue the wire has room for, and whether one of the others clears the connection.
Written(S, s) == SubSeq(S.sccp[s].q, 1, Takes(S.wire, Len(S.sccp[s].q)))
Silenced(S, s) ==
    LET q == S.sccp[s].q IN \E i \in Takes(S.wire, Len(q)) + 1..Len(q) : q[i].t \in Clearing
SentAll(sc, mute) == [sc EXCEPT !.st = "established", !.cc = FALSE, !.q = <<>>, !.qs = 0, !.mute = @ \/ mute]
ConfirmedCon(S, s) ==
    Turn(S, s, SentAll(S.sccp[s], Silenced(S, s)), S.radio, S.wire \o Written(S, s), [S.msc EXCEPT ![s] = "up"], S.got)

\* A confirmed connection has nothing queued.
LEMMA SentAllType ==
  ASSUME NEW sc \in SccpT, NEW mute \in BOOLEAN
  PROVE  /\ SentAll(sc, mute) \in SccpT /\ SentAll(sc, mute).st = "established" /\ SentAll(sc, mute).q = <<>>
         /\ SentAll(sc, mute).qs = 0 /\ SentAll(sc, mute).n = sc.n /\ SentAll(sc, mute).conn = sc.conn
<1>1. PICK e : e = <<>>  OBVIOUS
<1>2. e \in Seq(Msg)  BY <1>1
<1>6. PICK b \in BOOLEAN : b = (sc.mute \/ mute)  BY DEF SccpT
<1>3. PICK U : U = [sc EXCEPT !.st = "established", !.cc = FALSE, !.q = e, !.qs = 0, !.mute = b]  OBVIOUS
<1>4. U \in SccpT /\ U.st = "established" /\ U.q = e /\ U.qs = 0 /\ U.n = sc.n /\ U.conn = sc.conn
  BY <1>2, <1>3 DEF SccpT
<1>5. SentAll(sc, mute) = U  BY <1>1, <1>3, <1>6 DEF SentAll
<1> QED  BY <1>1, <1>4, <1>5

\* msc_outgoing_sccp_state on a confirmation: the queue goes to the wire, as far as there is room.
LEMMA ConfirmForm ==
  ASSUME NEW S \in ObState, NEW s \in Sccps, S.sccp[s].qs - Len(S.sccp[s].q) = 0
  PROVE  msc_outgoing_sccp_state([S EXCEPT !.msc[s] = "up"], s, "established") = ConfirmedCon(S, s)
<1> DEFINE M == [S.msc EXCEPT ![s] = "up"]
           sc == S.sccp[s]
           A == [S EXCEPT !.msc = M]
           U == [sc EXCEPT !.st = "established", !.cc = FALSE]
           B == [A EXCEPT !.sccp = [S.sccp EXCEPT ![s] = U]]
<1>0. sc \in SccpT  BY DEF ObState
<1>1. A = [S EXCEPT !.msc[s] = "up"] /\ A.sccp = S.sccp /\ A.wire = S.wire
  BY DEF ObState
<1>2. [A EXCEPT !.sccp[s] = [@ EXCEPT !.st = "established", !.cc = FALSE]] = B
  BY <1>1 DEF ObState
<1>3. B.sccp[s] = U /\ B.wire = S.wire /\ B.sccp = [S.sccp EXCEPT ![s] = U]
  BY <1>1 DEF ObState
<1>4. msc_outgoing_sccp_state(A, s, "established") = send_queued(B, s)
  BY <1>2 DEF msc_outgoing_sccp_state
<1>5. U.q = sc.q /\ U.qs = sc.qs
  BY <1>0 DEF SccpT
<1>6. PICK w : w = S.wire \o Written(S, s)  OBVIOUS
<1>11. PICK b : b = Silenced(S, s)  OBVIOUS
<1>7. PICK V : V = [U EXCEPT !.q = <<>>, !.qs = 0, !.mute = @ \/ b]  OBVIOUS
<1> HIDE DEF U, M
<1>8. send_queued(B, s) = [B EXCEPT !.wire = w, !.sccp[s] = V]
  BY <1>3, <1>5, <1>6, <1>7, <1>11 DEF send_queued, Written, Silenced
<1>9. [B EXCEPT !.wire = w, !.sccp[s] = V] = Turn(S, s, V, S.radio, w, M, S.got)
  BY <1>1, <1>3, ZenonT(80) DEF Turn, With, ObState
<1>10. V = SentAll(sc, Silenced(S, s))
  BY <1>0, <1>7, <1>11 DEF SentAll, SccpT, U
<1> QED  BY <1>1, <1>4, <1>6, <1>8, <1>9, <1>10 DEF M, ConfirmedCon

\* The last messages of one connection, or none, are dropped.
Dropped(S, T, s) ==
    \E kept \in SUBSET Chan(S)[s] :
        /\ \A x \in kept, y \in Chan(S)[s] \ kept : x < y
        /\ Chan(T) = [Chan(S) EXCEPT ![s] = kept]
\* The connection is confirmed: what was queued is written to the socket, or its last part is dropped.
LEMMA ConfirmGood ==
  ASSUME NEW S, Good(S), NEW s \in Sccps, S.sccp[s].st = "request", S.msc[s] = "asked",
         NEW T, T = ConfirmedCon(S, s)
  PROVE  /\ S.sccp[s].qs - Len(S.sccp[s].q) = 0
         /\ Good(T) /\ SameLink(S, T) /\ T.alive = S.alive /\ T.got = S.got
         /\ \A r \in Sccps \ {s} : T.sccp[r] = S.sccp[r] /\ (Fits(S, r) => Fits(T, r))
         /\ Fits(S, s) => Fits(T, s)
         /\ Dropped(S, T, s)
<1> DEFINE sc == S.sccp[s]
           U == SentAll(sc, Silenced(S, s))
           p == Written(S, s)
           wire == S.wire \o p
           msc == [S.msc EXCEPT ![s] = "up"]
           W == Numbers(S.wire, s)
           Q == Numbers(sc.q, s)
           P == Numbers(p, s)
<1>0. S \in ObState /\ sc \in SccpT /\ S.wire \in Seq(Msg) /\ sc.q \in Seq(Msg) /\ Growing(S.wire) /\ Mutual(S)
      /\ S.msc \in [Sccps -> States] /\ S.got \in [Sccps -> Nat] /\ S.radio \in [Radio -> {0} \cup Sccps]
      /\ sc.n \in Nat
  BY DEF Good, ObState, SccpT, States
<1>1. ConFine(S, s)  BY DEF Good
<1>2. QueueFine(sc, s) /\ OrderFine(sc, s, W, S.got[s]) /\ KnownFine(sc, S.msc[s], s \in Asking(S.wire))
  BY <1>1 DEF ConFine, Fine
<1>3. sc.qs - Len(sc.q) = 0  BY <1>0, <1>2 DEF QueueFine
<1>4. U \in SccpT /\ U.st = "established" /\ U.q = <<>> /\ U.qs = 0 /\ U.n = sc.n /\ U.conn = sc.conn
  <2>1. Silenced(S, s) \in BOOLEAN  BY DEF Silenced
  <2> QED  BY <1>0, <2>1, SentAllType
<1>5. T = Turn(S, s, U, S.radio, wire, msc, S.got)
  BY DEF ConfirmedCon
<1>6. msc \in [Sccps -> States] /\ msc[s] = "up" /\ \A r \in Sccps \ {s} : msc[r] = S.msc[r]
  BY <1>0 DEF States
<1>16. Growing(sc.q) /\ (\A i \in 1..Len(sc.q) : sc.q[i].s = s) /\ (\A x \in W, y \in Q : x < y) /\ Asking(sc.q) = {}
  BY <1>2 DEF QueueFine, OrderFine
<1>17. /\ p \in Seq(Msg) /\ Growing(p) /\ Asking(p) = {} /\ (\A i \in 1..Len(p) : p[i].s = s)
       /\ P \subseteq Q /\ \A x \in P, y \in Q \ P : x < y
  <2>1. PICK k : k = Takes(S.wire, Len(sc.q))  OBVIOUS
  <2>4. Len(S.wire) \in Nat /\ Len(sc.q) \in Nat  BY <1>0
  <2>5. Takes(S.wire, Len(sc.q)) \in 0..Len(sc.q)  BY <2>4, TakesSome
  <2>2. k \in 0..Len(sc.q)  BY <2>1, <2>5
  <2>3. p = SubSeq(sc.q, 1, k)  BY <2>1 DEF Written
  <2> QED  BY <1>0, <1>16, <2>2, <2>3, FirstMessages
<1> HIDE DEF p
<1>7. /\ wire \in Seq(Msg) /\ Numbers(wire, s) = W \cup P
      /\ \A r \in Sccps \ {s} : Numbers(wire, r) = Numbers(S.wire, r)
      /\ Asking(wire) = Asking(S.wire) \cup Asking(p)
      /\ Growing(wire)
  <2>2. /\ S.wire \o p \in Seq(Msg)
        /\ Numbers(S.wire \o p, s) = Numbers(S.wire, s) \cup Numbers(p, s)
        /\ \A r \in Sccps \ {s} : Numbers(S.wire \o p, r) = Numbers(S.wire, r)
        /\ Asking(S.wire \o p) = Asking(S.wire) \cup Asking(p)
        /\ Growing(S.wire) /\ Growing(p) /\ (\A x \in Numbers(S.wire, s), y \in Numbers(p, s) : x < y)
              => Growing(S.wire \o p)
    BY <1>0, <1>17, ConcatMessages
  <2> QED  BY <1>0, <1>16, <1>17, <2>2
<1>8. Asking(wire) = Asking(S.wire)  BY <1>7, <1>17
<1> HIDE DEF U, wire, msc
<1>9. /\ T \in ObState /\ SameLink(S, T) /\ T.alive = S.alive
      /\ T.sccp[s] = U /\ \A r \in Sccps \ {s} : T.sccp[r] = S.sccp[r]
      /\ T.radio = S.radio /\ T.wire = wire /\ T.msc = msc /\ T.got = S.got
  <2>1. U \in SccpT /\ wire \in Seq(Msg) /\ msc \in [Sccps -> States]  BY <1>4, <1>6, <1>7
  <2>2. S \in ObState /\ S.radio \in [Radio -> {0} \cup Sccps] /\ S.got \in [Sccps -> Nat]  BY <1>0
  <2>3. PICK X : X = Turn(S, s, U, S.radio, wire, msc, S.got)  OBVIOUS
  <2>4. X \in ObState /\ SameLink(S, X) /\ X.alive = S.alive
    BY <2>1, <2>2, <2>3, TurnFields
  <2>5. X.sccp[s] = U /\ \A r \in Sccps \ {s} : X.sccp[r] = S.sccp[r]
    BY <2>1, <2>2, <2>3, TurnFields
  <2>6. X.radio = S.radio /\ X.wire = wire /\ X.msc = msc /\ X.got = S.got
    BY <2>1, <2>2, <2>3, TurnFields
  <2> QED  BY <1>5, <2>3, <2>4, <2>5, <2>6
<1>10. Mutual(T)
  <2>1. \A r \in Sccps : T.sccp[r].conn = S.sccp[r].conn  BY <1>4, <1>9
  <2> QED  BY <1>0, <1>9, <2>1, SameMutual
<1>11. OnlyOne(S, T, s)  BY <1>6, <1>7, <1>8, <1>9 DEF OnlyOne
<1>12. ConFine(T, s)
  <2>1. Numbers(<<>>, s) = {} /\ Growing(<<>>) /\ Asking(<<>>) = {} /\ Len(<<>>) = 0
    BY NoMessages
  <2>2. QueueFine(U, s)  BY <1>4, <2>1 DEF QueueFine
  <2>3. OrderFine(U, s, W \cup P, S.got[s])  BY <1>2, <1>4, <1>17, <2>1 DEF OrderFine
  <2>4. KnownFine(U, "up", s \in Asking(wire))  BY <1>2, <1>4, <1>8 DEF KnownFine
  <2> QED  BY <1>6, <1>7, <1>9, <2>2, <2>3, <2>4 DEF ConFine, Fine
<1>13. Good(T) /\ (\A r \in Sccps \ {s} : Fits(S, r) => Fits(T, r))
       /\ Chan(T) = [Chan(S) EXCEPT ![s] = Numbers(T.wire, s) \cup Numbers(T.sccp[s].q, s)]
  BY <1>0, <1>7, <1>9, <1>10, <1>11, <1>12, OneSccp
<1>14. Fits(S, s) => Fits(T, s)
  BY <1>4, <1>6, <1>9 DEF Fits, Cleared
<1>15. Dropped(S, T, s)
  <2>1. Numbers(T.wire, s) \cup Numbers(T.sccp[s].q, s) = W \cup P
    BY <1>4, <1>7, <1>9, NoMessages
  <2>2. Chan(T) = [Chan(S) EXCEPT ![s] = W \cup P]  BY <1>13, <2>1
  <2>3. Chan(S)[s] = W \cup Q  BY <1>0, ChanFields
  <2>4. W \cup P \in SUBSET Chan(S)[s] /\ \A x \in W \cup P, y \in Chan(S)[s] \ (W \cup P) : x < y
    BY <1>16, <1>17, <2>3
  <2> QED  BY <2>2, <2>4 DEF Dropped
<1> QED  BY <1>3, <1>9, <1>13, <1>14, <1>15
Opened(c) == [NoSccp EXCEPT !.conn = c, !.cc = TRUE, !.st = "request", !.n = 1]
\* The write queue takes the CR, or drops it.
WithCr(S, s) == IF Takes(S.wire, 1) = 1 THEN Append(S.wire, [s |-> s, t |-> "CR", n |-> 1]) ELSE S.wire
OpenedCon(S, c, s) ==
    Turn(S, s, Opened(c), [S.radio EXCEPT ![c] = s], WithCr(S, s), S.msc, [S.got EXCEPT ![s] = 0])
\* A new connection has one message, its CR.
LEMMA OpenedType ==
  ASSUME NEW c \in Radio
  PROVE  /\ Opened(c) \in SccpT /\ Opened(c).st = "request" /\ Opened(c).q = <<>> /\ Opened(c).qs = 0
         /\ Opened(c).n = 1 /\ Opened(c).conn = c
<1>1. PICK e : e = <<>>  OBVIOUS
<1>2. e \in Seq(Msg)  BY <1>1
<1>3. PICK N : N = [st |-> "free", conn |-> 0, q |-> e, qs |-> 0, cc |-> FALSE, ciph |-> FALSE, n |-> 0, mute |-> FALSE]
  OBVIOUS
<1>4. NoSccp = N  BY <1>1, <1>3 DEF NoSccp
<1>5. PICK U : U = [N EXCEPT !.conn = c, !.cc = TRUE, !.st = "request", !.n = 1]  OBVIOUS
<1>6. U \in SccpT /\ U.st = "request" /\ U.q = e /\ U.qs = 0 /\ U.n = 1 /\ U.conn = c
  BY <1>2, <1>3, <1>5 DEF SccpT
<1>7. Opened(c) = U  BY <1>4, <1>5 DEF Opened
<1> QED  BY <1>1, <1>6, <1>7

\* bsc_compl_l3 takes a record, ties it to the radio connection and writes the CR.
LEMMA OpenForm ==
  ASSUME NEW S \in ObState, NEW c \in Radio, NEW s \in Sccps
  PROVE  bsc_compl_l3(S, c, s) = OpenedCon(S, c, s)
<1> DEFINE N == [NoSccp EXCEPT !.conn = c]
           R == [S.radio EXCEPT ![c] = s]
           G == [S.got EXCEPT ![s] = 0]
           A == [S EXCEPT !.sccp = [S.sccp EXCEPT ![s] = N], !.radio = R]
           B == [A EXCEPT !.sccp = [S.sccp EXCEPT ![s] = Opened(c)], !.got = G]
<1>1. bsc_create_new_connection(S, c, s) = A
  BY DEF bsc_create_new_connection, ObState
<1>2. A.sccp = [S.sccp EXCEPT ![s] = N] /\ A.got = S.got /\ A.sccp[s] = N
  BY DEF ObState
<1>3. [N EXCEPT !.cc = TRUE, !.st = "request", !.n = 1] = Opened(c)
  BY DEF NoSccp, Opened
<1> HIDE DEF N, R
<1>4. [A EXCEPT !.sccp[s] = [@ EXCEPT !.cc = TRUE, !.st = "request", !.n = 1], !.got[s] = 0] = B
  <2>1. [A EXCEPT !.sccp[s] = Opened(c), !.got[s] = 0] = B
    BY <1>2 DEF ObState
  <2>2. [A EXCEPT !.sccp[s] = [@ EXCEPT !.cc = TRUE, !.st = "request", !.n = 1]] = [A EXCEPT !.sccp[s] = Opened(c)]
    BY <1>2, <1>3 DEF ObState
  <2> QED  BY <1>2, <1>3, <2>1, <2>2 DEF ObState
<1> HIDE DEF G
<1>5. B.wire = S.wire
  BY DEF ObState
<1>6. PICK w : w = WithCr(S, s)  OBVIOUS
<1>7. bsc_open_connection(A, s) = [B EXCEPT !.wire = w]
  <2>1. bsc_open_connection(A, s) = msc_queue_write(B, s, "CR", 1)
    BY <1>4 DEF bsc_open_connection
  <2>2. CASE Takes(S.wire, 1) = 1
    BY <1>5, <1>6, <2>1, <2>2 DEF msc_queue_write, WithCr
  <2>3. CASE Takes(S.wire, 1) # 1
    <3>1. ("CR" \in Clearing) = FALSE  BY DEF Clearing
    <3>2. B.sccp[s] = Opened(c) /\ Opened(c).mute = FALSE  BY DEF ObState, Opened, NoSccp
    <3>3. [Opened(c) EXCEPT !.mute = @ \/ "CR" \in Clearing] = Opened(c)  BY <3>1, <3>2 DEF Opened, NoSccp
    <3>4. [B EXCEPT !.sccp[s].mute = @ \/ "CR" \in Clearing] = [B EXCEPT !.sccp[s] = Opened(c)]  BY <3>2, <3>3
    <3>5. [B EXCEPT !.sccp[s] = Opened(c)] = B /\ [B EXCEPT !.wire = S.wire] = B  BY <1>5, <3>2 DEF ObState
    <3>6. msc_queue_write(B, s, "CR", 1) = B  BY <1>5, <2>3, <3>4, <3>5 DEF msc_queue_write
    <3> QED  BY <1>6, <2>1, <2>3, <3>5, <3>6 DEF WithCr
  <2> QED  BY <2>2, <2>3
<1>8. [B EXCEPT !.wire = w] = Turn(S, s, Opened(c), R, w, S.msc, G)
  BY DEF Turn, With, ObState
<1> QED  BY <1>1, <1>6, <1>7, <1>8 DEF bsc_compl_l3, OpenedCon, R, G

\* ... and keeps the invariant, if no number of that record is in use.
LEMMA OpenGood ==
  ASSUME NEW S, Good(S), NEW c \in Radio, S.radio[c] = 0, NEW s \in Sccps, S.sccp[s].st = "free", S.msc[s] = "none",
         \A i \in 1..Len(S.wire) : S.wire[i].s # s, NEW T, T = OpenedCon(S, c, s)
  PROVE  /\ Good(T) /\ SameLink(S, T) /\ T.alive = S.alive /\ T.got = [S.got EXCEPT ![s] = 0]
         /\ \A r \in Sccps \ {s} : T.sccp[r] = S.sccp[r] /\ (Fits(S, r) => Fits(T, r))
         /\ Fits(T, s)
         /\ Chan(S)[s] = {} /\ \E first \in {{1}, {}} : Chan(T) = [Chan(S) EXCEPT ![s] = first]
<1> DEFINE U == Opened(c)
           radio == [S.radio EXCEPT ![c] = s]
           m == [s |-> s, t |-> "CR", n |-> 1]
           wire == WithCr(S, s)
           got == [S.got EXCEPT ![s] = 0]
<1>0. S \in ObState /\ S.wire \in Seq(Msg) /\ Growing(S.wire) /\ Mutual(S)
      /\ S.msc \in [Sccps -> States] /\ S.got \in [Sccps -> Nat] /\ S.radio \in [Radio -> {0} \cup Sccps]
      /\ S.sccp \in [Sccps -> SccpT]
  BY DEF Good, ObState, States
<1>1. ConFine(S, s)  BY DEF Good
<1>2. S.sccp[s] = NoSccp  BY <1>1 DEF ConFine, Fine, QueueFine
<1>3. S.sccp[s].q = <<>> /\ S.sccp[s].conn = 0  BY <1>2 DEF NoSccp
<1>4. Numbers(S.wire, s) = {} /\ Chan(S)[s] = {} /\ s \notin {0} /\ c # 0
  <2>1. Numbers(S.wire, s) = {}  BY DEF Numbers
  <2>2. Chan(S)[s] = Numbers(S.wire, s) \cup Numbers(S.sccp[s].q, s)  BY <1>0, ChanFields
  <2>3. Numbers(S.sccp[s].q, s) = {}  BY <1>3, NoMessages
  <2> QED  BY <2>1, <2>2, <2>3, ObBounds
<1>5. U \in SccpT /\ U.st = "request" /\ U.q = <<>> /\ U.qs = 0 /\ U.n = 1 /\ U.conn = c
  BY OpenedType
<1>6. m \in Msg /\ m.s = s /\ m.n = 1 /\ m.t = "CR"  BY DEF Msg, Types
<1>7. /\ wire \in Seq(Msg) /\ Growing(wire) /\ Numbers(wire, s) \in {{1}, {}} /\ Asking(wire) \subseteq Asking(S.wire) \cup {s}
      /\ Asking(S.wire) \subseteq Asking(wire)
      /\ \A r \in Sccps \ {s} : Numbers(wire, r) = Numbers(S.wire, r)
  <2>1. /\ Append(S.wire, m) \in Seq(Msg)
        /\ Numbers(Append(S.wire, m), m.s) = Numbers(S.wire, m.s) \cup {m.n}
        /\ \A r \in Sccps \ {m.s} : Numbers(Append(S.wire, m), r) = Numbers(S.wire, r)
        /\ Asking(Append(S.wire, m)) \subseteq Asking(S.wire) \cup {m.s}
        /\ Asking(S.wire) \subseteq Asking(Append(S.wire, m))
        /\ Growing(S.wire) /\ (\A x \in Numbers(S.wire, m.s) : x < m.n) => Growing(Append(S.wire, m))
    BY <1>0, <1>6, AppendMessage
  <2>2. CASE Takes(S.wire, 1) = 1
    <3>1. wire = Append(S.wire, m)  BY <2>2 DEF WithCr
    <3> HIDE DEF wire
    <3> QED  BY <1>0, <1>4, <1>6, <2>1, <3>1
  <2>3. CASE Takes(S.wire, 1) # 1
    <3>1. wire = S.wire  BY <2>3 DEF WithCr
    <3> HIDE DEF wire
    <3> QED  BY <1>0, <1>4, <3>1
  <2> QED  BY <2>2, <2>3
<1>8. radio \in [Radio -> {0} \cup Sccps] /\ got \in [Sccps -> Nat] /\ got[s] = 0
      /\ (\A r \in Sccps \ {s} : got[r] = S.got[r]) /\ radio[c] = s /\ \A d \in Radio \ {c} : radio[d] = S.radio[d]
  BY <1>0
<1>9. T = Turn(S, s, U, radio, wire, S.msc, got)  BY DEF OpenedCon
<1> HIDE DEF U, radio, wire, got
<1>10. /\ T \in ObState /\ SameLink(S, T) /\ T.alive = S.alive
       /\ T.sccp[s] = U /\ \A r \in Sccps \ {s} : T.sccp[r] = S.sccp[r]
       /\ T.radio = radio /\ T.wire = wire /\ T.msc = S.msc /\ T.got = got
  <2>1. U \in SccpT /\ wire \in Seq(Msg) /\ S.msc \in [Sccps -> States] /\ got \in [Sccps -> Nat]
        /\ radio \in [Radio -> {0} \cup Sccps] /\ S \in ObState
    BY <1>0, <1>5, <1>7, <1>8
  <2> QED  BY <1>9, <2>1, TurnFields
<1>11. Mutual(T)
  <2>1. ASSUME NEW d \in Radio, T.radio[d] # 0 PROVE T.sccp[T.radio[d]].conn = d
    <3>1. CASE d = c  BY <1>5, <1>8, <1>10, <3>1
    <3>2. CASE d # c
      <4>1. T.radio[d] = S.radio[d] /\ S.radio[d] \in Sccps  BY <1>0, <1>8, <1>10, <2>1, <3>2
      <4>2. S.sccp[S.radio[d]].conn = d  BY <1>0, <2>1, <4>1 DEF Mutual
      <4>3. S.radio[d] # s /\ d # 0  BY <1>3, <4>2, ObBounds
      <4> QED  BY <1>10, <4>1, <4>2, <4>3
    <3> QED  BY <3>1, <3>2
  <2>2. ASSUME NEW r \in Sccps, T.sccp[r].conn # 0 PROVE T.radio[T.sccp[r].conn] = r
    <3>1. CASE r = s  BY <1>5, <1>8, <1>10, <3>1
    <3>2. CASE r # s
      <4>1. T.sccp[r].conn = S.sccp[r].conn /\ S.sccp[r].conn \in Radio  BY <1>0, <1>10, <2>2, <3>2 DEF SccpT
      <4>2. S.radio[S.sccp[r].conn] = r  BY <1>0, <2>2, <4>1 DEF Mutual
      <4>3. S.sccp[r].conn # c  BY <4>2, ObBounds
      <4> QED  BY <1>8, <1>10, <4>1, <4>2, <4>3
    <3> QED  BY <3>1, <3>2
  <2> QED  BY <2>1, <2>2 DEF Mutual
<1>12. OnlyOne(S, T, s)  BY <1>7, <1>8, <1>10 DEF OnlyOne
<1>13. ConFine(T, s)
  <2>1. Numbers(<<>>, s) = {} /\ Growing(<<>>) /\ Asking(<<>>) = {} /\ Len(<<>>) = 0
    BY NoMessages
  <2>2. QueueFine(U, s)  BY <1>5, <2>1 DEF QueueFine
  <2>3. OrderFine(U, s, Numbers(wire, s), 0)  BY <1>5, <1>7, <2>1 DEF OrderFine
  <2>4. KnownFine(U, "none", s \in Asking(wire))  BY DEF KnownFine, Confirmed, Cleared
  <2> QED  BY <1>7, <1>8, <1>10, <2>2, <2>3, <2>4, ZenonT(80) DEF ConFine, Fine
<1>14. Good(T) /\ (\A r \in Sccps \ {s} : Fits(S, r) => Fits(T, r))
       /\ Chan(T) = [Chan(S) EXCEPT ![s] = Numbers(T.wire, s) \cup Numbers(T.sccp[s].q, s)]
  BY <1>0, <1>7, <1>10, <1>11, <1>12, <1>13, OneSccp
<1>15. \E first \in {{1}, {}} : Chan(T) = [Chan(S) EXCEPT ![s] = first]
  <2>1. Numbers(T.wire, s) \cup Numbers(T.sccp[s].q, s) = Numbers(wire, s)  BY <1>5, <1>10, NoMessages
  <2> QED  BY <1>7, <1>14, <2>1
<1>16. Fits(T, s)
  BY <1>5, <1>10, ObBounds DEF Fits
<1> QED  BY <1>4, <1>10, <1>14, <1>15, <1>16 DEF got
ReadCon(S, s, n, wire, v) ==
    Turn(S, s, S.sccp[s], S.radio, wire, [S.msc EXCEPT ![s] = v], [S.got EXCEPT ![s] = n])

Taken(S, s, n, wire, v) == [S EXCEPT !.wire = wire, !.got[s] = n, !.msc[s] = v]
\* What MscReads assigns, as an update of one connection.
LEMMA ReadForm ==
  ASSUME NEW S \in ObState, NEW s \in Sccps, NEW n, NEW wire, NEW v
  PROVE  Taken(S, s, n, wire, v) = ReadCon(S, s, n, wire, v)
<1>1. [S.sccp EXCEPT ![s] = S.sccp[s]] = S.sccp  BY DEF ObState
<1>2. Taken(S, s, n, wire, v)
      = With(S, S.sccp, S.radio, wire, [S.msc EXCEPT ![s] = v], [S.got EXCEPT ![s] = n])
  BY DEF With, ObState, Taken
<1> QED  BY <1>1, <1>2 DEF ReadCon, Turn

\* The MSC reads the first message of the wire; n is its number, wire what follows it.
LEMMA ReadGood ==
  ASSUME NEW S, Good(S), NEW s \in Sccps, NEW n \in Nat, NEW wire \in Seq(Msg), NEW v \in States,
         Growing(wire), n \in Numbers(S.wire, s), \A x \in Numbers(S.wire, s) : n <= x,
         Numbers(wire, s) = Numbers(S.wire, s) \ {n},
         \A r \in Sccps \ {s} : Numbers(wire, r) = Numbers(S.wire, r) /\ (r \in Asking(wire) <=> r \in Asking(S.wire)),
         v \in Confirmed => S.msc[s] \in Confirmed, S.msc[s] \in Cleared => v \in Cleared,
         s \in Asking(wire) => v = "none",
         NEW T, T = ReadCon(S, s, n, wire, v)
  PROVE  /\ Good(T) /\ SameLink(S, T) /\ T.alive = S.alive /\ T.sccp = S.sccp
         /\ \A r \in Sccps : Fits(S, r) => Fits(T, r)
         /\ n \in Chan(S)[s] /\ \A x \in Chan(S)[s] : n <= x
         /\ T.got = [S.got EXCEPT ![s] = n] /\ Chan(T) = [Chan(S) EXCEPT ![s] = @ \ {n}]
<1> DEFINE sc == S.sccp[s]
           msc == [S.msc EXCEPT ![s] = v]
           got == [S.got EXCEPT ![s] = n]
           W == Numbers(S.wire, s)
           Q == Numbers(sc.q, s)
<1>0. S \in ObState /\ S.wire \in Seq(Msg) /\ Growing(S.wire) /\ Mutual(S)
      /\ S.msc \in [Sccps -> States] /\ S.got \in [Sccps -> Nat] /\ S.radio \in [Radio -> {0} \cup Sccps]
      /\ S.sccp \in [Sccps -> SccpT]
  BY DEF Good, ObState, States
<1>3. ConFine(S, s)  BY DEF Good
<1>4. QueueFine(sc, s) /\ OrderFine(sc, s, W, S.got[s]) /\ KnownFine(sc, S.msc[s], s \in Asking(S.wire))
  BY <1>3 DEF ConFine, Fine
<1>5. sc \in SccpT /\ sc.q \in Seq(Msg) /\ W \subseteq Nat /\ Q \subseteq Nat /\ sc.n \in Nat
  <2>1. sc \in SccpT  BY <1>0
  <2>2. sc.q \in Seq(Msg) /\ sc.n \in Nat  BY <2>1 DEF SccpT
  <2> QED  BY <1>0, <2>1, <2>2, NumbersNat
<1>6. Chan(S)[s] = W \cup Q  BY <1>0, ChanFields
<1>7. /\ msc \in [Sccps -> States] /\ msc[s] = v /\ \A r \in Sccps \ {s} : msc[r] = S.msc[r]
      /\ got \in [Sccps -> Nat] /\ got[s] = n /\ \A r \in Sccps \ {s} : got[r] = S.got[r]
  BY <1>0
<1>8. T = Turn(S, s, sc, S.radio, wire, msc, got)  BY DEF ReadCon
<1> HIDE DEF msc, got
<1>10. /\ T \in ObState /\ SameLink(S, T) /\ T.alive = S.alive
       /\ T.sccp[s] = sc /\ \A r \in Sccps \ {s} : T.sccp[r] = S.sccp[r]
       /\ T.radio = S.radio /\ T.wire = wire /\ T.msc = msc /\ T.got = got
  <2>1. sc \in SccpT /\ wire \in Seq(Msg) /\ msc \in [Sccps -> States] /\ got \in [Sccps -> Nat]
        /\ S.radio \in [Radio -> {0} \cup Sccps] /\ S \in ObState /\ s \in Sccps
    BY <1>0, <1>5, <1>7
  <2> QED  BY <1>8, <2>1, TurnFields, SMTT(60)
<1>11. T.sccp = S.sccp
  <2>1. T.sccp \in [Sccps -> SccpT] /\ S.sccp \in [Sccps -> SccpT]  BY <1>0, <1>10, StateFields
  <2>2. \A r \in Sccps : T.sccp[r] = S.sccp[r]  BY <1>10
  <2> QED  BY <2>1, <2>2
<1>12. Mutual(T)  BY <1>0, <1>10, <1>11 DEF Mutual
<1>13. OnlyOne(S, T, s)  BY <1>7 , <1>10 DEF OnlyOne
<1>14. ConFine(T, s)
  <2>1. OrderFine(sc, s, W \ {n}, n)
    <3>1. \A x \in (W \ {n}) \cup Q : n < x /\ (sc.st # "free" => x <= sc.n)
      <4>1. \A x \in W \ {n} : n < x  BY <1>5
      <4>2. \A x \in Q : n < x  BY <1>4 DEF OrderFine
      <4>3. \A x \in W \cup Q : sc.st # "free" => x <= sc.n  BY <1>4 DEF OrderFine
      <4> QED  BY <4>1, <4>2, <4>3
    <3>2. sc.st # "free" => n <= sc.n
      BY <1>4 DEF OrderFine
    <3> QED  BY <1>4, <3>1, <3>2 DEF OrderFine
  <2>2. KnownFine(sc, v, s \in Asking(wire))  BY <1>4 DEF KnownFine
  <2> QED  BY <1>4, <1>7, <1>10, <2>1, <2>2 DEF ConFine, Fine
<1>15. Good(T) /\ (\A r \in Sccps \ {s} : Fits(S, r) => Fits(T, r))
       /\ Chan(T) = [Chan(S) EXCEPT ![s] = Numbers(T.wire, s) \cup Numbers(T.sccp[s].q, s)]
  BY <1>0, <1>10, <1>12, <1>13, <1>14, OneSccp
<1>16. Numbers(T.wire, s) \cup Numbers(T.sccp[s].q, s) = (W \cup Q) \ {n}
  <2>1. n \notin Q  BY <1>4 DEF OrderFine
  <2> QED  BY <1>10, <2>1
<1>17. Chan(T) = [Chan(S) EXCEPT ![s] = @ \ {n}]
  BY <1>6, <1>15, <1>16
<1>18. n \in Chan(S)[s] /\ \A x \in Chan(S)[s] : n <= x
  <2>1. \A x \in Q : n < x  BY <1>4 DEF OrderFine
  <2>2. \A x \in Q : n <= x  BY <1>5, <2>1
  <2> QED  BY <1>6, <2>2
<1>19. Fits(S, s) => Fits(T, s)
  BY <1>7, <1>10 DEF Fits
<1> QED  BY <1>10, <1>11, <1>15, <1>17, <1>18, <1>19 DEF got

-----------------------------------------------------------------------------
Lost(S) ==
    [S EXCEPT !.link = "down", !.auth = FALSE, !.ping = FALSE, !.pong = FALSE, !.reconnect = TRUE,
              !.sccp = [s \in Sccps |-> NoSccp], !.radio = [c \in Radio |-> 0], !.msc = [s \in Sccps |-> "none"]]

\* connection_loss, when every used radio connection belongs to an SCCP connection.
LEMMA LossForm ==
  ASSUME NEW S \in ObState, Mutual(S), \A s \in Sccps : S.sccp[s].st = "free" => S.sccp[s] = NoSccp
  PROVE  connection_loss(S) = Lost(S)
<1> DEFINE A == [S EXCEPT !.link = "down", !.msc = [s \in Sccps |-> "none"]]
           B == [A EXCEPT !.ping = FALSE, !.pong = FALSE]
           open == {s \in Sccps : S.sccp[s].st # "free"}
           conns == {S.sccp[s].conn : s \in open}
           C == [B EXCEPT !.sccp = [s \in Sccps |-> NoSccp], !.radio = [c \in Radio |-> 0]]
<1>1. B.sccp = S.sccp /\ B.radio = S.radio  BY DEF ObState
<1>2. [c \in Radio |-> IF c \in conns THEN 0 ELSE S.radio[c]] = [c \in Radio |-> 0]
  <2> SUFFICES ASSUME NEW c \in Radio, S.radio[c] # 0 PROVE c \in conns
    OBVIOUS
  <2>1. S.radio[c] \in Sccps /\ S.sccp[S.radio[c]].conn = c  BY StateFields DEF Mutual
  <2>2. S.sccp[S.radio[c]].st # "free"  BY <2>1, ObBounds DEF NoSccp
  <2> QED  BY <2>1, <2>2
<1>3. bsc_close_connections(B) = C
  <2> HIDE DEF B
  <2>1. bsc_close_connections(B) =
        [B EXCEPT !.sccp = [s \in Sccps |-> NoSccp],
                  !.radio = [c \in Radio |-> IF c \in {B.sccp[s].conn : s \in {s \in Sccps : B.sccp[s].st # "free"}}
                                            THEN 0 ELSE B.radio[c]]]
    BY DEF bsc_close_connections
  <2>2. [c \in Radio |-> IF c \in {B.sccp[s].conn : s \in {s \in Sccps : B.sccp[s].st # "free"}}
                        THEN 0 ELSE B.radio[c]] = [c \in Radio |-> 0]
    BY <1>1, <1>2
  <2> QED  BY <2>1, <2>2
<1>4. msc_connection_was_lost(A) = [[C EXCEPT !.auth = FALSE] EXCEPT !.reconnect = TRUE]
  BY <1>3 DEF msc_connection_was_lost, bsc_msc_schedule_connect
<1>5. [[C EXCEPT !.auth = FALSE] EXCEPT !.reconnect = TRUE] = Lost(S)
  BY DEF Lost, ObState
<1> QED  BY <1>4, <1>5 DEF connection_loss

\* ... leaves nothing under way and every record free.
LEMMA LostGood ==
  ASSUME NEW S, S \in ObState, S.wire = <<>>, NEW T, T = Lost(S)
  PROVE  /\ Good(T) /\ T.link = "down" /\ ~T.auth /\ ~T.ping /\ ~T.pong /\ T.reconnect /\ T.timeout = S.timeout
         /\ T.wire = <<>> /\ T.rf = S.rf /\ T.got = S.got
         /\ \A s \in Sccps : T.sccp[s].st = "free" /\ Fits(T, s)
         /\ Chan(T) = [s \in Sccps |-> {}]
<1>1. NoSccp \in SccpT /\ NoSccp.st = "free" /\ NoSccp.q = <<>> /\ NoSccp.qs = 0 /\ NoSccp.conn = 0
  BY DEF SccpT, NoSccp
<1>2. PICK sccp : sccp = [s \in Sccps |-> NoSccp]  OBVIOUS
<1>3. PICK radio : radio = [c \in Radio |-> 0]  OBVIOUS
<1>4. PICK msc : msc = [s \in Sccps |-> "none"]  OBVIOUS
<1>5. sccp \in [Sccps -> SccpT] /\ radio \in [Radio -> {0} \cup Sccps] /\ msc \in [Sccps -> States]
      /\ (\A s \in Sccps : sccp[s] = NoSccp /\ msc[s] = "none") /\ \A c \in Radio : radio[c] = 0
  BY <1>1, <1>2, <1>3, <1>4 DEF States
<1>6. T = [S EXCEPT !.link = "down", !.auth = FALSE, !.ping = FALSE, !.pong = FALSE, !.reconnect = TRUE,
              !.sccp = sccp, !.radio = radio, !.msc = msc]
  BY <1>2, <1>3, <1>4 DEF Lost
<1>7. T.link = "down" /\ ~T.auth /\ ~T.ping /\ ~T.pong /\ T.reconnect /\ T.timeout = S.timeout
      /\ T.wire = <<>> /\ T.rf = S.rf /\ T.got = S.got /\ T.sccp = sccp /\ T.radio = radio /\ T.msc = msc
  BY <1>6 DEF ObState
<1>8. T \in ObState
  <2>1. PICK A : A = With(S, sccp, radio, S.wire, msc, S.got)  OBVIOUS
  <2>2. Changed(S, With(S, sccp, radio, S.wire, msc, S.got), sccp, radio, S.wire, msc, S.got)
    BY <1>5, WithChanges, StateFields DEF States
  <2>3. A \in ObState  BY <2>1, <2>2 DEF Changed
  <2>4. T = [A EXCEPT !.link = "down", !.auth = FALSE, !.ping = FALSE, !.pong = FALSE, !.reconnect = TRUE]
    BY <1>6, <2>1 DEF With, ObState
  <2> QED  BY <2>3, <2>4 DEF ObState
<1>9. Mutual(T)  BY <1>1, <1>5, <1>7 DEF Mutual
<1>10. ASSUME NEW s \in Sccps PROVE ConFine(T, s)
  <2>1. Numbers(<<>>, s) = {} /\ Growing(<<>>) /\ Asking(<<>>) = {} /\ Len(<<>>) = 0
    BY NoMessages
  <2>2. QueueFine(NoSccp, s)  BY <1>1, <2>1 DEF QueueFine
  <2>3. OrderFine(NoSccp, s, {}, S.got[s])  BY <1>1, <2>1 DEF OrderFine
  <2>4. KnownFine(NoSccp, "none", s \in Asking(<<>>))  BY DEF KnownFine, Confirmed, Cleared
  <2> QED  BY <1>5, <1>7, <2>1, <2>2, <2>3, <2>4 DEF ConFine, Fine
<1>11. Good(T)  BY <1>7, <1>8, <1>9, <1>10, NoMessages DEF Good
<1>12. Chan(T) = [s \in Sccps |-> {}]
  BY <1>1, <1>5, <1>7, NoMessages DEF Chan
<1>13. \A s \in Sccps : T.sccp[s].st = "free" /\ Fits(T, s)
  BY <1>1, <1>5, <1>7 DEF Fits
<1> QED  BY <1>7, <1>11, <1>12, <1>13
-----------------------------------------------------------------------------
\* A step of FifoLink or none, in terms of two states.
Moves(S, T) ==
    \/ Chan(T) = Chan(S) /\ T.got = S.got
    \/ Chan(T) = [s \in Sccps |-> {}] /\ T.got = S.got
    \/ \E s \in Sccps :
          /\ Chan(S)[s] = {} /\ (\E first \in {{1}, {}} : Chan(T) = [Chan(S) EXCEPT ![s] = first])
          /\ T.got = [S.got EXCEPT ![s] = 0]
    \/ \E s \in Sccps, m \in 1..ObMaxMsg :
          /\ m > S.got[s] /\ \A x \in Chan(S)[s] : m > x
          /\ Chan(T) = [Chan(S) EXCEPT ![s] = @ \cup {m}] /\ T.got = S.got
    \/ \E s \in Sccps : \E m \in Chan(S)[s] :
          /\ \A x \in Chan(S)[s] : m <= x
          /\ Chan(T) = [Chan(S) EXCEPT ![s] = @ \ {m}] /\ T.got = [S.got EXCEPT ![s] = m]
    \/ \E s \in Sccps : \E kept \in SUBSET Chan(S)[s] :
          /\ \A x \in kept, y \in Chan(S)[s] \ kept : x < y
          /\ Chan(T) = [Chan(S) EXCEPT ![s] = kept] /\ T.got = S.got

\* What leaves a link that is up alone says nothing new about it.
LEMMA UpLinked ==
  ASSUME NEW S, NEW T, NEW faults, Linked(S, faults), S.link = "up", SameLink(S, T)
  PROVE  Linked(T, faults)
  BY DEF Linked, SameLink

\* A connection is in use only while the link is up.
LEMMA UpWhenUsed ==
  ASSUME NEW S, NEW faults, FineState(S, faults), NEW s \in Sccps, S.sccp[s].st # "free" PROVE S.link = "up"
  BY DEF FineState, Linked

\* A step that leaves the connections and the wire alone is a stuttering step of FifoLink.
LEMMA QuietStep ==
  ASSUME NEW S, NEW T \in ObState, NEW faults, FineState(S, faults), SameCons(S, T),
         Linked(T, faults), RfFine(T.rf)
  PROVE  FineState(T, faults) /\ Moves(S, T)
<1>1. Good(T) /\ Chan(T) = Chan(S) /\ \A s \in Sccps : Fits(S, s) => Fits(T, s)
  BY QuietGood DEF FineState
<1>2. T.got = S.got  BY DEF SameCons
<1> QED  BY <1>1, <1>2 DEF FineState, Moves

\* A message is sent from a state A that differs from S in nothing the channels show.
LEMMA SendStep ==
  ASSUME NEW S, NEW A, NEW T, NEW faults, Linked(S, faults), S.link = "up", RfFine(S.rf),
         Good(A), SameLink(S, A), Chan(A) = Chan(S), A.got = S.got, NEW s \in Sccps, A.sccp[s].st # "free",
         \A r \in Sccps \ {s} : Fits(A, r), NEW t \in Types \ {"CR"}, T = bsc_queue_for_msc(A, s, t),
         A.sccp[s].n + 1 <= ObMaxMsg,
         A.sccp[s].conn # 0 => A.sccp[s].n + 2 <= ObMaxMsg,
         A.msc[s] \notin Cleared => A.sccp[s].n + 2 <= ObMaxMsg,
         A.sccp[s].conn # 0 /\ A.msc[s] \notin Cleared => A.sccp[s].n + 3 <= ObMaxMsg
  PROVE  FineState(T, faults) /\ Moves(S, T)
<1> DEFINE n == A.sccp[s].n + 1
<1>0. A \in ObState /\ A.sccp[s].n \in Nat /\ n \in 1..ObMaxMsg
  BY ObBounds DEF Good, ObState, SccpT
<1>1. /\ Good(T) /\ SameLink(A, T) /\ T.msc = A.msc /\ T.got = A.got
      /\ \A r \in Sccps \ {s} : Fits(A, r) => Fits(T, r)
      /\ T.sccp[s].n = n /\ T.sccp[s].conn = A.sccp[s].conn /\ T.sccp[s].st = A.sccp[s].st
      /\ Chan(T) \in {Chan(A), [Chan(A) EXCEPT ![s] = @ \cup {n}]}
      /\ \A x \in Chan(A)[s] : x < n
      /\ A.got[s] < n
  BY SendGood
<1>2. SameLink(S, T)  BY <1>1 DEF SameLink
<1>3. Linked(T, faults)  BY <1>2, UpLinked
<1>4. RfFine(T.rf)  BY <1>2 DEF SameLink
<1>5. Fits(T, s)
  BY <1>0, <1>1 DEF Fits
<1>6. FineState(T, faults)
  BY <1>1, <1>3, <1>4, <1>5 DEF FineState
<1>7. Moves(S, T)
  <2>1. CASE Chan(T) = Chan(A)  BY <1>1, <2>1 DEF Moves
  <2>2. CASE Chan(T) = [Chan(A) EXCEPT ![s] = @ \cup {n}]
    <3>1. n > S.got[s] /\ (\A x \in Chan(S)[s] : n > x)
          /\ Chan(T) = [Chan(S) EXCEPT ![s] = @ \cup {n}] /\ T.got = S.got
      BY <1>1, <2>2
    <3> QED  BY <1>0, <3>1 DEF Moves
  <2> QED  BY <1>1, <2>1, <2>2
<1> QED  BY <1>6, <1>7

\* ... or from S itself, with room for it.
LEMMA PlainSend ==
  ASSUME NEW S, NEW T, NEW faults, FineState(S, faults), NEW s \in Sccps, S.sccp[s].st # "free",
         S.sccp[s].n + 2 < ObMaxMsg, NEW t \in Types \ {"CR"}, T = bsc_queue_for_msc(S, s, t)
  PROVE  FineState(T, faults) /\ Moves(S, T)
<1>1. S.link = "up"  BY UpWhenUsed
<1>2. Good(S) /\ Linked(S, faults) /\ RfFine(S.rf) /\ \A r \in Sccps : Fits(S, r)  BY DEF FineState
<1>3. S.sccp[s].n \in Nat /\ ObMaxMsg \in Nat  BY <1>2, ObBounds DEF Good, ObState, SccpT
<1>4. SameLink(S, S)  BY DEF SameLink
<1>5. S.sccp[s].n + 1 <= ObMaxMsg /\ S.sccp[s].n + 2 <= ObMaxMsg /\ S.sccp[s].n + 3 <= ObMaxMsg  BY <1>3
<1> QED  BY <1>1, <1>2, <1>4, <1>5, SendStep

\* ... or the last one for a radio connection, or of the connection.
LEMMA DetachSend ==
  ASSUME NEW S, NEW faults, FineState(S, faults), NEW M, NEW T, NEW s \in Sccps, S.sccp[s].st # "free",
         Good(M), SameLink(S, M), M.sccp = S.sccp, Chan(M) = Chan(S), M.got = S.got,
         \A r \in Sccps \ {s} : Fits(M, r), NEW t \in Types \ {"CR"},
         \/ M.msc[s] = S.msc[s] /\ S.sccp[s].conn # 0
         \/ M.msc[s] \in Cleared /\ S.msc[s] \notin Cleared,
         T = bsc_queue_for_msc(Detached(M, s), s, t)
  PROVE  FineState(T, faults) /\ Moves(S, T)
<1>1. S.link = "up"  BY UpWhenUsed
<1>2. Good(S) /\ Linked(S, faults) /\ RfFine(S.rf) /\ \A r \in Sccps : Fits(S, r)  BY DEF FineState
<1>3. S.sccp[s].n \in Nat /\ ObMaxMsg \in Nat  BY <1>2, ObBounds DEF Good, ObState, SccpT
<1>4. PICK A : A = Detached(M, s)  OBVIOUS
<1>5. /\ Good(A) /\ SameLink(M, A) /\ A.msc = M.msc /\ A.got = M.got
      /\ \A r \in Sccps \ {s} : Fits(M, r) => Fits(A, r)
      /\ A.sccp[s].n = M.sccp[s].n /\ A.sccp[s].conn = 0 /\ A.sccp[s].st = M.sccp[s].st
      /\ Chan(A) = Chan(M)
  BY <1>4, DetachGood
<1>6. SameLink(S, A)  BY <1>5 DEF SameLink
<1>7. Fits(S, s)  BY <1>2
<1>8. /\ A.sccp[s].n + 1 <= ObMaxMsg
      /\ A.msc[s] \notin Cleared => A.sccp[s].n + 2 <= ObMaxMsg
  BY <1>3, <1>5, <1>7 DEF Fits
<1>9. /\ Chan(A) = Chan(S) /\ A.got = S.got /\ A.sccp[s].st # "free" /\ A.sccp[s].conn = 0
      /\ \A r \in Sccps \ {s} : Fits(A, r)
  BY <1>5
<1> QED  BY <1>1, <1>2, <1>4, <1>5, <1>6, <1>8, <1>9, SendStep

\* An SCCP connection is asked to cipher: nothing the channels or the numbers depend on changes.
Ciphered(sc) == [sc EXCEPT !.ciph = TRUE]
\* The order to cipher, as an update of one connection.
LEMMA CipherForm ==
  ASSUME NEW S \in ObState, NEW s \in Sccps
  PROVE  [S EXCEPT !.sccp[s].ciph = TRUE] = WithSccp(S, s, Ciphered(S.sccp[s]), S.wire)
  BY DEF WithSccp, With, ObState, Ciphered

\* ... which changes one flag.
LEMMA CipheredType ==
  ASSUME NEW sc \in SccpT
  PROVE  /\ Ciphered(sc) \in SccpT /\ Ciphered(sc).st = sc.st /\ Ciphered(sc).conn = sc.conn
         /\ Ciphered(sc).q = sc.q /\ Ciphered(sc).qs = sc.qs /\ Ciphered(sc).n = sc.n
  BY DEF SccpT, Ciphered

\* ... and keeps the invariant.
LEMMA CipherGood ==
  ASSUME NEW S, Good(S), NEW s \in Sccps, S.sccp[s].st # "free",
         NEW T, T = WithSccp(S, s, Ciphered(S.sccp[s]), S.wire)
  PROVE  /\ Good(T) /\ SameLink(S, T) /\ T.got = S.got /\ T.msc = S.msc
         /\ \A r \in Sccps : Fits(S, r) => Fits(T, r)
         /\ T.sccp[s].st = S.sccp[s].st /\ T.sccp[s].n = S.sccp[s].n
         /\ Chan(T) = Chan(S)
<1>1. S \in ObState /\ ConFine(S, s) /\ Mutual(S) /\ Growing(S.wire)  BY DEF Good
<1>0. PICK sc : sc = S.sccp[s]  OBVIOUS
<1>2. sc \in SccpT /\ S.wire \in Seq(Msg)  BY <1>0, <1>1, StateFields
<1>4. PICK U : U = Ciphered(sc)  OBVIOUS
<1>3. U \in SccpT /\ U.st = sc.st /\ U.conn = sc.conn /\ U.q = sc.q /\ U.qs = sc.qs /\ U.n = sc.n
  BY <1>2, <1>4, CipheredType
<1>5. /\ T \in ObState /\ SameLink(S, T) /\ T.sccp[s] = U /\ \A r \in Sccps \ {s} : T.sccp[r] = S.sccp[r]
      /\ T.radio = S.radio /\ T.wire = S.wire /\ T.msc = S.msc /\ T.got = S.got
  <2>1. S \in ObState /\ s \in Sccps /\ U \in SccpT /\ S.wire \in Seq(Msg)  BY <1>1, <1>2, <1>3
  <2>2. T = WithSccp(S, s, U, S.wire)  BY <1>0, <1>4
  <2> QED  BY <2>1, <2>2, WithSccpFields
<1>6. \A r \in Sccps : T.sccp[r].conn = S.sccp[r].conn  BY <1>0, <1>3, <1>5 
<1>7. Mutual(T)  BY <1>1, <1>5, <1>6, SameMutual
<1>8. ConFine(T, s)
  <2>1. QueueFine(sc, s) /\ OrderFine(sc, s, Numbers(S.wire, s), S.got[s]) /\ KnownFine(sc, S.msc[s], s \in Asking(S.wire))
    BY <1>0, <1>1 DEF ConFine, Fine
  <2>2. QueueFine(U, s)  BY <1>0, <1>3, <2>1 DEF QueueFine
  <2>3. OrderFine(U, s, Numbers(S.wire, s), S.got[s])  BY <1>3, <2>1 DEF OrderFine
  <2>4. KnownFine(U, S.msc[s], s \in Asking(S.wire))  BY <1>3, <2>1 DEF KnownFine
  <2> QED  BY <1>5, <2>2, <2>3, <2>4 DEF ConFine, Fine
<1>9. OnlyOne(S, T, s)  BY <1>5 DEF OnlyOne
<1>10. Good(T) /\ \A r \in Sccps \ {s} : Fits(S, r) => Fits(T, r)
  BY <1>1, <1>5, <1>7, <1>8, <1>9, OneSccp
<1>11. \A r \in Sccps : T.sccp[r].q = S.sccp[r].q  BY <1>0, <1>3, <1>5
<1>12. Chan(T) = Chan(S)  BY <1>5, <1>11 DEF Chan
<1>13. Fits(S, s) => Fits(T, s)  BY <1>0, <1>3, <1>5 DEF Fits
<1> QED  BY <1>0, <1>3, <1>5, <1>10, <1>12, <1>13

-----------------------------------------------------------------------------
(* One lemma for each kind of step *)

\* The timers of the transmitters and the commands to them touch nothing else.
LEMMA RfStep ==
  ASSUME NEW S, NEW faults, FineState(S, faults), NEW R \in ObRf, RfFine(R), NEW T, T = [S EXCEPT !.rf = R]
  PROVE  FineState(T, faults) /\ Moves(S, T)
<1>1. S \in ObState /\ Linked(S, faults)  BY DEF FineState, Good
<1>2. T \in ObState /\ SameCons(S, T) /\ T.rf = R
      /\ T.link = S.link /\ T.auth = S.auth /\ T.ping = S.ping /\ T.pong = S.pong
      /\ T.timeout = S.timeout /\ T.reconnect = S.reconnect
  BY <1>1 DEF ObState, SameCons
<1>3. Linked(T, faults)  BY <1>1, <1>2 DEF Linked, SameCons
<1> QED  BY <1>2, <1>3, QuietStep

\* The link is lost: S with what the socket still held, A without.
LEMMA LossStep ==
  ASSUME NEW S, NEW faults, FineState(S, faults), NEW A \in ObState, A.sccp = S.sccp, A.radio = S.radio,
         A.wire = <<>>, ~A.timeout, A.rf = S.rf, A.got = S.got, NEW T, T = connection_loss(A)
  PROVE  FineState(T, faults) /\ Moves(S, T)
<1>1. Good(S) /\ RfFine(S.rf)  BY DEF FineState
<1>2. Mutual(A)  BY <1>1 DEF Good, Mutual
<1>3. \A s \in Sccps : A.sccp[s].st = "free" => A.sccp[s] = NoSccp
  BY <1>1 DEF Good, ConFine, Fine, QueueFine
<1>4. T = Lost(A)  BY <1>2, <1>3, LossForm
<1>5. /\ Good(T) /\ T.link = "down" /\ ~T.auth /\ ~T.ping /\ ~T.pong /\ T.reconnect /\ T.timeout = A.timeout
      /\ T.wire = <<>> /\ T.rf = A.rf /\ T.got = A.got
      /\ \A s \in Sccps : T.sccp[s].st = "free" /\ Fits(T, s)
      /\ Chan(T) = [s \in Sccps |-> {}]
  BY <1>4, LostGood
<1>6. Linked(T, faults)  BY <1>5 DEF Linked
<1> QED  BY <1>1, <1>5, <1>6 DEF FineState, Moves

\* The connection ends, at the timeout or because the MSC refuses or releases it.
LEMMA FreeStep ==
  ASSUME NEW S, NEW faults, FineState(S, faults), NEW M, NEW s \in Sccps, S.sccp[s].st # "free",
         Good(M), SameLink(S, M), M.sccp = S.sccp, Chan(M) = Chan(S), M.got = S.got, M.wire = S.wire,
         \A r \in Sccps \ {s} : Fits(M, r), M.msc[s] \notin Confirmed, NEW T, T = Freed(M, s)
  PROVE  FineState(T, faults) /\ Moves(S, T)
<1>1. S.link = "up"  BY UpWhenUsed
<1>2. Good(S) /\ Linked(S, faults) /\ RfFine(S.rf)  BY DEF FineState
<1>3. /\ Good(T) /\ SameLink(M, T) /\ T.got = M.got
      /\ \A r \in Sccps \ {s} : Fits(M, r) => Fits(T, r)
      /\ Fits(T, s)
      /\ Chan(T) = [Chan(M) EXCEPT ![s] = Numbers(M.wire, s)]
      /\ \A x \in Numbers(M.wire, s), y \in Numbers(M.sccp[s].q, s) : x < y
  BY FreeGood
<1>4. SameLink(S, T)  BY <1>3 DEF SameLink
<1>5. Linked(T, faults) /\ RfFine(T.rf)  BY <1>1, <1>2, <1>4, UpLinked DEF SameLink
<1>6. FineState(T, faults)  BY <1>3, <1>5 DEF FineState
<1>7. Chan(S)[s] = Numbers(S.wire, s) \cup Numbers(S.sccp[s].q, s)  BY <1>2, ChanFields DEF Good
<1>8. PICK kept : kept = Numbers(S.wire, s)  OBVIOUS
<1>9. kept \in SUBSET Chan(S)[s] /\ (\A x \in kept, y \in Chan(S)[s] \ kept : x < y)
      /\ Chan(T) = [Chan(S) EXCEPT ![s] = kept] /\ T.got = S.got
  BY <1>3, <1>7, <1>8
<1> QED  BY <1>6, <1>9 DEF Moves

-----------------------------------------------------------------------------
(* The actions *)

\* A radio connection asks for an SCCP connection.
LEMMA ComplL3Step ==
  ASSUME ObInv, NEW c \in Radio, ComplL3(c) PROVE ObInv' /\ Moves(ob, ob')
<1>1. PICK s \in Sccps : Unused(s) /\ ob' = bsc_compl_l3(ob, c, s)  BY DEF ComplL3, ObBecomes
<1>2. ob.radio[c] = 0 /\ ob.auth /\ obEnv' = obEnv  BY DEF ComplL3, MayConnect, ObBecomes
<1>3. Good(ob) /\ Linked(ob, obEnv.faults) /\ RfFine(ob.rf) /\ \A r \in Sccps : Fits(ob, r)  BY DEF ObInv, FineState
<1>4. ob.link = "up"  BY <1>2, <1>3 DEF Linked
<1>5. ob \in ObState  BY <1>3 DEF Good
<1>6. ob' = OpenedCon(ob, c, s)  BY <1>1, <1>5, OpenForm
<1>7. ob.sccp[s].st = "free" /\ ob.msc[s] = "none" /\ \A i \in 1..Len(ob.wire) : ob.wire[i].s # s
  BY <1>1 DEF Unused
<1>8. /\ Good(ob') /\ SameLink(ob, ob') /\ ob'.got = [ob.got EXCEPT ![s] = 0]
      /\ \A r \in Sccps \ {s} : Fits(ob, r) => Fits(ob', r)
      /\ Fits(ob', s)
      /\ Chan(ob)[s] = {} /\ \E first \in {{1}, {}} : Chan(ob') = [Chan(ob) EXCEPT ![s] = first]
  BY <1>2, <1>3, <1>6, <1>7, OpenGood
<1>9. Linked(ob', obEnv.faults) /\ RfFine(ob'.rf)  BY <1>3, <1>4, <1>8, UpLinked DEF SameLink
<1> QED  BY <1>2, <1>3, <1>8, <1>9 DEF ObInv, FineState, Moves

\* A radio connection sends.
LEMMA RadioSendsStep ==
  ASSUME ObInv, NEW c \in Radio, RadioSends(c) PROVE ObInv' /\ Moves(ob, ob')
<1>1. ob' = bsc_queue_for_msc(ob, ob.radio[c], "DT") /\ obEnv' = obEnv /\ ob.radio[c] # 0 /\ ObRoom(ob.radio[c])
  BY DEF RadioSends, ObBecomes, bsc_dtap, bsc_assign_compl, bsc_assign_fail, bsc_cipher_mode_compl, bsc_sapi_n_reject
<1>2. FineState(ob, obEnv.faults) /\ Good(ob) /\ ob \in ObState /\ Mutual(ob)  BY DEF ObInv, FineState, Good
<1>3. PICK s : s = ob.radio[c]  OBVIOUS
<1>4. s \in Sccps /\ ob.sccp[s].conn = c /\ c # 0  BY <1>1, <1>2, <1>3, StateFields, ObBounds DEF Mutual
<1>5. ob.sccp[s].st # "free"  BY <1>2, <1>4 DEF Good, ConFine, Fine, QueueFine, NoSccp
<1>6. ob.sccp[s].n + 2 < ObMaxMsg  BY <1>1, <1>3 DEF ObRoom
<1>7. FineState(ob', obEnv.faults) /\ Moves(ob, ob')
  BY <1>1, <1>2, <1>3, <1>4, <1>5, <1>6, PlainSend DEF Types
<1> QED  BY <1>1, <1>7 DEF ObInv

\* A radio connection is lost: a CLEAR REQUEST, for which a number was kept.
LEMMA RadioLostStep ==
  ASSUME ObInv, NEW c \in Radio, RadioLost(c) PROVE ObInv' /\ Moves(ob, ob')
<1>1. ob' = bsc_clear_request(ob, c) /\ obEnv' = obEnv /\ ob.radio[c] # 0  BY DEF RadioLost, ObBecomes
<1>2. FineState(ob, obEnv.faults) /\ Good(ob) /\ ob \in ObState /\ Mutual(ob) /\ \A r \in Sccps : Fits(ob, r)
  BY DEF ObInv, FineState, Good
<1>3. PICK s : s = ob.radio[c]  OBVIOUS
<1>4. s \in Sccps /\ ob.sccp[s].conn = c /\ c # 0 /\ ob' = bsc_queue_for_msc(Detached(ob, s), s, "CLEAR_REQ")
  BY <1>1, <1>2, <1>3, ClearRequestForm
<1>5. ob.sccp[s].st # "free"  BY <1>2, <1>4 DEF Good, ConFine, Fine, QueueFine, NoSccp
<1>6. SameLink(ob, ob)  BY DEF SameLink
<1>7. FineState(ob', obEnv.faults) /\ Moves(ob, ob')
  BY <1>2, <1>4, <1>5, <1>6, DetachSend DEF Types
<1> QED  BY <1>1, <1>7 DEF ObInv

\* The connection is not confirmed in time: what is queued is thrown away.
LEMMA CcTimeoutStep ==
  ASSUME ObInv, NEW s \in Sccps, CcTimeout(s) PROVE ObInv' /\ Moves(ob, ob')
<1>1. ob' = sccp_cc_timeout(ob, s) /\ obEnv' = obEnv /\ ob.sccp[s].cc  BY DEF CcTimeout, ObBecomes
<1>2. FineState(ob, obEnv.faults) /\ Good(ob) /\ ob \in ObState /\ ConFine(ob, s) /\ \A r \in Sccps : Fits(ob, r)
  BY DEF ObInv, FineState, Good
<1>3. CASE ob.sccp[s].st = "established"
  BY <1>1, <1>2, <1>3 DEF sccp_cc_timeout, ObInv, Moves
<1>4. CASE ob.sccp[s].st # "established"
  <2>1. ob.sccp[s].st # "free"  BY <1>1, <1>2 DEF ConFine, Fine, QueueFine, NoSccp
  <2>2. ob.msc[s] \notin Confirmed  BY <1>2, <1>4 DEF ConFine, Fine, KnownFine
  <2>3. ob' = Freed(ob, s)  BY <1>1, <1>2, <1>4, FreeForm DEF sccp_cc_timeout
  <2>4. SameLink(ob, ob)  BY DEF SameLink
  <2>5. FineState(ob', obEnv.faults) /\ Moves(ob, ob')
    BY <1>2, <2>1, <2>2, <2>3, <2>4, FreeStep
  <2> QED  BY <1>1, <2>5 DEF ObInv
<1> QED  BY <1>3, <1>4

\* The MSC releases a connection it has cleared.
LEMMA MscReleasesStep ==
  ASSUME ObInv, NEW s \in Sccps, MscReleases(s) PROVE ObInv' /\ Moves(ob, ob')
<1>1. PICK M : M = Told(ob, s, "none")  OBVIOUS
<1>2. ob' = bsc_delete_connection(free_queued(FreeRadio(M, M.sccp[s].conn), s), s) /\ obEnv' = obEnv /\ ob.msc[s] = "done"
  BY <1>1 DEF MscReleases, ObBecomes, msc_outgoing_sccp_state, Told
<1>3. FineState(ob, obEnv.faults) /\ Good(ob) /\ ConFine(ob, s) /\ \A r \in Sccps : Fits(ob, r)
  BY DEF ObInv, FineState, Good
<1>4. ob.sccp[s].st # "free"  BY <1>2, <1>3 DEF ConFine, Fine, KnownFine, Confirmed, Cleared
<1>5. "none" \in States /\ "none" \notin Confirmed  BY DEF States, Confirmed, Cleared
<1>6. ToldState(ob, M, s, "none")  BY <1>1, <1>3, <1>5, ToldGood
<1>7. ob' = Freed(M, s)  BY <1>2, <1>6, FreeForm DEF Good, ToldState
<1>8. FineState(ob', obEnv.faults) /\ Moves(ob, ob')
  BY <1>3, <1>4, <1>5, <1>6, <1>7, FreeStep DEF ToldState
<1> QED  BY <1>2, <1>8 DEF ObInv

\* The MSC confirms, too late perhaps, or refuses.
LEMMA MscConfirmsStep ==
  ASSUME ObInv, NEW s \in Sccps, NEW ok \in BOOLEAN, MscConfirms(s, ok) PROVE ObInv' /\ Moves(ob, ob')
<1>1. FineState(ob, obEnv.faults) /\ Good(ob) /\ ConFine(ob, s) /\ (\A r \in Sccps : Fits(ob, r)) /\ ob \in ObState
      /\ Linked(ob, obEnv.faults) /\ RfFine(ob.rf)
  BY DEF ObInv, FineState, Good
<1>2. obEnv' = obEnv /\ ob.msc[s] = "asked" /\ ob.link = "up"  BY DEF MscConfirms, ObBecomes
<1>3. "none" \in States /\ "none" \notin Confirmed  BY DEF States, Confirmed, Cleared
<1>4. PICK M : M = Told(ob, s, "none")  OBVIOUS
<1>5. ToldState(ob, M, s, "none")  BY <1>1, <1>3, <1>4, ToldGood
<1>6. CASE ob.sccp[s].st # "request"
  <2>1. ob' = M  BY <1>4, <1>6 DEF MscConfirms, ObBecomes, Told
  <2>2. Linked(M, obEnv.faults) /\ RfFine(M.rf)  BY <1>1, <1>2, <1>5, UpLinked DEF ToldState, SameLink
  <2>3. Fits(M, s)
    <3>1. ob.msc[s] \notin Cleared /\ M.msc[s] \notin Cleared  BY <1>2, <1>5 DEF Cleared, ToldState
    <3> QED  BY <1>1, <1>5, <3>1 DEF Fits, ToldState
  <2>4. FineState(M, obEnv.faults) /\ Moves(ob, M)
    BY <1>5, <2>2, <2>3 DEF FineState, Moves, ToldState
  <2> QED  BY <1>2, <2>1, <2>4 DEF ObInv
<1>7. CASE ob.sccp[s].st = "request" /\ ~ok
  <2>1. ob' = bsc_delete_connection(free_queued(FreeRadio(M, M.sccp[s].conn), s), s)
    BY <1>4, <1>7 DEF MscConfirms, ObBecomes, Told, msc_outgoing_sccp_state
  <2>2. ob' = Freed(M, s)  BY <1>5, <2>1, FreeForm DEF Good, ToldState
  <2>3. ob.sccp[s].st # "free"  BY <1>7
  <2>4. FineState(ob', obEnv.faults) /\ Moves(ob, ob')
    BY <1>1, <1>3, <1>5, <2>2, <2>3, FreeStep DEF ToldState
  <2> QED  BY <1>2, <2>4 DEF ObInv
<1>8. CASE ob.sccp[s].st = "request" /\ ok
  <2>1. ob' = msc_outgoing_sccp_state([ob EXCEPT !.msc[s] = "up"], s, "established")
    BY <1>8 DEF MscConfirms, ObBecomes
  <2>2. PICK T : T = ConfirmedCon(ob, s)  OBVIOUS
  <2>3. /\ ob.sccp[s].qs - Len(ob.sccp[s].q) = 0
        /\ Good(T) /\ SameLink(ob, T) /\ T.got = ob.got
        /\ \A r \in Sccps \ {s} : Fits(ob, r) => Fits(T, r)
        /\ Fits(ob, s) => Fits(T, s)
        /\ Dropped(ob, T, s)
    BY <1>1, <1>2, <1>8, <2>2, ConfirmGood
  <2>4. ob' = T  BY <1>1, <2>1, <2>2, <2>3, ConfirmForm
  <2>5. Linked(T, obEnv.faults) /\ RfFine(T.rf)  BY <1>1, <1>2, <2>3, UpLinked DEF SameLink
  <2>6. FineState(T, obEnv.faults) /\ Moves(ob, T)
    BY <1>1, <2>3, <2>5 DEF FineState, Moves, Dropped
  <2> QED  BY <1>2, <2>4, <2>6 DEF ObInv
<1> QED  BY <1>6, <1>7, <1>8

\* The MSC sends on the connection; a CLEAR COMPLETE has a number kept for it.
LEMMA MscSendsStep ==
  ASSUME ObInv, NEW s \in Sccps, NEW t, NEW ok \in BOOLEAN, MscSends(s, t, ok),
         t \in {"CLEAR_CMD", "CIPHER_MODE_CMD", "ASSIGMENT_RQST", "DTAP"}
  PROVE  ObInv' /\ Moves(ob, ob')
<1>1. FineState(ob, obEnv.faults) /\ Good(ob) /\ ConFine(ob, s) /\ (\A r \in Sccps : Fits(ob, r)) /\ ob \in ObState
      /\ Linked(ob, obEnv.faults) /\ RfFine(ob.rf)
  BY DEF ObInv, FineState, Good
<1>2. obEnv' = obEnv /\ ob.msc[s] \in {"up", "clear"} /\ ob.link = "up"  BY DEF MscSends, ObBecomes
<1>3. ob.sccp[s].st = "established"  BY <1>1, <1>2 DEF ConFine, Fine, KnownFine, Confirmed
<1>4. t # "CLEAR_CMD" => ob.sccp[s].n + 2 < ObMaxMsg  BY DEF MscSends, ObRoom
<1>5. FineState(ob, obEnv.faults) /\ Moves(ob, ob)  BY <1>1 DEF Moves
<1>6. ASSUME t # "CLEAR_CMD", NEW T, T = bsc_queue_for_msc(ob, s, "DT")
      PROVE  FineState(T, obEnv.faults) /\ Moves(ob, T)
  BY <1>1, <1>3, <1>4, <1>6, PlainSend DEF Types
<1>7. CASE t = "CLEAR_CMD"
  <2>1. PICK M : M = Told(ob, s, "cleared")  OBVIOUS
  <2>2. "cleared" \in States /\ (s \in Asking(ob.wire) => "cleared" = "none") /\ "cleared" \in Cleared
    BY <1>1, <1>2 DEF ConFine, Fine, KnownFine, States, Cleared
  <2>3. ToldState(ob, M, s, "cleared")  BY <1>1, <1>3, <2>1, <2>2, ToldGood
  <2>4. ob' = bssmap_handle_clear_command(M, s)
    BY <1>7, <2>1 DEF MscSends, ObBecomes, Told, bsc_handle_dt1, bssmap_rcvmsg_dt1
  <2>5. ob' = bsc_queue_for_msc(Detached(M, s), s, "CLEAR_COMPL")
    BY <2>3, <2>4, ClearCommandForm DEF ToldState, Good
  <2>6. M.msc[s] \in Cleared /\ ob.msc[s] \notin Cleared  BY <1>2, <2>2, <2>3 DEF ToldState, Cleared
  <2>7. ob.sccp[s].st # "free" /\ "CLEAR_COMPL" \in Types \ {"CR"}  BY <1>3 DEF Types
  <2>8. FineState(ob', obEnv.faults) /\ Moves(ob, ob')
    BY <1>1, <2>3, <2>5, <2>6, <2>7, DetachSend DEF ToldState
  <2> QED  BY <1>2, <2>8 DEF ObInv
<1>8. CASE t = "CIPHER_MODE_CMD"
  <2>1. ob' = bssmap_handle_cipher_mode(ob, s, ok)
    BY <1>8 DEF MscSends, ObBecomes, bsc_handle_dt1, bssmap_rcvmsg_dt1
  <2>2. PICK M : M = WithSccp(ob, s, Ciphered(ob.sccp[s]), ob.wire)  OBVIOUS
  <2>3. ob' \in {M, bsc_queue_for_msc(ob, s, "DT"), bsc_queue_for_msc(M, s, "DT")}
    BY <1>1, <2>1, <2>2, CipherForm DEF bssmap_handle_cipher_mode
  <2>4. ob.sccp[s].st # "free" /\ "DT" \in Types \ {"CR"}  BY <1>3 DEF Types
  <2>5. /\ Good(M) /\ SameLink(ob, M) /\ M.got = ob.got /\ M.msc = ob.msc
        /\ \A r \in Sccps : Fits(ob, r) => Fits(M, r)
        /\ M.sccp[s].st = ob.sccp[s].st /\ M.sccp[s].n = ob.sccp[s].n
        /\ Chan(M) = Chan(ob)
    BY <1>1, <2>2, <2>4, CipherGood
  <2>6. Linked(M, obEnv.faults) /\ RfFine(M.rf)  BY <1>1, <1>2, <2>5, UpLinked DEF SameLink
  <2>7. FineState(M, obEnv.faults) /\ Moves(ob, M)
    BY <1>1, <2>5, <2>6 DEF FineState, Moves
  <2>8. ASSUME NEW T, T = bsc_queue_for_msc(M, s, "DT")
        PROVE  FineState(T, obEnv.faults) /\ Moves(ob, T)
    <3>1. M.sccp[s].n \in Nat /\ ObMaxMsg \in Nat /\ M.sccp[s].n + 2 < ObMaxMsg
      BY <1>4, <1>8, <2>5, ObBounds DEF Good, ObState, SccpT
    <3>2. M.sccp[s].n + 1 <= ObMaxMsg /\ M.sccp[s].n + 2 <= ObMaxMsg /\ M.sccp[s].n + 3 <= ObMaxMsg  BY <3>1
    <3> QED  BY <1>1, <1>2, <2>4, <2>5, <2>8, <3>2, SendStep
  <2>9. FineState(ob', obEnv.faults) /\ Moves(ob, ob')
    BY <1>6, <1>8, <2>3, <2>7, <2>8
  <2> QED  BY <1>2, <2>9 DEF ObInv
<1>9. CASE t = "ASSIGMENT_RQST"
  <2>1. ob' \in {ob, bsc_queue_for_msc(ob, s, "DT")}
    BY <1>9 DEF MscSends, ObBecomes, bsc_handle_dt1, bssmap_rcvmsg_dt1, bssmap_handle_assignm_req
  <2> QED  BY <1>2, <1>5, <1>6, <1>9, <2>1 DEF ObInv
<1>10. CASE t = "DTAP"
  <2>1. ob' = ob
    BY <1>10 DEF MscSends, ObBecomes, bsc_handle_dt1, dtap_rcvmsg
  <2> QED  BY <1>2, <1>5, <2>1 DEF ObInv
<1> QED  BY <1>7, <1>8, <1>9, <1>10

\* The MSC reads the wire.
LEMMA MscReadsStep ==
  ASSUME ObInv, MscReads PROVE ObInv' /\ Moves(ob, ob')
<1>1. FineState(ob, obEnv.faults) /\ Good(ob) /\ (\A r \in Sccps : Fits(ob, r)) /\ ob \in ObState
      /\ Linked(ob, obEnv.faults) /\ RfFine(ob.rf) /\ Growing(ob.wire) /\ \A r \in Sccps : ConFine(ob, r)
  BY DEF ObInv, FineState, Good
<1>2. obEnv' = obEnv /\ ob.link = "up" /\ ob.wire # <<>>  BY DEF MscReads, ObBecomes
<1>3. ob.wire \in Seq(Msg)  BY <1>1, StateFields
<1>4. PICK wire : wire = Tail(ob.wire)  OBVIOUS
<1>5. PICK m : m = Head(ob.wire)  OBVIOUS
<1>6. /\ m \in Msg /\ wire \in Seq(Msg) /\ Growing(wire)
      /\ m.n \in Numbers(ob.wire, m.s)
      /\ \A x \in Numbers(ob.wire, m.s) : m.n <= x
      /\ Numbers(wire, m.s) = Numbers(ob.wire, m.s) \ {m.n}
      /\ \A s \in Sccps \ {m.s} : Numbers(wire, s) = Numbers(ob.wire, s)
      /\ Asking(wire) \subseteq Asking(ob.wire)
      /\ \A s \in Sccps \ {m.s} : s \in Asking(ob.wire) => s \in Asking(wire)
      /\ m.t = "CR" => m.s \in Asking(ob.wire) /\ m.s \notin Asking(wire)
  BY <1>1, <1>2, <1>3, <1>4, <1>5, TailMessages
<1>7. PICK s : s = m.s  OBVIOUS
<1>8. PICK n : n = m.n  OBVIOUS
<1>9. s \in Sccps /\ n \in Nat /\ m.t \in Types  BY <1>6, <1>7, <1>8 DEF Msg
<1>10. PICK v : v = CASE m.t = "CR" -> "asked"
                      [] m.t = "CLEAR_REQ" /\ ob.msc[m.s] = "up" -> "clear"
                      [] m.t = "CLEAR_COMPL" /\ ob.msc[m.s] \in {"up", "clear", "cleared"} -> "done"
                      [] OTHER -> ob.msc[m.s]
  OBVIOUS
<1>11. ob' = Taken(ob, s, n, wire, v)
  BY <1>4, <1>5, <1>7, <1>8, <1>10 DEF MscReads, ObBecomes, Taken
<1>12. ob.msc[s] \in States  BY <1>1, <1>9, StateFields DEF States
<1>13. \/ m.t = "CR" /\ v = "asked"
       \/ m.t # "CR" /\ ob.msc[s] = "up" /\ v = "clear"
       \/ m.t # "CR" /\ ob.msc[s] \in {"up", "clear", "cleared"} /\ v = "done"
       \/ m.t # "CR" /\ v = ob.msc[s]
  BY <1>7, <1>10
<1>14. KnownFine(ob.sccp[s], ob.msc[s], s \in Asking(ob.wire))  BY <1>1, <1>9 DEF ConFine, Fine
<1>15. /\ v \in States /\ (v \in Confirmed => ob.msc[s] \in Confirmed)
       /\ (ob.msc[s] \in Cleared => v \in Cleared) /\ (s \in Asking(wire) => v = "none")
  <2>1. s \in Asking(wire) => ob.msc[s] = "none" /\ m.t # "CR"  BY <1>6, <1>7, <1>14 DEF KnownFine
  <2>2. m.t = "CR" => ob.msc[s] = "none"  BY <1>6, <1>7, <1>14 DEF KnownFine
  <2> QED  BY <1>12, <1>13, <2>1, <2>2 DEF States, Confirmed, Cleared
<1>16. ob' = ReadCon(ob, s, n, wire, v)  BY <1>1, <1>9, <1>11, ReadForm
<1>17. \A r \in Sccps \ {s} : Numbers(wire, r) = Numbers(ob.wire, r) /\ (r \in Asking(wire) <=> r \in Asking(ob.wire))
  BY <1>6, <1>7
<1>18. Growing(wire) /\ n \in Numbers(ob.wire, s) /\ (\A x \in Numbers(ob.wire, s) : n <= x)
       /\ Numbers(wire, s) = Numbers(ob.wire, s) \ {n} /\ wire \in Seq(Msg)
  BY <1>6, <1>7, <1>8
<1>19. /\ Good(ob') /\ SameLink(ob, ob')
       /\ \A r \in Sccps : Fits(ob, r) => Fits(ob', r)
       /\ n \in Chan(ob)[s] /\ \A x \in Chan(ob)[s] : n <= x
       /\ ob'.got = [ob.got EXCEPT ![s] = n] /\ Chan(ob') = [Chan(ob) EXCEPT ![s] = @ \ {n}]
  BY <1>1, <1>9, <1>15, <1>16, <1>17, <1>18, ReadGood
<1>20. Linked(ob', obEnv.faults) /\ RfFine(ob'.rf)  BY <1>1, <1>2, <1>19, UpLinked DEF SameLink
<1>21. FineState(ob', obEnv.faults)  BY <1>1, <1>19, <1>20 DEF FineState
<1>22. Moves(ob, ob')  BY <1>9, <1>19 DEF Moves
<1> QED  BY <1>2, <1>21, <1>22 DEF ObInv

\* The link: its timers, and its coming up and going down.
LEMMA LinkSteps ==
  ASSUME ObInv, IdAck \/ Pong \/ PingTimeout \/ GoesSilent PROVE ObInv' /\ Moves(ob, ob')
<1>1. FineState(ob, obEnv.faults) /\ ob \in ObState /\ Linked(ob, obEnv.faults) /\ RfFine(ob.rf)
  BY DEF ObInv, FineState, Good
<1>2. obEnv' = obEnv  BY DEF IdAck, Pong, PingTimeout, GoesSilent, ObBecomes
<1>3. ob.link = "up"  BY <1>1 DEF IdAck, Pong, PingTimeout, GoesSilent, Linked
<1>4. /\ ob' \in ObState /\ SameCons(ob, ob') /\ ob'.rf = ob.rf
      /\ ob'.link = ob.link /\ ob'.timeout = ob.timeout /\ ob'.reconnect = ob.reconnect
  <2>1. CASE IdAck  BY <1>1, <2>1 DEF IdAck, ObBecomes, initialize_if_needed, ObState, SameCons
  <2>2. CASE Pong  BY <1>1, <2>2 DEF Pong, ObBecomes, ObState, SameCons
  <2>3. CASE PingTimeout  BY <1>1, <2>3 DEF PingTimeout, ObBecomes, msc_ping_timeout_cb, ObState, SameCons
  <2>4. CASE GoesSilent  BY <1>1, <2>4 DEF GoesSilent, ObBecomes, ObState, SameCons
  <2> QED  BY <2>1, <2>2, <2>3, <2>4
<1>5. Linked(ob', obEnv.faults)  BY <1>1, <1>3, <1>4 DEF Linked
<1>6. FineState(ob', obEnv.faults) /\ Moves(ob, ob')  BY <1>1, <1>4, <1>5, QuietStep
<1> QED  BY <1>2, <1>6 DEF ObInv

\* The link comes up.
LEMMA LinkUp ==
  ASSUME NEW S, NEW faults, FineState(S, faults), S.link # "up", NEW T,
         T = Connected(S) \/ T = Connected([S EXCEPT !.reconnect = FALSE]),
         S.reconnect => T = Connected([S EXCEPT !.reconnect = FALSE])
  PROVE  FineState(T, faults) /\ Moves(S, T)
<1>1. S \in ObState /\ Linked(S, faults) /\ RfFine(S.rf)  BY DEF FineState, Good
<1>2. T \in ObState /\ SameCons(S, T) /\ T.rf = S.rf /\ T.link = "up" /\ ~T.timeout /\ ~T.reconnect
  <2>1. CASE T = Connected(S) /\ ~S.reconnect
    BY <1>1, <2>1 DEF Connected, msc_connection_connected, msc_ping_timeout_cb, ObState, SameCons
  <2>2. CASE T = Connected([S EXCEPT !.reconnect = FALSE])
    BY <1>1, <2>2 DEF Connected, msc_connection_connected, msc_ping_timeout_cb, ObState, SameCons
  <2> QED  BY <2>1, <2>2
<1>3. Linked(T, faults)  BY <1>2 DEF Linked
<1> QED  BY <1>1, <1>2, <1>3, QuietStep

\* The link is lost with all that waits.
LEMMA LossSteps ==
  ASSUME ObInv, PongTimeout \/ LinkLost \/ ConTimeout PROVE ObInv' /\ Moves(ob, ob')
<1>1. FineState(ob, obEnv.faults) /\ ob \in ObState  BY DEF ObInv, FineState, Good
<1>2. obEnv' = obEnv  BY DEF PongTimeout, LinkLost, ConTimeout, ObBecomes
<1>3. PICK B : B \in ObState /\ B.sccp = ob.sccp /\ B.radio = ob.radio /\ B.rf = ob.rf /\ B.got = ob.got
               /\ ob' = bsc_msc_lost(B)
  <2>1. CASE PongTimeout
    <3>1. PICK B : B = [ob EXCEPT !.pong = FALSE]  OBVIOUS
    <3>2. ob' = bsc_msc_lost(B)  BY <2>1, <3>1 DEF PongTimeout, ObBecomes
    <3>3. B \in ObState /\ B.sccp = ob.sccp /\ B.radio = ob.radio /\ B.rf = ob.rf /\ B.got = ob.got
      BY <1>1, <3>1 DEF ObState
    <3> QED  BY <3>2, <3>3
  <2>2. CASE LinkLost \/ ConTimeout  BY <1>1, <2>2 DEF LinkLost, ConTimeout, ObBecomes
  <2> QED  BY <2>1, <2>2
<1>4. PICK e : e = <<>>  OBVIOUS
<1>9. e \in Seq(Msg)  BY <1>4
<1>5. PICK A : A = [B EXCEPT !.wire = e, !.timeout = FALSE]  OBVIOUS
<1>6. A \in ObState /\ A.sccp = B.sccp /\ A.radio = B.radio /\ A.rf = B.rf /\ A.got = B.got /\ A.wire = e /\ ~A.timeout
  BY <1>3, <1>9, <1>5 DEF ObState
<1>7. ob' = connection_loss(A)  BY <1>3, <1>4, <1>5 DEF bsc_msc_lost
<1>8. FineState(ob', obEnv.faults) /\ Moves(ob, ob')
  BY <1>1, <1>3, <1>4, <1>6, <1>7, LossStep
<1> QED  BY <1>2, <1>8 DEF ObInv

\* connect() succeeds or fails.
LEMMA ConnectEndsStep ==
  ASSUME ObInv, ConnectEnds PROVE ObInv' /\ Moves(ob, ob')
<1>1. FineState(ob, obEnv.faults) /\ ob \in ObState /\ Linked(ob, obEnv.faults)  BY DEF ObInv, FineState, Good
<1>2. obEnv' = obEnv /\ ob.link = "connecting"  BY DEF ConnectEnds, ObBecomes
<1>3. ~ob.reconnect /\ ob.wire = <<>>  BY <1>1, <1>2 DEF Linked
<1>4. CASE ob' = Connected(ob)
  BY <1>1, <1>2, <1>3, <1>4, LinkUp DEF ObInv
<1>5. CASE ob' = connection_loss([ob EXCEPT !.timeout = FALSE])
  <2>1. PICK A : A = [ob EXCEPT !.timeout = FALSE]  OBVIOUS
  <2>2. A \in ObState /\ A.sccp = ob.sccp /\ A.radio = ob.radio /\ A.rf = ob.rf /\ A.got = ob.got /\ A.wire = ob.wire
        /\ ~A.timeout
    BY <1>1, <2>1 DEF ObState
  <2>3. ob' = connection_loss(A)  BY <1>5, <2>1
  <2>4. FineState(ob', obEnv.faults) /\ Moves(ob, ob')  BY <1>1, <1>3, <2>2, <2>3, LossStep
  <2> QED  BY <1>2, <2>4 DEF ObInv
<1> QED  BY <1>4, <1>5 DEF ConnectEnds, ObBecomes

\* The reconnect timer: under way, refused, at once, or no socket.
LEMMA ReconnectStep ==
  ASSUME ObInv, Reconnect PROVE ObInv' /\ Moves(ob, ob')
<1>1. FineState(ob, obEnv.faults) /\ ob \in ObState /\ Linked(ob, obEnv.faults) /\ RfFine(ob.rf)
  BY DEF ObInv, FineState, Good
<1>2. obEnv' = obEnv /\ ob.reconnect  BY DEF Reconnect, ObBecomes
<1>3. ob.link = "down" /\ ~ob.timeout /\ ob.wire = <<>>  BY <1>1, <1>2 DEF Linked
<1>4. PICK how \in {"in progress", "refused", "at once", "no socket"} :
        (how = "no socket" => ObHas("no_socket")) /\ ob' = bsc_msc_connect(ob, how)
  BY DEF Reconnect, ObBecomes
<1>5. PICK A : A = [ob EXCEPT !.reconnect = FALSE]  OBVIOUS
<1>6. A \in ObState /\ A.sccp = ob.sccp /\ A.radio = ob.radio /\ A.rf = ob.rf /\ A.got = ob.got /\ A.wire = ob.wire
      /\ A.timeout = ob.timeout /\ A.msc = ob.msc /\ A.link = ob.link /\ A.auth = ob.auth /\ A.ping = ob.ping
      /\ A.pong = ob.pong /\ ~A.reconnect
  BY <1>1, <1>5 DEF ObState
<1>7. CASE how = "in progress"
  <2>1. PICK T : T = [A EXCEPT !.link = "connecting", !.timeout = TRUE]  OBVIOUS
  <2>2. T \in ObState /\ T.sccp = A.sccp /\ T.radio = A.radio /\ T.wire = A.wire /\ T.msc = A.msc /\ T.got = A.got
        /\ T.rf = A.rf /\ T.link = "connecting" /\ T.timeout /\ T.reconnect = A.reconnect
        /\ T.auth = A.auth /\ T.ping = A.ping /\ T.pong = A.pong
    BY <1>6, <2>1 DEF ObState
  <2>3. SameCons(ob, T) /\ T.rf = ob.rf  BY <1>6, <2>2 DEF SameCons
  <2>4. Linked(T, obEnv.faults)  BY <1>1, <1>3, <1>6, <2>2 DEF Linked
  <2>5. FineState(T, obEnv.faults) /\ Moves(ob, T)  BY <1>1, <2>2, <2>3, <2>4, QuietStep
  <2>6. ob' = T  BY <1>4, <1>5, <1>7, <2>1 DEF bsc_msc_connect
  <2> QED  BY <1>2, <2>5, <2>6 DEF ObInv
<1>8. CASE how = "refused"
  <2>1. ob' = connection_loss(A)  BY <1>4, <1>5, <1>8 DEF bsc_msc_connect
  <2>2. FineState(ob', obEnv.faults) /\ Moves(ob, ob')  BY <1>1, <1>3, <1>6, <2>1, LossStep
  <2> QED  BY <1>2, <2>2 DEF ObInv
<1>9. CASE how = "at once"
  <2>1. ob' = Connected([ob EXCEPT !.reconnect = FALSE])  BY <1>4, <1>9 DEF bsc_msc_connect
  <2>2. ob.link # "up"  BY <1>3
  <2>3. FineState(ob', obEnv.faults) /\ Moves(ob, ob')  BY <1>1, <2>1, <2>2, LinkUp
  <2> QED  BY <1>2, <2>3 DEF ObInv
<1>10. CASE how = "no socket"
  <2>1. ob' = A  BY <1>4, <1>5, <1>10 DEF bsc_msc_connect
  <2>2. SameCons(ob, A)  BY <1>6 DEF SameCons
  <2>3. "no_socket" \in obEnv.faults  BY <1>4, <1>10 DEF ObHas
  <2>4. Linked(A, obEnv.faults)  BY <1>1, <1>3, <1>6, <2>3 DEF Linked
  <2>5. FineState(A, obEnv.faults) /\ Moves(ob, A)  BY <1>1, <1>6, <2>2, <2>4, QuietStep
  <2> QED  BY <1>2, <2>1, <2>5 DEF ObInv
<1> QED  BY <1>4, <1>7, <1>8, <1>9, <1>10

\* Switching the transmitters: what remains of an older command is gone.
LEMMA RfSteps ==
  ASSUME ObInv,
         \/ \E cmd \in {"D_OFF", "ON", "OFF"} : RfCommand(cmd)
         \/ \E locked \in BOOLEAN : CtrlLock(locked)
         \/ RfDelayed \/ GraceTimeout \/ RfCheck \/ OmlChanges
  PROVE  ObInv' /\ Moves(ob, ob')
<1>1. FineState(ob, obEnv.faults) /\ ob \in ObState /\ RfFine(ob.rf) /\ ob.rf \in ObRf
  BY DEF ObInv, FineState, Good, ObState
<1>2. obEnv' = obEnv  BY DEF RfCommand, CtrlLock, RfDelayed, GraceTimeout, RfCheck, OmlChanges, ObBecomes
<1>3. PICK rf : rf = ob.rf  OBVIOUS
<1>4. rf \in ObRf /\ RfFine(rf)  BY <1>1, <1>3
<1>5. ASSUME NEW R \in ObRf, RfFine(R), ob' = [ob EXCEPT !.rf = R] PROVE ObInv' /\ Moves(ob, ob')
  BY <1>1, <1>2, <1>5, RfStep DEF ObInv
<1>6. ASSUME NEW cmd \in {"D_OFF", "ON", "OFF"}, RfCommand(cmd) PROVE ObInv' /\ Moves(ob, ob')
  <2>1. PICK R : R = [rf EXCEPT !.req = cmd, !.delay = TRUE]  OBVIOUS
  <2>2. ob' = [ob EXCEPT !.rf = R]
    BY <1>1, <1>3, <1>6, <2>1 DEF RfCommand, ObBecomes, rf_read_cmd, ObState, ObRf
  <2>3. R \in ObRf /\ RfFine(R)  BY <1>4, <2>1 DEF ObRf, RfFine
  <2> QED  BY <1>5, <2>2, <2>3
<1>7. ASSUME NEW locked \in BOOLEAN, CtrlLock(locked) PROVE ObInv' /\ Moves(ob, ob')
  <2>1. PICK R : R = [rf EXCEPT !.locked = locked]  OBVIOUS
  <2>2. ob' = [ob EXCEPT !.rf = R]
    BY <1>1, <1>3, <1>7, <2>1 DEF CtrlLock, ObBecomes, set_net_rf_lock, lock_each_trx, ObState, ObRf
  <2>3. R \in ObRf /\ RfFine(R)  BY <1>4, <2>1 DEF ObRf, RfFine
  <2> QED  BY <1>5, <2>2, <2>3
<1>8. ASSUME RfDelayed PROVE ObInv' /\ Moves(ob, ob')
  <2>1. CASE rf.req = "D_OFF"
    <3>1. PICK R : R = [rf EXCEPT !.delay = FALSE, !.check = FALSE, !.grace = FALSE, !.locked = TRUE, !.policy = "OFF"]
      OBVIOUS
    <3>2. ob' = [ob EXCEPT !.rf = R]
      BY <1>1, <1>3, <1>8, <2>1, <3>1 DEF RfDelayed, ObBecomes, rf_delay_cmd_cb, switch_rf_off, send_signal, lock_each_trx, ObState, ObRf
    <3>3. R \in ObRf /\ RfFine(R)  BY <1>4, <2>1, <3>1 DEF ObRf, RfFine
    <3> QED  BY <1>5, <3>2, <3>3
  <2>2. CASE rf.req = "ON"
    <3>1. PICK R : R = [rf EXCEPT !.delay = FALSE, !.check = TRUE, !.grace = FALSE, !.locked = FALSE, !.policy = "ON"]
      OBVIOUS
    <3>2. ob' = [ob EXCEPT !.rf = R]
      BY <1>1, <1>3, <1>8, <2>2, <3>1, ZenonT(80) DEF RfDelayed, ObBecomes, rf_delay_cmd_cb, send_signal, lock_each_trx, ObState, ObRf
    <3>3. R \in ObRf /\ RfFine(R)  BY <1>4, <2>2, <3>1 DEF ObRf, RfFine
    <3> QED  BY <1>5, <3>2, <3>3
  <2>3. CASE rf.req = "OFF"
    <3>1. PICK R : R = [rf EXCEPT !.delay = FALSE, !.check = FALSE, !.grace = TRUE, !.policy = "GRACE"]
      OBVIOUS
    <3>2. ob' = [ob EXCEPT !.rf = R]
      BY <1>1, <1>3, <1>8, <2>3, <3>1 DEF RfDelayed, ObBecomes, rf_delay_cmd_cb, enter_grace, send_signal, ObState, ObRf
    <3>3. R \in ObRf /\ RfFine(R)  BY <1>4, <2>3, <3>1 DEF ObRf, RfFine
    <3> QED  BY <1>5, <3>2, <3>3
  <2> QED  BY <1>4, <2>1, <2>2, <2>3 DEF ObRf
<1>9. ASSUME GraceTimeout PROVE ObInv' /\ Moves(ob, ob')
  <2>1. PICK R : R = [rf EXCEPT !.grace = FALSE, !.locked = TRUE, !.policy = "OFF"]  OBVIOUS
  <2>2. ob' = [ob EXCEPT !.rf = R]
    BY <1>1, <1>3, <1>9, <2>1 DEF GraceTimeout, ObBecomes, grace_timeout, switch_rf_off, send_signal, lock_each_trx, ObState, ObRf
  <2>3. rf.grace  BY <1>3, <1>9 DEF GraceTimeout
  <2>4. R \in ObRf /\ RfFine(R)  BY <1>4, <2>1, <2>3 DEF ObRf, RfFine
  <2> QED  BY <1>5, <2>2, <2>4
<1>10. ASSUME RfCheck PROVE ObInv' /\ Moves(ob, ob')
  <2>1. PICK R : R = [rf EXCEPT !.check = FALSE, !.oml = @ /\ rf.ok /\ ~rf.locked]  OBVIOUS
  <2>2. ob' = [ob EXCEPT !.rf = R]
    BY <1>1, <1>3, <1>10, <2>1 DEF RfCheck, ObBecomes, rf_check_cb, ObState, ObRf
  <2>3. R \in ObRf /\ RfFine(R)  BY <1>4, <2>1 DEF ObRf, RfFine
  <2> QED  BY <1>5, <2>2, <2>3
<1>11. ASSUME OmlChanges PROVE ObInv' /\ Moves(ob, ob')
  <2>1. CASE ob' = [ob EXCEPT !.rf.oml = TRUE]
    <3>1. PICK R : R = [rf EXCEPT !.oml = TRUE]  OBVIOUS
    <3>2. ob' = [ob EXCEPT !.rf = R]  BY <1>1, <1>3, <2>1, <3>1 DEF ObState, ObRf
    <3>3. R \in ObRf /\ RfFine(R)  BY <1>4, <3>1 DEF ObRf, RfFine
    <3> QED  BY <1>5, <3>2, <3>3
  <2>2. CASE ob' = [ob EXCEPT !.rf.ok = ~@]
    <3>1. PICK R : R = [rf EXCEPT !.ok = ~@]  OBVIOUS
    <3>2. ob' = [ob EXCEPT !.rf = R]  BY <1>1, <1>3, <2>2, <3>1 DEF ObState, ObRf
    <3>3. R \in ObRf /\ RfFine(R)  BY <1>4, <3>1 DEF ObRf, RfFine
    <3> QED  BY <1>5, <3>2, <3>3
  <2> QED  BY <1>11, <2>1, <2>2 DEF OmlChanges, ObBecomes
<1> QED  BY <1>6, <1>7, <1>8, <1>9, <1>10, <1>11

-----------------------------------------------------------------------------
(* The theorems *)

\* At the start nothing is in use and a connect() is under way.
LEMMA ObInitFine == ObInit => ObInv /\ Link!FlInit
<1> SUFFICES ASSUME ObInit PROVE ObInv /\ Link!FlInit  OBVIOUS
<1>1. NoSccp \in SccpT /\ NoSccp.st = "free" /\ NoSccp.q = <<>> /\ NoSccp.qs = 0 /\ NoSccp.conn = 0
  BY DEF SccpT, NoSccp
<1>2. /\ ob.link = "connecting" /\ ~ob.auth /\ ~ob.ping /\ ~ob.pong /\ ob.timeout /\ ~ob.reconnect
      /\ ob.sccp = [s \in Sccps |-> NoSccp] /\ ob.radio = [c \in Radio |-> 0] /\ ob.wire = <<>>
      /\ ob.msc = [s \in Sccps |-> "none"] /\ ob.got = [s \in Sccps |-> 0]
      /\ ob.rf = [policy |-> "ON", req |-> "ON", delay |-> FALSE, grace |-> FALSE, check |-> FALSE,
                  locked |-> FALSE, ok |-> TRUE, oml |-> TRUE]
  BY DEF ObInit
<1>3. ob.rf \in ObRf /\ RfFine(ob.rf)  BY <1>2 DEF ObRf, RfFine
<1>4. /\ ob.sccp \in [Sccps -> SccpT] /\ ob.radio \in [Radio -> {0} \cup Sccps] /\ ob.wire \in Seq(Msg)
      /\ ob.msc \in [Sccps -> {"none", "asked", "up", "clear", "cleared", "done"}] /\ ob.got \in [Sccps -> Nat]
  BY <1>1, <1>2
<1>5. ob \in ObState
  <2>1. PICK sccp, radio, wire, msc, got, rf :
          sccp = ob.sccp /\ radio = ob.radio /\ wire = ob.wire /\ msc = ob.msc /\ got = ob.got /\ rf = ob.rf
    OBVIOUS
  <2>2. ob = [link |-> "connecting", auth |-> FALSE, ping |-> FALSE, pong |-> FALSE, timeout |-> TRUE, reconnect |-> FALSE,
              sccp |-> sccp, radio |-> radio, rf |-> rf, wire |-> wire, alive |-> TRUE, msc |-> msc, got |-> got]
    BY <1>2, <2>1 DEF ObInit
  <2>3. /\ sccp \in [Sccps -> SccpT] /\ radio \in [Radio -> {0} \cup Sccps] /\ wire \in Seq(Msg) /\ rf \in ObRf
        /\ msc \in [Sccps -> {"none", "asked", "up", "clear", "cleared", "done"}] /\ got \in [Sccps -> Nat]
    BY <1>3, <1>4, <2>1
  <2> QED  BY <2>2, <2>3 DEF ObState
<1>6. ASSUME NEW s \in Sccps PROVE ConFine(ob, s) /\ Fits(ob, s) /\ ob.sccp[s].st = "free"
  <2>1. Numbers(<<>>, s) = {} /\ Growing(<<>>) /\ Asking(<<>>) = {} /\ Len(<<>>) = 0  BY NoMessages
  <2>2. QueueFine(NoSccp, s)  BY <1>1, <2>1 DEF QueueFine
  <2>3. OrderFine(NoSccp, s, {}, 0)  BY <1>1, <2>1 DEF OrderFine
  <2>4. KnownFine(NoSccp, "none", s \in Asking(<<>>))  BY DEF KnownFine, Confirmed, Cleared
  <2>5. ob.sccp[s] = NoSccp /\ ob.got[s] = 0 /\ ob.msc[s] = "none"  BY <1>2
  <2> QED  BY <1>1, <1>2, <2>1, <2>2, <2>3, <2>4, <2>5 DEF ConFine, Fine, Fits
<1>7. Mutual(ob)  BY <1>1, <1>2 DEF Mutual
<1>8. Good(ob)  BY <1>2, <1>5, <1>6, <1>7, NoMessages DEF Good
<1>9. Linked(ob, obEnv.faults)  BY <1>2, <1>6 DEF Linked
<1>10. \A s \in Sccps : Numbers(ob.wire, s) \cup Numbers(ob.sccp[s].q, s) = {}
  BY <1>1, <1>2, NoMessages
<1>11. Link!FlInit  BY <1>2, <1>10 DEF Link!FlInit
<1> QED  BY <1>3, <1>6, <1>8, <1>9, <1>11 DEF ObInv, FineState

\* Every step keeps the invariant, and is a step of FifoLink or changes nothing there.
LEMMA ObNextFine ==
  ASSUME ObInv, [ObNext]_obVars PROVE ObInv' /\ Moves(ob, ob')
<1>1. CASE UNCHANGED obVars  BY <1>1 DEF obVars, ObInv, Moves
<1>2. ASSUME NEW c \in Radio, ComplL3(c) \/ RadioSends(c) \/ RadioLost(c) PROVE ObInv' /\ Moves(ob, ob')
  BY <1>2, ComplL3Step, RadioSendsStep, RadioLostStep
<1>3. ASSUME NEW s \in Sccps, CcTimeout(s) \/ MscReleases(s) \/ \E ok \in BOOLEAN : MscConfirms(s, ok)
      PROVE  ObInv' /\ Moves(ob, ob')
  BY <1>3, CcTimeoutStep, MscReleasesStep, MscConfirmsStep
<1>4. ASSUME NEW s \in Sccps, NEW t \in {"CLEAR_CMD", "CIPHER_MODE_CMD", "ASSIGMENT_RQST", "DTAP"}, NEW ok \in BOOLEAN,
             MscSends(s, t, ok)
      PROVE  ObInv' /\ Moves(ob, ob')
  BY <1>4, MscSendsStep
<1>5. CASE IdAck \/ Pong \/ PingTimeout \/ GoesSilent  BY <1>5, LinkSteps
<1>6. CASE PongTimeout \/ LinkLost \/ ConTimeout  BY <1>6, LossSteps
<1>7. CASE MscReads  BY <1>7, MscReadsStep
<1>8. CASE ConnectEnds  BY <1>8, ConnectEndsStep
<1>9. CASE Reconnect  BY <1>9, ReconnectStep
<1>10. CASE \/ \E cmd \in {"D_OFF", "ON", "OFF"} : RfCommand(cmd)
            \/ \E locked \in BOOLEAN : CtrlLock(locked)
            \/ RfDelayed \/ GraceTimeout \/ RfCheck \/ OmlChanges
  BY <1>10, RfSteps
<1> QED  BY <1>1, <1>2, <1>3, <1>4, <1>5, <1>6, <1>7, <1>8, <1>9, <1>10 DEF ObNext

\* Moves is a step of FifoLink under the refinement mapping, or leaves its variables alone.
LEMMA MovesLink ==
  ASSUME Moves(ob, ob') PROVE [Link!FlNext]_Link!flVars
<1> DEFINE chan == [s \in Sccps |-> Numbers(ob.wire, s) \cup Numbers(ob.sccp[s].q, s)]
<1>1. chan = Chan(ob) /\ chan' = Chan(ob')  BY DEF Chan
<1>2. CASE chan' = chan /\ ob'.got = ob.got  BY <1>2 DEF Link!flVars
<1>3. CASE chan' = [s \in Sccps |-> {}] /\ ob'.got = ob.got
  BY <1>3 DEF Link!FlNext, Link!Break
<1> HIDE DEF chan
<1>4. ASSUME NEW s \in Sccps, NEW first \in {{1}, {}},
             chan[s] = {} /\ chan' = [chan EXCEPT ![s] = first] /\ ob'.got = [ob.got EXCEPT ![s] = 0]
      PROVE  Link!Open(s)
  BY <1>4 DEF Link!Open, chan
<1>5. ASSUME NEW s \in Sccps, NEW m \in 1..ObMaxMsg, m > ob.got[s], \A x \in chan[s] : m > x,
             chan' = [chan EXCEPT ![s] = @ \cup {m}], ob'.got = ob.got
      PROVE  Link!Put(s)
  BY <1>5 DEF Link!Put, chan
<1>6. ASSUME NEW s \in Sccps, NEW m \in chan[s], \A x \in chan[s] : m <= x,
             chan' = [chan EXCEPT ![s] = @ \ {m}], ob'.got = [ob.got EXCEPT ![s] = m]
      PROVE  Link!Get(s)
  BY <1>6 DEF Link!Get, chan
<1>7. ASSUME NEW s \in Sccps, NEW kept \in SUBSET chan[s], \A x \in kept, y \in chan[s] \ kept : x < y,
             chan' = [chan EXCEPT ![s] = kept], ob'.got = ob.got
      PROVE  Link!Die(s)
  BY <1>7 DEF Link!Die, chan
<1>8. \/ chan' = chan /\ ob'.got = ob.got
      \/ chan' = [s \in Sccps |-> {}] /\ ob'.got = ob.got
      \/ \E s \in Sccps : Link!Open(s) \/ Link!Put(s) \/ Link!Get(s) \/ Link!Die(s)
  <2>1. CASE \E s \in Sccps : /\ chan[s] = {} /\ (\E first \in {{1}, {}} : chan' = [chan EXCEPT ![s] = first])
                             /\ ob'.got = [ob.got EXCEPT ![s] = 0]
    <3>1. PICK s \in Sccps : /\ chan[s] = {} /\ (\E first \in {{1}, {}} : chan' = [chan EXCEPT ![s] = first])
                             /\ ob'.got = [ob.got EXCEPT ![s] = 0]
      BY <2>1
    <3>2. PICK first \in {{1}, {}} : chan' = [chan EXCEPT ![s] = first]  BY <3>1
    <3>3. Link!Open(s)  BY <1>4, <3>1, <3>2
    <3> QED  BY <3>3
  <2>2. CASE \E s \in Sccps, m \in 1..ObMaxMsg :
               /\ m > ob.got[s] /\ \A x \in chan[s] : m > x
               /\ chan' = [chan EXCEPT ![s] = @ \cup {m}] /\ ob'.got = ob.got
    <3>1. PICK s \in Sccps, m \in 1..ObMaxMsg :
               /\ m > ob.got[s] /\ \A x \in chan[s] : m > x
               /\ chan' = [chan EXCEPT ![s] = @ \cup {m}] /\ ob'.got = ob.got
      BY <2>2
    <3>2. Link!Put(s)  BY <1>5, <3>1
    <3> QED  BY <3>2
  <2>3. CASE \E s \in Sccps : \E m \in chan[s] :
               /\ \A x \in chan[s] : m <= x
               /\ chan' = [chan EXCEPT ![s] = @ \ {m}] /\ ob'.got = [ob.got EXCEPT ![s] = m]
    <3>1. PICK s \in Sccps : \E m \in chan[s] :
               /\ \A x \in chan[s] : m <= x
               /\ chan' = [chan EXCEPT ![s] = @ \ {m}] /\ ob'.got = [ob.got EXCEPT ![s] = m]
      BY <2>3
    <3>2. PICK m \in chan[s] :
               /\ \A x \in chan[s] : m <= x
               /\ chan' = [chan EXCEPT ![s] = @ \ {m}] /\ ob'.got = [ob.got EXCEPT ![s] = m]
      BY <3>1
    <3>3. Link!Get(s)  BY <1>6, <3>2
    <3> QED  BY <3>3
  <2>4. CASE \E s \in Sccps : \E kept \in SUBSET chan[s] :
               /\ \A x \in kept, y \in chan[s] \ kept : x < y
               /\ chan' = [chan EXCEPT ![s] = kept] /\ ob'.got = ob.got
    <3>1. PICK s \in Sccps : \E kept \in SUBSET chan[s] :
               /\ \A x \in kept, y \in chan[s] \ kept : x < y
               /\ chan' = [chan EXCEPT ![s] = kept] /\ ob'.got = ob.got
      BY <2>4
    <3>2. PICK kept \in SUBSET chan[s] :
               /\ \A x \in kept, y \in chan[s] \ kept : x < y
               /\ chan' = [chan EXCEPT ![s] = kept] /\ ob'.got = ob.got
      BY <3>1
    <3>3. Link!Die(s)  BY <1>7, <3>2
    <3> QED  BY <3>3
  <2> QED  BY <1>1, <2>1, <2>2, <2>3, <2>4 DEF Moves
<1> QED  BY <1>2, <1>3, <1>8 DEF Link!FlNext

\* The inductive invariant: types, the pairing of radio and SCCP connections, the order of the
\* numbers on the wire and in the queues, the numbers kept for the last messages, the link and the transmitters.
THEOREM ObInvariant == ObSpec => []ObInv
<1>1. ObInit => ObInv  BY ObInitFine
<1>2. ObInv /\ [ObNext]_obVars => ObInv'  BY ObNextFine
<1> QED  BY <1>1, <1>2, PTL DEF ObSpec

\* LossFreesAll for every number of connections and bound: bsc_close_connections misses nobody,
\* and a link that is down is being brought back unless socket() failed.
THEOREM LossFreesAllHolds == ObSpec => []LossFreesAll
<1>1. ObInv => LossFreesAll
  BY DEF ObInv, FineState, Good, Mutual, Linked, LossFreesAll, ObHas
<1> QED  BY <1>1, ObInvariant, PTL

\* RfFollows for every sequence of commands: rf_delay_cmd_cb stops the timers of the older command.
THEOREM RfFollowsHolds == ObSpec => []RfFollows
<1>1. ObInv => RfFollows
  <2> SUFFICES ASSUME ObInv PROVE RfFollows  OBVIOUS
  <2>1. RfFine(ob.rf) /\ ob.rf.req \in {"D_OFF", "ON", "OFF"}  BY DEF ObInv, FineState, Good, ObState, ObRf
  <2> QED  BY <2>1 DEF RfFine, RfFollows
<1> QED  BY <1>1, ObInvariant, PTL

\* osmo-bsc implements FifoLink: whatever is queued, confirmed, timed out or lost, the messages of
\* an SCCP connection reach the MSC in order, none twice, and none after one that was lost.
THEOREM InOrderToMscHolds == ObSpec => InOrderToMsc
<1>1. ObInit => Link!FlInit  BY ObInitFine
<1>2. ObInv /\ [ObNext]_obVars => [Link!FlNext]_Link!flVars  BY ObNextFine, MovesLink
<1> QED  BY <1>1, <1>2, ObInvariant, PTL DEF ObSpec, InOrderToMsc, Link!FlSpec
=============================================================================
