------------------------------ MODULE GprsProofs ------------------------------
(***************************************************************************)
(* The packet side, for every size, number of expirations and surrounding. *)
(*                                                                         *)
(* Sgsn: an IMSI has one MM context, a procedure that waits for the MS is  *)
(* watched by a timer, and the MS is told that its PDP context is active   *)
(* only when the GGSN has confirmed it.  None of the three is inductive.   *)
(* SgInv adds that the list holds the contexts in use, each once; that no  *)
(* context is found by the P-TMSI of another (Apart), so that a message    *)
(* reaches the context of its sender; which timer runs in which state      *)
(* (Timed); that an MS which has been accepted is not found at a context   *)
(* still in the common procedure (MsFine), whose timer its answers would   *)
(* stop; and that the GGSN has confirmed a PDP context with a transaction  *)
(* identifier or has still to answer (PdpsFine).                           *)
(*                                                                         *)
(* Llc: no new frame is dropped before the numbers begin again, nor ever   *)
(* if none is lost; and what is handed up is an N-PDU the MS sent.         *)
(* Neither says enough about the frames under way.  LlInv adds how V(UR)   *)
(* follows the frames taken (InStep), the order of the frames (Ordered),   *)
(* what the reassembly queue holds (Whole), and that the first segment of  *)
(* an N-PDU comes before the others or has been taken just before (Led).   *)
(*                                                                         *)
(* Gb: what the SGSN sends reaches the BSS it is meant for, and proxy and  *)
(* SGSN agree on which BVCs are blocked.  That nothing strays needs the    *)
(* peers in their places and, of the messages under way, that data comes   *)
(* only for BVCs the proxy knows (Known, Placed).  The agreement when      *)
(* nothing is under way needs what holds while something is: the last      *)
(* acknowledgement on its way says what the SGSN thinks (Told), and no     *)
(* RESET on its way unblocks a BVC silently (ResetsFree).                  *)
(***************************************************************************)
EXTENDS Sgsn, Llc, Gb, SequenceTheorems, FiniteSetTheorems, TLAPS

-----------------------------------------------------------------------------
(* Sgsn: the invariant *)

SgFields == {"ctx", "list", "llme", "pdp", "ms", "by", "out", "bad", "full"}
SgShape(S) == S = [n \in SgFields |-> S[n]]
CtxFields == {"used", "imsi", "imei", "state", "ptmsi", "old", "ra", "tlli", "new", "llme", "timer", "mode", "id"}
TimerShape(t) == t = [n \in {"on", "T", "n"} |-> t[n]] /\ t.n \in Nat
CtxShape(x) == x = [n \in CtxFields |-> x[n]] /\ TimerShape(x.timer)
PdpFields == {"used", "mm", "lib", "v1", "ti", "up", "creating", "dels", "timer"}
PdpShape(x) == x = [n \in PdpFields |-> x[n]]
MsShape(m) == m = [n \in {"st", "ptmsi", "ra", "was", "tlli", "pdp", "owes"} |-> m[n]]

\* A P-TMSI the context is found by.
Of(x, p) == x.tlli.kind \in {"local", "foreign"} /\ x.tlli.p = p
Named(x, p) == p \in {x.ptmsi, x.old} \/ Of(x, p)
Common(x) == x.used /\ x.state = "COMMON_PROC_INIT"

\* The list holds the contexts in use, each once.
Listed(C, L) ==
    /\ L \in Seq(1..NumCtx) /\ \A i \in DOMAIN L : C[L[i]].used
    /\ \A c \in 1..NumCtx : C[c].used => \E i \in DOMAIN L : L[i] = c
    /\ \A i, j \in DOMAIN L : L[i] = L[j] => i = j
OneImsi(C) == \A c, d \in 1..NumCtx : C[c].used /\ C[c].imsi /\ C[d].used /\ C[d].imsi => c = d
\* Nobody is found by the P-TMSI of another.
Apart(C) == \A c, d \in 1..NumCtx : c # d /\ C[c].used /\ C[d].used => ~Named(C[c], C[d].ptmsi)
Own(x) == x.ptmsi \in Ptmsis /\ x.new = Local(x.ptmsi)
\* T3370 runs in the common procedure and only there.
Timed(x) ==
    /\ x.mode \in {"ATT", "RAU"} /\ (x.timer.on => x.timer.T \in {3350, 3370})
    /\ x.state = "COMMON_PROC_INIT" <=> x.timer.on /\ x.timer.T = 3370
    /\ x.state = "COMMON_PROC_INIT" => x.id \in {"IMSI", "IMEI"}
CtxShapes(C) == C = [c \in 1..NumCtx |-> C[c]] /\ \A c \in 1..NumCtx : CtxShape(C[c])
CtxsFine(C, L) ==
    /\ CtxShapes(C) /\ Listed(C, L) /\ OneImsi(C) /\ Apart(C)
    /\ \A c \in 1..NumCtx : C[c].used => Own(C[c]) /\ Timed(C[c])

\* An MS that has been accepted is not found at a context still in the common procedure.
Registered(m) == m.st \in {"on", "updating", "detaching"}
MsFine(m, C) ==
    /\ MsShape(m) /\ m.st \in {"off", "attaching", "on", "updating", "detaching"}
    /\ m.st = "off" => m.owes = {}
    /\ m.st = "attaching" => /\ m.tlli.kind \in {"foreign", "random"}
                             /\ m.tlli.kind = "foreign" => m.tlli.p = m.ptmsi
                             /\ "ATT_COMPL" \notin m.owes /\ "RAU_COMPL" \notin m.owes
    /\ Registered(m) => /\ m.tlli \in {Local(m.ptmsi), Foreign(m.ptmsi)}
                        /\ "IMSI" \notin m.owes /\ "IMEI" \notin m.owes
                        /\ \A c \in 1..NumCtx : Common(C[c]) => ~Named(C[c], m.ptmsi)

\* The GGSN has confirmed a PDP context, or has still to answer.
PdpsFine(P) ==
    /\ P = [p \in 1..NumCtx |-> P[p]]
    /\ \A p \in 1..NumCtx : PdpShape(P[p]) /\ (P[p].used /\ P[p].ti => P[p].up \/ P[p].creating)

SgFine(S) == SgShape(S) /\ CtxsFine(S.ctx, S.list) /\ MsFine(S.ms, S.ctx) /\ PdpsFine(S.pdp)
SgInv == SgFine(sg)

-----------------------------------------------------------------------------
(* Sgsn: what the operations leave alone *)

\* Only entities of LLC have changed, and what is noted of the step.
Keeps(S, T) ==
    /\ SgShape(T) /\ T.ctx = S.ctx /\ T.list = S.list /\ T.pdp = S.pdp /\ T.ms = S.ms
    /\ T.by = S.by /\ T.out = S.out
\* A message has been sent, of the context by.
Says(S, T, by, msg) ==
    /\ SgShape(T) /\ T.ctx = S.ctx /\ T.list = S.list /\ T.pdp = S.pdp /\ T.ms = S.ms
    /\ T.by = by /\ T.out = S.out \cup {msg}

LEMMA CollectKeeps == ASSUME NEW S, SgShape(S) PROVE Keeps(S, Collect(S))
  BY DEF SgShape, SgFields, Keeps, Collect

LEMMA LlmeAllocKeeps == ASSUME NEW S, SgShape(S), NEW t PROVE Keeps(S, llme_alloc(S, t))
  <1>1. PICK x : x = [NoLlme EXCEPT !.used = TRUE, !.tlli = t]  OBVIOUS
  <1>2. ASSUME NEW l PROVE Keeps(S, [S EXCEPT !.llme[l] = x])
    BY DEF SgShape, SgFields, Keeps
  <1>3. Keeps(S, [S EXCEPT !.full = TRUE])
    BY DEF SgShape, SgFields, Keeps
  <1> QED
    BY <1>1, <1>2, <1>3 DEF llme_alloc

LEMMA AssignKeeps == ASSUME NEW S, SgShape(S), NEW l, NEW old, NEW new
                     PROVE  Keeps(S, gprs_llgmm_assign(S, l, old, new))
  <1>1. Keeps(S, [S EXCEPT !.bad = TRUE]) /\ Keeps(S, S)
    BY DEF SgShape, SgFields, Keeps
  <1>2. \A x : Keeps(S, [S EXCEPT !.llme = x])
    BY DEF SgShape, SgFields, Keeps
  <1>3. Keeps(S, [S EXCEPT !.llme[l].old = None, !.llme[l].tlli = new])
    BY DEF SgShape, SgFields, Keeps
  <1>4. Keeps(S, [S EXCEPT !.llme[l].old = S.llme[l].tlli, !.llme[l].tlli = new])
    BY DEF SgShape, SgFields, Keeps
  <1>5. Keeps(S, [S EXCEPT !.llme[l] = NoLlme])
    BY DEF SgShape, SgFields, Keeps
  <1> QED
    BY <1>1, <1>3, <1>4, <1>5 DEF gprs_llgmm_assign

LEMMA ResetKeeps == ASSUME NEW S, SgShape(S), NEW l PROVE Keeps(S, gprs_llgmm_reset_state(S, l))
  BY DEF SgShape, SgFields, Keeps, gprs_llgmm_reset_state

LEMMA KeepsAll ==
  ASSUME NEW S, NEW T, NEW U, Keeps(S, T), Keeps(T, U)
  PROVE  Keeps(S, U)
  BY DEF Keeps

LEMMA TxUiSays == ASSUME NEW S, SgShape(S), NEW t, NEW msg PROVE Says(S, TxUi(S, t, msg), S.by, msg)
  <1>1. PICK T : T = [S EXCEPT !.out = @ \cup {msg}]  OBVIOUS
  <1>2. Says(S, T, S.by, msg)
    BY <1>1 DEF SgShape, SgFields, Says
  <1>3. Keeps(T, Collect(llme_alloc(T, t)))
    <2>1. SgShape(T)  BY <1>2 DEF Says
    <2>2. Keeps(T, llme_alloc(T, t))  BY <2>1, LlmeAllocKeeps
    <2>3. Keeps(llme_alloc(T, t), Collect(llme_alloc(T, t)))  BY <2>2, CollectKeeps DEF Keeps
    <2> QED  BY <2>2, <2>3, KeepsAll
  <1> QED
    BY <1>1, <1>2, <1>3 DEF TxUi, Says, Keeps

LEMMA SendSays == ASSUME NEW S, SgShape(S), NEW c, NEW msg PROVE Says(S, gsm48_gmm_sendmsg(S, c, msg), c, msg)
  <1>1. PICK T : T = [S EXCEPT !.by = c]  OBVIOUS
  <1>2. SgShape(T) /\ T.ctx = S.ctx /\ T.list = S.list /\ T.pdp = S.pdp /\ T.ms = S.ms /\ T.by = c /\ T.out = S.out
    BY <1>1 DEF SgShape, SgFields
  <1>3. Says(T, TxUi(T, S.ctx[c].tlli, msg), c, msg)
    BY <1>2, TxUiSays
  <1> QED
    BY <1>1, <1>2, <1>3 DEF gsm48_gmm_sendmsg, Says

-----------------------------------------------------------------------------
(* PDP contexts *)

\* Only PDP contexts have changed, and what is noted of the step.
PdpMoves(S, T) ==
    /\ SgShape(T) /\ T.ctx = S.ctx /\ T.list = S.list /\ T.ms = S.ms
    /\ T.by = S.by /\ T.out = S.out /\ PdpsFine(T.pdp)
PdpGood(S) == SgShape(S) /\ PdpsFine(S.pdp)

\* The PDP contexts are good, p perhaps not yet.
PdpsBut(P, p) ==
    /\ P = [k \in 1..NumCtx |-> P[k]]
    /\ \A k \in 1..NumCtx : PdpShape(P[k]) /\ (k # p /\ P[k].used /\ P[k].ti => P[k].up \/ P[k].creating)

\* A PDP context has taken another value.
PutPdp(S, p, x) == [S EXCEPT !.pdp[p] = x]

LEMMA PdpPut ==
  ASSUME NEW S, SgShape(S), NEW p \in 1..NumCtx, PdpsBut(S.pdp, p), NEW x, PdpShape(x),
         NEW T, T = PutPdp(S, p, x)
  PROVE  /\ SgShape(T) /\ T.ctx = S.ctx /\ T.list = S.list /\ T.ms = S.ms /\ T.by = S.by /\ T.out = S.out
         /\ T.pdp[p] = x /\ PdpsBut(T.pdp, p)
         /\ (x.used /\ x.ti => x.up \/ x.creating) => PdpMoves(S, T)
  <1>1. SgShape(T) /\ T.ctx = S.ctx /\ T.list = S.list /\ T.ms = S.ms /\ T.by = S.by /\ T.out = S.out
        /\ T.pdp = [S.pdp EXCEPT ![p] = x]
    BY DEF SgShape, SgFields, PutPdp
  <1>2. PICK P : P = S.pdp  OBVIOUS
  <1>3. PICK Q : Q = [P EXCEPT ![p] = x]  OBVIOUS
  <1>4. Q[p] = x /\ PdpsBut(Q, p) /\ ((x.used /\ x.ti => x.up \/ x.creating) => PdpsFine(Q))
    <2>1. PdpsBut(P, p)  BY <1>2
    <2> HIDE <1>2
    <2>2. /\ Q = [k \in 1..NumCtx |-> Q[k]]
          /\ \A k \in 1..NumCtx : Q[k] = IF k = p THEN x ELSE P[k]
      BY <2>1, <1>3 DEF PdpsBut
    <2> HIDE <1>3
    <2> QED  BY <2>1, <2>2 DEF PdpsBut, PdpsFine
  <1> QED
    BY <1>1, <1>2, <1>3, <1>4 DEF PdpMoves

LEMMA PdpSet ==
  ASSUME NEW S, PdpGood(S), NEW p \in 1..NumCtx, NEW x, PdpShape(x), x.used /\ x.ti => x.up \/ x.creating,
         NEW T, T = PutPdp(S, p, x)
  PROVE  PdpMoves(S, T) /\ T.pdp[p] = x
  <1>1. SgShape(S) /\ PdpsBut(S.pdp, p)
    BY DEF PdpGood, PdpsFine, PdpsBut
  <1> QED
    BY <1>1, PdpPut

LEMMA PdpAt ==
  ASSUME NEW S, PdpGood(S), NEW p \in 1..NumCtx
  PROVE  PdpShape(S.pdp[p]) /\ (S.pdp[p].used /\ S.pdp[p].ti => S.pdp[p].up \/ S.pdp[p].creating)
  BY DEF PdpGood, PdpsFine

LEMMA PdpFreeMoves ==
  ASSUME NEW S, PdpGood(S), NEW p \in 1..NumCtx
  PROVE  PdpMoves(S, sgsn_pdp_ctx_free(S, p))
  <1>1. PICK x : x = [NoPdp EXCEPT !.creating = S.pdp[p].creating, !.dels = S.pdp[p].dels, !.timer = S.pdp[p].timer]
    OBVIOUS
  <1>2. PdpShape(x) /\ ~x.used
    BY <1>1 DEF NoPdp, PdpShape, PdpFields
  <1>3. sgsn_pdp_ctx_free(S, p) = PutPdp(S, p, x)
    BY <1>1 DEF sgsn_pdp_ctx_free, PutPdp
  <1> QED
    BY <1>2, <1>3, PdpSet

LEMMA DeleteMoves ==
  ASSUME NEW S, PdpGood(S), NEW p \in 1..NumCtx
  PROVE  PdpMoves(S, sgsn_delete_pdp_ctx(S, p))
  <1>1. PICK y : y = S.pdp[p]  OBVIOUS
  <1>2. PICK x : x = [y EXCEPT !.dels = @ + 1]  OBVIOUS
  <1>3. PdpShape(y) /\ (y.used /\ y.ti => y.up \/ y.creating)
    BY <1>1, PdpAt
  <1>4. PdpShape(x) /\ (x.used /\ x.ti => x.up \/ x.creating)
    BY <1>2, <1>3 DEF PdpShape, PdpFields
  <1>5. PICK U : U = PutPdp(S, p, x)  OBVIOUS
  <1>6. PdpMoves(S, U)
    BY <1>4, <1>5, PdpSet
  <1>7. sgsn_delete_pdp_ctx(S, p) = [U EXCEPT !.bad = @ \/ ~S.pdp[p].lib]
    BY <1>1, <1>2, <1>5 DEF sgsn_delete_pdp_ctx, PdpGood, SgShape, SgFields, PutPdp
  <1> HIDE <1>1, <1>2, <1>5
  <1>8. \A b : PdpMoves(S, [U EXCEPT !.bad = b])
    BY <1>6 DEF PdpMoves, SgShape, SgFields
  <1> QED
    BY <1>7, <1>8

LEMMA DeleteAllMoves ==
  ASSUME NEW S, PdpGood(S), NEW c
  PROVE  PdpMoves(S, DeleteAll(S, c))
  <1>1. PdpMoves(S, S)  BY DEF PdpMoves, PdpGood
  <1>2. PdpsOf(S, c) # {} => (CHOOSE p \in PdpsOf(S, c) : TRUE) \in 1..NumCtx
    BY DEF PdpsOf
  <1> QED
    BY <1>1, <1>2, DeleteMoves DEF DeleteAll

LEMMA PdpTimerSet ==
  ASSUME NEW S, PdpGood(S), NEW p \in 1..NumCtx, NEW t
  PROVE  PdpMoves(S, [S EXCEPT !.pdp[p].timer = t])
  <1>1. PICK y : y = S.pdp[p]  OBVIOUS
  <1>2. PICK x : x = [y EXCEPT !.timer = t]  OBVIOUS
  <1>3. PdpShape(y) /\ (y.used /\ y.ti => y.up \/ y.creating)
    BY <1>1, PdpAt
  <1>4. PdpShape(x) /\ (x.used /\ x.ti => x.up \/ x.creating)
    BY <1>2, <1>3 DEF PdpShape, PdpFields
  <1>5. [S EXCEPT !.pdp[p].timer = t] = PutPdp(S, p, x)
    BY <1>1, <1>2 DEF PutPdp
  <1> QED
    BY <1>4, <1>5, PdpSet

LEMMA PdpTimerStartMoves ==
  ASSUME NEW S, PdpGood(S), NEW p \in 1..NumCtx
  PROVE  PdpMoves(S, pdpctx_timer_start(S, p))
  BY PdpTimerSet DEF pdpctx_timer_start

\* Nothing but the PDP contexts and the messages changes in what the GGSN is behind.
PdpSays(S, T) ==
    /\ SgShape(T) /\ T.ctx = S.ctx /\ T.list = S.list /\ T.ms = S.ms /\ PdpsFine(T.pdp)

LEMMA SaysGood ==
  ASSUME NEW S, NEW T, NEW by, NEW msg, PdpGood(S), Says(S, T, by, msg)
  PROVE  PdpGood(T)
  BY DEF Says, PdpGood

LEMMA MovesGood ==
  ASSUME NEW S, NEW T, PdpMoves(S, T)
  PROVE  PdpGood(T)
  BY DEF PdpMoves, PdpGood

-----------------------------------------------------------------------------
(* The MS *)

\* Who accepts the MS has left the common procedure, and who asks it for an identity is in it.
Speaks(S) ==
    /\ S.out \cap {"ATT_ACK", "RAU_ACK"} # {} =>
          S.by \in 1..NumCtx /\ S.ctx[S.by].used /\ S.ctx[S.by].state # "COMMON_PROC_INIT"
    /\ "ID_REQ" \in S.out => S.by \in 1..NumCtx /\ Common(S.ctx[S.by])

LEMMA HearsIdReqFine ==
  ASSUME NEW S, NEW m, MsFine(m, S.ctx), CtxsFine(S.ctx, S.list), Speaks(S),
         S.by # 0 => Listens(m, S.ctx[S.by])
  PROVE  MsFine(HearsIdReq(S, m), S.ctx)
  <1>1. CASE ~("ID_REQ" \in S.out /\ m.st # "off")
    BY <1>1 DEF HearsIdReq
  <1>2. CASE "ID_REQ" \in S.out /\ m.st # "off"
    <2>1. PICK x : x = S.ctx[S.by]  OBVIOUS
    <2>2. Common(x) /\ Listens(m, x) /\ Own(x) /\ x.id \in {"IMSI", "IMEI"} /\ S.by \in 1..NumCtx
      BY <1>2, <2>1, SgBounds DEF Speaks, CtxsFine, Common, Timed
    <2>3. ~Registered(m)
      <3> SUFFICES ASSUME Registered(m) PROVE FALSE  OBVIOUS
      <3>1. m.tlli \in {Local(m.ptmsi), Foreign(m.ptmsi)} /\ ~Named(x, m.ptmsi)
        BY <2>1, <2>2 DEF MsFine
      <3>2. m.tlli = x.tlli => Of(x, m.ptmsi)
        BY <3>1 DEF Of, Local, Foreign
      <3>3. m.tlli = x.new => m.ptmsi = x.ptmsi
        BY <3>1, <2>2 DEF Own, Local, Foreign
      <3> QED
        BY <2>2, <3>1, <3>2, <3>3 DEF Listens, Named
    <2>4. m.st = "attaching"
      BY <1>2, <2>3 DEF MsFine, Registered
    <2>5. PICK n : n = [m EXCEPT !.owes = @ \cup {x.id}]  OBVIOUS
    <2>6. MsShape(n) /\ n.st = "attaching" /\ n.tlli = m.tlli /\ n.ptmsi = m.ptmsi /\ n.owes = m.owes \cup {x.id}
      BY <2>4, <2>5 DEF MsFine, MsShape
    <2>7. HearsIdReq(S, m) = n
      BY <1>2, <2>1, <2>5 DEF HearsIdReq
    <2> QED
      BY <2>2, <2>4, <2>6, <2>7 DEF MsFine, Registered
  <1> QED
    BY <1>1, <1>2

LEMMA AcceptedFine ==
  ASSUME NEW C, NEW L, CtxsFine(C, L), NEW m, MsShape(m), NEW c \in 1..NumCtx, C[c].used,
         C[c].state # "COMMON_PROC_INIT", NEW owes, "IMSI" \notin owes, "IMEI" \notin owes
  PROVE  MsFine(Accepted(m, C[c], owes), C)
  <1>1. PICK n : n = Accepted(m, C[c], owes)  OBVIOUS
  <1>2. MsShape(n) /\ n.st = "on" /\ n.ptmsi = C[c].ptmsi /\ n.tlli = Local(C[c].ptmsi) /\ n.owes = owes
    BY <1>1 DEF Accepted, MsShape
  <1>3. ASSUME NEW d \in 1..NumCtx, Common(C[d]) PROVE ~Named(C[d], n.ptmsi)
    BY <1>2, <1>3 DEF CtxsFine, Apart, Common
  <1> QED
    BY <1>1, <1>2, <1>3 DEF MsFine, Registered

LEMMA HearsAttAckFine ==
  ASSUME NEW S, NEW m, MsFine(m, S.ctx), CtxsFine(S.ctx, S.list), Speaks(S)
  PROVE  MsFine(HearsAttAck(S, m), S.ctx)
  <1>1. CASE ~("ATT_ACK" \in S.out /\ m.st \in {"attaching", "on"})
    BY <1>1 DEF HearsAttAck
  <1>2. CASE "ATT_ACK" \in S.out /\ m.st \in {"attaching", "on"}
    <2>1. S.by \in 1..NumCtx /\ S.ctx[S.by].used /\ S.ctx[S.by].state # "COMMON_PROC_INIT"
      BY <1>2 DEF Speaks
    <2>2. PICK o : o = {"ATT_COMPL"} \cup (m.owes \cap {"DEACT_ACK"})  OBVIOUS
    <2>3. "IMSI" \notin o /\ "IMEI" \notin o
      BY <2>2
    <2>4. MsShape(m)
      BY DEF MsFine
    <2>5. MsFine(Accepted(m, S.ctx[S.by], o), S.ctx)
      BY <2>1, <2>3, <2>4, AcceptedFine
    <2> QED
      BY <1>2, <2>2, <2>5 DEF HearsAttAck
  <1> QED
    BY <1>1, <1>2

LEMMA HearsRaUpdAckFine ==
  ASSUME NEW S, NEW m, MsFine(m, S.ctx), CtxsFine(S.ctx, S.list), Speaks(S)
  PROVE  MsFine(HearsRaUpdAck(S, m), S.ctx)
  <1>1. CASE ~("RAU_ACK" \in S.out /\ m.st \in {"on", "updating"})
    BY <1>1 DEF HearsRaUpdAck
  <1>2. CASE "RAU_ACK" \in S.out /\ m.st \in {"on", "updating"}
    <2>1. S.by \in 1..NumCtx /\ S.ctx[S.by].used /\ S.ctx[S.by].state # "COMMON_PROC_INIT"
      BY <1>2 DEF Speaks
    <2>2. PICK o : o = (m.owes \ {"ATT_COMPL"}) \cup {"RAU_COMPL"}  OBVIOUS
    <2>3. "IMSI" \notin o /\ "IMEI" \notin o
      BY <1>2, <2>2 DEF MsFine, Registered
    <2>4. MsShape(m)
      BY DEF MsFine
    <2>5. MsFine(Accepted(m, S.ctx[S.by], o), S.ctx)
      BY <2>1, <2>3, <2>4, AcceptedFine
    <2> QED
      BY <1>2, <2>2, <2>5 DEF HearsRaUpdAck
  <1> QED
    BY <1>1, <1>2

\* What MsFine says nothing of may change.
LEMMA MsPdp ==
  ASSUME NEW C, NEW m, MsFine(m, C), NEW x
  PROVE  /\ MsFine([m EXCEPT !.pdp = x], C)
         /\ m.st = "on" => MsFine([m EXCEPT !.pdp = x, !.owes = @ \cup {"DEACT_ACK"}], C)
         /\ MsFine([m EXCEPT !.st = "off", !.owes = {}, !.pdp = x], C)
  <1>1. PICK n : n = [m EXCEPT !.pdp = x]  OBVIOUS
  <1>2. MsShape(n) /\ n.st = m.st /\ n.tlli = m.tlli /\ n.ptmsi = m.ptmsi /\ n.owes = m.owes
    BY <1>1 DEF MsFine, MsShape
  <1>3. MsFine(n, C)
    BY <1>2 DEF MsFine, Registered
  <1>4. PICK k : k = [m EXCEPT !.pdp = x, !.owes = @ \cup {"DEACT_ACK"}]  OBVIOUS
  <1>5. MsShape(k) /\ k.st = m.st /\ k.tlli = m.tlli /\ k.ptmsi = m.ptmsi /\ k.owes = m.owes \cup {"DEACT_ACK"}
    BY <1>4 DEF MsFine, MsShape
  <1>6. m.st = "on" => MsFine(k, C)
    BY <1>5 DEF MsFine, Registered
  <1>7. PICK l : l = [m EXCEPT !.st = "off", !.owes = {}, !.pdp = x]  OBVIOUS
  <1>8. MsShape(l) /\ l.st = "off" /\ l.owes = {}
    BY <1>7 DEF MsFine, MsShape
  <1>9. MsFine(l, C)
    BY <1>8 DEF MsFine, Registered
  <1> QED
    BY <1>1, <1>3, <1>4, <1>6, <1>7, <1>9

LEMMA HearsSmFine ==
  ASSUME NEW S, NEW m, NEW C, MsFine(m, C)
  PROVE  MsFine(HearsSm(S, m), C)
  BY MsPdp DEF HearsSm

LEMMA HearsEndFine ==
  ASSUME NEW S, NEW m, NEW C, MsFine(m, C)
  PROVE  MsFine(HearsEnd(S, m), C)
  BY MsPdp DEF HearsEnd

LEMMA MsHearsFine ==
  ASSUME NEW S, SgFine(S), Speaks(S), NEW T, T = MsHears(S)
  PROVE  SgFine(T) /\ T.ctx = S.ctx /\ T.list = S.list /\ T.pdp = S.pdp /\ T.out = S.out
  <1>1. CASE S.by # 0 /\ ~Listens(S.ms, S.ctx[S.by])
    BY <1>1 DEF MsHears
  <1>2. CASE ~(S.by # 0 /\ ~Listens(S.ms, S.ctx[S.by]))
    <2>1. PICK m1 : m1 = HearsIdReq(S, S.ms)  OBVIOUS
    <2>2. MsFine(m1, S.ctx)  BY <1>2, <2>1, HearsIdReqFine DEF SgFine
    <2>3. PICK m2 : m2 = HearsAttAck(S, m1)  OBVIOUS
    <2>4. MsFine(m2, S.ctx)  BY <2>2, <2>3, HearsAttAckFine DEF SgFine
    <2>5. PICK m3 : m3 = HearsRaUpdAck(S, m2)  OBVIOUS
    <2>6. MsFine(m3, S.ctx)  BY <2>4, <2>5, HearsRaUpdAckFine DEF SgFine
    <2>7. PICK m4 : m4 = HearsEnd(S, HearsSm(S, m3))  OBVIOUS
    <2>8. MsFine(m4, S.ctx)  BY <2>6, <2>7, HearsSmFine, HearsEndFine
    <2>9. T = [S EXCEPT !.ms = m4]
      BY <1>2, <2>1, <2>3, <2>5, <2>7 DEF MsHears
    <2>10. SgShape(T) /\ T.ctx = S.ctx /\ T.list = S.list /\ T.pdp = S.pdp /\ T.out = S.out /\ T.ms = m4
      BY <2>9 DEF SgFine, SgShape, SgFields
    <2> QED
      BY <2>8, <2>10 DEF SgFine
  <1> QED
    BY <1>1, <1>2

\* A step from a good state to a good state, whatever the MS hears of it.
LEMMA Becomes ==
  ASSUME NEW S, SgFine(S), Speaks(S), SgBecomes(S)
  PROVE  /\ SgInv' /\ sg'.ctx = S.ctx /\ sg'.pdp = S.pdp /\ sg'.out = S.out \cap {"ACT_ACC"}
         /\ sgEnv' = sgEnv /\ ~S.full
  <1>1. PICK T : T = Collect(S)  OBVIOUS
  <1>2. Keeps(S, T)
    BY <1>1, CollectKeeps DEF SgFine
  <1>3. SgFine(T) /\ Speaks(T)
    BY <1>2 DEF Keeps, SgFine, Speaks
  <1>4. PICK U : U = MsHears(T)  OBVIOUS
  <1>5. SgFine(U) /\ U.ctx = T.ctx /\ U.list = T.list /\ U.pdp = T.pdp /\ U.out = T.out
    BY <1>3, <1>4, MsHearsFine
  <1>6. PICK V \in {T, U} : sg' = [V EXCEPT !.by = 0, !.out = @ \cap {"ACT_ACC"}]
    BY <1>1, <1>4 DEF SgBecomes
  <1>7. SgFine(V) /\ V.ctx = S.ctx /\ V.list = S.list /\ V.pdp = S.pdp /\ V.out = S.out
    BY <1>2, <1>3, <1>5, <1>6 DEF Keeps
  <1>8. /\ SgShape(sg') /\ sg'.ctx = V.ctx /\ sg'.list = V.list /\ sg'.pdp = V.pdp /\ sg'.ms = V.ms
        /\ sg'.out = V.out \cap {"ACT_ACC"}
    BY <1>6, <1>7 DEF SgFine, SgShape, SgFields
  <1> QED
    BY <1>7, <1>8 DEF SgFine, SgInv, SgBecomes

-----------------------------------------------------------------------------
(* Looking for a context *)

\* A set of numbers has a least one.
LEMMA LeastIsIn ==
    ASSUME NEW X \in SUBSET Nat, X # {} PROVE Min(X) \in X /\ \A y \in X : Min(X) <= y
  <1>1. PICK R : R = StrictSubsetOrdering(Nat) /\ IsWellFoundedOn(R, FiniteSubsetsOf(Nat))
    BY FS_StrictSubsetOrderingWellFounded
  <1>2. PICK Y : Y = {0..(x - 1) : x \in X}
    OBVIOUS
  <1>3. Y \subseteq FiniteSubsetsOf(Nat) /\ Y # {}
    <2>1. ASSUME NEW x \in X PROVE 0..(x - 1) \in FiniteSubsetsOf(Nat)
      <3>1. IsFiniteSet(0..(x - 1))
        BY FS_Interval
      <3> QED BY <3>1 DEF FiniteSubsetsOf
    <2> QED BY <1>2, <2>1
  <1>4. PICK a \in Y : \A b \in Y : ~(<<b, a>> \in R)
    BY <1>1, <1>3, WFMin
  <1>5. PICK x \in X : a = 0..(x - 1)
    BY <1>2
  <1>6. \A y \in X : x <= y
    <2> SUFFICES ASSUME NEW y \in X, y < x PROVE FALSE
      OBVIOUS
    <2>1. PICK b : b = 0..(y - 1)
      OBVIOUS
    <2>2. b \in Y /\ b \subseteq Nat /\ a \subseteq Nat /\ b \subseteq a /\ y \in a /\ y \notin b
      BY <1>2, <1>5, <2>1
    <2>3. <<b, a>> \in R
      BY <1>1, <2>2 DEF StrictSubsetOrdering
    <2> QED BY <1>4, <2>2, <2>3
  <1> QED BY <1>6 DEF Min

\* A sequence without its i-th element.
LEMMA RemoveAtElements ==
    ASSUME NEW T, NEW q \in Seq(T), NEW i \in DOMAIN q, NEW r, r = RemoveAt(q, i)
    PROVE  /\ r \in Seq(T) /\ Len(r) = Len(q) - 1
           /\ \A j \in DOMAIN r : r[j] = q[IF j < i THEN j ELSE j + 1]
  <1>1. Len(q) \in Nat /\ i \in 1..Len(q)
    OBVIOUS
  <1>2. PICK a, b : a = SubSeq(q, 1, i - 1) /\ b = SubSeq(q, i + 1, Len(q))
    OBVIOUS
  <1>3. a \in Seq(T) /\ Len(a) = i - 1 /\ \A j \in 1..(i - 1) : a[j] = q[j]
    BY <1>1, <1>2
  <1>4. b \in Seq(T) /\ Len(b) = Len(q) - i /\ \A j \in 1..(Len(q) - i) : b[j] = q[i + j]
    BY <1>1, <1>2
  <1>5. r = a \o b
    BY <1>2 DEF RemoveAt
  <1>6. r \in Seq(T) /\ Len(r) = Len(q) - 1
    BY <1>1, <1>3, <1>4, <1>5
  <1>7. ASSUME NEW j \in 1..(Len(q) - 1)
        PROVE  r[j] = q[IF j < i THEN j ELSE j + 1]
    <2>1. CASE j < i
      BY <1>1, <1>3, <1>4, <1>5, <2>1
    <2>2. CASE ~(j < i)
      <3>1. PICK k \in 1..(Len(q) - i) : k = j - (i - 1)
        BY <1>1, <1>7, <2>2
      <3>2. r[j] = b[k]
        <4>1. (a \o b)[j] = b[j - Len(a)]
          <5>1. a \in Seq(T) /\ b \in Seq(T)
            BY <1>3, <1>4
          <5>2. \A x \in 1..(Len(a) + Len(b)) : (a \o b)[x] = IF x <= Len(a) THEN a[x] ELSE b[x - Len(a)]
            BY <5>1, ConcatProperties
          <5>3. j \in 1..(Len(a) + Len(b)) /\ ~(j <= Len(a))
            BY <1>1, <1>3, <1>4, <2>2
          <5> QED BY <5>2, <5>3
        <4> QED BY <1>3, <1>5, <3>1, <4>1
      <3> QED BY <1>1, <1>4, <2>2, <3>1, <3>2, SMTT(60)
    <2> QED BY <2>1, <2>2
  <1> QED BY <1>6, <1>7

LEMMA SeqElements == ASSUME NEW D, NEW q \in Seq(D) PROVE \A i \in DOMAIN q : q[i] \in D
  OBVIOUS

\* The first of the list, or none.
Foremost(L, F) == IF F = {} THEN 0 ELSE L[Min(F)]
LEMMA FirstOf ==
  ASSUME NEW L \in Seq(1..NumCtx), NEW F \in SUBSET DOMAIN L, NEW c, c = Foremost(L, F)
  PROVE  (c = 0 /\ F = {}) \/ \E i \in F : c = L[i] /\ c \in 1..NumCtx
  <1>1. F \in SUBSET Nat
    OBVIOUS
  <1>2. F # {} => Min(F) \in F
    BY <1>1, LeastIsIn
  <1>3. \A i \in F : L[i] \in 1..NumCtx
    <2>1. \A i \in DOMAIN L : L[i] \in 1..NumCtx  BY SeqElements
    <2>2. \A i \in F : i \in DOMAIN L  OBVIOUS
    <2> QED  BY <2>1, <2>2
  <1>4. (F # {} => c = L[Min(F)]) /\ (F = {} => c = 0)
    BY DEF Foremost
  <1> QED
    BY <1>2, <1>3, <1>4

LEMMA ByImsi ==
  ASSUME NEW S, Listed(S.ctx, S.list), NEW c, c = sgsn_mm_ctx_by_imsi(S)
  PROVE  \/ c = 0 /\ \A d \in 1..NumCtx : S.ctx[d].used => ~S.ctx[d].imsi
         \/ c \in 1..NumCtx /\ S.ctx[c].used /\ S.ctx[c].imsi
  <1>1. PICK L, C : L = S.list /\ C = S.ctx  OBVIOUS
  <1>2. PICK F : F = {i \in DOMAIN L : C[L[i]].imsi}  OBVIOUS
  <1>3. c = Foremost(L, F)
    BY <1>1, <1>2 DEF sgsn_mm_ctx_by_imsi, FirstCtx, Foremost
  <1>4. Listed(C, L)
    BY <1>1
  <1>5. (c = 0 /\ F = {}) \/ \E i \in F : c = L[i] /\ c \in 1..NumCtx
    BY <1>2, <1>3, <1>4, FirstOf DEF Listed
  <1> QED
    BY <1>1, <1>2, <1>4, <1>5 DEF Listed

LEMMA ByPtmsi ==
  ASSUME NEW S, CtxsFine(S.ctx, S.list), NEW p, NEW c, c = sgsn_mm_ctx_by_ptmsi(S, p)
  PROVE  \/ c = 0 /\ \A d \in 1..NumCtx : S.ctx[d].used => S.ctx[d].ptmsi # p
         \/ c \in 1..NumCtx /\ S.ctx[c].used /\ Named(S.ctx[c], p)
  <1>1. PICK L, C : L = S.list /\ C = S.ctx  OBVIOUS
  <1>2. PICK F : F = {i \in DOMAIN L : C[L[i]].ptmsi = p \/ (C[L[i]].old # 0 /\ C[L[i]].old = p)}  OBVIOUS
  <1>3. c = Foremost(L, F)
    BY <1>1, <1>2 DEF sgsn_mm_ctx_by_ptmsi, FirstCtx, Foremost
  <1>4. Listed(C, L)
    BY <1>1 DEF CtxsFine
  <1>5. (c = 0 /\ F = {}) \/ \E i \in F : c = L[i] /\ c \in 1..NumCtx
    BY <1>2, <1>3, <1>4, FirstOf DEF Listed
  <1> QED
    BY <1>1, <1>2, <1>4, <1>5 DEF Listed, Named

LEMMA ByTlli ==
  ASSUME NEW S, CtxsFine(S.ctx, S.list), NEW t, NEW ra, NEW c, c = sgsn_mm_ctx_by_tlli(S, t, ra)
  PROVE  \/ c = 0
         \/ /\ c \in 1..NumCtx /\ S.ctx[c].used
            /\ t.kind \in {"local", "foreign"} => Named(S.ctx[c], t.p)
  <1>1. PICK L, C : L = S.list /\ C = S.ctx  OBVIOUS
  <1>2. Listed(C, L)
    BY <1>1 DEF CtxsFine
  <1>3. PICK X, Y, Z : /\ X = {i \in DOMAIN L : C[L[i]].tlli = t /\ C[L[i]].ra = ra}
                       /\ Y = {i \in DOMAIN L : C[L[i]].ptmsi = t.p \/ (C[L[i]].old # 0 /\ C[L[i]].old = t.p)}
                       /\ Z = {i \in DOMAIN L : C[L[i]].tlli.kind \in {"local", "foreign"}
                                                  /\ C[L[i]].tlli.p = t.p /\ C[L[i]].ra = ra}
    OBVIOUS
  <1>4. PICK x, y, z : /\ x = Foremost(L, X)
                       /\ y = Foremost(L, Y)
                       /\ z = Foremost(L, Z)
    OBVIOUS
  <1>5. c \in {x, y, z, 0}
    BY <1>1, <1>3, <1>4 DEF sgsn_mm_ctx_by_tlli, FirstCtx, Foremost
  <1>6. x = 0 \/ \E i \in X : x = L[i] /\ x \in 1..NumCtx
    <2>1. L \in Seq(1..NumCtx) /\ X \in SUBSET DOMAIN L  BY <1>2, <1>3 DEF Listed
    <2> QED  BY <1>4, <2>1, FirstOf
  <1>7. y = 0 \/ \E i \in Y : y = L[i] /\ y \in 1..NumCtx
    <2>1. L \in Seq(1..NumCtx) /\ Y \in SUBSET DOMAIN L  BY <1>2, <1>3 DEF Listed
    <2> QED  BY <1>4, <2>1, FirstOf
  <1>8. z = 0 \/ \E i \in Z : z = L[i] /\ z \in 1..NumCtx
    <2>1. L \in Seq(1..NumCtx) /\ Z \in SUBSET DOMAIN L  BY <1>2, <1>3 DEF Listed
    <2> QED  BY <1>4, <2>1, FirstOf
  <1>9. c = x /\ c # 0 => /\ c \in 1..NumCtx /\ C[c].used
                          /\ t.kind \in {"local", "foreign"} => Named(C[c], t.p)
    BY <1>2, <1>3, <1>6 DEF Listed, Named, Of
  <1>10. c = y /\ c # 0 => c \in 1..NumCtx /\ C[c].used /\ Named(C[c], t.p)
    BY <1>2, <1>3, <1>7 DEF Listed, Named
  <1>11. c = z /\ c # 0 => c \in 1..NumCtx /\ C[c].used /\ Named(C[c], t.p)
    BY <1>2, <1>3, <1>8 DEF Listed, Named, Of
  <1> QED
    BY <1>1, <1>5, <1>9, <1>10, <1>11

-----------------------------------------------------------------------------
(* A context takes another value, comes or goes *)

Clear(C, c, x) ==
    \A d \in 1..NumCtx : d # c /\ C[d].used => ~Named(x, C[d].ptmsi) /\ ~Named(C[d], x.ptmsi)
SoleImsi(C, c, x) == x.imsi => \A d \in 1..NumCtx : d # c /\ C[d].used => ~C[d].imsi
Fits(C, c, x) == CtxShape(x) /\ x.used /\ Own(x) /\ Timed(x) /\ Clear(C, c, x) /\ SoleImsi(C, c, x)

\* The contexts with x in the place of c.
Put(C, c, x) == [C EXCEPT ![c] = x]

LEMMA CtxSet ==
  ASSUME NEW C, CtxShapes(C), NEW c \in 1..NumCtx, NEW x, CtxShape(x), NEW D, D = Put(C, c, x)
  PROVE  CtxShapes(D) /\ \A d \in 1..NumCtx : D[d] = IF d = c THEN x ELSE C[d]
  <1>1. D = [d \in 1..NumCtx |-> D[d]] /\ \A d \in 1..NumCtx : D[d] = IF d = c THEN x ELSE C[d]
    BY DEF CtxShapes, Put
  <1> QED
    BY <1>1 DEF CtxShapes

\* With x in its place the contexts are still apart, and of one IMSI one only.
LEMMA StillApart ==
  ASSUME NEW C, CtxShapes(C), OneImsi(C), Apart(C), \A d \in 1..NumCtx : C[d].used => Own(C[d]) /\ Timed(C[d]),
         NEW c \in 1..NumCtx, NEW x, Fits(C, c, x), NEW D, D = Put(C, c, x)
  PROVE  CtxShapes(D) /\ OneImsi(D) /\ Apart(D) /\ \A d \in 1..NumCtx : D[d].used => Own(D[d]) /\ Timed(D[d])
  <1>0. CtxShape(x)  BY DEF Fits
  <1>1. CtxShapes(D) /\ \A d \in 1..NumCtx : D[d] = IF d = c THEN x ELSE C[d]
    BY <1>0, CtxSet
  <1>2. OneImsi(D)
    BY <1>1 DEF OneImsi, Fits, SoleImsi
  <1>3. Apart(D)
    <2> SUFFICES ASSUME NEW a \in 1..NumCtx, NEW b \in 1..NumCtx, a # b, D[a].used, D[b].used
                 PROVE  ~Named(D[a], D[b].ptmsi)
      BY DEF Apart
    <2>1. CASE a = c
      BY <1>1, <2>1 DEF Fits, Clear
    <2>2. CASE b = c
      BY <1>1, <2>2 DEF Fits, Clear
    <2>3. CASE a # c /\ b # c
      BY <1>1, <2>3 DEF Apart
    <2> QED  BY <2>1, <2>2, <2>3
  <1>4. ASSUME NEW d \in 1..NumCtx, D[d].used PROVE Own(D[d]) /\ Timed(D[d])
    BY <1>1, <1>4 DEF Fits
  <1> QED
    BY <1>1, <1>2, <1>3, <1>4

LEMMA CtxMoves ==
  ASSUME NEW C, NEW L, CtxsFine(C, L), NEW c \in 1..NumCtx, C[c].used, NEW x, Fits(C, c, x),
         NEW D, D = Put(C, c, x)
  PROVE  CtxsFine(D, L)
  <1>1. CtxShapes(D) /\ OneImsi(D) /\ Apart(D) /\ \A d \in 1..NumCtx : D[d].used => Own(D[d]) /\ Timed(D[d])
    BY StillApart DEF CtxsFine
  <1>0. CtxShapes(C) /\ CtxShape(x)  BY DEF Fits, CtxsFine
  <1>2. \A d \in 1..NumCtx : D[d] = IF d = c THEN x ELSE C[d]
    BY <1>0, CtxSet
  <1>3. L \in Seq(1..NumCtx) /\ \A i \in DOMAIN L : L[i] \in 1..NumCtx
    BY SeqElements DEF CtxsFine, Listed
  <1>4. Listed(D, L)
    BY <1>2, <1>3 DEF CtxsFine, Listed, Fits
  <1> QED
    BY <1>1, <1>4 DEF CtxsFine

LEMMA CtxComes ==
  ASSUME NEW C, NEW L, CtxsFine(C, L), NEW c \in 1..NumCtx, ~C[c].used, NEW x, Fits(C, c, x),
         NEW D, D = Put(C, c, x), NEW M, M = <<c>> \o L
  PROVE  CtxsFine(D, M)
  <1>1. CtxShapes(D) /\ OneImsi(D) /\ Apart(D) /\ \A d \in 1..NumCtx : D[d].used => Own(D[d]) /\ Timed(D[d])
    BY StillApart DEF CtxsFine
  <1>0. CtxShapes(C) /\ CtxShape(x)  BY DEF Fits, CtxsFine
  <1>2. \A d \in 1..NumCtx : D[d] = IF d = c THEN x ELSE C[d]
    BY <1>0, CtxSet
  <1>3. L \in Seq(1..NumCtx) /\ \A i \in DOMAIN L : L[i] \in 1..NumCtx
    BY SeqElements DEF CtxsFine, Listed
  <1>4. Len(L) \in Nat /\ DOMAIN L = 1..Len(L)
    BY <1>3
  <1>5. /\ M \in Seq(1..NumCtx) /\ DOMAIN M = 1..(Len(L) + 1) /\ M[1] = c
        /\ \A i \in 1..Len(L) : M[i + 1] = L[i]
    BY <1>3
  <1>6. \A i \in DOMAIN M : i = 1 \/ (i - 1 \in 1..Len(L) /\ M[i] = L[i - 1])
    BY <1>4, <1>5
  <1>7. \A i \in DOMAIN L : L[i] # c
    BY DEF CtxsFine, Listed
  <1>8. \A i \in DOMAIN M : D[M[i]].used
    <2> SUFFICES ASSUME NEW i \in DOMAIN M PROVE D[M[i]].used  OBVIOUS
    <2>1. CASE i = 1
      BY <1>2, <1>5, <2>1 DEF Fits
    <2>2. CASE i - 1 \in 1..Len(L) /\ M[i] = L[i - 1]
      BY <1>2, <1>3, <1>4, <1>7, <2>2 DEF CtxsFine, Listed
    <2> QED  BY <1>6, <2>1, <2>2
  <1>9. \A d \in 1..NumCtx : D[d].used => \E i \in DOMAIN M : M[i] = d
    <2> SUFFICES ASSUME NEW d \in 1..NumCtx, D[d].used PROVE \E i \in DOMAIN M : M[i] = d  OBVIOUS
    <2>1. CASE d = c
      BY <1>4, <1>5, <2>1
    <2>2. CASE d # c
      <3>1. PICK i \in DOMAIN L : L[i] = d  BY <1>2, <2>2 DEF CtxsFine, Listed
      <3>2. i + 1 \in DOMAIN M /\ M[i + 1] = d  BY <1>4, <1>5, <3>1
      <3> QED  BY <3>2
    <2> QED  BY <2>1, <2>2
  <1>10. \A i, j \in DOMAIN M : M[i] = M[j] => i = j
    <2> SUFFICES ASSUME NEW i \in DOMAIN M, NEW j \in DOMAIN M, M[i] = M[j] PROVE i = j  OBVIOUS
    <2>1. i - 1 \in DOMAIN L /\ j - 1 \in DOMAIN L /\ L[i - 1] = L[j - 1] => i - 1 = j - 1
      BY DEF CtxsFine, Listed
    <2>2. i = 1 <=> j = 1
      BY <1>4, <1>5, <1>6, <1>7
    <2> QED  BY <1>4, <1>5, <1>6, <2>1, <2>2
  <1>11. Listed(D, M)
    BY <1>5, <1>8, <1>9, <1>10 DEF Listed
  <1> QED
    BY <1>1, <1>11 DEF CtxsFine

LEMMA CtxGoes ==
  ASSUME NEW C, NEW L, CtxsFine(C, L), NEW c \in 1..NumCtx, C[c].used, NEW x, CtxShape(x), ~x.used,
         NEW D, D = Put(C, c, x), NEW i \in DOMAIN L, L[i] = c, NEW M, M = RemoveAt(L, i)
  PROVE  CtxsFine(D, M)
  <1>0. CtxShapes(C)  BY DEF CtxsFine
  <1>1. CtxShapes(D) /\ \A d \in 1..NumCtx : D[d] = IF d = c THEN x ELSE C[d]
    BY <1>0, CtxSet
  <1>2. L \in Seq(1..NumCtx) /\ Len(L) \in Nat /\ DOMAIN L = 1..Len(L)
    BY DEF CtxsFine, Listed
  <1>3. /\ M \in Seq(1..NumCtx) /\ Len(M) = Len(L) - 1
        /\ \A j \in DOMAIN M : M[j] = L[IF j < i THEN j ELSE j + 1]
    <2>1. PICK X : X = 1..NumCtx  OBVIOUS
    <2>2. L \in Seq(X)  BY <1>2, <2>1
    <2>3. /\ M \in Seq(X) /\ Len(M) = Len(L) - 1
          /\ \A j \in DOMAIN M : M[j] = L[IF j < i THEN j ELSE j + 1]
      BY <2>2, RemoveAtElements
    <2> QED  BY <2>1, <2>3
  <1>4. DOMAIN M = 1..(Len(L) - 1)
    BY <1>2, <1>3
  <1>5. OneImsi(D) /\ Apart(D) /\ \A d \in 1..NumCtx : D[d].used => Own(D[d]) /\ Timed(D[d])
    BY <1>1 DEF OneImsi, Apart, CtxsFine
  <1>6. ASSUME NEW j \in DOMAIN M
        PROVE  \E k \in DOMAIN L : k # i /\ M[j] = L[k] /\ k = IF j < i THEN j ELSE j + 1
    BY <1>2, <1>3, <1>4
  <1>7. ASSUME NEW j \in DOMAIN M PROVE D[M[j]].used
    <2>1. PICK k \in DOMAIN L : k # i /\ M[j] = L[k]
      BY <1>6
    <2>2. L[k] # c /\ C[L[k]].used
      BY <2>1 DEF CtxsFine, Listed
    <2>3. L[k] \in 1..NumCtx
      BY <1>2, SeqElements
    <2> QED  BY <1>1, <2>1, <2>2, <2>3
  <1>8. ASSUME NEW d \in 1..NumCtx, D[d].used PROVE \E j \in DOMAIN M : M[j] = d
    <2>1. d # c /\ C[d].used
      BY <1>1, <1>8
    <2>2. PICK k \in DOMAIN L : L[k] = d
      BY <2>1 DEF CtxsFine, Listed
    <2>3. k < i => k \in DOMAIN M /\ M[k] = d
      BY <1>2, <1>3, <1>4, <2>2
    <2>4. k > i => k - 1 \in DOMAIN M /\ M[k - 1] = d
      BY <1>2, <1>3, <1>4, <2>2
    <2>5. k < i \/ k > i
      BY <1>2, <2>1, <2>2
    <2> QED  BY <2>3, <2>4, <2>5
  <1>9. ASSUME NEW j \in DOMAIN M, NEW k \in DOMAIN M, M[j] = M[k] PROVE j = k
    <2>1. PICK a \in DOMAIN L : M[j] = L[a] /\ a = IF j < i THEN j ELSE j + 1
      BY <1>6
    <2>2. PICK b \in DOMAIN L : M[k] = L[b] /\ b = IF k < i THEN k ELSE k + 1
      BY <1>6
    <2>3. a = b
      BY <1>9, <2>1, <2>2 DEF CtxsFine, Listed
    <2> QED  BY <1>2, <1>4, <2>1, <2>2, <2>3
  <1>10. Listed(D, M)
    BY <1>3, <1>7, <1>8, <1>9 DEF Listed
  <1> QED
    BY <1>1, <1>5, <1>10 DEF CtxsFine

\* The context c has turned into x; nothing else has changed.
Turns(S, T, c, x) ==
    /\ SgShape(T) /\ T.ctx = Put(S.ctx, c, x) /\ T.list = S.list /\ T.pdp = S.pdp /\ T.ms = S.ms
    /\ T.by = S.by /\ T.out = S.out

LEMMA PutTurns ==
  ASSUME NEW S, SgShape(S), NEW c, NEW x
  PROVE  Turns(S, [S EXCEPT !.ctx[c] = x], c, x)
  BY DEF SgShape, SgFields, Turns, Put

LEMMA PutPut ==
  ASSUME NEW C, CtxShapes(C), NEW c \in 1..NumCtx, NEW x, NEW y
  PROVE  Put(Put(C, c, x), c, y) = Put(C, c, y)
  BY DEF CtxShapes, Put

LEMMA PutSame ==
  ASSUME NEW C, CtxShapes(C), NEW c \in 1..NumCtx
  PROVE  Put(C, c, C[c]) = C
  BY DEF CtxShapes, Put

\* The names by which a context is found, and whose it is.
Alike(x, y) == x.used = y.used /\ x.imsi = y.imsi /\ x.ptmsi = y.ptmsi /\ x.old = y.old /\ x.tlli = y.tlli /\ x.new = y.new

LEMMA TimerTurns ==
  ASSUME NEW S, SgShape(S), NEW c \in 1..NumCtx, CtxShape(S.ctx[c]), NEW t, TimerShape(t)
  PROVE  \E x : /\ Turns(S, [S EXCEPT !.ctx[c].timer = t], c, x) /\ CtxShape(x) /\ Alike(x, S.ctx[c]) /\ x.timer = t
                /\ x.mode = S.ctx[c].mode /\ x.state = S.ctx[c].state /\ x.id = S.ctx[c].id /\ x.imei = S.ctx[c].imei
  <1>1. PICK y : y = S.ctx[c]  OBVIOUS
  <1>2. PICK x : x = [y EXCEPT !.timer = t]  OBVIOUS
  <1>3. CtxShape(x) /\ Alike(x, y) /\ x.timer = t /\ x.mode = y.mode /\ x.state = y.state /\ x.id = y.id /\ x.imei = y.imei
    BY <1>1, <1>2 DEF CtxShape, CtxFields, Alike
  <1>4. [S EXCEPT !.ctx[c].timer = t] = [S EXCEPT !.ctx[c] = x]
    BY <1>1, <1>2
  <1>5. Turns(S, [S EXCEPT !.ctx[c].timer = t], c, x)
    BY <1>4, PutTurns
  <1> QED
    BY <1>1, <1>3, <1>5

LEMMA StartedTimer ==
  ASSUME NEW T
  PROVE  TimerShape(Started(T)) /\ Started(T).on /\ Started(T).T = T
  BY DEF TimerShape, Started

LEMMA StoppedTimer == TimerShape(NoTimer) /\ ~NoTimer.on
  BY DEF TimerShape, NoTimer

\* gsm48_gmm_authorize() accepts the MS, or asks for an identity and watches over the answer.
Authorized(S, T, c, mode, x) ==
    /\ SgShape(T) /\ T.ctx = Put(S.ctx, c, x) /\ T.list = S.list /\ T.pdp = S.pdp /\ T.ms = S.ms /\ T.by = c
    /\ CtxShape(x) /\ Alike(x, S.ctx[c]) /\ x.timer.on
    /\ \/ x.state = "NORMAL" /\ x.timer.T = 3350 /\ x.mode = mode /\ T.out = S.out \cup {"ATT_ACK"}
       \/ /\ x.state = "COMMON_PROC_INIT" /\ x.timer.T = 3370 /\ x.mode = S.ctx[c].mode
          /\ T.out = S.out \cup {"ID_REQ"} /\ x.id \in {"IMSI", "IMEI"}

LEMMA AuthorizeDoes ==
  ASSUME NEW S, SgShape(S), CtxShapes(S.ctx), NEW c \in 1..NumCtx, NEW mode
  PROVE  \E x : Authorized(S, gsm48_gmm_authorize(S, c, mode), c, mode, x)
  <1>1. PICK y : y = S.ctx[c]  OBVIOUS
  <1>2. CtxShape(y)
    BY <1>1 DEF CtxShapes
  <1>3. CASE y.imei /\ y.imsi
    <2>1. PICK z : z = [y EXCEPT !.mode = mode, !.state = "NORMAL"]  OBVIOUS
    <2>2. CtxShape(z) /\ Alike(z, y) /\ z.mode = mode /\ z.state = "NORMAL"
      BY <1>2, <2>1 DEF CtxShape, CtxFields, Alike
    <2>3. PICK U : U = [S EXCEPT !.ctx[c] = z]  OBVIOUS
    <2>4. Turns(S, U, c, z)
      BY <2>3, PutTurns
    <2>5. U.ctx[c] = z /\ SgShape(U)
      BY <2>4, <2>2, CtxSet DEF Turns
    <2>6. PICK V : V = mmctx_timer_start(U, c, 3350)  OBVIOUS
    <2>7. PICK x : Turns(U, V, c, x) /\ CtxShape(x) /\ Alike(x, z) /\ x.timer = Started(3350)
                   /\ x.mode = mode /\ x.state = "NORMAL"
      BY <2>2, <2>5, <2>6, TimerTurns, StartedTimer DEF mmctx_timer_start
    <2>8. PICK T : T = gsm48_tx_gmm_att_ack(V, c)  OBVIOUS
    <2>9. Says(V, T, c, "ATT_ACK")
      BY <2>7, <2>8, SendSays DEF gsm48_tx_gmm_att_ack, Turns
    <2>10. gsm48_gmm_authorize(S, c, mode) = T
      BY <1>1, <1>3, <2>1, <2>3, <2>6, <2>8 DEF gsm48_gmm_authorize
    <2>11. T.ctx = Put(S.ctx, c, x)
      BY <2>4, <2>7, <2>9, PutPut DEF Turns, Says
    <2>12. Authorized(S, T, c, mode, x)
      BY <1>1, <2>2, <2>4, <2>7, <2>9, <2>11, StartedTimer DEF Authorized, Turns, Says, Alike
    <2> QED  BY <2>10, <2>12
  <1>4. CASE ~(y.imei /\ y.imsi)
    <2>0. PICK id : id = IF y.imei THEN "IMSI" ELSE "IMEI"  OBVIOUS
    <2>1. PICK z : z = [y EXCEPT !.state = "COMMON_PROC_INIT", !.id = id]  OBVIOUS
    <2>2. CtxShape(z) /\ Alike(z, y) /\ z.mode = y.mode /\ z.state = "COMMON_PROC_INIT" /\ z.id = id
      BY <1>2, <2>1 DEF CtxShape, CtxFields, Alike
    <2>3. PICK U : U = [S EXCEPT !.ctx[c] = z]  OBVIOUS
    <2>4. Turns(S, U, c, z)
      BY <2>3, PutTurns
    <2>5. U.ctx[c] = z /\ SgShape(U)
      BY <2>4, <2>2, CtxSet DEF Turns
    <2>6. PICK V : V = mmctx_timer_start(U, c, 3370)  OBVIOUS
    <2>7. PICK x : Turns(U, V, c, x) /\ CtxShape(x) /\ Alike(x, z) /\ x.timer = Started(3370)
                   /\ x.mode = z.mode /\ x.state = "COMMON_PROC_INIT" /\ x.id = id
      BY <2>2, <2>5, <2>6, TimerTurns, StartedTimer DEF mmctx_timer_start
    <2>8. PICK T : T = gsm48_tx_gmm_id_req(V, c)  OBVIOUS
    <2>9. Says(V, T, c, "ID_REQ")
      BY <2>7, <2>8, SendSays DEF gsm48_tx_gmm_id_req, Turns
    <2>10. gsm48_gmm_authorize(S, c, mode) = T
      BY <1>1, <1>4, <2>0, <2>1, <2>3, <2>6, <2>8 DEF gsm48_gmm_authorize
    <2>11. T.ctx = Put(S.ctx, c, x)
      BY <2>4, <2>7, <2>9, PutPut DEF Turns, Says
    <2>12. Authorized(S, T, c, mode, x)
      BY <1>1, <2>0, <2>2, <2>4, <2>7, <2>9, <2>11, StartedTimer DEF Authorized, Turns, Says, Alike
    <2> QED  BY <2>10, <2>12
  <1> QED
    BY <1>3, <1>4

-----------------------------------------------------------------------------
(* A message comes in *)

LEMMA CtxAt ==
  ASSUME NEW C, NEW L, CtxsFine(C, L), NEW c \in 1..NumCtx
  PROVE  CtxShapes(C) /\ CtxShape(C[c]) /\ (C[c].used => Own(C[c]) /\ Timed(C[c]))
  BY DEF CtxsFine, CtxShapes

\* A context that is as it was, but for its TLLI, perhaps, fits in.
LEMMA StillFits ==
  ASSUME NEW C, NEW L, CtxsFine(C, L), NEW c \in 1..NumCtx, C[c].used, NEW x, CtxShape(x),
         x.used, x.imsi = C[c].imsi \/ SoleImsi(C, c, x), x.ptmsi = C[c].ptmsi, x.old \in {0, C[c].old},
         x.new = C[c].new, Timed(x),
         x.tlli = C[c].tlli \/ (Named(C[c], x.tlli.p)) \/ x.tlli = C[c].new
  PROVE  Fits(C, c, x)
  <1>1. Own(x) /\ x.ptmsi # 0
    BY CtxAt DEF Own, Ptmsis
  <1>2. ASSUME NEW d \in 1..NumCtx, d # c, C[d].used
        PROVE  ~Named(x, C[d].ptmsi) /\ ~Named(C[d], x.ptmsi)
    <2>1. ~Named(C[c], C[d].ptmsi) /\ ~Named(C[d], C[c].ptmsi)
      BY <1>2 DEF CtxsFine, Apart
    <2>2. C[d].ptmsi # 0
      BY <1>2, CtxAt DEF Own, Ptmsis
    <2>3. ~Of(x, C[d].ptmsi)
      <3>1. x.tlli = C[c].new => x.tlli.p = C[c].ptmsi
        <4>1. Own(C[c])  BY CtxAt
        <4> QED  BY <4>1 DEF Own, Local
      <3> QED  BY <2>1, <3>1 DEF Of, Named
    <2>4. ~Named(C[d], x.ptmsi)
      BY <2>1
    <2> QED  BY <2>1, <2>2, <2>3, <2>4 DEF Named
  <1>3. SoleImsi(C, c, x)
    BY DEF CtxsFine, OneImsi, SoleImsi
  <1> QED
    BY <1>1, <1>2, <1>3 DEF Fits, Clear

\* The MS is found where it was not in the common procedure.
LEMMA MsStays ==
  ASSUME NEW m, NEW C, NEW L, CtxsFine(C, L), MsFine(m, C), NEW c \in 1..NumCtx, NEW x, CtxShape(x),
         Registered(m) => ~Common(x) \/ (~Named(x, m.ptmsi) /\ Common(C[c]))
  PROVE  MsFine(m, Put(C, c, x))
  <1>1. PICK D : D = Put(C, c, x)  OBVIOUS
  <1>2. \A d \in 1..NumCtx : D[d] = IF d = c THEN x ELSE C[d]
    BY <1>1, CtxAt, CtxSet
  <1>3. ASSUME Registered(m), NEW d \in 1..NumCtx, Common(D[d]) PROVE ~Named(D[d], m.ptmsi)
    BY <1>2, <1>3 DEF MsFine
  <1> QED
    BY <1>1, <1>3 DEF MsFine

\* What RxState() makes of a good state.
LEMMA TakesTurns ==
  ASSUME NEW S, SgShape(S), NEW c \in 1..NumCtx, CtxShapes(S.ctx), NEW t, NEW l,
         NEW T, T = AtLlme(S, c, t, l)
  PROVE  \E x : /\ Turns(S, T, c, x) /\ CtxShape(x) /\ x.used = S.ctx[c].used /\ x.imsi = S.ctx[c].imsi
                /\ x.ptmsi = S.ctx[c].ptmsi /\ x.old = S.ctx[c].old /\ x.new = S.ctx[c].new /\ x.timer = S.ctx[c].timer
                /\ x.state = S.ctx[c].state /\ x.mode = S.ctx[c].mode /\ x.id = S.ctx[c].id /\ x.imei = S.ctx[c].imei
                /\ x.tlli = IF t.kind = "local" THEN t ELSE S.ctx[c].tlli
  <1>1. PICK y : y = S.ctx[c]  OBVIOUS
  <1>2. CtxShape(y)  BY <1>1 DEF CtxShapes
  <1>3. PICK z : z = IF t.kind = "local" THEN [y EXCEPT !.tlli = t] ELSE y  OBVIOUS
  <1>4. /\ CtxShape(z) /\ z.used = y.used /\ z.imsi = y.imsi /\ z.ptmsi = y.ptmsi /\ z.old = y.old /\ z.new = y.new
        /\ z.timer = y.timer /\ z.state = y.state /\ z.mode = y.mode /\ z.id = y.id /\ z.imei = y.imei
        /\ z.tlli = IF t.kind = "local" THEN t ELSE y.tlli
    BY <1>2, <1>3 DEF CtxShape, CtxFields
  <1>5. PICK U : U = TakesTlli(S, c, t)  OBVIOUS
  <1>6. Turns(S, U, c, z)
    <2>1. CASE t.kind = "local"
      <3>1. U = [S EXCEPT !.ctx[c] = z]
        BY <1>1, <1>3, <1>5, <2>1, SgBounds DEF TakesTlli
      <3> QED  BY <3>1, PutTurns
    <2>2. CASE t.kind # "local"
      <3>1. U = S /\ z = S.ctx[c]
        BY <1>1, <1>3, <1>5, <2>2 DEF TakesTlli
      <3> QED  BY <3>1, PutSame DEF Turns
    <2> QED  BY <2>1, <2>2
  <1>7. U.ctx[c] = z /\ SgShape(U)
    BY <1>6, <1>4, CtxSet DEF Turns
  <1>8. PICK x : x = [z EXCEPT !.llme = l]  OBVIOUS
  <1>9. /\ CtxShape(x) /\ x.used = z.used /\ x.imsi = z.imsi /\ x.ptmsi = z.ptmsi /\ x.old = z.old /\ x.new = z.new
        /\ x.timer = z.timer /\ x.state = z.state /\ x.mode = z.mode /\ x.id = z.id /\ x.imei = z.imei
        /\ x.tlli = z.tlli
    BY <1>4, <1>8 DEF CtxShape, CtxFields
  <1>10. T = [U EXCEPT !.ctx[c] = x]
    BY <1>5, <1>7, <1>8 DEF AtLlme
  <1>11. Turns(U, T, c, x)
    <2>1. Turns(U, [U EXCEPT !.ctx[c] = x], c, x)  BY <1>7, PutTurns
    <2> QED  BY <1>10, <2>1
  <1>12. Turns(S, T, c, x)
    BY <1>6, <1>11, PutPut DEF Turns
  <1> QED
    BY <1>1, <1>4, <1>9, <1>12

\* A message of TLLI t: it may be the MS's, and then says the MS's P-TMSI.
LEMMA RxFine ==
  ASSUME NEW S, SgFine(S), NEW t, NEW ra, Registered(S.ms) => t \in {Local(S.ms.ptmsi), Foreign(S.ms.ptmsi)},
         NEW e, e = RxState(S, t, ra)
  PROVE  /\ SgFine(e.S) /\ e.S.ms = S.ms /\ e.S.pdp = S.pdp /\ e.S.by = S.by /\ e.S.out = S.out
         /\ e.c = sgsn_mm_ctx_by_tlli(S, t, ra)
         /\ \/ e.c = 0
            \/ /\ e.c \in 1..NumCtx /\ e.S.ctx[e.c].used
               /\ Registered(S.ms) => e.S.ctx[e.c].state # "COMMON_PROC_INIT"
               /\ t.kind \in {"local", "foreign"} => Named(e.S.ctx[e.c], t.p)
         /\ \A q : /\ t.kind = "local" => q # t.p
                   /\ \A d \in 1..NumCtx : ~Named(S.ctx[d], q)
                   => \A d \in 1..NumCtx : ~Named(e.S.ctx[d], q)
         /\ \A d \in 1..NumCtx : e.S.ctx[d].state = S.ctx[d].state
  <1>1. PICK c : c = sgsn_mm_ctx_by_tlli(S, t, ra)  OBVIOUS
  <1>2. PICK l : l = IF lle_by_tlli(S, t) = 0 THEN NewLlme(S) ELSE lle_by_tlli(S, t)  OBVIOUS
  <1>3. PICK T : T = IF lle_by_tlli(S, t) = 0 THEN llme_alloc(S, t) ELSE S  OBVIOUS
  <1>4. e.c = c /\ e.S = IF c = 0 THEN T ELSE AtLlme(T, c, t, l)
    BY <1>1, <1>2, <1>3 DEF RxState
  <1>5. Keeps(S, T)
    <2>1. Keeps(S, S) /\ Keeps(S, llme_alloc(S, t))
      BY LlmeAllocKeeps DEF Keeps, SgFine
    <2> QED  BY <1>3, <2>1
  <1>6. SgFine(T)
    BY <1>5 DEF Keeps, SgFine
  <1>7. CASE c = 0
    BY <1>1, <1>4, <1>5, <1>6, <1>7 DEF Keeps
  <1>8. CASE c # 0
    <2>1. c \in 1..NumCtx /\ S.ctx[c].used /\ (t.kind \in {"local", "foreign"} => Named(S.ctx[c], t.p))
      BY <1>1, <1>8, ByTlli DEF SgFine
    <2>2. PICK U : U = AtLlme(T, c, t, l)  OBVIOUS
    <2>3. T.ctx = S.ctx /\ SgShape(T) /\ CtxShapes(T.ctx)
      BY <1>5, <1>6, <2>1, CtxAt DEF Keeps, SgFine
    <2>4. PICK x : /\ Turns(T, U, c, x) /\ CtxShape(x) /\ x.used = S.ctx[c].used /\ x.imsi = S.ctx[c].imsi
                   /\ x.ptmsi = S.ctx[c].ptmsi /\ x.old = S.ctx[c].old /\ x.new = S.ctx[c].new
                   /\ x.timer = S.ctx[c].timer /\ x.state = S.ctx[c].state /\ x.mode = S.ctx[c].mode
                   /\ x.id = S.ctx[c].id /\ x.tlli = IF t.kind = "local" THEN t ELSE S.ctx[c].tlli
      <3>1. \E x : /\ Turns(T, U, c, x) /\ CtxShape(x) /\ x.used = T.ctx[c].used /\ x.imsi = T.ctx[c].imsi
                   /\ x.ptmsi = T.ctx[c].ptmsi /\ x.old = T.ctx[c].old /\ x.new = T.ctx[c].new
                   /\ x.timer = T.ctx[c].timer /\ x.state = T.ctx[c].state /\ x.mode = T.ctx[c].mode
                   /\ x.id = T.ctx[c].id /\ x.imei = T.ctx[c].imei
                   /\ x.tlli = IF t.kind = "local" THEN t ELSE T.ctx[c].tlli
        <4>1. c \in 1..NumCtx  BY <2>1
        <4> QED  BY <4>1, <2>2, <2>3, TakesTurns
      <3> QED  BY <2>3, <3>1
    <2>5. e.S = U /\ e.c = c
      BY <1>4, <1>8, <2>2
    <2> HIDE <2>2
    <2>6. CtxsFine(S.ctx, S.list) /\ MsFine(S.ms, S.ctx)
      BY DEF SgFine
    <2>7. Timed(x)
      <3>1. Timed(S.ctx[c])  BY <2>1, <2>6, CtxAt
      <3> QED  BY <2>4, <3>1 DEF Timed
    <2>8. Fits(S.ctx, c, x)
      BY <2>1, <2>4, <2>6, <2>7, StillFits
    <2>9. U.ctx = Put(S.ctx, c, x) /\ U.list = S.list /\ U.ms = S.ms /\ U.pdp = S.pdp /\ U.by = S.by /\ U.out = S.out
      BY <1>5, <2>3, <2>4 DEF Turns, Keeps
    <2>10. CtxsFine(U.ctx, U.list)
      BY <2>1, <2>6, <2>8, <2>9, CtxMoves
    <2>11. Registered(S.ms) => x.state # "COMMON_PROC_INIT"
      <3> SUFFICES ASSUME Registered(S.ms) PROVE S.ctx[c].state # "COMMON_PROC_INIT"
        BY <2>4
      <3>1. t.kind \in {"local", "foreign"} /\ t.p = S.ms.ptmsi
        BY DEF Local, Foreign
      <3>2. Named(S.ctx[c], S.ms.ptmsi)
        BY <2>1, <3>1
      <3> QED  BY <2>1, <2>6, <3>2 DEF MsFine, Common
    <2>12. MsFine(U.ms, U.ctx)
      BY <2>1, <2>4, <2>6, <2>9, <2>11, MsStays DEF Common
    <2>13. SgFine(U)
      BY <2>4, <2>9, <2>10, <2>12 DEF SgFine, Turns
    <2>14. CtxShapes(S.ctx)
      BY <2>1, <2>6, CtxAt
    <2>15. \A d \in 1..NumCtx : U.ctx[d] = IF d = c THEN x ELSE S.ctx[d]
      BY <2>1, <2>4, <2>9, <2>14, CtxSet
    <2>16. t.kind \in {"local", "foreign"} => Named(x, t.p)
      BY <2>1, <2>4 DEF Named, Of
    <2>17. ASSUME NEW q, t.kind = "local" => q # t.p, \A d \in 1..NumCtx : ~Named(S.ctx[d], q),
                  NEW d \in 1..NumCtx
           PROVE  ~Named(U.ctx[d], q)
      <3>1. CASE d # c
        BY <2>15, <2>17, <3>1
      <3>2. CASE d = c
        <4>1. ~Named(S.ctx[c], q)  BY <2>1, <2>17
        <4> QED  BY <2>1, <2>4, <2>15, <2>17, <3>2, <4>1 DEF Named, Of
      <3> QED  BY <3>1, <3>2
    <2>18. \A d \in 1..NumCtx : U.ctx[d].state = S.ctx[d].state
      BY <2>4, <2>15
    <2>19. \/ e.c = 0
           \/ /\ e.c \in 1..NumCtx /\ e.S.ctx[e.c].used
              /\ Registered(S.ms) => e.S.ctx[e.c].state # "COMMON_PROC_INIT"
              /\ t.kind \in {"local", "foreign"} => Named(e.S.ctx[e.c], t.p)
      BY <2>1, <2>4, <2>5, <2>11, <2>15, <2>16
    <2>20. SgFine(e.S) /\ e.S.ms = S.ms /\ e.S.pdp = S.pdp /\ e.S.by = S.by /\ e.S.out = S.out
      BY <2>5, <2>9, <2>13
    <2>21. e.c = sgsn_mm_ctx_by_tlli(S, t, ra)
      BY <1>1, <2>5
    <2> HIDE <1>1, <1>2, <1>3, <1>4
    <2> QED
      BY <2>5, <2>17, <2>18, <2>19, <2>20, <2>21
  <1> QED
    BY <1>7, <1>8

-----------------------------------------------------------------------------
(* Sessions: what the GGSN answers, and the timers *)

Accepts == {"ID_REQ", "ATT_ACK", "RAU_ACK"}
\* An ACTIVATE PDP CONTEXT ACCEPT goes out for a context that is up.
MeansUp(S) == "ACT_ACC" \in S.out => \E p \in 1..NumCtx : S.pdp[p].used /\ S.pdp[p].up
\* The step is one of a session: neither contexts nor the MS have changed.
Session(S, T) ==
    /\ SgShape(T) /\ T.ctx = S.ctx /\ T.list = S.list /\ T.ms = S.ms /\ PdpsFine(T.pdp)
    /\ T.out \cap Accepts = {} /\ MeansUp(T)

LEMMA SessionSays ==
  ASSUME NEW S, NEW T, Session(S, T), NEW U, NEW by, NEW msg, Says(T, U, by, msg), msg \notin Accepts,
         msg = "ACT_ACC" => \E p \in 1..NumCtx : T.pdp[p].used /\ T.pdp[p].up
  PROVE  Session(S, U)
  BY DEF Session, Says, MeansUp

LEMMA SessionMoves ==
  ASSUME NEW S, NEW T, Session(S, T), NEW U, PdpMoves(T, U), "ACT_ACC" \notin T.out
  PROVE  Session(S, U)
  BY DEF Session, PdpMoves, MeansUp

LEMMA SessionStarts ==
  ASSUME NEW S, NEW T, PdpMoves(S, T), S.out = {}
  PROVE  Session(S, T)
  BY DEF Session, PdpMoves, MeansUp

LEMMA SndcpKeeps ==
  ASSUME NEW S, SgShape(S), NEW p
  PROVE  Keeps(S, sndcp_sm_activate_ind(S, p)) /\ Keeps(S, sndcp_sm_deactivate_ind(S, p))
  <1>1. PICK l : l = LlmeOf(S, p)  OBVIOUS
  <1>2. Keeps(S, [S EXCEPT !.bad = TRUE])
    BY DEF SgShape, SgFields, Keeps
  <1>3. Keeps(S, [S EXCEPT !.llme[l].sne = TRUE]) /\ Keeps(S, [S EXCEPT !.llme[l].sne = FALSE])
    BY DEF SgShape, SgFields, Keeps
  <1> QED
    BY <1>1, <1>2, <1>3 DEF sndcp_sm_activate_ind, sndcp_sm_deactivate_ind

LEMMA CreateConfSession ==
  ASSUME NEW S, PdpGood(S), S.out = {}, NEW p \in 1..NumCtx, NEW cause \in {"accepted", "refused", "timeout"}
  PROVE  Session(S, create_pdp_conf(S, p, cause))
  <1>1. PICK y : y = S.pdp[p]  OBVIOUS
  <1>2. PdpShape(y) /\ (y.used /\ y.ti => y.up \/ y.creating)
    BY <1>1, PdpAt
  <1>3. PICK z : z = [y EXCEPT !.creating = FALSE]  OBVIOUS
  <1>4. PdpShape(z) /\ z.used = y.used /\ z.ti = y.ti /\ z.up = y.up
    BY <1>2, <1>3 DEF PdpShape, PdpFields
  <1>5. PICK T : T = PutPdp(S, p, z)  OBVIOUS
  <1>6. SgShape(S) /\ PdpsBut(S.pdp, p)
    BY DEF PdpGood, PdpsFine, PdpsBut
  <1>7. /\ SgShape(T) /\ T.ctx = S.ctx /\ T.list = S.list /\ T.ms = S.ms /\ T.by = S.by /\ T.out = S.out
        /\ T.pdp[p] = z /\ PdpsBut(T.pdp, p)
        /\ (z.used /\ z.ti => z.up \/ z.creating) => PdpMoves(S, T)
    BY <1>4, <1>5, <1>6, PdpPut
  <1>8. T = [S EXCEPT !.pdp[p].creating = FALSE]
    BY <1>1, <1>3, <1>5 DEF PutPdp
  <1> HIDE <1>3, <1>5
  <1>9. CASE ~y.used
    <2>1. PICK R : R = [T EXCEPT !.bad = TRUE]  OBVIOUS
    <2>2. create_pdp_conf(S, p, cause) = R
      BY <1>1, <1>8, <1>9, <2>1 DEF create_pdp_conf
    <2>3. PdpMoves(S, R)
      BY <1>4, <1>7, <1>9, <2>1 DEF PdpMoves, SgShape, SgFields
    <2> QED  BY <2>2, <2>3, SessionStarts
  <1>10. CASE y.used /\ cause = "timeout" /\ y.v1
    <2>1. PICK x : x = [y EXCEPT !.v1 = FALSE]  OBVIOUS
    <2>2. PdpShape(x) /\ (x.used /\ x.ti => x.up \/ x.creating)
      BY <1>2, <2>1 DEF PdpShape, PdpFields
    <2>3. create_pdp_conf(S, p, cause) = [S EXCEPT !.pdp[p].v1 = FALSE]
      BY <1>1, <1>10 DEF create_pdp_conf
    <2>4. [S EXCEPT !.pdp[p].v1 = FALSE] = PutPdp(S, p, x)
      BY <1>1, <2>1 DEF PutPdp
    <2> HIDE <2>1
    <2>5. PdpMoves(S, PutPdp(S, p, x))
      BY <2>2, PdpSet
    <2> QED  BY <2>3, <2>4, <2>5, SessionStarts
  <1>11. CASE y.used /\ cause = "accepted"
    <2>1. PICK x : x = [z EXCEPT !.up = TRUE]  OBVIOUS
    <2>2. PdpShape(x) /\ x.used /\ x.up
      BY <1>4, <1>11, <2>1 DEF PdpShape, PdpFields
    <2>3. PICK U : U = PutPdp(T, p, x)  OBVIOUS
    <2>4. U = [T EXCEPT !.pdp[p].up = TRUE]
      BY <1>7, <2>1, <2>3 DEF PutPdp
    <2>5. PdpMoves(T, U) /\ U.pdp[p] = x
      BY <1>7, <2>2, <2>3, PdpPut
    <2> HIDE <2>1, <2>3
    <2>6. PICK V : V = sndcp_sm_activate_ind(U, p)  OBVIOUS
    <2>7. Keeps(U, V)
      BY <2>5, <2>6, SndcpKeeps DEF PdpMoves
    <2>8. Session(S, V) /\ V.pdp[p].used /\ V.pdp[p].up
      BY <1>7, <2>2, <2>5, <2>7 DEF Session, Keeps, PdpMoves, MeansUp
    <2>9. PICK R : R = gsm48_tx_gsm_act_pdp_acc(V, p)  OBVIOUS
    <2>10. Says(V, R, V.pdp[p].mm, "ACT_ACC")
      BY <2>7, <2>9, SendSays DEF gsm48_tx_gsm_act_pdp_acc, Keeps
    <2>11. create_pdp_conf(S, p, cause) = R
      BY <1>1, <1>8, <1>11, <2>4, <2>6, <2>9 DEF create_pdp_conf
    <2>12. Session(S, R)
      BY <2>8, <2>10, SessionSays DEF Accepts
    <2> QED  BY <2>11, <2>12
  <1>12. CASE y.used /\ (cause = "refused" \/ (cause = "timeout" /\ ~y.v1))
    <2>1. PICK U : U = gsm48_tx_gsm_act_pdp_rej(T, y.mm)  OBVIOUS
    <2>2. Says(T, U, y.mm, "ACT_REJ")
      BY <1>7, <2>1, SendSays DEF gsm48_tx_gsm_act_pdp_rej
    <2>3. PICK x : x = [NoPdp EXCEPT !.creating = U.pdp[p].creating, !.dels = U.pdp[p].dels, !.timer = U.pdp[p].timer]
      OBVIOUS
    <2>4. PdpShape(x) /\ ~x.used
      BY <2>3 DEF NoPdp, PdpShape, PdpFields
    <2>5. PICK R : R = PutPdp(U, p, x)  OBVIOUS
    <2>6. R = sgsn_pdp_ctx_free(U, p)
      BY <2>3, <2>5 DEF sgsn_pdp_ctx_free, PutPdp
    <2>7. PdpMoves(U, R)
      BY <1>7, <2>2, <2>4, <2>5, PdpPut DEF Says
    <2>8. create_pdp_conf(S, p, cause) = R
      BY <1>1, <1>8, <1>12, <2>1, <2>6 DEF create_pdp_conf
    <2>9. Session(S, R)
      BY <1>7, <2>2, <2>7 DEF Session, Says, PdpMoves, MeansUp, Accepts
    <2> QED  BY <2>8, <2>9
  <1> QED
    BY <1>9, <1>10, <1>11, <1>12

LEMMA DeleteConfSession ==
  ASSUME NEW S, PdpGood(S), S.out = {}, NEW p \in 1..NumCtx
  PROVE  Session(S, delete_pdp_conf(S, p))
  <1>1. PICK y : y = S.pdp[p]  OBVIOUS
  <1>2. PdpShape(y) /\ (y.used /\ y.ti => y.up \/ y.creating)
    BY <1>1, PdpAt
  <1>3. PICK z : z = [y EXCEPT !.dels = @ - 1]  OBVIOUS
  <1>4. PdpShape(z) /\ (z.used /\ z.ti => z.up \/ z.creating)
    BY <1>2, <1>3 DEF PdpShape, PdpFields
  <1>5. PICK T : T = PutPdp(S, p, z)  OBVIOUS
  <1>6. T = [S EXCEPT !.pdp[p].dels = @ - 1]
    BY <1>1, <1>3, <1>5 DEF PutPdp
  <1>7. PdpMoves(S, T)
    BY <1>4, <1>5, PdpSet
  <1> HIDE <1>3, <1>5
  <1>8. CASE ~y.used
    <2>1. PICK R : R = [T EXCEPT !.bad = TRUE]  OBVIOUS
    <2>2. delete_pdp_conf(S, p) = R
      BY <1>1, <1>6, <1>8, <2>1 DEF delete_pdp_conf
    <2>3. PdpMoves(S, R)
      BY <1>7, <2>1 DEF PdpMoves, SgShape, SgFields
    <2> QED  BY <2>2, <2>3, SessionStarts
  <1>9. CASE y.used
    <2>1. PICK U : U = sndcp_sm_deactivate_ind(T, p)  OBVIOUS
    <2>2. Keeps(T, U)
      BY <1>7, <2>1, SndcpKeeps DEF PdpMoves
    <2>3. PICK V : V = gsm48_tx_gsm_deact_pdp_acc(U, y.mm)  OBVIOUS
    <2>4. Says(U, V, y.mm, "DEACT_ACC")
      BY <2>2, <2>3, SendSays DEF gsm48_tx_gsm_deact_pdp_acc, Keeps
    <2>5. PdpGood(V) /\ V.out = {"DEACT_ACC"} /\ V.ctx = S.ctx /\ V.list = S.list /\ V.ms = S.ms
      BY <1>7, <2>2, <2>4 DEF PdpMoves, Keeps, Says, PdpGood
    <2>6. PICK R : R = sgsn_pdp_ctx_free(V, p)  OBVIOUS
    <2>7. PdpMoves(V, R)
      BY <2>5, <2>6, PdpFreeMoves
    <2>8. delete_pdp_conf(S, p) = R
      BY <1>1, <1>6, <1>9, <2>1, <2>3, <2>6 DEF delete_pdp_conf
    <2>9. Session(S, R)
      BY <2>5, <2>7 DEF Session, PdpMoves, MeansUp, Accepts
    <2> QED  BY <2>8, <2>9
  <1> QED
    BY <1>8, <1>9

LEMMA DeactReqSession ==
  ASSUME NEW S, PdpGood(S), S.out = {}, NEW p \in 1..NumCtx
  PROVE  Session(S, gsm48_tx_gsm_deact_pdp_req(S, p))
  <1>1. PICK T : T = pdpctx_timer_start(S, p)  OBVIOUS
  <1>2. PdpMoves(S, T)
    BY <1>1, PdpTimerStartMoves
  <1>3. Says(T, gsm48_tx_gsm_deact_pdp_req(S, p), S.pdp[p].mm, "DEACT_REQ")
    BY <1>1, <1>2, SendSays DEF gsm48_tx_gsm_deact_pdp_req, PdpMoves
  <1> QED
    BY <1>2, <1>3, SessionStarts, SessionSays DEF Accepts

LEMMA SessionGoesOn ==
  ASSUME NEW S, NEW T, NEW U, PdpMoves(S, T), Session(T, U)
  PROVE  Session(S, U)
  BY DEF PdpMoves, Session

LEMMA PdpTimerSession ==
  ASSUME NEW S, PdpGood(S), S.out = {}, NEW p \in 1..NumCtx
  PROVE  Session(S, pdpctx_timer_cb(S, p))
  <1>1. PICK t : t = [S.pdp[p].timer EXCEPT !.n = @ + 1]  OBVIOUS
  <1>2. PICK T : T = [S EXCEPT !.pdp[p].timer = t]  OBVIOUS
  <1>3. T = [S EXCEPT !.pdp[p].timer.n = @ + 1]
    BY <1>1, <1>2
  <1>4. PdpMoves(S, T)
    BY <1>2, PdpTimerSet
  <1> HIDE <1>1, <1>2
  <1>5. PdpGood(T) /\ T.out = {}
    BY <1>4, MovesGood DEF PdpMoves
  <1>6. CASE ~S.pdp[p].used
    <2>1. PICK U : U = [S EXCEPT !.pdp[p].timer = NoTimer]  OBVIOUS
    <2>2. PdpMoves(S, U)
      BY <2>1, PdpTimerSet
    <2>3. pdpctx_timer_cb(S, p) = [U EXCEPT !.bad = TRUE]
      BY <1>6, <2>1 DEF pdpctx_timer_cb, PdpGood, SgShape, SgFields
    <2> HIDE <2>1
    <2>4. PdpMoves(S, [U EXCEPT !.bad = TRUE])
      BY <2>2 DEF PdpMoves, SgShape, SgFields
    <2> QED  BY <2>3, <2>4, SessionStarts
  <1>7. CASE S.pdp[p].used /\ S.pdp[p].timer.n + 1 >= MaxExp
    <2>1. PICK U : U = [T EXCEPT !.pdp[p].timer = NoTimer]  OBVIOUS
    <2>2. PdpMoves(T, U)
      BY <1>5, <2>1, PdpTimerSet
    <2>3. PdpMoves(U, sgsn_delete_pdp_ctx(U, p))
      BY <2>2, MovesGood, DeleteMoves
    <2>4. pdpctx_timer_cb(S, p) = sgsn_delete_pdp_ctx(U, p)
      BY <1>3, <1>7, <2>1 DEF pdpctx_timer_cb
    <2>5. U.out = {}
      BY <1>5, <2>2 DEF PdpMoves
    <2> QED  BY <1>4, <2>2, <2>3, <2>4, <2>5, SessionStarts, SessionGoesOn
  <1>8. CASE S.pdp[p].used /\ ~(S.pdp[p].timer.n + 1 >= MaxExp)
    <2>1. pdpctx_timer_cb(S, p) = gsm48_tx_gsm_deact_pdp_req(T, p)
      BY <1>3, <1>8 DEF pdpctx_timer_cb
    <2> QED  BY <1>4, <1>5, <2>1, DeactReqSession, SessionGoesOn
  <1> QED
    BY <1>6, <1>7, <1>8

LEMMA DropSession ==
  ASSUME NEW S, PdpGood(S), S.out = {}
  PROVE  Session(S, drop_all_pdp_for_ggsn(S))
  <1>1. PICK all : all = {p \in 1..NumCtx : S.pdp[p].used}  OBVIOUS
  <1>2. PICK p : p = CHOOSE k \in all : TRUE  OBVIOUS
  <1>3. drop_all_pdp_for_ggsn(S) = IF all = {} THEN S
             ELSE IF S.ctx[S.pdp[p].mm].state = "NORMAL" THEN gsm48_tx_gsm_deact_pdp_req(S, p)
             ELSE [sgsn_pdp_ctx_free(S, p) EXCEPT !.bad = TRUE]
    BY <1>1, <1>2 DEF drop_all_pdp_for_ggsn
  <1>4. all # {} => p \in 1..NumCtx
    BY <1>1, <1>2
  <1>5. Session(S, S)
    BY DEF Session, PdpGood, MeansUp
  <1> HIDE <1>1, <1>2
  <1>6. ASSUME all # {} PROVE Session(S, gsm48_tx_gsm_deact_pdp_req(S, p)) /\ Session(S, [sgsn_pdp_ctx_free(S, p) EXCEPT !.bad = TRUE])
    <2>1. PICK T : T = sgsn_pdp_ctx_free(S, p)
      OBVIOUS
    <2>2. Session(S, T)
      BY <1>4, <1>6, <2>1, PdpFreeMoves, SessionStarts
    <2>3. Session(S, [T EXCEPT !.bad = TRUE])
      BY <2>2 DEF Session, SgShape, SgFields, MeansUp
    <2> QED BY <1>4, <1>6, <2>1, <2>3, DeactReqSession
  <1> QED
    BY <1>3, <1>5, <1>6

LEMMA DataSession ==
  ASSUME NEW S, PdpGood(S), S.out = {}, NEW p
  PROVE  Session(S, cb_data_ind(S, p))
  <1>1. PICK st : st = S.ctx[S.pdp[p].mm].state  OBVIOUS
  <1>2. PICK T : T = IF st = "SUSPENDED" THEN [S EXCEPT !.out = @ \cup {"PAGING"}] ELSE S  OBVIOUS
  <1>3. Session(S, T) /\ Session(S, S)
    BY <1>2 DEF Session, PdpGood, SgShape, SgFields, MeansUp, Accepts
  <1>4. PICK t : t = S.ctx[S.pdp[p].mm].tlli  OBVIOUS
  <1>5. Session(S, TxUi(T, t, "DATA"))
    <2>1. Says(T, TxUi(T, t, "DATA"), T.by, "DATA")
      BY <1>3, TxUiSays DEF Session
    <2> QED  BY <1>3, <2>1, SessionSays DEF Accepts
  <1>6. Session(S, [T EXCEPT !.bad = TRUE])
    BY <1>3 DEF Session, SgShape, SgFields, MeansUp
  <1>7. cb_data_ind(S, p) \in {S, T, TxUi(T, t, "DATA"), [T EXCEPT !.bad = TRUE]}
    BY <1>1, <1>2, <1>4 DEF cb_data_ind
  <1> QED
    BY <1>3, <1>5, <1>6, <1>7

\* Requests of the MS.
LEMMA PdpsOfPdp ==
  ASSUME NEW S, NEW c
  PROVE  /\ PdpsOf(S, c) # {} => (CHOOSE p \in PdpsOf(S, c) : TRUE) \in PdpsOf(S, c)
         /\ TiPdps(S, c) # {} => (CHOOSE p \in TiPdps(S, c) : TRUE) \in TiPdps(S, c)
         /\ TiPdps(S, c) \subseteq PdpsOf(S, c) /\ PdpsOf(S, c) \subseteq 1..NumCtx
  BY DEF PdpsOf, TiPdps

LEMMA CreateMoves ==
  ASSUME NEW S, PdpGood(S), NEW c, NEW ok \in BOOLEAN
  PROVE  PdpMoves(S, sgsn_create_pdp_ctx(S, c, ok))
  <1>1. PdpMoves(S, [S EXCEPT !.full = TRUE])
    BY DEF PdpGood, PdpMoves, SgShape, SgFields
  <1>2. ASSUME FreePdps(S) # {} PROVE PdpMoves(S, sgsn_create_pdp_ctx(S, c, ok))
    <2>1. PICK p : p = Min(FreePdps(S))  OBVIOUS
    <2>2. p \in 1..NumCtx
      <3>1. FreePdps(S) \in SUBSET Nat /\ FreePdps(S) \subseteq 1..NumCtx  BY DEF FreePdps
      <3> QED  BY <1>2, <2>1, <3>1, LeastIsIn
    <2>3. PICK x : x = [NoPdp EXCEPT !.used = TRUE, !.mm = c, !.lib = ok, !.creating = ok, !.ti = ok]  OBVIOUS
    <2>4. PdpShape(x) /\ (x.used /\ x.ti => x.up \/ x.creating)
      BY <2>3 DEF NoPdp, PdpShape, PdpFields
    <2>5. sgsn_create_pdp_ctx(S, c, ok) = PutPdp(S, p, x)
      BY <1>2, <2>1, <2>3 DEF sgsn_create_pdp_ctx, PutPdp
    <2> HIDE <2>1, <2>3
    <2> QED  BY <2>2, <2>4, <2>5, PdpSet
  <1> QED
    BY <1>1, <1>2 DEF sgsn_create_pdp_ctx

\* A repeated request is accepted for a PDP context the GGSN has confirmed, if it has answered all it was asked.
LEMMA ActSession ==
  ASSUME NEW S, PdpGood(S), S.out = {}, NEW c, NEW ok \in BOOLEAN, NEW T, T = gsm48_rx_gsm_act_pdp_req(S, c, ok)
  PROVE  /\ SgShape(T) /\ T.ctx = S.ctx /\ T.list = S.list /\ T.ms = S.ms /\ PdpsFine(T.pdp)
         /\ T.out \cap Accepts = {}
         /\ (\A p \in 1..NumCtx : ~S.pdp[p].creating) => MeansUp(T)
  <1>1. PICK p : p = CHOOSE k \in PdpsOf(S, c) : TRUE  OBVIOUS
  <1>2. T = IF PdpsOf(S, c) = {} THEN sgsn_create_pdp_ctx(S, c, ok)
            ELSE IF S.pdp[p].ti THEN gsm48_tx_gsm_act_pdp_acc(S, p) ELSE gsm48_tx_gsm_act_pdp_rej(S, c)
    BY <1>1 DEF gsm48_rx_gsm_act_pdp_req
  <1>3. CASE PdpsOf(S, c) = {}
    <2>1. Session(S, T)
      BY <1>2, <1>3, CreateMoves, SessionStarts
    <2> QED  BY <2>1 DEF Session
  <1>4. CASE PdpsOf(S, c) # {} /\ S.pdp[p].ti
    <2>1. p \in 1..NumCtx /\ S.pdp[p].used
      <3>1. p \in PdpsOf(S, c)
        BY <1>1, <1>4, PdpsOfPdp
      <3> QED  BY <3>1 DEF PdpsOf
    <2>2. S.pdp[p].up \/ S.pdp[p].creating
      BY <1>4, <2>1, PdpAt
    <2>3. Says(S, T, S.pdp[p].mm, "ACT_ACC")
      BY <1>2, <1>4, SendSays DEF gsm48_tx_gsm_act_pdp_acc, PdpGood
    <2> QED
      BY <2>1, <2>2, <2>3 DEF Says, PdpGood, MeansUp, Accepts
  <1>5. CASE PdpsOf(S, c) # {} /\ ~S.pdp[p].ti
    <2>1. Says(S, T, c, "ACT_REJ")
      BY <1>2, <1>5, SendSays DEF gsm48_tx_gsm_act_pdp_rej, PdpGood
    <2> QED
      BY <2>1 DEF Says, PdpGood, MeansUp, Accepts
  <1> QED
    BY <1>3, <1>4, <1>5

LEMMA DeactSession ==
  ASSUME NEW S, PdpGood(S), S.out = {}, NEW c
  PROVE  Session(S, gsm48_rx_gsm_deact_pdp_req(S, c)) /\ Session(S, gsm48_rx_gsm_deact_pdp_ack(S, c))
  <1>1. PICK p : p = CHOOSE k \in TiPdps(S, c) : TRUE  OBVIOUS
  <1>2. TiPdps(S, c) # {} => p \in 1..NumCtx
    BY <1>1, PdpsOfPdp
  <1>3. Session(S, S)
    BY DEF Session, PdpGood, MeansUp
  <1>4. Session(S, gsm48_tx_gsm_deact_pdp_acc(S, c))
    <2>1. Says(S, gsm48_tx_gsm_deact_pdp_acc(S, c), c, "DEACT_ACC")
      BY SendSays DEF gsm48_tx_gsm_deact_pdp_acc, PdpGood
    <2> QED  BY <1>3, <2>1, SessionSays DEF Accepts
  <1>5. ASSUME TiPdps(S, c) # {} PROVE Session(S, sgsn_delete_pdp_ctx(S, p))
    BY <1>2, <1>5, DeleteMoves, SessionStarts
  <1> QED
    BY <1>1, <1>3, <1>4, <1>5 DEF gsm48_rx_gsm_deact_pdp_req, gsm48_rx_gsm_deact_pdp_ack

-----------------------------------------------------------------------------
(* Steps *)

\* The invariant holds again, and who is told that the PDP context is active is told the truth.
Step == SgInv' /\ (SgHas("slow_ggsn") \/ MeansUp(sg'))

LEMMA BecomesStep ==
  ASSUME NEW S, SgFine(S), Speaks(S), SgBecomes(S), SgHas("slow_ggsn") \/ MeansUp(S)
  PROVE  Step
  <1>1. /\ SgInv' /\ sg'.ctx = S.ctx /\ sg'.pdp = S.pdp /\ sg'.out = S.out \cap {"ACT_ACC"}
    BY Becomes
  <1>2. MeansUp(S) => MeansUp(sg')
    BY <1>1 DEF MeansUp
  <1> QED
    BY <1>1, <1>2 DEF Step

LEMMA SessionStep ==
  ASSUME NEW S, SgFine(S), NEW T, Session(S, T), SgBecomes(T)
  PROVE  Step
  <1>1. SgFine(T)
    BY DEF Session, SgFine
  <1>2. Speaks(T)
    BY DEF Session, Speaks, Accepts
  <1>3. MeansUp(T)
    BY DEF Session
  <1> QED
    BY <1>1, <1>2, <1>3, BecomesStep

LEMMA Now ==
  ASSUME SgInv
  PROVE  /\ SgFine(SgNow) /\ PdpGood(SgNow) /\ SgNow.out = {} /\ SgNow.ms = sg.ms /\ SgNow.ctx = sg.ctx
         /\ SgNow.list = sg.list /\ SgNow.pdp = sg.pdp
  <1>1. /\ SgShape(SgNow) /\ SgNow.out = {} /\ SgNow.ms = sg.ms /\ SgNow.ctx = sg.ctx
        /\ SgNow.list = sg.list /\ SgNow.pdp = sg.pdp
    BY DEF SgNow, SgInv, SgFine, SgShape, SgFields
  <1> QED
    BY <1>1 DEF SgInv, SgFine, PdpGood

LEMMA FineGood == ASSUME NEW S, SgFine(S) PROVE PdpGood(S)
  BY DEF SgFine, PdpGood

LEMMA PdpTimerStep == ASSUME SgInv, NEW p \in 1..NumCtx, PdpTimer(p) PROVE Step
  BY Now, PdpTimerSession, SessionStep DEF PdpTimer

LEMMA CreateConfStep ==
  ASSUME SgInv, NEW p \in 1..NumCtx, NEW cause \in {"accepted", "refused", "timeout"}, CreateConf(p, cause)
  PROVE  Step
  BY Now, CreateConfSession, SessionStep DEF CreateConf

LEMMA DeleteConfStep == ASSUME SgInv, NEW p \in 1..NumCtx, DeleteConf(p) PROVE Step
  BY Now, DeleteConfSession, SessionStep DEF DeleteConf

LEMMA DataStep == ASSUME SgInv, NEW p \in 1..NumCtx, GgsnData(p) PROVE Step
  BY Now, DataSession, SessionStep DEF GgsnData

LEMMA RestartStep == ASSUME SgInv, GgsnRestarts PROVE Step
  BY Now, DropSession, SessionStep DEF GgsnRestarts

\* The MS has changed its mind.
WithMs(S, m) == [S EXCEPT !.ms = m]
LEMMA MsPut ==
  ASSUME NEW S, SgFine(S), NEW m, MsFine(m, S.ctx), NEW T, T = WithMs(S, m)
  PROVE  SgFine(T) /\ T.ms = m /\ T.ctx = S.ctx /\ T.list = S.list /\ T.pdp = S.pdp /\ T.by = S.by /\ T.out = S.out
  <1>1. SgShape(T) /\ T.ms = m /\ T.ctx = S.ctx /\ T.list = S.list /\ T.pdp = S.pdp /\ T.by = S.by /\ T.out = S.out
    BY DEF WithMs, SgFine, SgShape, SgFields
  <1> QED
    BY <1>1 DEF SgFine

LEMMA AwayStep == ASSUME SgInv, NEW p, MsAway(p) PROVE Step
  <1>1. PICK ra : SgBecomes([SgNow EXCEPT !.ms.ptmsi = p, !.ms.ra = ra]) /\ sg.ms.st = "off"
    BY DEF MsAway
  <1>2. PICK m : m = [sg.ms EXCEPT !.ptmsi = p, !.ra = ra]  OBVIOUS
  <1>3. MsFine(sg.ms, sg.ctx)
    BY DEF SgInv, SgFine
  <1>4. MsShape(m) /\ m.st = "off" /\ m.owes = {}
    BY <1>1, <1>2, <1>3 DEF MsFine, MsShape
  <1>5. MsFine(m, sg.ctx)
    BY <1>4 DEF MsFine, Registered
  <1>6. [SgNow EXCEPT !.ms.ptmsi = p, !.ms.ra = ra] = WithMs(SgNow, m)
    BY <1>2, Now DEF WithMs, SgFine, SgShape, SgFields
  <1>7. PICK T : T = WithMs(SgNow, m)  OBVIOUS
  <1>8. SgFine(T) /\ T.out = {}
    BY <1>5, <1>7, Now, MsPut
  <1>9. SgBecomes(T)
    BY <1>1, <1>6, <1>7
  <1> QED
    BY <1>8, <1>9, BecomesStep DEF Speaks, MeansUp

\* A context turns, and the state stays good.
LEMMA TurnFine ==
  ASSUME NEW S, SgFine(S), NEW c \in 1..NumCtx, S.ctx[c].used, NEW x, Fits(S.ctx, c, x), NEW T, Turns(S, T, c, x),
         Registered(S.ms) => ~Common(x) \/ (~Named(x, S.ms.ptmsi) /\ Common(S.ctx[c]))
  PROVE  SgFine(T) /\ T.ctx[c] = x
  <1>1. CtxsFine(S.ctx, S.list) /\ MsFine(S.ms, S.ctx)
    BY DEF SgFine
  <1>2. T.ctx = Put(S.ctx, c, x) /\ T.list = S.list /\ T.ms = S.ms /\ T.pdp = S.pdp /\ SgShape(T)
    BY DEF Turns
  <1>3. CtxsFine(T.ctx, T.list)
    BY <1>1, <1>2, CtxMoves
  <1>4. CtxShape(x)
    BY DEF Fits
  <1>5. MsFine(T.ms, T.ctx)
    BY <1>1, <1>2, <1>4, MsStays
  <1>6. T.ctx[c] = x
    BY <1>1, <1>2, <1>4, CtxAt, CtxSet
  <1> QED
    BY <1>2, <1>3, <1>5, <1>6 DEF SgFine

SetState(S, c, st) == [S EXCEPT !.ctx[c].state = st]
LEMMA StateTurns ==
  ASSUME NEW S, SgShape(S), NEW c \in 1..NumCtx, CtxShape(S.ctx[c]), NEW st
  PROVE  \E x : /\ Turns(S, SetState(S, c, st), c, x) /\ CtxShape(x) /\ Alike(x, S.ctx[c])
                /\ x.timer = S.ctx[c].timer /\ x.mode = S.ctx[c].mode /\ x.state = st /\ x.id = S.ctx[c].id
  <1>1. PICK y : y = S.ctx[c]  OBVIOUS
  <1>2. PICK x : x = [y EXCEPT !.state = st]  OBVIOUS
  <1>3. CtxShape(x) /\ Alike(x, y) /\ x.timer = y.timer /\ x.mode = y.mode /\ x.state = st /\ x.id = y.id
    BY <1>1, <1>2 DEF CtxShape, CtxFields, Alike
  <1>4. SetState(S, c, st) = [S EXCEPT !.ctx[c] = x]
    BY <1>1, <1>2 DEF SetState
  <1>5. Turns(S, SetState(S, c, st), c, x)
    BY <1>4, PutTurns
  <1> QED
    BY <1>1, <1>3, <1>5

\* Out of the common procedure, a context may go to any other state.
LEMMA StateFine ==
  ASSUME NEW S, SgFine(S), NEW c \in 1..NumCtx, S.ctx[c].used, S.ctx[c].state # "COMMON_PROC_INIT",
         NEW st, st # "COMMON_PROC_INIT", NEW T, T = SetState(S, c, st)
  PROVE  SgFine(T) /\ T.ms = S.ms /\ T.pdp = S.pdp /\ T.out = S.out /\ T.list = S.list /\ T.by = S.by
  <1>1. CtxsFine(S.ctx, S.list) /\ CtxShape(S.ctx[c]) /\ Timed(S.ctx[c]) /\ SgShape(S)
    BY CtxAt DEF SgFine
  <1>2. PICK x : /\ Turns(S, T, c, x) /\ CtxShape(x) /\ Alike(x, S.ctx[c])
                 /\ x.timer = S.ctx[c].timer /\ x.mode = S.ctx[c].mode /\ x.state = st /\ x.id = S.ctx[c].id
    BY <1>1, StateTurns
  <1>3. Timed(x)
    BY <1>1, <1>2 DEF Timed
  <1>4. Fits(S.ctx, c, x)
    BY <1>1, <1>2, <1>3, StillFits DEF Alike
  <1>5. SgFine(T)
    BY <1>2, <1>4, TurnFine DEF Common
  <1> QED
    BY <1>2, <1>5 DEF Turns

LEMMA SuspendStep == ASSUME SgInv, Suspend \/ Resume PROVE Step
  <1>1. PICK c : c = sgsn_mm_ctx_by_tlli(sg, sg.ms.tlli, sg.ms.ra)  OBVIOUS
  <1>2. c = 0 \/ (c \in 1..NumCtx /\ sg.ctx[c].used)
    BY <1>1, ByTlli DEF SgInv, SgFine
  <1>3. PICK T \in {gprs_gmm_rx_suspend(SgNow, c), gprs_gmm_rx_resume(SgNow, c)} : SgBecomes(T)
    BY <1>1 DEF Suspend, Resume
  <1>4. SgFine(T) /\ T.out = {}
    <2>1. CASE T = SgNow
      BY <2>1, Now
    <2>2. CASE T # SgNow
      <3>1. PICK st \in {"NORMAL", "SUSPENDED"} : /\ c # 0 /\ SgNow.ctx[c].state \in {"NORMAL", "SUSPENDED"}
                                                  /\ T = SetState(SgNow, c, st)
        BY <1>3, <2>2 DEF gprs_gmm_rx_suspend, gprs_gmm_rx_resume, SetState
      <3>2. SgFine(T) /\ T.out = SgNow.out
        BY <1>2, <3>1, Now, StateFine
      <3> QED  BY <3>2, Now
    <2> QED  BY <2>1, <2>2
  <1> QED
    BY <1>3, <1>4, BecomesStep DEF Speaks, MeansUp

\* The state and the context of a message of the MS.
Found(e) ==
    /\ SgFine(e.S) /\ e.S.ms = sg.ms /\ e.S.pdp = sg.pdp /\ e.S.out = {}
    /\ \/ e.c = 0
       \/ /\ e.c \in 1..NumCtx /\ e.S.ctx[e.c].used
          /\ Registered(sg.ms) => e.S.ctx[e.c].state # "COMMON_PROC_INIT"

LEMMA RxNow ==
  ASSUME SgInv, NEW e, e = RxState(SgNow, sg.ms.tlli, sg.ms.ra)
  PROVE  Found(e)
  <1>1. SgFine(SgNow) /\ SgNow.out = {} /\ SgNow.ms = sg.ms /\ SgNow.pdp = sg.pdp
    BY Now
  <1>2. Registered(SgNow.ms) => sg.ms.tlli \in {Local(SgNow.ms.ptmsi), Foreign(SgNow.ms.ptmsi)}
    BY <1>1 DEF SgInv, SgFine, MsFine
  <1> QED
    BY <1>1, <1>2, RxFine DEF Found

LEMMA StatusStep ==
  ASSUME NEW e, Found(e), NEW t, SgBecomes(gsm48_tx_gmm_status_oldmsg(e.S, t))
  PROVE  Step
  <1>1. PICK T : T = gsm48_tx_gmm_status_oldmsg(e.S, t)  OBVIOUS
  <1>2. Says(e.S, T, e.S.by, "GMM_STATUS")
    BY <1>1, TxUiSays DEF gsm48_tx_gmm_status_oldmsg, Found, SgFine
  <1>3. Session(e.S, e.S)
    BY DEF Session, Found, SgFine, MeansUp
  <1>4. Session(e.S, T)
    BY <1>2, <1>3, SessionSays DEF Accepts
  <1> QED
    BY <1>1, <1>4, SessionStep DEF Found

LEMMA ActStep == ASSUME SgInv, NEW ok \in BOOLEAN, ActPdpReq(ok) PROVE Step
  <1>1. PICK e : e = RxState(SgNow, sg.ms.tlli, sg.ms.ra)  OBVIOUS
  <1>2. Found(e)
    BY <1>1, RxNow
  <1>3. SgBecomes(IF e.c = 0 THEN gsm48_tx_gmm_status_oldmsg(e.S, sg.ms.tlli)
                  ELSE gsm48_rx_gsm_act_pdp_req([e.S EXCEPT !.ms.pdp = "act"], e.c, ok))
    BY <1>1 DEF ActPdpReq, FromMs
  <1>4. Unanswered => SgHas("slow_ggsn")
    BY DEF ActPdpReq
  <1> HIDE <1>1
  <1>5. CASE e.c = 0
    BY <1>2, <1>3, <1>5, StatusStep
  <1>6. CASE e.c # 0
    <2>1. PICK m : m = [e.S.ms EXCEPT !.pdp = "act"]  OBVIOUS
    <2>2. PICK S : S = WithMs(e.S, m)  OBVIOUS
    <2>3. S = [e.S EXCEPT !.ms.pdp = "act"]
      BY <2>1, <2>2 DEF WithMs
    <2>0. MsFine(m, e.S.ctx)
      <3>1. MsFine(e.S.ms, e.S.ctx)
        BY <1>2 DEF Found, SgFine
      <3>2. MsFine([e.S.ms EXCEPT !.pdp = "act"], e.S.ctx)
        BY <3>1, MsPdp
      <3> QED  BY <2>1, <3>2
    <2>4. SgFine(S) /\ S.pdp = sg.pdp /\ S.out = {}
      BY <1>2, <2>0, <2>2, MsPut DEF Found
    <2>5. PICK T : T = gsm48_rx_gsm_act_pdp_req(S, e.c, ok)  OBVIOUS
    <2>6. /\ SgShape(T) /\ T.ctx = S.ctx /\ T.list = S.list /\ T.ms = S.ms /\ PdpsFine(T.pdp)
          /\ T.out \cap Accepts = {}
          /\ (\A p \in 1..NumCtx : ~S.pdp[p].creating) => MeansUp(T)
      BY <2>4, <2>5, FineGood, ActSession
    <2>7. SgFine(T) /\ Speaks(T)
      BY <2>4, <2>6 DEF SgFine, Speaks, Accepts
    <2>8. SgHas("slow_ggsn") \/ MeansUp(T)
      BY <1>4, <2>4, <2>6 DEF Unanswered
    <2>9. SgBecomes(T)
      BY <1>3, <1>6, <2>3, <2>5
    <2> QED
      BY <2>7, <2>8, <2>9, BecomesStep
  <1> QED
    BY <1>5, <1>6

LEMMA DeactStep == ASSUME SgInv, DeactPdpReq PROVE Step
  <1>1. PICK e : e = RxState(SgNow, sg.ms.tlli, sg.ms.ra)  OBVIOUS
  <1>2. Found(e)
    BY <1>1, RxNow
  <1>3. SgBecomes(IF e.c = 0 THEN gsm48_tx_gmm_status_oldmsg(e.S, sg.ms.tlli)
                  ELSE gsm48_rx_gsm_deact_pdp_req([e.S EXCEPT !.ms.pdp = "deact"], e.c))
    BY <1>1 DEF DeactPdpReq, FromMs
  <1> HIDE <1>1
  <1>5. CASE e.c = 0
    BY <1>2, <1>3, <1>5, StatusStep
  <1>6. CASE e.c # 0
    <2>1. PICK m : m = [e.S.ms EXCEPT !.pdp = "deact"]  OBVIOUS
    <2>2. PICK S : S = WithMs(e.S, m)  OBVIOUS
    <2>3. S = [e.S EXCEPT !.ms.pdp = "deact"]
      BY <2>1, <2>2 DEF WithMs
    <2>0. MsFine(m, e.S.ctx)
      <3>1. MsFine(e.S.ms, e.S.ctx)
        BY <1>2 DEF Found, SgFine
      <3>2. MsFine([e.S.ms EXCEPT !.pdp = "deact"], e.S.ctx)
        BY <3>1, MsPdp
      <3> QED  BY <2>1, <3>2
    <2>4. SgFine(S) /\ S.out = {}
      BY <1>2, <2>0, <2>2, MsPut DEF Found
    <2>5. Session(S, gsm48_rx_gsm_deact_pdp_req(S, e.c))
      BY <2>4, FineGood, DeactSession
    <2> QED
      BY <1>3, <1>6, <2>3, <2>4, <2>5, SessionStep
  <1> QED
    BY <1>5, <1>6

\* A debt less.
LEMMA PaidFine ==
  ASSUME NEW S, SgFine(S), NEW debt, NEW T, T = Paid(S, debt)
  PROVE  SgFine(T) /\ T.ctx = S.ctx /\ T.list = S.list /\ T.pdp = S.pdp /\ T.by = S.by /\ T.out = S.out
         /\ T.ms.st = S.ms.st /\ T.ms.ptmsi = S.ms.ptmsi /\ T.ms.tlli = S.ms.tlli
  <1>1. PICK m : m = [S.ms EXCEPT !.owes = @ \ {debt}]  OBVIOUS
  <1>2. MsFine(S.ms, S.ctx)
    BY DEF SgFine
  <1>3. MsShape(m) /\ m.st = S.ms.st /\ m.ptmsi = S.ms.ptmsi /\ m.tlli = S.ms.tlli /\ m.owes = S.ms.owes \ {debt}
    BY <1>1, <1>2 DEF MsFine, MsShape
  <1>4. MsFine(m, S.ctx)
    BY <1>2, <1>3 DEF MsFine, Registered
  <1>5. T = WithMs(S, m)
    BY <1>1 DEF Paid, WithMs
  <1> HIDE <1>1
  <1> QED
    BY <1>3, <1>4, <1>5, MsPut

LEMMA DeactAckStep == ASSUME SgInv, DeactPdpAck PROVE Step
  <1>1. PICK e : e = RxState(SgNow, sg.ms.tlli, sg.ms.ra)  OBVIOUS
  <1>2. Found(e)
    BY <1>1, RxNow
  <1>3. SgBecomes(IF e.c = 0 THEN gsm48_tx_gmm_status_oldmsg(e.S, sg.ms.tlli)
                  ELSE gsm48_rx_gsm_deact_pdp_ack(Paid(e.S, "DEACT_ACK"), e.c))
    BY <1>1 DEF DeactPdpAck, FromMs
  <1> HIDE <1>1
  <1>5. CASE e.c = 0
    BY <1>2, <1>3, <1>5, StatusStep
  <1>6. CASE e.c # 0
    <2>1. PICK S : S = Paid(e.S, "DEACT_ACK")  OBVIOUS
    <2>2. SgFine(S) /\ S.out = {}
      BY <1>2, <2>1, PaidFine DEF Found
    <2>3. Session(S, gsm48_rx_gsm_deact_pdp_ack(S, e.c))
      BY <2>2, FineGood, DeactSession
    <2> QED
      BY <1>3, <1>6, <2>1, <2>2, <2>3, SessionStep
  <1> QED
    BY <1>5, <1>6

LEMMA DetachStep == ASSUME SgInv, DetachReq PROVE Step
  <1>1. PICK e : e = RxState(SgNow, sg.ms.tlli, sg.ms.ra)  OBVIOUS
  <1>2. Found(e)
    BY <1>1, RxNow
  <1>3. SgBecomes(IF e.c = 0 THEN gsm48_tx_gmm_status_oldmsg(e.S, sg.ms.tlli)
                  ELSE gsm48_rx_gmm_det_req([e.S EXCEPT !.ms.st = "detaching"], e.c))
    BY <1>1 DEF DetachReq, FromMs
  <1>4. Registered(sg.ms)
    BY DEF DetachReq, Settled, Registered
  <1> HIDE <1>1
  <1>5. CASE e.c = 0
    BY <1>2, <1>3, <1>5, StatusStep
  <1>6. CASE e.c # 0
    <2>1. PICK m : m = [e.S.ms EXCEPT !.st = "detaching"]  OBVIOUS
    <2>2. PICK S : S = WithMs(e.S, m)  OBVIOUS
    <2>3. S = [e.S EXCEPT !.ms.st = "detaching"]
      BY <2>1, <2>2 DEF WithMs
    <2>4. MsFine(m, e.S.ctx)
      <3>1. MsFine(e.S.ms, e.S.ctx) /\ Registered(e.S.ms)
        BY <1>2, <1>4 DEF Found, SgFine
      <3>2. MsShape(m) /\ m.st = "detaching" /\ m.tlli = e.S.ms.tlli /\ m.ptmsi = e.S.ms.ptmsi /\ m.owes = e.S.ms.owes
        BY <2>1, <3>1 DEF MsFine, MsShape
      <3> QED  BY <3>1, <3>2 DEF MsFine, Registered
    <2>5. SgFine(S) /\ S.out = {} /\ S.ctx = e.S.ctx
      BY <1>2, <2>2, <2>4, MsPut DEF Found
    <2>6. e.c \in 1..NumCtx /\ S.ctx[e.c].used /\ S.ctx[e.c].state # "COMMON_PROC_INIT"
      BY <1>2, <1>4, <1>6, <2>5 DEF Found
    <2>7. PICK c : c = e.c  OBVIOUS
    <2> HIDE <2>1, <2>2
    <2>8. PICK A : A = SetState(S, c, "DEREGISTERED")  OBVIOUS
    <2>9. SgFine(A) /\ A.out = {}
      BY <2>5, <2>6, <2>7, <2>8, StateFine
    <2>10. PICK B : B = DeleteAll(A, c)  OBVIOUS
    <2>11. PdpMoves(A, B)
      BY <2>9, <2>10, FineGood, DeleteAllMoves
    <2>12. PICK D : D = gsm48_tx_gmm_det_ack(B, c)  OBVIOUS
    <2>13. Says(B, D, c, "DET_ACK")
      BY <2>11, <2>12, SendSays DEF gsm48_tx_gmm_det_ack, PdpMoves
    <2>14. Session(A, D)
      BY <2>9, <2>11, <2>13, SessionStarts, SessionSays DEF Accepts
    <2>15. PICK R : R = gprs_llgmm_assign(D, D.ctx[c].llme, D.ctx[c].tlli, None)  OBVIOUS
    <2>16. Keeps(D, R)
      BY <2>14, <2>15, AssignKeeps DEF Session
    <2>17. Session(A, R)
      BY <2>14, <2>16 DEF Session, Keeps, MeansUp
    <2>18. gsm48_rx_gmm_det_req(S, c) = R
      BY <2>8, <2>10, <2>12, <2>15 DEF gsm48_rx_gmm_det_req, SetState
    <2>19. SgBecomes(R)
      BY <1>3, <1>6, <2>3, <2>7, <2>18
    <2> QED
      BY <2>9, <2>17, <2>19, SessionStep
  <1> QED
    BY <1>5, <1>6

LEMMA TurnsOn ==
  ASSUME NEW S, CtxShapes(S.ctx), NEW T, NEW U, NEW c \in 1..NumCtx, NEW x, NEW y, Turns(S, T, c, x), Turns(T, U, c, y)
  PROVE  Turns(S, U, c, y)
  <1>1. U.ctx = Put(S.ctx, c, y)
    BY PutPut DEF Turns
  <1> QED
    BY <1>1 DEF Turns

LEMMA QuietStep ==
  ASSUME NEW S, SgFine(S), S.out = {}, SgBecomes(S)
  PROVE  Step
  BY BecomesStep DEF Speaks, MeansUp

LEMMA CompleteStep == ASSUME SgInv, NEW what \in {"ATT_COMPL", "RAU_COMPL"}, Complete(what) PROVE Step
  <1>1. PICK e : e = RxState(SgNow, sg.ms.tlli, sg.ms.ra)  OBVIOUS
  <1>2. Found(e)
    BY <1>1, RxNow
  <1>3. SgBecomes(IF e.c = 0 THEN gsm48_tx_gmm_status_oldmsg(e.S, sg.ms.tlli)
                  ELSE RxComplete(Paid(e.S, what), e.c))
    BY <1>1 DEF Complete, FromMs
  <1>4. Registered(sg.ms)
    BY DEF Complete, SgInv, SgFine, MsFine, Registered
  <1> HIDE <1>1
  <1>5. CASE e.c = 0
    BY <1>2, <1>3, <1>5, StatusStep
  <1>6. CASE e.c # 0
    <2>1. PICK S : S = Paid(e.S, what)  OBVIOUS
    <2>2. SgFine(S) /\ S.out = {} /\ S.ctx = e.S.ctx
      BY <1>2, <2>1, PaidFine DEF Found
    <2>3. PICK c \in 1..NumCtx : c = e.c /\ S.ctx[c].used /\ S.ctx[c].state # "COMMON_PROC_INIT"
      BY <1>2, <1>4, <1>6, <2>2 DEF Found
    <2>4. CtxsFine(S.ctx, S.list) /\ SgShape(S) /\ CtxShapes(S.ctx) /\ CtxShape(S.ctx[c]) /\ Timed(S.ctx[c])
      BY <2>2, <2>3, CtxAt DEF SgFine
    <2>5. PICK A : A = mmctx_timer_stop(S, c)  OBVIOUS
    <2>6. PICK y : /\ Turns(S, A, c, y) /\ CtxShape(y) /\ Alike(y, S.ctx[c]) /\ y.timer = NoTimer
                   /\ y.mode = S.ctx[c].mode /\ y.state = S.ctx[c].state
      BY <2>4, <2>5, TimerTurns, StoppedTimer DEF mmctx_timer_stop
    <2>7. A.ctx[c] = y /\ SgShape(A)
      BY <2>4, <2>6, CtxSet DEF Turns
    <2>8. PICK x : x = [y EXCEPT !.old = 0, !.tlli = S.ctx[c].new]  OBVIOUS
    <2>9. /\ CtxShape(x) /\ x.used = y.used /\ x.imsi = y.imsi /\ x.ptmsi = y.ptmsi /\ x.old = 0 /\ x.new = y.new
          /\ x.timer = y.timer /\ x.mode = y.mode /\ x.state = y.state /\ x.tlli = S.ctx[c].new
      BY <2>6, <2>8 DEF CtxShape, CtxFields
    <2>10. PICK T : T = [A EXCEPT !.ctx[c] = x]  OBVIOUS
    <2>11. Turns(A, T, c, x)
      BY <2>7, <2>10, PutTurns
    <2>12. Turns(S, T, c, x)
      BY <2>4, <2>6, <2>11, TurnsOn
    <2>13. Timed(x)
      BY <2>3, <2>4, <2>6, <2>9, StoppedTimer DEF Timed
    <2>14. Fits(S.ctx, c, x)
      BY <2>3, <2>4, <2>6, <2>9, <2>13, StillFits DEF Alike
    <2>15. SgFine(T) /\ T.ctx[c] = x
      BY <2>2, <2>3, <2>6, <2>9, <2>12, <2>14, TurnFine DEF Common
    <2>16. PICK R : R = gprs_llgmm_assign(T, T.ctx[c].llme, None, T.ctx[c].new)  OBVIOUS
    <2>17. Keeps(T, R)
      BY <2>15, <2>16, AssignKeeps DEF SgFine
    <2>18. RxComplete(S, c) = R
      BY <2>5, <2>7, <2>8, <2>10, <2>16 DEF RxComplete
    <2>19. SgBecomes(R)
      BY <1>3, <1>6, <2>1, <2>3, <2>18
    <2>20. SgFine(R) /\ R.out = {}
      BY <2>2, <2>12, <2>15, <2>17 DEF SgFine, Keeps, Turns
    <2> HIDE <2>18
    <2> QED
      BY <2>19, <2>20, QuietStep
  <1> QED
    BY <1>5, <1>6

\* A message of context c, which may accept the MS or ask for its identity.
LEMMA SaysStep ==
  ASSUME NEW S, SgFine(S), S.out = {}, NEW c \in 1..NumCtx, S.ctx[c].used, NEW msg, msg # "ACT_ACC",
         msg \in {"ATT_ACK", "RAU_ACK"} => S.ctx[c].state # "COMMON_PROC_INIT",
         msg = "ID_REQ" => S.ctx[c].state = "COMMON_PROC_INIT",
         NEW T, Says(S, T, c, msg), SgBecomes(T)
  PROVE  Step
  <1>1. SgFine(T)
    BY DEF SgFine, Says
  <1>2. Speaks(T) /\ MeansUp(T)
    BY DEF Speaks, MeansUp, Says, Common
  <1> QED
    BY <1>1, <1>2, BecomesStep

\* A timer that was left running when its context went.
LEMMA StrayTimerFine ==
  ASSUME NEW S, SgFine(S), S.out = {}, NEW c \in 1..NumCtx, ~S.ctx[c].used, NEW A, A = mmctx_timer_stop(S, c)
  PROVE  SgFine(A) /\ A.out = {}
  <1>3. CtxsFine(S.ctx, S.list) /\ MsFine(S.ms, S.ctx) /\ SgShape(S) /\ CtxShapes(S.ctx) /\ CtxShape(S.ctx[c])
    BY CtxAt DEF SgFine
  <1>2. PICK x : Turns(S, A, c, x) /\ CtxShape(x) /\ Alike(x, S.ctx[c])
    BY <1>3, TimerTurns, StoppedTimer DEF mmctx_timer_stop
  <1>6. CtxShapes(A.ctx) /\ \A d \in 1..NumCtx : A.ctx[d] = IF d = c THEN x ELSE S.ctx[d]
    BY <1>3, <1>2, CtxSet DEF Turns
  <1>7. ~x.used
    BY <1>2 DEF Alike
  <1>8. OneImsi(A.ctx) /\ Apart(A.ctx) /\ \A d \in 1..NumCtx : A.ctx[d].used => Own(A.ctx[d]) /\ Timed(A.ctx[d])
    BY <1>3, <1>6, <1>7 DEF CtxsFine, OneImsi, Apart
  <1>9. Listed(A.ctx, S.list)
    <2>1. S.list \in Seq(1..NumCtx) /\ \A i \in DOMAIN S.list : S.list[i] \in 1..NumCtx
      BY <1>3, SeqElements DEF CtxsFine, Listed
    <2>2. \A i \in DOMAIN S.list : S.list[i] # c
      BY <1>3 DEF CtxsFine, Listed
    <2>3. \A i \in DOMAIN S.list : A.ctx[S.list[i]].used
      BY <1>3, <1>6, <2>1, <2>2 DEF CtxsFine, Listed
    <2>4. \A d \in 1..NumCtx : A.ctx[d].used => \E i \in DOMAIN S.list : S.list[i] = d
      BY <1>3, <1>6, <1>7 DEF CtxsFine, Listed
    <2> QED  BY <1>3, <2>3, <2>4 DEF CtxsFine, Listed
  <1>10. MsFine(S.ms, A.ctx)
    <2>1. ASSUME NEW d \in 1..NumCtx, Common(A.ctx[d]) PROVE Common(S.ctx[d]) /\ A.ctx[d] = S.ctx[d]
      BY <1>6, <1>7, <2>1 DEF Common
    <2> QED  BY <1>3, <2>1 DEF MsFine
  <1>11. CtxsFine(A.ctx, S.list)
    BY <1>6, <1>8, <1>9 DEF CtxsFine
  <1>12. SgShape(A) /\ A.list = S.list /\ A.ms = S.ms /\ A.pdp = S.pdp /\ A.out = {}
    BY <1>2 DEF Turns
  <1> QED
    BY <1>10, <1>11, <1>12 DEF SgFine

LEMMA BadFine ==
  ASSUME NEW S, SgFine(S)
  PROVE  SgFine([S EXCEPT !.bad = TRUE]) /\ [S EXCEPT !.bad = TRUE].out = S.out
  <1>1. PICK T : T = [S EXCEPT !.bad = TRUE]  OBVIOUS
  <1>2. SgShape(T) /\ T.ctx = S.ctx /\ T.list = S.list /\ T.ms = S.ms /\ T.pdp = S.pdp /\ T.out = S.out
    BY <1>1 DEF SgFine, SgShape, SgFields
  <1>3. SgFine(T)
    BY <1>2 DEF SgFine
  <1> QED
    BY <1>1, <1>2, <1>3

\* mmctx_timer_cb() counts the expiration, and gives the procedure up when there were enough.
Ticks(S, c) == [S EXCEPT !.ctx[c].timer.n = S.ctx[c].timer.n + 1]
GivesUp(S, c) == [S EXCEPT !.ctx[c] = [@ EXCEPT !.state = "DEREGISTERED", !.timer = NoTimer]]

LEMMA TicksFine ==
  ASSUME NEW S, SgFine(S), NEW c \in 1..NumCtx, S.ctx[c].used, NEW T, T = Ticks(S, c)
  PROVE  /\ SgFine(T) /\ T.out = S.out /\ T.ms = S.ms /\ T.ctx[c].used /\ T.ctx[c].state = S.ctx[c].state
  <1>1. CtxsFine(S.ctx, S.list) /\ MsFine(S.ms, S.ctx) /\ SgShape(S) /\ CtxShape(S.ctx[c]) /\ Timed(S.ctx[c])
    BY CtxAt DEF SgFine
  <1>2. PICK t : t = [S.ctx[c].timer EXCEPT !.n = S.ctx[c].timer.n + 1]  OBVIOUS
  <1>3. TimerShape(t) /\ t.on = S.ctx[c].timer.on /\ t.T = S.ctx[c].timer.T
    <2>1. PICK u : u = S.ctx[c].timer  OBVIOUS
    <2>2. TimerShape(u)  BY <1>1, <2>1 DEF CtxShape
    <2>3. t = [u EXCEPT !.n = u.n + 1]  BY <1>2, <2>1
    <2> HIDE <1>2
    <2>4. TimerShape(t) /\ t.on = u.on /\ t.T = u.T
      BY <2>2, <2>3 DEF TimerShape
    <2> QED  BY <2>1, <2>4
  <1>4. T = [S EXCEPT !.ctx[c].timer = t]
    BY <1>2 DEF Ticks
  <1> HIDE <1>2
  <1>6. PICK x : /\ Turns(S, T, c, x) /\ CtxShape(x) /\ Alike(x, S.ctx[c]) /\ x.timer = t
                 /\ x.mode = S.ctx[c].mode /\ x.state = S.ctx[c].state /\ x.id = S.ctx[c].id
    BY <1>1, <1>3, <1>4, TimerTurns
  <1> HIDE <1>4
  <1>7. Timed(x)
    BY <1>1, <1>3, <1>6 DEF Timed
  <1>8. Fits(S.ctx, c, x)
    BY <1>1, <1>6, <1>7, StillFits DEF Alike
  <1>9. Registered(S.ms) => ~Common(x) \/ (~Named(x, S.ms.ptmsi) /\ Common(S.ctx[c]))
    BY <1>1, <1>6 DEF MsFine, Common, Alike, Named, Of
  <1>10. SgFine(T) /\ T.ctx[c] = x
    BY <1>6, <1>8, <1>9, TurnFine
  <1> QED
    BY <1>6, <1>10 DEF Turns, Alike

LEMMA GivesUpFine ==
  ASSUME NEW S, SgFine(S), NEW c \in 1..NumCtx, S.ctx[c].used, NEW T, T = GivesUp(S, c)
  PROVE  SgFine(T) /\ T.out = S.out /\ T.ctx[c].used
  <1>1. CtxsFine(S.ctx, S.list) /\ SgShape(S) /\ CtxShape(S.ctx[c]) /\ Timed(S.ctx[c])
    BY CtxAt DEF SgFine
  <1>2. PICK y : y = S.ctx[c]  OBVIOUS
  <1>3. PICK z : z = [y EXCEPT !.state = "DEREGISTERED", !.timer = NoTimer]  OBVIOUS
  <1>4. CtxShape(z) /\ Alike(z, y) /\ z.state = "DEREGISTERED" /\ z.timer = NoTimer /\ z.mode = y.mode
    BY <1>1, <1>2, <1>3, StoppedTimer DEF CtxShape, CtxFields, Alike
  <1>5. T = [S EXCEPT !.ctx[c] = z]
    BY <1>2, <1>3 DEF GivesUp
  <1> HIDE <1>3
  <1>6. Turns(S, T, c, z)
    BY <1>1, <1>5, PutTurns
  <1> HIDE <1>5
  <1>7. Timed(z)
    BY <1>1, <1>2, <1>4, StoppedTimer DEF Timed
  <1>8. Fits(S.ctx, c, z)
    BY <1>1, <1>2, <1>4, <1>7, StillFits DEF Alike
  <1>9. SgFine(T) /\ T.ctx[c] = z
    BY <1>4, <1>6, <1>8, TurnFine DEF Common
  <1> QED
    BY <1>2, <1>4, <1>6, <1>9 DEF Turns, Alike

LEMMA TimerCb ==
  ASSUME NEW S, NEW c, S.ctx[c].timer.n \in Nat, S.ctx[c].timer.T \in {3350, 3370}, S.ctx[c].mode \in {"ATT", "RAU"},
         NEW R, R = mmctx_timer_cb(S, c)
  PROVE  \/ ~S.ctx[c].used
         \/ /\ S.ctx[c].timer.T = 3350
            /\ R \in {gprs_llgmm_reset_state(GivesUp(Ticks(S, c), c), S.ctx[c].llme),
                      gsm48_tx_gmm_att_ack(Ticks(S, c), c), gsm48_tx_gmm_ra_upd_ack(Ticks(S, c), c)}
         \/ /\ S.ctx[c].timer.T = 3370
            /\ R \in {gsm48_tx_gmm_att_rej(GivesUp(Ticks(S, c), c), c), gsm48_tx_gmm_id_req(Ticks(S, c), c)}
  <1> DEFINE n == S.ctx[c].timer.n + 1
             T == Ticks(S, c)
             G == GivesUp(T, c)
             B == [S EXCEPT !.bad = TRUE, !.ctx[c].timer = NoTimer]
  <1>2. (n < MaxExp /\ ~(n >= MaxExp)) \/ (n >= MaxExp /\ ~(n < MaxExp))
    BY SgBounds
  <1>5. R = CASE ~S.ctx[c].used -> B
              [] S.ctx[c].used /\ n >= MaxExp /\ S.ctx[c].timer.T = 3350 -> gprs_llgmm_reset_state(G, S.ctx[c].llme)
              [] S.ctx[c].used /\ n >= MaxExp /\ S.ctx[c].timer.T = 3370 -> gsm48_tx_gmm_att_rej(G, c)
              [] S.ctx[c].used /\ n < MaxExp /\ S.ctx[c].timer.T = 3350 /\ S.ctx[c].mode = "ATT" -> gsm48_tx_gmm_att_ack(T, c)
              [] S.ctx[c].used /\ n < MaxExp /\ S.ctx[c].timer.T = 3350 /\ S.ctx[c].mode = "RAU" -> gsm48_tx_gmm_ra_upd_ack(T, c)
              [] S.ctx[c].used /\ n < MaxExp /\ S.ctx[c].timer.T = 3370 -> gsm48_tx_gmm_id_req(T, c)
    BY DEF mmctx_timer_cb, Ticks, GivesUp
  <1> HIDE DEF n, T, G, B
  <1>6. ASSUME S.ctx[c].used, S.ctx[c].timer.T = 3350
        PROVE  R \in {gprs_llgmm_reset_state(G, S.ctx[c].llme), gsm48_tx_gmm_att_ack(T, c), gsm48_tx_gmm_ra_upd_ack(T, c)}
    BY <1>2, <1>5, <1>6
  <1>7. ASSUME S.ctx[c].used, S.ctx[c].timer.T = 3370
        PROVE  R \in {gsm48_tx_gmm_att_rej(G, c), gsm48_tx_gmm_id_req(T, c)}
    BY <1>2, <1>5, <1>7
  <1> QED
    BY <1>6, <1>7 DEF G, T

LEMMA MmTimerStep == ASSUME SgInv, NEW c \in 1..NumCtx, MmTimer(c) PROVE Step
  <1>1. PICK S : S = SgNow  OBVIOUS
  <1>2. SgFine(S) /\ S.out = {} /\ S.ctx[c].timer.on /\ SgBecomes(mmctx_timer_cb(S, c))
    BY <1>1, Now DEF MmTimer
  <1> HIDE <1>1
  <1>3. CtxShape(S.ctx[c]) /\ (S.ctx[c].used => Timed(S.ctx[c]))
    BY <1>2, CtxAt DEF SgFine
  <1>4. CASE ~S.ctx[c].used
    <2>1. PICK A : A = mmctx_timer_stop(S, c)  OBVIOUS
    <2>2. SgFine(A) /\ A.out = {}
      BY <1>2, <1>4, <2>1, StrayTimerFine
    <2>3. mmctx_timer_cb(S, c) = [A EXCEPT !.bad = TRUE]
      <3>1. mmctx_timer_cb(S, c) = [S EXCEPT !.bad = TRUE, !.ctx[c].timer = NoTimer]
        BY <1>4 DEF mmctx_timer_cb
      <3>2. [S EXCEPT !.bad = TRUE, !.ctx[c].timer = NoTimer] = [A EXCEPT !.bad = TRUE]
        BY <1>2, <2>1 DEF mmctx_timer_stop, SgFine, SgShape, SgFields
      <3> QED  BY <3>1, <3>2
    <2> HIDE <2>1
    <2> QED
      BY <1>2, <2>2, <2>3, BadFine, QuietStep
  <1>5. CASE S.ctx[c].used
    <2>1. PICK R : R = mmctx_timer_cb(S, c)  OBVIOUS
    <2>2. S.ctx[c].timer.n \in Nat
      BY <1>3 DEF CtxShape, TimerShape
    <2>3. S.ctx[c].timer.T \in {3350, 3370} /\ S.ctx[c].mode \in {"ATT", "RAU"}
      BY <1>2, <1>3, <1>5 DEF Timed
    <2>4. PICK T : T = Ticks(S, c)  OBVIOUS
    <2>5. PICK G : G = GivesUp(T, c)  OBVIOUS
    <2>6. \/ /\ S.ctx[c].timer.T = 3350
             /\ R \in {gprs_llgmm_reset_state(G, S.ctx[c].llme), gsm48_tx_gmm_att_ack(T, c), gsm48_tx_gmm_ra_upd_ack(T, c)}
          \/ /\ S.ctx[c].timer.T = 3370 /\ R \in {gsm48_tx_gmm_att_rej(G, c), gsm48_tx_gmm_id_req(T, c)}
      BY <1>5, <2>1, <2>2, <2>3, <2>4, <2>5, TimerCb
    <2>7. SgFine(T) /\ T.out = {} /\ T.ctx[c].used /\ T.ctx[c].state = S.ctx[c].state
      BY <1>2, <1>5, <2>4, TicksFine
    <2>8. SgFine(G) /\ G.out = {} /\ G.ctx[c].used
      BY <2>5, <2>7, GivesUpFine
    <2>9. S.ctx[c].state = "COMMON_PROC_INIT" <=> S.ctx[c].timer.T = 3370
      BY <1>2, <1>3, <1>5 DEF Timed
    <2>10. SgBecomes(R)
      BY <1>2, <2>1
    <2> HIDE <2>1, <2>4, <2>5
    <2>11. CASE R = gprs_llgmm_reset_state(G, S.ctx[c].llme)
      <3>1. Keeps(G, R)
        BY <2>8, <2>11, ResetKeeps DEF SgFine
      <3>2. SgFine(R) /\ R.out = {}
        BY <2>8, <3>1 DEF SgFine, Keeps
      <3> QED  BY <2>10, <3>2, QuietStep
    <2>12. CASE R = gsm48_tx_gmm_att_rej(G, c)
      <3>1. Says(G, R, c, "ATT_REJ")
        BY <2>8, <2>12, SendSays DEF gsm48_tx_gmm_att_rej, SgFine
      <3> QED  BY <2>8, <2>10, <3>1, SaysStep
    <2>13. CASE R \in {gsm48_tx_gmm_att_ack(T, c), gsm48_tx_gmm_ra_upd_ack(T, c)} /\ S.ctx[c].timer.T = 3350
      <3>1. PICK msg \in {"ATT_ACK", "RAU_ACK"} : Says(T, R, c, msg)
        BY <2>7, <2>13, SendSays DEF gsm48_tx_gmm_att_ack, gsm48_tx_gmm_ra_upd_ack, SgFine
      <3>2. T.ctx[c].state # "COMMON_PROC_INIT"
        BY <2>7, <2>9, <2>13
      <3> QED  BY <2>7, <2>10, <3>1, <3>2, SaysStep
    <2>14. CASE R = gsm48_tx_gmm_id_req(T, c) /\ S.ctx[c].timer.T = 3370
      <3>1. Says(T, R, c, "ID_REQ")
        BY <2>7, <2>14, SendSays DEF gsm48_tx_gmm_id_req, SgFine
      <3>2. T.ctx[c].state = "COMMON_PROC_INIT"
        BY <2>7, <2>9, <2>14
      <3> QED  BY <2>7, <2>10, <3>1, <3>2, SaysStep
    <2> QED  BY <2>6, <2>11, <2>12, <2>13, <2>14
  <1> QED
    BY <1>4, <1>5

LEMMA PutSwap ==
  ASSUME NEW C, CtxShapes(C), NEW c \in 1..NumCtx, NEW d \in 1..NumCtx, c # d, NEW x, NEW y
  PROVE  Put(Put(C, c, x), d, y) = Put(Put(C, d, y), c, x)
  BY DEF CtxShapes, Put

LEMMA PutAt ==
  ASSUME NEW C, CtxShapes(C), NEW c \in 1..NumCtx, NEW x
  PROVE  Put(C, c, x)[c] = x
  BY DEF CtxShapes, Put

LEMMA ListedStays ==
  ASSUME NEW C, NEW L, CtxShapes(C), Listed(C, L), NEW c \in 1..NumCtx, C[c].used, NEW x, CtxShape(x), x.used,
         NEW D, D = Put(C, c, x)
  PROVE  Listed(D, L)
  <1>1. \A d \in 1..NumCtx : D[d] = IF d = c THEN x ELSE C[d]
    BY CtxSet
  <1>2. L \in Seq(1..NumCtx) /\ \A i \in DOMAIN L : L[i] \in 1..NumCtx
    BY SeqElements DEF Listed
  <1> QED
    BY <1>1, <1>2 DEF Listed

\* An MS that is not registered is found anywhere.
LEMMA MsAnywhere == ASSUME NEW m, NEW C, MsFine(m, C), ~Registered(m), NEW D PROVE MsFine(m, D)
  BY DEF MsFine

\* gsm48_gmm_authorize() of a context that is as it shall be but for its timer.
LEMMA AuthorizedStep ==
  ASSUME NEW V, SgShape(V), CtxShapes(V.ctx), PdpsFine(V.pdp), V.out = {}, NEW c \in 1..NumCtx, V.ctx[c].used,
         NEW mode \in {"ATT", "RAU"}, V.ctx[c].mode \in {"ATT", "RAU"}, MsFine(V.ms, V.ctx), ~Registered(V.ms),
         \A x : CtxShape(x) /\ Alike(x, V.ctx[c]) /\ Timed(x) => CtxsFine(Put(V.ctx, c, x), V.list),
         SgBecomes(gsm48_gmm_authorize(V, c, mode))
  PROVE  Step
  <1>1. PICK W : W = gsm48_gmm_authorize(V, c, mode)  OBVIOUS
  <1>2. PICK x : Authorized(V, W, c, mode, x)
    BY <1>1, AuthorizeDoes
  <1> HIDE <1>1
  <1>3. Timed(x) /\ CtxShape(x) /\ Alike(x, V.ctx[c])
    BY <1>2 DEF Authorized, Timed
  <1>4. SgShape(W) /\ W.ctx = Put(V.ctx, c, x) /\ W.list = V.list /\ W.pdp = V.pdp /\ W.ms = V.ms /\ W.by = c
    BY <1>2 DEF Authorized
  <1>5. CtxsFine(W.ctx, W.list)
    BY <1>3, <1>4
  <1>6. MsFine(W.ms, W.ctx)
    BY <1>4, MsAnywhere
  <1>7. SgFine(W)
    BY <1>4, <1>5, <1>6 DEF SgFine
  <1>8. W.ctx[c] = x /\ x.used
    BY <1>3, <1>4, PutAt DEF Alike
  <1>9. Speaks(W) /\ MeansUp(W)
    BY <1>2, <1>4, <1>8 DEF Authorized, Speaks, MeansUp, Common
  <1> QED
    BY <1>1, <1>7, <1>9, BecomesStep

\* sgsn_mm_ctx_free()
Freed(S, U, c, x, i) ==
    /\ CtxShape(x) /\ ~x.used /\ i \in DOMAIN S.list /\ S.list[i] = c
    /\ SgShape(U) /\ U.ctx = Put(S.ctx, c, x) /\ U.list = RemoveAt(S.list, i) /\ PdpsFine(U.pdp)
    /\ U.ms = S.ms /\ U.by = S.by /\ U.out = S.out

LEMMA FreeDoes ==
  ASSUME NEW S, PdpGood(S), NEW c \in 1..NumCtx, CtxShape(S.ctx[c]), \E i \in DOMAIN S.list : S.list[i] = c
  PROVE  \E x, i : Freed(S, sgsn_mm_ctx_free(S, c), c, x, i)
  <1>1. PICK T : T = IF PdpsOf(S, c) = {} THEN S ELSE sgsn_pdp_ctx_free(S, CHOOSE p \in PdpsOf(S, c) : TRUE)  OBVIOUS
  <1>2. PdpMoves(S, T)
    <2>1. PdpMoves(S, S)  BY DEF PdpMoves, PdpGood
    <2> QED  BY <1>1, <2>1, PdpsOfPdp, PdpFreeMoves
  <1>3. PICK t : t = S.ctx[c].timer  OBVIOUS
  <1>4. PICK x : x = [NoCtx EXCEPT !.timer = t]  OBVIOUS
  <1>5. CtxShape(x) /\ ~x.used
    <2>1. TimerShape(t)  BY <1>3 DEF CtxShape
    <2> QED  BY <1>4, <2>1 DEF CtxShape, CtxFields, NoCtx
  <1>6. PICK i : i = CHOOSE j \in DOMAIN S.list : S.list[j] = c  OBVIOUS
  <1>7. i \in DOMAIN S.list /\ S.list[i] = c
    BY <1>6
  <1>8. PICK M : M = RemoveAt(S.list, i)  OBVIOUS
  <1>9. PICK U : U = [T EXCEPT !.ctx[c] = x, !.list = M]  OBVIOUS
  <1>10. sgsn_mm_ctx_free(S, c) = U
    <2>1. S.list = T.list  BY <1>2 DEF PdpMoves
    <2> QED  BY <1>1, <1>3, <1>4, <1>6, <1>8, <1>9, <2>1 DEF sgsn_mm_ctx_free
  <1> HIDE <1>1, <1>4, <1>6
  <1>11. SgShape(U) /\ U.ctx = Put(T.ctx, c, x) /\ U.list = M /\ U.pdp = T.pdp /\ U.ms = T.ms /\ U.by = T.by /\ U.out = T.out
    BY <1>2, <1>9 DEF PdpMoves, SgShape, SgFields, Put
  <1> HIDE <1>9
  <1>12. Freed(S, U, c, x, i)
    BY <1>2, <1>5, <1>7, <1>8, <1>11 DEF PdpMoves, Freed
  <1> QED
    BY <1>10, <1>12

\* An identity is noted.
LEMMA NotesTurns ==
  ASSUME NEW S, SgShape(S), NEW c, CtxShape(S.ctx[c]), NEW type
  PROVE  \E x : /\ Turns(S, Notes(S, c, type), c, x) /\ CtxShape(x) /\ x.used = S.ctx[c].used
                /\ (x.imsi <=> S.ctx[c].imsi \/ type = "IMSI")
                /\ x.ptmsi = S.ctx[c].ptmsi /\ x.old = S.ctx[c].old /\ x.tlli = S.ctx[c].tlli /\ x.new = S.ctx[c].new
                /\ x.mode = S.ctx[c].mode
  <1>1. PICK y : y = S.ctx[c]  OBVIOUS
  <1>2. PICK x : x = Identified(y, type)  OBVIOUS
  <1>3. /\ CtxShape(x) /\ x.used = y.used /\ (x.imsi <=> y.imsi \/ type = "IMSI")
        /\ x.ptmsi = y.ptmsi /\ x.old = y.old /\ x.tlli = y.tlli /\ x.new = y.new /\ x.mode = y.mode
    BY <1>1, <1>2 DEF CtxShape, CtxFields, Identified
  <1>4. Notes(S, c, type) = [S EXCEPT !.ctx[c] = x]
    BY <1>1, <1>2 DEF Notes
  <1>5. Turns(S, Notes(S, c, type), c, x)
    BY <1>4, PutTurns
  <1> QED
    BY <1>1, <1>3, <1>5

\* gsm48_rx_gmm_id_resp(): the timer is stopped, perhaps, ...
LEMMA IdTimer ==
  ASSUME NEW S, SgFine(S), NEW c \in 1..NumCtx, S.ctx[c].used, NEW type, NEW T,
         T = IF type = S.ctx[c].id THEN mmctx_timer_stop(S, c) ELSE S
  PROVE  \E y : /\ Turns(S, T, c, y) /\ CtxShape(y) /\ Alike(y, S.ctx[c]) /\ y.mode = S.ctx[c].mode
  <1>1. CtxShapes(S.ctx) /\ CtxShape(S.ctx[c]) /\ SgShape(S)
    BY CtxAt DEF SgFine
  <1>2. CASE type = S.ctx[c].id
    BY <1>1, <1>2, TimerTurns, StoppedTimer DEF mmctx_timer_stop
  <1>3. CASE type # S.ctx[c].id
    <2>1. PICK y : y = S.ctx[c]  OBVIOUS
    <2>2. Turns(S, T, c, y)
      BY <1>1, <1>3, <2>1, PutSame DEF Turns
    <2>3. Alike(y, S.ctx[c])
      BY <2>1 DEF Alike
    <2> QED  BY <1>1, <2>1, <2>2, <2>3
  <1> QED
    BY <1>2, <1>3

\* ... the context another P-TMSI of this IMSI has goes, ...
Other(S, T, c, type) == IF type = "IMSI" /\ ~S.ctx[c].imsi THEN sgsn_mm_ctx_by_imsi(T) ELSE 0
Without(T, ictx) ==
    IF ictx = 0 THEN T
    ELSE sgsn_mm_ctx_free(gprs_llgmm_assign(T, T.ctx[ictx].llme, T.ctx[ictx].tlli, None), ictx)
\* The other contexts are those of D.
Alone(U, D, c, y, type) ==
    /\ SgShape(U) /\ U.ctx = Put(D, c, y) /\ CtxsFine(D, U.list) /\ PdpsFine(U.pdp) /\ U.out = {}
    /\ type = "IMSI" => \A d \in 1..NumCtx : d # c /\ D[d].used => ~D[d].imsi

LEMMA OtherGoes ==
  ASSUME NEW S, SgFine(S), S.out = {}, NEW c \in 1..NumCtx, S.ctx[c].used, NEW type,
         NEW T, NEW y, Turns(S, T, c, y), CtxShape(y), Alike(y, S.ctx[c]),
         NEW U, U = Without(T, Other(S, T, c, type))
  PROVE  U.ms = S.ms /\ \E D : Alone(U, D, c, y, type) /\ D[c] = S.ctx[c]
  <1>1. CtxsFine(S.ctx, S.list) /\ CtxShapes(S.ctx) /\ Listed(S.ctx, S.list) /\ OneImsi(S.ctx) /\ PdpsFine(S.pdp)
    BY CtxAt DEF SgFine, CtxsFine
  <1>2. SgShape(T) /\ T.ctx = Put(S.ctx, c, y) /\ T.list = S.list /\ T.pdp = S.pdp /\ T.ms = S.ms /\ T.out = {}
    BY DEF Turns
  <1>3. PICK k : k = Other(S, T, c, type)  OBVIOUS
  <1>4. U = Without(T, k)
    BY <1>3
  <1>5. CtxShapes(T.ctx) /\ \A d \in 1..NumCtx : T.ctx[d] = IF d = c THEN y ELSE S.ctx[d]
    BY <1>1, <1>2, CtxSet
  <1>6. y.used /\ y.imsi = S.ctx[c].imsi
    BY DEF Alike
  <1>7. Listed(T.ctx, T.list)
    BY <1>1, <1>2, <1>6, ListedStays
  <1>8. \/ k = 0 /\ (type = "IMSI" /\ ~S.ctx[c].imsi => \A d \in 1..NumCtx : T.ctx[d].used => ~T.ctx[d].imsi)
        \/ k \in 1..NumCtx /\ T.ctx[k].used /\ T.ctx[k].imsi /\ ~S.ctx[c].imsi
    BY <1>3, <1>7, ByImsi DEF Other
  <1> HIDE <1>3
  <1>9. CASE k = 0
    <2>1. U = T
      BY <1>4, <1>9 DEF Without
    <2>2. ASSUME type = "IMSI", NEW d \in 1..NumCtx, d # c, S.ctx[d].used PROVE ~S.ctx[d].imsi
      <3>1. CASE S.ctx[c].imsi
        BY <1>1, <2>2, <3>1 DEF OneImsi
      <3>2. CASE ~S.ctx[c].imsi
        BY <1>5, <1>8, <1>9, <2>2, <3>2, SgBounds
      <3> QED  BY <3>1, <3>2
    <2>3. Alone(U, S.ctx, c, y, type)
      BY <1>1, <1>2, <2>1, <2>2 DEF Alone
    <2> QED  BY <1>2, <2>1, <2>3
  <1>10. CASE k # 0
    <2>1. k \in 1..NumCtx /\ k # c /\ S.ctx[k].used /\ S.ctx[k].imsi
      BY <1>5, <1>6, <1>8, <1>10
    <2>2. PICK A : A = gprs_llgmm_assign(T, T.ctx[k].llme, T.ctx[k].tlli, None)  OBVIOUS
    <2>3. Keeps(T, A)
      BY <1>2, <2>2, AssignKeeps
    <2>4. U = sgsn_mm_ctx_free(A, k)
      BY <1>4, <1>10, <2>2 DEF Without
    <2> HIDE <2>2
    <2>5. PdpGood(A) /\ A.ctx = T.ctx /\ A.list = S.list /\ A.ms = S.ms /\ A.out = {}
      BY <1>1, <1>2, <2>3 DEF Keeps, PdpGood
    <2>6. CtxShape(A.ctx[k]) /\ \E i \in DOMAIN A.list : A.list[i] = k
      BY <1>1, <1>5, <2>1, <2>5 DEF CtxShapes, Listed
    <2>7. PICK f, i : Freed(A, U, k, f, i)
      BY <2>1, <2>4, <2>5, <2>6, FreeDoes
    <2>8. PICK D : D = Put(S.ctx, k, f)  OBVIOUS
    <2>9. CtxShape(f) /\ ~f.used /\ i \in DOMAIN S.list /\ S.list[i] = k /\ U.list = RemoveAt(S.list, i)
      BY <2>5, <2>7 DEF Freed
    <2>10. CtxsFine(D, U.list)
      BY <1>1, <2>1, <2>8, <2>9, CtxGoes
    <2>11. \A d \in 1..NumCtx : D[d] = IF d = k THEN f ELSE S.ctx[d]
      BY <1>1, <2>1, <2>8, <2>9, CtxSet
    <2>12. U.ctx = Put(Put(S.ctx, c, y), k, f)
      BY <1>2, <2>5, <2>7 DEF Freed
    <2>13. U.ctx = Put(D, c, y)
      BY <1>1, <2>1, <2>8, <2>12, PutSwap
    <2> HIDE <2>8
    <2>14. \A d \in 1..NumCtx : d # c /\ D[d].used => ~D[d].imsi
      BY <1>1, <2>1, <2>9, <2>11 DEF OneImsi
    <2>15. Alone(U, D, c, y, type)
      BY <2>5, <2>7, <2>10, <2>13, <2>14 DEF Alone, Freed
    <2>16. U.ms = S.ms /\ D[c] = S.ctx[c]
      BY <2>1, <2>5, <2>7, <2>11 DEF Freed
    <2> QED  BY <2>15, <2>16
  <1> QED
    BY <1>9, <1>10

\* ... and the MS is accepted or asked for the other identity.
LEMMA IdentityStep ==
  ASSUME NEW S, SgFine(S), S.out = {}, ~Registered(S.ms), NEW c \in 1..NumCtx, S.ctx[c].used,
         NEW type \in {"IMSI", "IMEI"}, SgBecomes(gsm48_rx_gmm_id_resp(S, c, type))
  PROVE  Step
  <1>1. PICK T : T = IF type = S.ctx[c].id THEN mmctx_timer_stop(S, c) ELSE S  OBVIOUS
  <1>2. PICK y : /\ Turns(S, T, c, y) /\ CtxShape(y) /\ Alike(y, S.ctx[c]) /\ y.mode = S.ctx[c].mode
    BY <1>1, IdTimer
  <1>3. PICK U : U = Without(T, Other(S, T, c, type))  OBVIOUS
  <1>4. gsm48_rx_gmm_id_resp(S, c, type) = gsm48_gmm_authorize(Notes(U, c, type), c, U.ctx[c].mode)
    BY <1>1, <1>3 DEF gsm48_rx_gmm_id_resp, Without, Other
  <1> HIDE <1>1
  <1>5. U.ms = S.ms
    BY <1>2, <1>3, OtherGoes
  <1>6. PICK D : Alone(U, D, c, y, type) /\ D[c] = S.ctx[c]
    BY <1>2, <1>3, OtherGoes
  <1> HIDE <1>3
  <1>7. CtxsFine(D, U.list) /\ CtxShapes(D) /\ SgShape(U) /\ U.ctx = Put(D, c, y)
    BY <1>6, CtxAt DEF Alone
  <1>8. CtxShapes(U.ctx) /\ U.ctx[c] = y
    BY <1>2, <1>7, CtxSet
  <1>9. PICK V : V = Notes(U, c, type)  OBVIOUS
  <1>10. PICK z : /\ Turns(U, V, c, z) /\ CtxShape(z) /\ z.used = y.used
                  /\ (z.imsi <=> y.imsi \/ type = "IMSI")
                  /\ z.ptmsi = y.ptmsi /\ z.old = y.old /\ z.tlli = y.tlli /\ z.new = y.new /\ z.mode = y.mode
    BY <1>2, <1>7, <1>8, <1>9, NotesTurns
  <1>11. SgShape(V) /\ V.ctx = Put(U.ctx, c, z) /\ V.list = U.list /\ V.pdp = U.pdp /\ V.ms = S.ms /\ V.out = {}
    BY <1>5, <1>6, <1>10 DEF Turns, Alone
  <1>12. V.ctx = Put(D, c, z)
    BY <1>7, <1>11, PutPut
  <1>13. CtxShapes(V.ctx) /\ V.ctx[c] = z
    BY <1>7, <1>10, <1>12, CtxSet
  <1>14. z.used /\ z.mode = D[c].mode /\ D[c].used /\ Timed(D[c])
    BY <1>2, <1>6, <1>7, <1>10, CtxAt DEF Alike
  <1>15. ASSUME NEW x, CtxShape(x), Alike(x, z), Timed(x) PROVE CtxsFine(Put(V.ctx, c, x), V.list)
    <2>1. Put(V.ctx, c, x) = Put(D, c, x)
      BY <1>7, <1>12, PutPut
    <2>2. /\ x.used /\ x.ptmsi = D[c].ptmsi /\ x.old = D[c].old /\ x.tlli = D[c].tlli /\ x.new = D[c].new
          /\ x.imsi = z.imsi
      BY <1>2, <1>6, <1>10, <1>14, <1>15 DEF Alike
    <2>3. SoleImsi(D, c, x)
      <3>1. CASE type = "IMSI"
        BY <1>6, <3>1 DEF Alone, SoleImsi
      <3>2. CASE type # "IMSI"
        <4>1. x.imsi => D[c].imsi
          BY <1>2, <1>6, <1>10, <2>2, <3>2 DEF Alike
        <4> QED  BY <1>7, <1>14, <4>1 DEF CtxsFine, OneImsi, SoleImsi
      <3> QED  BY <3>1, <3>2
    <2>4. Fits(D, c, x)
      BY <1>7, <1>14, <1>15, <2>2, <2>3, StillFits
    <2>5. CtxsFine(Put(D, c, x), U.list)
      BY <1>7, <1>14, <2>4, CtxMoves
    <2> QED  BY <1>11, <2>1, <2>5
  <1>16. MsFine(V.ms, V.ctx)
    <2>1. MsFine(S.ms, S.ctx)  BY DEF SgFine
    <2> QED  BY <1>11, <2>1, MsAnywhere
  <1>17. SgBecomes(gsm48_gmm_authorize(V, c, y.mode))
    BY <1>4, <1>8, <1>9
  <1>18. PdpsFine(V.pdp) /\ y.mode \in {"ATT", "RAU"} /\ z.mode \in {"ATT", "RAU"}
    BY <1>6, <1>10, <1>11, <1>14 DEF Alone, Timed
  <1> HIDE <1>9
  <1> QED
    BY <1>11, <1>13, <1>14, <1>15, <1>16, <1>17, <1>18, AuthorizedStep

LEMMA IdRespStep == ASSUME SgInv, NEW type \in {"IMSI", "IMEI"}, SgIdResp(type) PROVE Step
  <1>1. PICK e : e = RxState(SgNow, sg.ms.tlli, sg.ms.ra)  OBVIOUS
  <1>2. Found(e)
    BY <1>1, RxNow
  <1>3. SgBecomes(IF e.c = 0 THEN gsm48_tx_gmm_status_oldmsg(e.S, sg.ms.tlli)
                  ELSE gsm48_rx_gmm_id_resp(Paid(e.S, type), e.c, type))
    BY <1>1 DEF SgIdResp, FromMs
  <1>4. ~Registered(sg.ms)
    BY DEF SgIdResp, SgInv, SgFine, MsFine, Registered
  <1> HIDE <1>1
  <1>5. CASE e.c = 0
    BY <1>2, <1>3, <1>5, StatusStep
  <1>6. CASE e.c # 0
    <2>1. PICK S : S = Paid(e.S, type)  OBVIOUS
    <2>2. SgFine(S) /\ S.out = {} /\ S.ctx = e.S.ctx /\ S.ms.st = sg.ms.st
      BY <1>2, <2>1, PaidFine DEF Found
    <2>3. PICK c \in 1..NumCtx : c = e.c /\ S.ctx[c].used
      BY <1>2, <1>6, <2>2 DEF Found
    <2>4. SgBecomes(gsm48_rx_gmm_id_resp(S, c, type))
      BY <1>3, <1>6, <2>1, <2>3
    <2>5. ~Registered(S.ms)
      BY <1>4, <2>2 DEF Registered
    <2> QED
      BY <2>2, <2>3, <2>4, <2>5, IdentityStep
  <1> QED
    BY <1>5, <1>6

\* The P-TMSI that is given out is no one's.
LEMMA Fresh ==
  ASSUME SgInv, CanRx(sg), NEW q, q = NextPtmsi(sg)
  PROVE  q \in Ptmsis /\ q # sg.ms.ptmsi /\ \A d \in 1..NumCtx : ~Named(sg.ctx[d], q)
  <1>1. sgsn_alloc_ptmsi(sg) \in SUBSET Nat /\ sgsn_alloc_ptmsi(sg) # {}
    BY SgBounds DEF CanRx, sgsn_alloc_ptmsi, Ptmsis
  <1>2. q \in sgsn_alloc_ptmsi(sg)
    BY <1>1, LeastIsIn DEF NextPtmsi
  <1>3. q \in Ptmsis /\ q \notin KnownPtmsis(sg)
    BY <1>2 DEF sgsn_alloc_ptmsi
  <1>4. DOMAIN sg.ctx = 1..NumCtx
    BY DEF SgInv, SgFine, CtxsFine, CtxShapes
  <1>5. \A d \in 1..NumCtx : sg.ctx[d] \in Range(sg.ctx)
    BY <1>4 DEF Range
  <1>6. q # sg.ms.ptmsi /\ \A x \in Range(sg.ctx) : q \notin {x.ptmsi, x.old, x.tlli.p}
    BY <1>3 DEF KnownPtmsis
  <1> QED
    BY <1>3, <1>5, <1>6 DEF Named, Of

LEMMA RejStep ==
  ASSUME NEW S, SgFine(S), S.out = {}, NEW t, SgBecomes(gsm48_tx_gmm_ra_upd_rej(S, t))
  PROVE  Step
  <1>1. PICK T : T = gsm48_tx_gmm_ra_upd_rej(S, t)  OBVIOUS
  <1>2. Says(S, T, S.by, "RAU_REJ")
    BY <1>1, TxUiSays DEF gsm48_tx_gmm_ra_upd_rej, SgFine
  <1>3. Session(S, S)
    BY DEF Session, SgFine, MeansUp
  <1>4. Session(S, T)
    BY <1>2, <1>3, SessionSays DEF Accepts
  <1> QED
    BY <1>1, <1>4, SessionStep

\* A context found by a TLLI takes it over.
LEMMA TakesFine ==
  ASSUME NEW S, SgFine(S), NEW c \in 1..NumCtx, S.ctx[c].used, S.ctx[c].state # "COMMON_PROC_INIT",
         NEW t, Named(S.ctx[c], t.p), NEW T, T = TakesTlli(S, c, t)
  PROVE  SgFine(T) /\ T.out = S.out
  <1>1. CASE t.kind # "local"
    BY <1>1 DEF TakesTlli
  <1>2. CASE t.kind = "local"
    <2>1. CtxsFine(S.ctx, S.list) /\ SgShape(S) /\ CtxShape(S.ctx[c]) /\ Timed(S.ctx[c])
      BY CtxAt DEF SgFine
    <2>2. PICK y : y = S.ctx[c]  OBVIOUS
    <2>3. PICK x : x = [y EXCEPT !.tlli = t]  OBVIOUS
    <2>4. /\ CtxShape(x) /\ x.used = y.used /\ x.imsi = y.imsi /\ x.ptmsi = y.ptmsi /\ x.old = y.old /\ x.new = y.new
          /\ x.timer = y.timer /\ x.state = y.state /\ x.mode = y.mode /\ x.id = y.id /\ x.tlli = t
      BY <2>1, <2>2, <2>3 DEF CtxShape, CtxFields
    <2>5. T = [S EXCEPT !.ctx[c] = x]
      BY <1>2, <2>2, <2>3, SgBounds DEF TakesTlli
    <2>6. Turns(S, T, c, x)
      BY <2>1, <2>5, PutTurns
    <2> HIDE <2>3, <2>5
    <2>7. Timed(x)
      BY <2>1, <2>2, <2>4 DEF Timed
    <2>8. Fits(S.ctx, c, x)
      BY <2>1, <2>2, <2>4, <2>7, StillFits
    <2>9. SgFine(T)
      BY <2>2, <2>4, <2>6, <2>8, TurnFine DEF Common
    <2> QED  BY <2>6, <2>9 DEF Turns
  <1> QED
    BY <1>1, <1>2

\* A context gets the TLLI t and the P-TMSI q.
Renamed(x, y, t, q) ==
    /\ CtxShape(x) /\ x.used /\ (x.imsi <=> y.imsi) /\ x.old = y.ptmsi /\ x.ptmsi = q /\ x.new = Local(q) /\ x.tlli = t

LEMMA RenamedFits ==
  ASSUME NEW C, NEW L, CtxsFine(C, L), NEW c \in 1..NumCtx, C[c].used, NEW t, NEW q \in Ptmsis,
         t.kind \in {"local", "foreign"} => Named(C[c], t.p), \A d \in 1..NumCtx : ~Named(C[d], q),
         NEW x, Renamed(x, C[c], t, q), Timed(x)
  PROVE  Fits(C, c, x)
  <1>1. Own(x)
    BY DEF Renamed, Own
  <1>2. ASSUME NEW d \in 1..NumCtx, d # c, C[d].used
        PROVE  ~Named(x, C[d].ptmsi) /\ ~Named(C[d], x.ptmsi)
    <2>1. ~Named(C[c], C[d].ptmsi)
      BY <1>2 DEF CtxsFine, Apart
    <2>2. q # C[d].ptmsi /\ ~Named(C[d], q)
      BY DEF Named
    <2>3. C[c].ptmsi # C[d].ptmsi
      BY <2>1 DEF Named
    <2>4. t.kind \in {"local", "foreign"} => t.p # C[d].ptmsi
      BY <2>1
    <2> QED  BY <2>2, <2>3, <2>4 DEF Named, Of, Renamed
  <1>3. SoleImsi(C, c, x)
    BY DEF CtxsFine, OneImsi, SoleImsi, Renamed
  <1> QED
    BY <1>1, <1>2, <1>3 DEF Fits, Clear, Renamed

\* gsm48_rx_gmm_ra_upd_req() of a context that is registered.
Updated(S, c, t, ra, q) ==
    [S EXCEPT !.ctx[c] = [@ EXCEPT !.ra = ra, !.tlli = t, !.old = S.ctx[c].ptmsi,
                                   !.ptmsi = q, !.new = Local(q), !.mode = "RAU"]]
LEMMA UpdatedFine ==
  ASSUME NEW S, SgFine(S), NEW c \in 1..NumCtx, S.ctx[c].used, S.ctx[c].state # "COMMON_PROC_INIT",
         NEW t, NEW ra, NEW q \in Ptmsis, t.kind \in {"local", "foreign"} => Named(S.ctx[c], t.p),
         \A d \in 1..NumCtx : ~Named(S.ctx[d], q),
         NEW T, T = mmctx_timer_start(Updated(S, c, t, ra, q), c, 3350)
  PROVE  SgFine(T) /\ T.out = S.out /\ T.ctx[c].used /\ T.ctx[c].state # "COMMON_PROC_INIT"
  <1>1. CtxsFine(S.ctx, S.list) /\ SgShape(S) /\ CtxShapes(S.ctx) /\ CtxShape(S.ctx[c]) /\ Timed(S.ctx[c])
    BY CtxAt DEF SgFine
  <1>2. PICK y : y = S.ctx[c]  OBVIOUS
  <1>3. PICK z : z = [y EXCEPT !.ra = ra, !.tlli = t, !.old = S.ctx[c].ptmsi,
                               !.ptmsi = q, !.new = Local(q), !.mode = "RAU"]  OBVIOUS
  <1>4. Renamed(z, y, t, q) /\ z.state = y.state /\ z.mode = "RAU"
    BY <1>1, <1>2, <1>3 DEF CtxShape, CtxFields, Renamed
  <1>5. PICK U : U = Updated(S, c, t, ra, q)  OBVIOUS
  <1>6. U = [S EXCEPT !.ctx[c] = z]
    BY <1>2, <1>3, <1>5 DEF Updated
  <1>7. Turns(S, U, c, z)
    BY <1>1, <1>6, PutTurns
  <1> HIDE <1>3, <1>6
  <1>8. U.ctx[c] = z /\ SgShape(U) /\ CtxShape(z)
    BY <1>1, <1>4, <1>7, CtxSet DEF Turns, Renamed
  <1>9. PICK x : /\ Turns(U, T, c, x) /\ CtxShape(x) /\ Alike(x, z) /\ x.timer = Started(3350)
                 /\ x.mode = z.mode /\ x.state = z.state
    BY <1>5, <1>8, TimerTurns, StartedTimer DEF mmctx_timer_start
  <1> HIDE <1>5
  <1>10. Turns(S, T, c, x)
    BY <1>1, <1>7, <1>9, TurnsOn
  <1>11. Renamed(x, y, t, q)
    BY <1>4, <1>9 DEF Renamed, Alike
  <1>12. x.timer.on /\ x.timer.T = 3350 /\ x.state # "COMMON_PROC_INIT" /\ x.mode = "RAU"
    BY <1>2, <1>4, <1>9, StartedTimer
  <1>13. Timed(x)
    BY <1>12 DEF Timed
  <1>14. Fits(S.ctx, c, x)
    BY <1>1, <1>2, <1>11, <1>13, RenamedFits
  <1>15. SgFine(T) /\ T.ctx[c] = x
    BY <1>10, <1>12, <1>14, TurnFine DEF Common
  <1> QED
    BY <1>10, <1>11, <1>12, <1>15 DEF Turns, Renamed

LEMMA UpdateStep ==
  ASSUME NEW S, SgFine(S), S.out = {}, Registered(S.ms), NEW t, t \in {Local(S.ms.ptmsi), Foreign(S.ms.ptmsi)},
         NEW oldra, NEW ra, NEW q \in Ptmsis, \A d \in 1..NumCtx : ~Named(S.ctx[d], q), NEW mentions, NEW active,
         SgBecomes(gsm48_rx_gmm_ra_upd_req(S, t, oldra, ra, q, mentions, active))
  PROVE  Step
  <1>1. PICK c : c = sgsn_mm_ctx_by_tlli(S, t, oldra)  OBVIOUS
  <1>2. PICK T : T = mmctx_timer_start(Updated(S, c, t, ra, q), c, 3350)  OBVIOUS
  <1>3. PICK l : l = Updated(S, c, t, ra, q).ctx[c].llme  OBVIOUS
  <1>4. PICK U : U = gprs_llgmm_assign(T, l, t, Local(q))  OBVIOUS
  <1>5. PICK V : V = IF mentions THEN process_ms_ctx_status(U, c, active) ELSE U  OBVIOUS
  <1>6. gsm48_rx_gmm_ra_upd_req(S, t, oldra, ra, q, mentions, active) =
          IF c = 0 THEN gsm48_tx_gmm_ra_upd_rej(S, t)
          ELSE IF S.ctx[c].state = "DEREGISTERED" THEN gsm48_tx_gmm_ra_upd_rej(TakesTlli(S, c, t), t)
          ELSE gsm48_tx_gmm_ra_upd_ack(V, c)
    BY <1>1, <1>2, <1>3, <1>4, <1>5 DEF gsm48_rx_gmm_ra_upd_req, Updated
  <1>7. t.kind \in {"local", "foreign"} /\ t.p = S.ms.ptmsi
    BY DEF Local, Foreign
  <1>8. \/ c = 0
        \/ c \in 1..NumCtx /\ S.ctx[c].used /\ Named(S.ctx[c], t.p)
    BY <1>1, <1>7, ByTlli DEF SgFine
  <1> HIDE <1>1
  <1>9. CASE c = 0
    BY <1>6, <1>9, RejStep
  <1>10. CASE c # 0
    <2>1. c \in 1..NumCtx /\ S.ctx[c].used /\ Named(S.ctx[c], t.p)
      BY <1>8, <1>10
    <2>2. S.ctx[c].state # "COMMON_PROC_INIT"
      BY <1>7, <2>1 DEF SgFine, MsFine, Common
    <2>3. CASE S.ctx[c].state = "DEREGISTERED"
      <3>1. PICK A : A = TakesTlli(S, c, t)  OBVIOUS
      <3>2. SgFine(A) /\ A.out = {}
        BY <2>1, <2>2, <3>1, TakesFine
      <3> QED  BY <1>6, <1>10, <2>3, <3>1, <3>2, RejStep
    <2>4. CASE S.ctx[c].state # "DEREGISTERED"
      <3>1. SgFine(T) /\ T.out = {} /\ T.ctx[c].used /\ T.ctx[c].state # "COMMON_PROC_INIT"
        BY <1>2, <2>1, <2>2, UpdatedFine
      <3> HIDE <1>2, <1>3
      <3>2. Keeps(T, U)
        BY <1>4, <3>1, AssignKeeps DEF SgFine
      <3>3. SgFine(U) /\ U.out = {} /\ U.ctx = T.ctx
        BY <3>1, <3>2 DEF SgFine, Keeps
      <3>4. PdpMoves(U, V)
        <4>1. PdpMoves(U, U)  BY <3>3, FineGood DEF PdpMoves, PdpGood
        <4> QED  BY <1>5, <3>3, <4>1, FineGood, DeleteAllMoves DEF process_ms_ctx_status
      <3>5. SgFine(V) /\ V.out = {} /\ V.ctx = T.ctx
        BY <3>3, <3>4 DEF SgFine, PdpMoves
      <3> HIDE <1>4, <1>5
      <3>6. PICK R : R = gsm48_tx_gmm_ra_upd_ack(V, c)  OBVIOUS
      <3>7. Says(V, R, c, "RAU_ACK")
        BY <3>5, <3>6, SendSays DEF gsm48_tx_gmm_ra_upd_ack, SgFine
      <3>8. SgBecomes(R)
        BY <1>6, <1>10, <2>4, <3>6
      <3> QED  BY <2>1, <3>1, <3>5, <3>7, <3>8, SaysStep
    <2> QED  BY <2>3, <2>4
  <1> QED
    BY <1>9, <1>10

LEMMA RaUpdStep == ASSUME SgInv, NEW ra, NEW mentions, RaUpdReq(ra, mentions) PROVE Step
  <1>1. PICK t : t = IF ra = sg.ms.was THEN sg.ms.tlli ELSE Foreign(sg.ms.ptmsi)  OBVIOUS
  <1>2. PICK m : m = [sg.ms EXCEPT !.st = "updating", !.ra = ra, !.tlli = t, !.owes = {}]  OBVIOUS
  <1>3. PICK S : S = WithMs(SgNow, m)  OBVIOUS
  <1>4. PICK e : e = RxState(S, t, ra)  OBVIOUS
  <1>5. PICK q : q = NextPtmsi(sg)  OBVIOUS
  <1>6. S = [SgNow EXCEPT !.ms = [@ EXCEPT !.st = "updating", !.ra = ra, !.tlli = t, !.owes = {}]]
    BY <1>2, <1>3, Now DEF WithMs
  <1>7. SgBecomes(gsm48_rx_gmm_ra_upd_req(e.S, t, sg.ms.was, ra, q, mentions, sg.ms.pdp # "none"))
    BY <1>1, <1>4, <1>5, <1>6 DEF RaUpdReq
  <1> HIDE <1>6
  <1>8. CanRx(sg) /\ Registered(sg.ms)
    BY DEF RaUpdReq, Settled, Registered
  <1>9. MsFine(sg.ms, sg.ctx)
    BY DEF SgInv, SgFine
  <1>10. t \in {Local(sg.ms.ptmsi), Foreign(sg.ms.ptmsi)}
    BY <1>1, <1>8, <1>9 DEF MsFine
  <1> HIDE <1>1
  <1>11. MsShape(m) /\ m.st = "updating" /\ m.tlli = t /\ m.ptmsi = sg.ms.ptmsi /\ m.owes = {}
    BY <1>2, <1>9 DEF MsFine, MsShape
  <1>12. MsFine(m, sg.ctx) /\ Registered(m)
    BY <1>8, <1>9, <1>10, <1>11 DEF MsFine, Registered
  <1> HIDE <1>2
  <1>13. SgFine(S) /\ S.ms = m /\ S.ctx = sg.ctx /\ S.out = {}
    BY <1>3, <1>12, Now, MsPut
  <1>14. q \in Ptmsis /\ q # sg.ms.ptmsi /\ \A d \in 1..NumCtx : ~Named(sg.ctx[d], q)
    BY <1>5, <1>8, Fresh
  <1>15. t.p # q
    BY <1>10, <1>14 DEF Local, Foreign
  <1>16. t \in {Local(S.ms.ptmsi), Foreign(S.ms.ptmsi)}
    BY <1>10, <1>11, <1>13
  <1>17. SgFine(e.S) /\ e.S.ms = m /\ e.S.out = {} /\ \A d \in 1..NumCtx : ~Named(e.S.ctx[d], q)
    <2>1. SgFine(S)
      BY <1>13
    <2>2. SgFine(e.S) /\ e.S.ms = S.ms /\ e.S.out = S.out
      BY <1>4, <1>16, <2>1, RxFine
    <2>3. \A p : /\ t.kind = "local" => p # t.p
                 /\ \A d \in 1..NumCtx : ~Named(S.ctx[d], p)
                 => \A d \in 1..NumCtx : ~Named(e.S.ctx[d], p)
      BY <1>4, <1>16, <2>1, RxFine
    <2> QED
      BY <1>13, <1>14, <1>15, <2>2, <2>3
  <1> HIDE <1>3, <1>4, <1>5
  <1>18. t \in {Local(e.S.ms.ptmsi), Foreign(e.S.ms.ptmsi)}
    BY <1>13, <1>16, <1>17
  <1> QED
    BY <1>7, <1>12, <1>14, <1>17, <1>18, UpdateStep

\* A context is ready for gsm48_gmm_authorize(), which starts its timer.
Ready(U, A, c) ==
    /\ SgShape(U) /\ CtxShapes(U.ctx) /\ U.pdp = A.pdp /\ U.ms = A.ms /\ U.out = A.out
    /\ U.ctx[c].used /\ U.ctx[c].mode \in {"ATT", "RAU"}
    /\ \A x : CtxShape(x) /\ Alike(x, U.ctx[c]) /\ Timed(x) => CtxsFine(Put(U.ctx, c, x), U.list)

\* The P-TMSI and the TLLI of an ATTACH REQUEST.
Asks(by, t) == (by = "IMSI" /\ t.kind = "random") \/ (by = "PTMSI" /\ t.kind = "foreign")

Again(x, by, t, ra, llme, q) == Attached(x, TRUE, by, t, ra, llme, q)
Afresh(x, by, t, ra, llme, q) == Attached(x, FALSE, by, t, ra, llme, q)

LEMMA AttachedKnown ==
  ASSUME NEW y, CtxShape(y), NEW by, NEW t, NEW ra, NEW llme, NEW q, NEW z, z = Again(y, by, t, ra, llme, q)
  PROVE  /\ CtxShape(z) /\ z.used = y.used /\ (z.imsi <=> y.imsi) /\ z.tlli = t
         /\ z.old = y.ptmsi /\ z.ptmsi = q /\ z.new = Local(q) /\ z.mode = y.mode
  <1>1. PICK o : o = y.ptmsi  OBVIOUS
  <1>2. PICK n : n = Local(q)  OBVIOUS
  <1>3. z = [y EXCEPT !.imsi = @ \/ (~TRUE /\ by = "IMSI"), !.tlli = t, !.llme = llme, !.ra = ra,
                      !.old = o, !.ptmsi = q, !.new = n]
    BY <1>1, <1>2 DEF Again, Attached
  <1>4. /\ CtxShape(z) /\ z.used = y.used /\ (z.imsi <=> y.imsi) /\ z.tlli = t
        /\ z.old = o /\ z.ptmsi = q /\ z.new = n /\ z.mode = y.mode
    BY <1>3 DEF CtxShape, CtxFields
  <1> QED
    BY <1>1, <1>2, <1>4

LEMMA AttachedNew ==
  ASSUME NEW y, CtxShape(y), NEW by, NEW t, NEW ra, NEW llme, NEW q, NEW z, z = Afresh(y, by, t, ra, llme, q)
  PROVE  /\ CtxShape(z) /\ z.used = y.used /\ (z.imsi <=> y.imsi \/ by = "IMSI") /\ z.tlli = t
         /\ z.old = (IF by = "IMSI" THEN 0 ELSE t.p) /\ z.ptmsi = q /\ z.new = Local(q) /\ z.mode = y.mode
  <1>1. PICK o : o = IF by = "IMSI" THEN 0 ELSE t.p  OBVIOUS
  <1>2. PICK n : n = Local(q)  OBVIOUS
  <1>3. z = [y EXCEPT !.imsi = @ \/ (~FALSE /\ by = "IMSI"), !.tlli = t, !.llme = llme, !.ra = ra,
                      !.old = o, !.ptmsi = q, !.new = n]
    BY <1>1, <1>2 DEF Afresh, Attached
  <1>4. /\ CtxShape(z) /\ z.used = y.used /\ (z.imsi <=> y.imsi \/ by = "IMSI") /\ z.tlli = t
        /\ z.old = o /\ z.ptmsi = q /\ z.new = n /\ z.mode = y.mode
    BY <1>3 DEF CtxShape, CtxFields
  <1> QED
    BY <1>1, <1>2, <1>4

\* gsm48_rx_gmm_att_req() of an MS that is known: its context gets a new P-TMSI.
LEMMA KnownReady ==
  ASSUME NEW A, SgFine(A), NEW c \in 1..NumCtx, A.ctx[c].used, NEW by, NEW t, Asks(by, t), NEW ra, NEW llme,
         t.kind = "foreign" => Named(A.ctx[c], t.p),
         NEW q \in Ptmsis, \A d \in 1..NumCtx : ~Named(A.ctx[d], q),
         NEW z, z = Again(A.ctx[c], by, t, ra, llme, q), NEW U, Turns(A, U, c, z)
  PROVE  Ready(U, A, c)
  <1>1. CtxsFine(A.ctx, A.list) /\ SgShape(A) /\ CtxShapes(A.ctx) /\ CtxShape(A.ctx[c]) /\ Timed(A.ctx[c])
    BY CtxAt DEF SgFine
  <1>2. /\ CtxShape(z) /\ z.used = A.ctx[c].used /\ (z.imsi <=> A.ctx[c].imsi) /\ z.tlli = t
        /\ z.old = A.ctx[c].ptmsi /\ z.ptmsi = q /\ z.new = Local(q) /\ z.mode = A.ctx[c].mode
    <2>1. PICK y : y = A.ctx[c]  OBVIOUS
    <2>2. z = Again(y, by, t, ra, llme, q) /\ CtxShape(y)
      BY <1>1, <2>1
    <2>3. /\ CtxShape(z) /\ z.used = y.used /\ (z.imsi <=> y.imsi) /\ z.tlli = t
          /\ z.old = y.ptmsi /\ z.ptmsi = q /\ z.new = Local(q) /\ z.mode = y.mode
      BY <2>2, AttachedKnown
    <2> QED  BY <2>1, <2>3
  <1>4. SgShape(U) /\ U.pdp = A.pdp /\ U.ms = A.ms /\ U.out = A.out /\ U.list = A.list /\ U.ctx = Put(A.ctx, c, z)
    BY DEF Turns
  <1>5. CtxShapes(U.ctx) /\ U.ctx[c] = z
    BY <1>1, <1>2, <1>4, CtxSet
  <1>6. ASSUME NEW x, CtxShape(x), Alike(x, z), Timed(x) PROVE CtxsFine(Put(U.ctx, c, x), U.list)
    <2>1. Put(U.ctx, c, x) = Put(A.ctx, c, x)
      BY <1>1, <1>4, PutPut
    <2>2. Renamed(x, A.ctx[c], t, q)
      BY <1>2, <1>6 DEF Renamed, Alike
    <2>3. t.kind \in {"local", "foreign"} => Named(A.ctx[c], t.p)
      BY DEF Asks
    <2>4. Fits(A.ctx, c, x)
      BY <1>1, <1>6, <2>2, <2>3, RenamedFits
    <2>5. CtxsFine(Put(A.ctx, c, x), A.list)
      BY <1>1, <2>4, CtxMoves
    <2> QED  BY <1>4, <2>1, <2>5
  <1>7. z.used /\ z.mode \in {"ATT", "RAU"}
    BY <1>1, <1>2 DEF Timed
  <1> QED
    BY <1>4, <1>5, <1>6, <1>7 DEF Ready

\* sgsn_mm_ctx_alloc()
LEMMA AllocDoes ==
  ASSUME NEW A, SgFine(A), FreeCtxs(A) # {}, NEW c, c = NewCtx(A), NEW t, NEW ra,
         NEW T, T = sgsn_mm_ctx_alloc(A, t, ra)
  PROVE  /\ c \in 1..NumCtx /\ ~A.ctx[c].used
         /\ \E y : /\ SgShape(T) /\ T.ctx = Put(A.ctx, c, y) /\ T.list = <<c>> \o A.list /\ T.pdp = A.pdp
                   /\ T.ms = A.ms /\ T.out = A.out /\ CtxShape(y) /\ y.used /\ ~y.imsi /\ y.mode = "ATT"
  <1>1. c \in FreeCtxs(A)
    <2>1. FreeCtxs(A) \in SUBSET Nat  BY DEF FreeCtxs
    <2> QED  BY <2>1, LeastIsIn DEF NewCtx
  <1>2. c \in 1..NumCtx /\ ~A.ctx[c].used
    BY <1>1 DEF FreeCtxs
  <1>3. PICK y : y = [NoCtx EXCEPT !.used = TRUE, !.tlli = t, !.ra = ra]  OBVIOUS
  <1>4. CtxShape(y) /\ y.used /\ ~y.imsi /\ y.mode = "ATT"
    BY <1>3, StoppedTimer DEF NoCtx, CtxShape, CtxFields
  <1>5. PICK M : M = <<c>> \o A.list  OBVIOUS
  <1>6. T = [A EXCEPT !.ctx[c] = y, !.list = M]
    BY <1>3, <1>5 DEF sgsn_mm_ctx_alloc
  <1> HIDE <1>3, <1>5
  <1>7. /\ SgShape(T) /\ T.ctx = Put(A.ctx, c, y) /\ T.list = M /\ T.pdp = A.pdp /\ T.ms = A.ms /\ T.out = A.out
    BY <1>6 DEF SgFine, SgShape, SgFields, Put
  <1> QED
    BY <1>2, <1>4, <1>5, <1>7

\* gsm48_rx_gmm_att_req() of an MS that is not: it gets a context.
LEMMA NewReady ==
  ASSUME NEW A, SgFine(A), FreeCtxs(A) # {}, NEW c, c = NewCtx(A), NEW by, NEW t, Asks(by, t), NEW ra, NEW llme,
         by = "IMSI" => \A d \in 1..NumCtx : A.ctx[d].used => ~A.ctx[d].imsi,
         by = "PTMSI" => \A d \in 1..NumCtx : A.ctx[d].used => A.ctx[d].ptmsi # t.p,
         NEW q \in Ptmsis, \A d \in 1..NumCtx : ~Named(A.ctx[d], q),
         NEW tl, NEW T, T = sgsn_mm_ctx_alloc(A, tl, ra),
         NEW z, z = Afresh(T.ctx[c], by, t, ra, llme, q), NEW U, Turns(T, U, c, z)
  PROVE  c \in 1..NumCtx /\ Ready(U, A, c)
  <1>1. CtxsFine(A.ctx, A.list) /\ CtxShapes(A.ctx)
    BY DEF SgFine, CtxsFine
  <1>2. c \in 1..NumCtx /\ ~A.ctx[c].used
    BY AllocDoes
  <1>3. PICK y : /\ SgShape(T) /\ T.ctx = Put(A.ctx, c, y) /\ T.list = <<c>> \o A.list /\ T.pdp = A.pdp
                 /\ T.ms = A.ms /\ T.out = A.out /\ CtxShape(y) /\ y.used /\ ~y.imsi /\ y.mode = "ATT"
    BY AllocDoes
  <1>4. T.ctx[c] = y
    BY <1>1, <1>2, <1>3, PutAt
  <1>5. /\ CtxShape(z) /\ z.used /\ (z.imsi <=> by = "IMSI") /\ z.tlli = t
        /\ z.old = (IF by = "IMSI" THEN 0 ELSE t.p) /\ z.ptmsi = q /\ z.new = Local(q) /\ z.mode = "ATT"
    <2>1. z = Afresh(y, by, t, ra, llme, q)
      BY <1>4
    <2> QED  BY <1>3, <2>1, AttachedNew
  <1>7. SgShape(U) /\ U.pdp = A.pdp /\ U.ms = A.ms /\ U.out = A.out /\ U.list = <<c>> \o A.list
    BY <1>3 DEF Turns
  <1>8. U.ctx = Put(A.ctx, c, z)
    BY <1>1, <1>2, <1>3, PutPut DEF Turns
  <1>9. CtxShapes(U.ctx) /\ U.ctx[c] = z
    BY <1>1, <1>2, <1>5, <1>8, CtxSet
  <1>10. ASSUME NEW x, CtxShape(x), Alike(x, z), Timed(x) PROVE CtxsFine(Put(U.ctx, c, x), U.list)
    <2>1. Put(U.ctx, c, x) = Put(A.ctx, c, x)
      BY <1>1, <1>2, <1>8, PutPut
    <2>2. /\ x.used /\ (x.imsi <=> by = "IMSI") /\ x.tlli = t /\ x.old = (IF by = "IMSI" THEN 0 ELSE t.p)
          /\ x.ptmsi = q /\ x.new = Local(q)
      BY <1>5, <1>10 DEF Alike
    <2>3. Own(x)
      BY <2>2 DEF Own
    <2>4. ASSUME NEW d \in 1..NumCtx, d # c, A.ctx[d].used
          PROVE  ~Named(x, A.ctx[d].ptmsi) /\ ~Named(A.ctx[d], x.ptmsi)
      <3>1. A.ctx[d].ptmsi # 0
        BY <1>1, <2>4, CtxAt DEF Own, Ptmsis
      <3>2. A.ctx[d].ptmsi # q /\ ~Named(A.ctx[d], q)
        BY DEF Named
      <3> QED  BY <2>2, <2>4, <3>1, <3>2 DEF Named, Of, Asks
    <2>5. SoleImsi(A.ctx, c, x)
      BY <2>2 DEF SoleImsi
    <2>6. Fits(A.ctx, c, x)
      BY <1>10, <2>2, <2>3, <2>4, <2>5 DEF Fits, Clear
    <2>7. CtxsFine(Put(A.ctx, c, x), <<c>> \o A.list)
      BY <1>1, <1>2, <2>6, CtxComes
    <2> QED  BY <1>7, <2>1, <2>7
  <1> QED
    BY <1>2, <1>5, <1>7, <1>9, <1>10 DEF Ready

LEMMA ReadyStep ==
  ASSUME NEW A, SgFine(A), A.out = {}, ~Registered(A.ms), NEW c \in 1..NumCtx, NEW U, Ready(U, A, c),
         NEW l, NEW t, NEW n, SgBecomes(gsm48_gmm_authorize(gprs_llgmm_assign(U, l, t, n), c, "ATT"))
  PROVE  Step
  <1>1. PICK V : V = gprs_llgmm_assign(U, l, t, n)  OBVIOUS
  <1>2. Keeps(U, V)
    BY <1>1, AssignKeeps DEF Ready
  <1>3. SgBecomes(gsm48_gmm_authorize(V, c, "ATT"))
    BY <1>1
  <1> HIDE <1>1
  <1>4. V.ctx = U.ctx /\ V.list = U.list /\ V.ms = A.ms /\ V.pdp = A.pdp /\ V.out = {} /\ SgShape(V)
    BY <1>2 DEF Keeps, Ready
  <1>5. MsFine(V.ms, V.ctx) /\ ~Registered(V.ms) /\ PdpsFine(V.pdp)
    BY <1>4, MsAnywhere DEF SgFine
  <1>6. /\ CtxShapes(V.ctx) /\ V.ctx[c].used /\ V.ctx[c].mode \in {"ATT", "RAU"}
        /\ \A x : CtxShape(x) /\ Alike(x, V.ctx[c]) /\ Timed(x) => CtxsFine(Put(V.ctx, c, x), V.list)
    BY <1>4 DEF Ready
  <1> QED
    BY <1>3, <1>4, <1>5, <1>6, AuthorizedStep

\* gsm48_rx_gmm_att_req()
LEMMA AcceptStep ==
  ASSUME NEW A, SgFine(A), A.out = {}, ~Registered(A.ms), NEW by \in {"IMSI", "PTMSI"}, NEW t, Asks(by, t),
         NEW ctx, \/ ctx = 0
                  \/ ctx \in 1..NumCtx /\ A.ctx[ctx].used /\ (t.kind \in {"local", "foreign"} => Named(A.ctx[ctx], t.p)),
         NEW ra, NEW llme, NEW q \in Ptmsis, \A d \in 1..NumCtx : ~Named(A.ctx[d], q),
         SgBecomes(gsm48_rx_gmm_att_req(A, ctx, by, t, ra, llme, q))
  PROVE  Step
  <1>1. PICK c0 : c0 = IF ctx # 0 THEN ctx
                       ELSE IF by = "IMSI" THEN sgsn_mm_ctx_by_imsi(A) ELSE sgsn_mm_ctx_by_ptmsi(A, t.p)  OBVIOUS
  <1>2. PICK tl : tl = IF by = "IMSI" THEN None ELSE t  OBVIOUS
  <1>3. PICK T : T = IF c0 # 0 THEN A ELSE sgsn_mm_ctx_alloc(A, tl, ra)  OBVIOUS
  <1>4. PICK c : c = IF c0 # 0 THEN c0 ELSE NewCtx(A)  OBVIOUS
  <1>5. PICK z : z = Attached(T.ctx[c], c0 # 0, by, t, ra, llme, q)  OBVIOUS
  <1>6. PICK U : U = [T EXCEPT !.ctx[c] = z]  OBVIOUS
  <1>7. gsm48_rx_gmm_att_req(A, ctx, by, t, ra, llme, q) =
          IF T.full THEN T ELSE gsm48_gmm_authorize(gprs_llgmm_assign(U, llme, t, Local(q)), c, "ATT")
    BY <1>1, <1>2, <1>3, <1>4, <1>5, <1>6 DEF gsm48_rx_gmm_att_req
  <1>8. ~T.full /\ SgBecomes(gsm48_gmm_authorize(gprs_llgmm_assign(U, llme, t, Local(q)), c, "ATT"))
    BY <1>7 DEF SgBecomes
  <1>9. Listed(A.ctx, A.list) /\ CtxsFine(A.ctx, A.list)
    BY DEF SgFine, CtxsFine
  <1>10. CASE c0 # 0
    <2>1. c \in 1..NumCtx /\ A.ctx[c].used /\ (t.kind = "foreign" => Named(A.ctx[c], t.p))
      <3>1. CASE ctx # 0
        BY <1>1, <1>4, <1>10, <3>1
      <3>2. CASE ctx = 0 /\ by = "IMSI"
        BY <1>1, <1>4, <1>9, <1>10, <3>2, ByImsi DEF Asks
      <3>3. CASE ctx = 0 /\ by = "PTMSI"
        BY <1>1, <1>4, <1>9, <1>10, <3>3, ByPtmsi
      <3> QED  BY <3>1, <3>2, <3>3
    <2>2. z = Again(A.ctx[c], by, t, ra, llme, q) /\ Turns(A, U, c, z)
      <3>1. T = A /\ SgShape(A)
        BY <1>3, <1>10 DEF SgFine
      <3>2. Turns(A, U, c, z)
        BY <1>6, <3>1, PutTurns
      <3>3. (c0 # 0) = TRUE
        BY <1>10
      <3> QED  BY <1>5, <3>1, <3>2, <3>3 DEF Again
    <2> HIDE <1>1, <1>2, <1>3, <1>4, <1>5, <1>6
    <2>3. Ready(U, A, c)
      BY <2>1, <2>2, KnownReady
    <2> QED  BY <1>8, <2>1, <2>3, ReadyStep
  <1>11. CASE c0 = 0
    <2>1. ctx = 0
      BY <1>1, <1>11
    <2>2. FreeCtxs(A) # {}
      <3>1. ASSUME FreeCtxs(A) = {} PROVE T = [A EXCEPT !.full = TRUE]
        BY <1>3, <1>11, <3>1 DEF sgsn_mm_ctx_alloc
      <3>2. [A EXCEPT !.full = TRUE].full = TRUE
        BY DEF SgFine, SgShape, SgFields
      <3> QED  BY <1>8, <3>1, <3>2
    <2>3. by = "IMSI" => \A d \in 1..NumCtx : A.ctx[d].used => ~A.ctx[d].imsi
      <3>1. ASSUME by = "IMSI" PROVE c0 = sgsn_mm_ctx_by_imsi(A)
        BY <1>1, <2>1, <3>1
      <3>2. 0 \notin 1..NumCtx
        BY SgBounds
      <3> HIDE <1>1, <1>2, <1>3, <1>4, <1>5, <1>6
      <3> QED  BY <1>9, <1>11, <3>1, <3>2, ByImsi
    <2>4. by = "PTMSI" => \A d \in 1..NumCtx : A.ctx[d].used => A.ctx[d].ptmsi # t.p
      BY <1>1, <1>9, <1>11, <2>1, ByPtmsi, SgBounds
    <2>5. /\ c = NewCtx(A) /\ T = sgsn_mm_ctx_alloc(A, tl, ra)
          /\ z = Afresh(T.ctx[c], by, t, ra, llme, q)
      <3>1. (c0 # 0) = FALSE
        BY <1>11
      <3> QED  BY <1>3, <1>4, <1>5, <1>11, <3>1 DEF Afresh
    <2>7. Turns(T, U, c, z)
      <3>1. SgShape(T)
        BY <2>2, <2>5, AllocDoes
      <3> QED  BY <1>6, <3>1, PutTurns
    <2> HIDE <1>1, <1>2, <1>3, <1>4, <1>5, <1>6
    <2>6. c \in 1..NumCtx /\ Ready(U, A, c)
      BY <2>2, <2>3, <2>4, <2>5, <2>7, NewReady
    <2> HIDE <2>5
    <2> QED  BY <1>8, <2>6, ReadyStep
  <1> QED
    BY <1>10, <1>11

LEMMA AttachStep == ASSUME SgInv, NEW by \in {"IMSI", "PTMSI"}, AttachReq(by) PROVE Step
  <1>0. PICK k : k = CHOOSE j \in FreshRandom(sg) : TRUE  OBVIOUS
  <1>1. PICK t : t = IF sg.ms.st = "attaching" THEN sg.ms.tlli
                     ELSE IF by = "IMSI" THEN Random(k) ELSE Foreign(sg.ms.ptmsi)  OBVIOUS
  <1>2. PICK m : m = [sg.ms EXCEPT !.st = "attaching", !.tlli = t, !.pdp = "none", !.owes = {}]  OBVIOUS
  <1>3. PICK S : S = WithMs(SgNow, m)  OBVIOUS
  <1>4. PICK e : e = RxState(S, t, sg.ms.ra)  OBVIOUS
  <1>5. PICK q : q = NextPtmsi(sg)  OBVIOUS
  <1>6. S = [SgNow EXCEPT !.ms = [@ EXCEPT !.st = "attaching", !.tlli = t, !.pdp = "none", !.owes = {}]]
    BY <1>2, <1>3, Now DEF WithMs
  <1>7. SgBecomes(gsm48_rx_gmm_att_req(e.S, e.c, by, t, sg.ms.ra, e.l, q))
    BY <1>0, <1>1, <1>4, <1>5, <1>6 DEF AttachReq
  <1> HIDE <1>0, <1>6
  <1>8. CanRx(sg)
    BY DEF AttachReq
  <1>9. MsFine(sg.ms, sg.ctx)
    BY DEF SgInv, SgFine
  <1>10. sg.ms.st = "attaching" => ((by = "IMSI") = (t.kind = "random"))
    BY <1>1 DEF AttachReq
  <1>11. Asks(by, t) /\ (t.kind = "foreign" => t.p = sg.ms.ptmsi)
    <2>1. CASE sg.ms.st = "attaching"
      BY <1>1, <1>9, <1>10, <2>1 DEF MsFine, Asks
    <2>2. CASE sg.ms.st # "attaching"
      BY <1>1, <2>2 DEF Asks, Random, Foreign
    <2> QED  BY <2>1, <2>2
  <1> HIDE <1>1
  <1>12. MsShape(m) /\ m.st = "attaching" /\ m.tlli = t /\ m.ptmsi = sg.ms.ptmsi /\ m.owes = {}
    BY <1>2, <1>9 DEF MsFine, MsShape
  <1>13. MsFine(m, sg.ctx) /\ ~Registered(m)
    BY <1>11, <1>12 DEF MsFine, Registered, Asks
  <1> HIDE <1>2
  <1>14. SgFine(S) /\ S.ms = m /\ S.ctx = sg.ctx /\ S.out = {}
    BY <1>3, <1>13, Now, MsPut
  <1>15. q \in Ptmsis /\ \A d \in 1..NumCtx : ~Named(sg.ctx[d], q)
    BY <1>5, <1>8, Fresh
  <1>16. t.kind # "local"
    BY <1>11 DEF Asks
  <1>17. /\ SgFine(e.S) /\ e.S.ms = m /\ e.S.out = {} /\ \A d \in 1..NumCtx : ~Named(e.S.ctx[d], q)
         /\ \/ e.c = 0
            \/ e.c \in 1..NumCtx /\ e.S.ctx[e.c].used /\ (t.kind \in {"local", "foreign"} => Named(e.S.ctx[e.c], t.p))
    <2>1. Registered(S.ms) => t \in {Local(S.ms.ptmsi), Foreign(S.ms.ptmsi)}
      BY <1>13, <1>14
    <2>2. /\ SgFine(e.S) /\ e.S.ms = S.ms /\ e.S.out = S.out
          /\ \/ e.c = 0
             \/ e.c \in 1..NumCtx /\ e.S.ctx[e.c].used /\ (t.kind \in {"local", "foreign"} => Named(e.S.ctx[e.c], t.p))
      BY <1>4, <1>14, <2>1, RxFine
    <2>3. \A p : /\ t.kind = "local" => p # t.p
                 /\ \A d \in 1..NumCtx : ~Named(S.ctx[d], p)
                 => \A d \in 1..NumCtx : ~Named(e.S.ctx[d], p)
      BY <1>4, <1>14, <2>1, RxFine
    <2> QED
      BY <1>14, <1>15, <1>16, <2>2, <2>3
  <1> HIDE <1>3, <1>4, <1>5
  <1> QED
    BY <1>7, <1>11, <1>13, <1>15, <1>17, AcceptStep

-----------------------------------------------------------------------------
(* Theorems *)

LEMMA SgInitInv == SgInit => SgInv
  <1> SUFFICES ASSUME SgInit PROVE SgInv  OBVIOUS
  <1>1. PICK C : C = [c \in 1..NumCtx |-> NoCtx]  OBVIOUS
  <1>2. PICK P : P = [p \in 1..NumCtx |-> NoPdp]  OBVIOUS
  <1>3. PICK m : m = [st |-> "off", ptmsi |-> 0, ra |-> 1, was |-> 1, tlli |-> None, pdp |-> "none", owes |-> {}]
    OBVIOUS
  <1>4. sg.ctx = C /\ sg.list = <<>> /\ sg.pdp = P /\ sg.ms = m /\ SgShape(sg)
    BY <1>1, <1>2, <1>3 DEF SgInit, SgShape, SgFields
  <1>5. CtxShape(NoCtx) /\ ~NoCtx.used
    BY StoppedTimer DEF NoCtx, CtxShape, CtxFields
  <1>6. CtxShapes(C) /\ \A c \in 1..NumCtx : ~C[c].used
    BY <1>1, <1>5 DEF CtxShapes
  <1>7. Listed(C, <<>>)
    BY <1>6 DEF Listed
  <1>8. CtxsFine(C, <<>>)
    BY <1>6, <1>7 DEF CtxsFine, OneImsi, Apart
  <1>9. MsFine(m, C)
    BY <1>3 DEF MsFine, MsShape, Registered
  <1>10. PdpShape(NoPdp) /\ ~NoPdp.used
    BY DEF NoPdp, PdpShape, PdpFields
  <1>11. PdpsFine(P)
    BY <1>2, <1>10 DEF PdpsFine
  <1> QED
    BY <1>4, <1>8, <1>9, <1>11 DEF SgInv, SgFine

\* Every step keeps the invariant, one lemma per action.
LEMMA SgNextStep == ASSUME SgInv, SgNext PROVE Step
  <1>1. ASSUME NEW by \in {"IMSI", "PTMSI"}, AttachReq(by) PROVE Step
    BY <1>1, AttachStep
  <1>2. ASSUME NEW type \in {"IMSI", "IMEI"}, SgIdResp(type) PROVE Step
    BY <1>2, IdRespStep
  <1>3. ASSUME NEW what \in {"ATT_COMPL", "RAU_COMPL"}, Complete(what) PROVE Step
    BY <1>3, CompleteStep
  <1>4. DetachReq \/ DeactPdpReq \/ DeactPdpAck \/ GgsnRestarts \/ Suspend \/ Resume => Step
    BY DetachStep, DeactStep, DeactAckStep, RestartStep, SuspendStep
  <1>5. ASSUME NEW ra \in sgEnv.ras, NEW mentions \in BOOLEAN, RaUpdReq(ra, mentions) PROVE Step
    BY <1>5, RaUpdStep
  <1>6. ASSUME NEW ok \in BOOLEAN, ActPdpReq(ok) PROVE Step
    BY <1>6, ActStep
  <1>7. ASSUME NEW c \in 1..NumCtx, MmTimer(c) \/ PdpTimer(c) \/ DeleteConf(c) \/ GgsnData(c) PROVE Step
    BY <1>7, MmTimerStep, PdpTimerStep, DeleteConfStep, DataStep
  <1>8. ASSUME NEW c \in 1..NumCtx, NEW cause \in {"accepted", "refused", "timeout"}, CreateConf(c, cause) PROVE Step
    BY <1>8, CreateConfStep
  <1>9. ASSUME NEW p \in {0, Alien, sg.ms.ptmsi}, MsAway(p) PROVE Step
    BY <1>9, AwayStep
  <1> QED
    BY <1>1, <1>2, <1>3, <1>4, <1>5, <1>6, <1>7, <1>8, <1>9 DEF SgNext

\* The contexts are listed, apart from each other and watched (SgInv), in every reachable state.
THEOREM SgContextsFine == SgSpec => []SgInv
  <1>1. SgInv /\ [SgNext]_sgVars => SgInv'
    <2>1. SgInv /\ SgNext => SgInv'
      BY SgNextStep DEF Step
    <2>2. SgInv /\ UNCHANGED sgVars => SgInv'
      BY DEF SgInv, sgVars
    <2> QED  BY <2>1, <2>2
  <1> QED
    BY <1>1, SgInitInv, PTL DEF SgSpec

\* An IMSI has one MM context: gsm48_rx_gmm_id_resp() frees the one another P-TMSI of it has.
THEOREM OneContextHolds == SgSpec => []OneContext
  <1>1. SgInv => OneContext
    <2> SUFFICES ASSUME SgInv PROVE OneContext  OBVIOUS
    <2>1. PICK X : X = {c \in 1..NumCtx : sg.ctx[c].used /\ sg.ctx[c].imsi}  OBVIOUS
    <2>2. \A c, d \in X : c = d
      BY <2>1 DEF SgInv, SgFine, CtxsFine, OneImsi
    <2>3. CASE X = {}
      <3>1. Cardinality(X) = 0
        BY <2>3, FS_EmptySet
      <3> QED  BY <2>1, <3>1 DEF OneContext
    <2>4. CASE X # {}
      <3>1. PICK x \in X : TRUE
        BY <2>4
      <3>2. X = {x}
        BY <2>2
      <3>3. Cardinality(X) = 1
        BY <3>2, FS_Singleton
      <3> QED  BY <2>1, <3>3 DEF OneContext
    <2> QED  BY <2>3, <2>4
  <1> QED
    BY <1>1, SgContextsFine, PTL

\* A procedure that waits for the MS is watched by T3370, also after answers that are lost or come twice.
THEOREM ProcedureWatchedHolds == SgSpec => []ProcedureWatched
  <1>1. SgInv => ProcedureWatched
    BY DEF SgInv, SgFine, CtxsFine, Timed, ProcedureWatched
  <1> QED
    BY <1>1, SgContextsFine, PTL

\* ACTIVATE PDP CONTEXT ACCEPT is sent for a context the GGSN has confirmed, by create_pdp_conf()
\* as well as in the answer to a repeated request.
THEOREM AcceptMeansUpHolds == SgSpec => AcceptMeansUp
  <1>1. SgInv /\ [SgNext]_sgVars =>
          [~SgHas("slow_ggsn") /\ "ACT_ACC" \in sg'.out => \E p \in 1..NumCtx : sg'.pdp[p].used /\ sg'.pdp[p].up]_sgVars
    BY SgNextStep DEF Step, MeansUp
  <1> QED
    BY <1>1, SgContextsFine, PTL DEF SgSpec, AcceptMeansUp

-----------------------------------------------------------------------------
(* Llc: the invariant *)

\* No frame is lost, doubled or overtaken.
InTurn == \A f \in {"lose", "lose_first", "twice", "overtake"} : ~LlHas(f)
\* The numbers have not begun again.
Early(L) == L.frames < llEnv.mod
Clean(L) == ~LlHas("lose_first") /\ ~LlHas("overtake") /\ (InTurn \/ Early(L))

LlFields == {"state", "vu_recv", "vu_send", "sne", "frames", "sizes", "air", "up", "dropped", "bad", "tx_npdu_nr"}
Shape(L) == L = [n \in LlFields |-> L[n]]
SneFields == {"npdu", "no_more", "high", "have", "frags"}

\* A frame is a segment of one of the N-PDUs sent, and has its number.
Cut(L, f) ==
    /\ f.id \in DOMAIN L.sizes /\ f.seg < L.sizes[f.id]
    /\ (f.first <=> f.seg = 0) /\ (f.more <=> f.seg + 1 < L.sizes[f.id])
Numbered(L, f) == f.abs \in 1..L.frames /\ f.nu = (f.abs - 1) % llEnv.mod
Waits(L) == L.air \in Seq(Seg) /\ \A i \in DOMAIN L.air : Cut(L, L.air[i]) /\ Numbered(L, L.air[i])
Counts(L) ==
    /\ L.frames \in Nat /\ L.up \in 0..L.frames /\ L.vu_recv \in 0..(llEnv.mod - 1)
    /\ L.sizes \in Seq(1..MaxSeg)

\* V(UR) is one more than the number of the last frame taken.
InStep(L) ==
    /\ Early(L) => L.vu_recv = L.up
    /\ InTurn => /\ L.vu_recv = L.up % llEnv.mod /\ Len(L.air) = L.frames - L.up
                 /\ \A i \in DOMAIN L.air : L.air[i].abs = L.up + i
    /\ Early(L) \/ InTurn => ~L.dropped

\* Frames wait in the order in which they were sent.
Ordered(L) ==
    \A i, j \in DOMAIN L.air : i < j => /\ L.air[i].abs < L.air[j].abs /\ L.air[i].id <= L.air[j].id
                                        /\ L.air[i].id = L.air[j].id => L.air[i].seg < L.air[j].seg

\* The queue of segments is of one N-PDU, none is in it twice, and what is recorded of it is right.
OneNpdu(L, q) ==
    /\ q \in Seq(Seg)
    /\ \A i, j \in DOMAIN q : q[i].id = q[j].id /\ (q[i].seg = q[j].seg => i = j)
    /\ \A i \in DOMAIN q : Cut(L, q[i])
Segs(q) == {q[i].seg : i \in DOMAIN q}
Ended(q) == \E i \in DOMAIN q : ~q[i].more
Recorded(d) ==
    /\ d.have = Segs(d.frags) /\ d.high \in d.have /\ \A n \in d.have : n <= d.high
    /\ d.no_more <=> Ended(d.frags)
Whole(L, d) == d = [n \in SneFields |-> d[n]] /\ OneNpdu(L, d.frags) /\ (d.frags # <<>> => Recorded(d))

\* f is a later segment of the N-PDU in the queue.
Awaits(d, f) ==
    /\ d.frags # <<>> /\ ~d.no_more
    /\ \A i \in DOMAIN d.frags : d.frags[i].id = f.id /\ d.frags[i].seg < f.seg

\* A frame to come, not the first of its N-PDU, is awaited, or its first comes before it.
Opens(L, j) == L.air[j].first /\ L.air[j].abs > L.up
Led(L) ==
    \A i \in DOMAIN L.air : L.air[i].abs > L.up /\ ~L.air[i].first =>
        \/ Awaits(L.sne, L.air[i]) /\ \A j \in 1..(i - 1) : ~Opens(L, j)
        \/ \E j \in 1..(i - 1) : Opens(L, j) /\ L.air[j].id = L.air[i].id

LlFine(L) ==
    /\ Shape(L) /\ Waits(L) /\ Counts(L) /\ InStep(L)
    /\ Clean(L) => Ordered(L) /\ Whole(L, L.sne) /\ Led(L) /\ ~L.bad
LlInv == llEnv \in LlcEnvs /\ LlFine(ll)

-----------------------------------------------------------------------------
(* Numbers and queues *)

\* The remainder of a number written as a multiple and a rest.
LEMMA ModOf ==
    ASSUME NEW m \in Nat \ {0}, NEW q \in Nat, NEW r \in 0..(m - 1)
    PROVE  (m * q + r) % m = r
  OBVIOUS

\* Counting on goes through the remainder.
LEMMA ModNext ==
    ASSUME NEW x \in Nat, NEW m \in Nat \ {0}
    PROVE  ((x % m) + 1) % m = (x + 1) % m
  <1>1. PICK q \in Nat, r \in 0..(m - 1) : q = x \div m /\ r = x % m
    OBVIOUS
  <1>2. x = m * q + r
    BY <1>1
  <1>3. CASE r + 1 < m
    <2>1. x + 1 = m * q + (r + 1) /\ r + 1 \in 0..(m - 1)
      BY <1>2, <1>3
    <2>2. (m * q + (r + 1)) % m = r + 1
      BY <2>1, ModOf
    <2>3. (x + 1) % m = r + 1 /\ (r + 1) % m = r + 1
      BY <2>1, <2>2, <1>3
    <2> QED BY <1>1, <2>3
  <1>4. CASE r + 1 = m
    <2>1. x + 1 = m * (q + 1) + 0
      BY <1>2, <1>4
    <2>2. (m * (q + 1) + 0) % m = 0
      <3>1. q + 1 \in Nat /\ 0 \in 0..(m - 1)
        OBVIOUS
      <3> QED BY <3>1, ModOf
    <2>3. (x + 1) % m = 0 /\ m % m = 0
      BY <2>1, <2>2
    <2> QED BY <1>1, <1>4, <2>3
  <1> QED BY <1>3, <1>4


\* A sequence of n elements behind another.
Joined(T, q, n, f, r) ==
    /\ r \in Seq(T) /\ Len(r) = Len(q) + n
    /\ \A i \in 1..Len(q) : r[i] = q[i]
    /\ \A i \in 1..n : r[Len(q) + i] = f[i]

\* Concatenation puts it there.
LEMMA ConcatElements ==
    ASSUME NEW T, NEW q \in Seq(T), NEW n \in Nat, NEW f, f \in [1..n -> T], NEW r, r = q \o f
    PROVE  Joined(T, q, n, f, r)
  <1>1. f \in Seq(T) /\ Len(f) = n
    BY SeqDef
  <1>2. Len(q) \in Nat
    OBVIOUS
  <1>3. r \in Seq(T) /\ Len(r) = Len(q) + Len(f)
        /\ \A x \in 1..(Len(q) + Len(f)) : r[x] = IF x <= Len(q) THEN q[x] ELSE f[x - Len(q)]
    BY <1>1, ConcatProperties
  <1>4. \A i \in 1..Len(q) : r[i] = q[i]
    BY <1>1, <1>2, <1>3
  <1>5. ASSUME NEW i \in 1..n
        PROVE  r[Len(q) + i] = f[i]
    <2>1. PICK x : x = Len(q) + i
      OBVIOUS
    <2>2. x \in 1..(Len(q) + Len(f)) /\ ~(x <= Len(q)) /\ x - Len(q) = i
      BY <1>1, <1>2, <2>1
    <2> QED BY <1>3, <2>1, <2>2
  <1> QED BY <1>1, <1>3, <1>4, <1>5 DEF Joined


-----------------------------------------------------------------------------
(* SNDCP *)

\* The rest of the state.
Beside(L, T) ==
    /\ Shape(T) /\ T.vu_recv = L.vu_recv /\ T.frames = L.frames /\ T.sizes = L.sizes /\ T.air = L.air
    /\ T.up = L.up /\ T.dropped = L.dropped
PutSne(L, d) == [L EXCEPT !.sne = d]

\* A new reassembly queue changes nothing else.
LEMMA SneOnly ==
    ASSUME NEW L, Shape(L), NEW d, NEW T, T = PutSne(L, d)
    PROVE  Beside(L, T) /\ T.sne = d /\ T.bad = L.bad
  BY DEF Shape, LlFields, PutSne, Beside

\* Handing an N-PDU up records whether it is intact.
LEMMA HandedUp ==
    ASSUME NEW L, Shape(L), NEW segs, NEW n, NEW T, T = sgsn_rx_sndcp_ud_ind(L, segs, n)
    PROVE  Beside(L, T) /\ T.sne = L.sne /\ (~L.bad /\ Intact(L, segs, n) => ~T.bad)
  BY DEF Shape, LlFields, sgsn_rx_sndcp_ud_ind, Beside

\* What becomes of the queue when a segment has come in.
Entered(L, s) ==
    [defrag_enqueue(IF s.first THEN [NoDefrag EXCEPT !.npdu = s.npdu] ELSE L.sne, s) EXCEPT !.no_more = @ \/ ~s.more]

\* SNDCP touches the reassembly queue and what is handed up.
LEMMA SndcpBeside ==
    ASSUME NEW L, Shape(L), NEW s, NEW T, T = sndcp_llunitdata_ind(L, s)
    PROVE  Beside(L, T)
  <1>1. CASE ~(~s.first \/ s.more)
    <2>1. T = sgsn_rx_sndcp_ud_ind(L, {s}, 1)
      BY <1>1 DEF sndcp_llunitdata_ind
    <2> QED BY <2>1, HandedUp
  <1>2. CASE ~s.first \/ s.more
    <2>1. PICK e, E : e = Entered(L, s) /\ E = PutSne(L, e)
      OBVIOUS
    <2>2. Beside(L, E)
      BY <2>1, SneOnly
    <2>3. T = defrag_segments(E) \/ T = E
      BY <1>2, <2>1 DEF sndcp_llunitdata_ind, defrag_input, Entered, PutSne
    <2>4. PICK D : D = PutSne(E, Rest(E.sne))
      OBVIOUS
    <2>5. Beside(E, D)
      BY <2>2, <2>4, SneOnly DEF Beside
    <2>6. defrag_segments(E) = D
          \/ defrag_segments(E) = sgsn_rx_sndcp_ud_ind(D, {E.sne.frags[i] : i \in Taken(E.sne)}, Len(E.sne.frags))
      BY <2>4 DEF defrag_segments, PutSne
    <2>7. Beside(D, defrag_segments(E)) \/ defrag_segments(E) = D
      BY <2>5, <2>6, HandedUp DEF Beside
    <2> QED BY <2>2, <2>3, <2>5, <2>7 DEF Beside
  <1> QED BY <1>1, <1>2

\* A segment put in front of the queue.
LEMMA InFront ==
    ASSUME NEW s \in Seg, NEW q \in Seq(Seg), NEW r, r = <<s>> \o q
    PROVE  /\ r \in Seq(Seg) /\ r # <<>> /\ Len(r) = Len(q) + 1 /\ r[1] = s
           /\ \A i \in DOMAIN r : (r[i] = s /\ i = 1) \/ (i - 1 \in DOMAIN q /\ r[i] = q[i - 1])
           /\ \A i \in DOMAIN q : i + 1 \in DOMAIN r /\ r[i + 1] = q[i]
  <1>1. Len(q) \in Nat /\ <<s>> \in Seq(Seg) /\ Len(<<s>>) = 1 /\ <<s>>[1] = s
    OBVIOUS
  <1>2. /\ r \in Seq(Seg) /\ Len(r) = Len(<<s>>) + Len(q)
        /\ \A x \in 1..(Len(<<s>>) + Len(q)) : r[x] = IF x <= Len(<<s>>) THEN <<s>>[x] ELSE q[x - Len(<<s>>)]
    BY <1>1, ConcatProperties
  <1>3. \A x \in 1..(Len(q) + 1) : r[x] = IF x <= 1 THEN s ELSE q[x - 1]
    BY <1>1, <1>2
  <1>4. r \in Seq(Seg) /\ Len(r) = Len(q) + 1
    BY <1>1, <1>2
  <1>5. r # <<>> /\ r[1] = s
    BY <1>1, <1>3, <1>4
  <1>6. ASSUME NEW i \in DOMAIN r
        PROVE  (r[i] = s /\ i = 1) \/ (i - 1 \in DOMAIN q /\ r[i] = q[i - 1])
    <2>1. i \in 1..(Len(q) + 1)
      BY <1>4
    <2>2. CASE i = 1
      BY <1>5, <2>2
    <2>3. CASE i # 1
      <3>1. r[i] = q[i - 1]
        BY <1>1, <1>3, <2>1, <2>3
      <3>2. i - 1 \in 1..Len(q)
        BY <1>1, <2>1, <2>3
      <3>3. DOMAIN q = 1..Len(q)
        OBVIOUS
      <3> QED BY <3>1, <3>2, <3>3
    <2> QED BY <2>2, <2>3
  <1>7. ASSUME NEW i \in DOMAIN q
        PROVE  i + 1 \in DOMAIN r /\ r[i + 1] = q[i]
    <2>1. PICK x : x = i + 1
      OBVIOUS
    <2>2. x \in 1..(Len(q) + 1) /\ ~(x <= 1) /\ x - 1 = i
      BY <1>1, <2>1
    <2> QED BY <1>3, <1>4, <2>1, <2>2
  <1> QED BY <1>4, <1>5, <1>6, <1>7

\* The queue when the segment s has come in, and what it then waits for.
Took(L, e, s) ==
    /\ Whole(L, e) /\ e.frags # <<>> /\ \A i \in DOMAIN e.frags : e.frags[i].id = s.id /\ e.frags[i].seg <= s.seg
    /\ e.no_more <=> ~s.more

\* The first segment begins a queue of its own.
LEMMA FirstTaken ==
    ASSUME NEW L, NEW s \in Seg, Cut(L, s), s.first, NEW e, e = Entered(L, s)
    PROVE  Took(L, e, s)
  <1>1. PICK d : d = [NoDefrag EXCEPT !.npdu = s.npdu]
    OBVIOUS
  <1>2. d = [n \in SneFields |-> d[n]] /\ d.frags = <<>> /\ d.have = {} /\ d.high = 0 /\ ~d.no_more
    BY <1>1 DEF NoDefrag, SneFields
  <1>3. PICK c : c = defrag_enqueue(d, s)
    OBVIOUS
  <1>4. s.seg = 0
    BY DEF Cut
  <1>5. c = [n \in SneFields |-> c[n]] /\ c.frags = <<s>> \o <<>> /\ c.have = {0} /\ c.high = 0 /\ ~c.no_more
    BY <1>2, <1>3, <1>4 DEF defrag_enqueue, SneFields
  <1>6. e = [c EXCEPT !.no_more = @ \/ ~s.more]
    BY <1>1, <1>3 DEF Entered
  <1>7. e = [n \in SneFields |-> e[n]] /\ e.frags = c.frags /\ e.have = {0} /\ e.high = 0 /\ (e.no_more <=> ~s.more)
    BY <1>5, <1>6 DEF SneFields
  <1>8. <<s>> \o <<>> = <<s>>
    OBVIOUS
  <1>9. PICK r : r = <<s>>
    OBVIOUS
  <1>10. r \in Seq(Seg) /\ DOMAIN r = {1} /\ r[1] = s /\ r # <<>>
    BY <1>9
  <1>11. e.frags = r
    BY <1>5, <1>7, <1>8, <1>9
  <1>12. \A i \in DOMAIN r : i = 1 /\ r[i] = s
    BY <1>10
  <1>13. OneNpdu(L, r)
    BY <1>10, <1>12 DEF OneNpdu
  <1>14. Segs(r) = {0}
    <2>1. Segs(r) = {s.seg}
      BY <1>10, <1>12 DEF Segs
    <2> QED BY <1>4, <2>1
  <1>15. Ended(r) <=> ~s.more
    BY <1>10, <1>12 DEF Ended
  <1>16. Recorded(e)
    BY <1>7, <1>11, <1>14, <1>15 DEF Recorded
  <1>17. Whole(L, e)
    BY <1>7, <1>11, <1>13, <1>16 DEF Whole
  <1>18. \A i \in DOMAIN r : r[i].id = s.id /\ r[i].seg <= s.seg
    BY <1>4, <1>12
  <1> QED BY <1>7, <1>10, <1>11, <1>17, <1>18 DEF Took

\* A segment that was awaited joins the others.
LEMMA NextTaken ==
    ASSUME NEW L, NEW s \in Seg, Cut(L, s), ~s.first, Whole(L, L.sne), Awaits(L.sne, s), NEW e, e = Entered(L, s)
    PROVE  Took(L, e, s)
  <1>1. PICK d : d = L.sne
    OBVIOUS
  <1>2. d = [n \in SneFields |-> d[n]] /\ OneNpdu(L, d.frags) /\ Recorded(d) /\ ~d.no_more
    BY <1>1 DEF Whole, Awaits
  <1>3. PICK q, r : q = d.frags /\ r = <<s>> \o q
    OBVIOUS
  <1>4. /\ r \in Seq(Seg) /\ r # <<>> /\ Len(r) = Len(q) + 1 /\ r[1] = s
        /\ \A i \in DOMAIN r : (r[i] = s /\ i = 1) \/ (i - 1 \in DOMAIN q /\ r[i] = q[i - 1])
        /\ \A i \in DOMAIN q : i + 1 \in DOMAIN r /\ r[i + 1] = q[i]
    <2>1. q \in Seq(Seg)
      BY <1>2, <1>3 DEF OneNpdu
    <2> QED BY <1>3, <2>1, InFront
  <1>5. PICK c : c = defrag_enqueue(d, s)
    OBVIOUS
  <1>6. /\ c = [n \in SneFields |-> c[n]] /\ c.frags = r /\ c.have = d.have \cup {s.seg}
        /\ c.high = (IF s.seg > d.high THEN s.seg ELSE d.high) /\ ~c.no_more
    BY <1>2, <1>3, <1>5 DEF defrag_enqueue, SneFields
  <1>7. e = [c EXCEPT !.no_more = @ \/ ~s.more]
    BY <1>1, <1>5 DEF Entered
  <1>8. e = [n \in SneFields |-> e[n]] /\ e.frags = r /\ e.have = c.have /\ e.high = c.high /\ (e.no_more <=> ~s.more)
    BY <1>6, <1>7 DEF SneFields
  <1>9. /\ \A i \in DOMAIN q : q[i] \in Seg /\ q[i].id = s.id /\ q[i].seg < s.seg /\ q[i].more
        /\ \A i \in DOMAIN q : Cut(L, q[i])
    <2>0. q \in Seq(Seg) /\ \A i \in DOMAIN q : Cut(L, q[i])
      BY <1>2, <1>3 DEF OneNpdu
    <2>1. \A i \in DOMAIN q : q[i] \in Seg /\ Cut(L, q[i])
      BY <2>0
    <2>2. \A i \in DOMAIN q : q[i].id = s.id /\ q[i].seg < s.seg
      BY <1>1, <1>3 DEF Awaits
    <2>3. \A i \in DOMAIN q : q[i].more
      BY <1>2, <1>3 DEF Recorded, Ended
    <2> QED BY <2>1, <2>2, <2>3
  <1>10. d.have = Segs(q) /\ d.high \in d.have
    BY <1>2, <1>3 DEF Recorded
  <1>11. \A i \in DOMAIN q : q[i].seg \in Nat
    BY <1>9 DEF Seg
  <1>12. s.seg \in Nat /\ d.high < s.seg /\ d.high \in Nat
    BY <1>9, <1>10, <1>11 DEF Seg, Segs
  <1>13. e.high = s.seg /\ e.have = d.have \cup {s.seg} /\ \A n \in d.have : n <= s.seg
    <2>1. e.high = s.seg /\ e.have = d.have \cup {s.seg}
      BY <1>6, <1>8, <1>12
    <2> QED BY <1>9, <1>10, <1>11, <1>12, <2>1 DEF Segs
  <1>14. e.have = Segs(r)
    <2>1. 1 \in DOMAIN r
      BY <1>4
    <2>2. ASSUME NEW n \in e.have
          PROVE  n \in Segs(r)
      BY <1>4, <1>10, <1>13, <2>1 DEF Segs
    <2>3. ASSUME NEW i \in DOMAIN r
          PROVE  r[i].seg \in e.have
      BY <1>4, <1>10, <1>13 DEF Segs
    <2> QED BY <2>2, <2>3 DEF Segs
  <1>15. \A i \in DOMAIN r : r[i].id = s.id /\ r[i].seg <= s.seg /\ Cut(L, r[i])
    BY <1>4, <1>9, <1>11, <1>12
  <1>16. \A i, j \in DOMAIN r : r[i].seg = r[j].seg => i = j
    <2>1. \A i, j \in DOMAIN q : q[i].seg = q[j].seg => i = j
      BY <1>2, <1>3 DEF OneNpdu
    <2>2. DOMAIN r \subseteq Int /\ \A i \in DOMAIN q : q[i].seg # s.seg
      BY <1>4, <1>9, <1>11, <1>12
    <2> QED BY <1>4, <2>1, <2>2
  <1>17. e.no_more <=> Ended(r)
    <2>1. 1 \in DOMAIN r
      BY <1>4
    <2>2. CASE ~s.more
      BY <1>4, <1>8, <2>1, <2>2 DEF Ended
    <2>3. CASE s.more
      BY <1>4, <1>8, <1>9, <2>3 DEF Ended
    <2> QED BY <2>2, <2>3
  <1>18. e.high \in e.have /\ \A n \in e.have : n <= e.high
    BY <1>12, <1>13
  <1>19. OneNpdu(L, r)
    BY <1>4, <1>15, <1>16 DEF OneNpdu
  <1>20. Recorded(e)
    BY <1>8, <1>14, <1>17, <1>18 DEF Recorded
  <1>21. Whole(L, e)
    BY <1>8, <1>19, <1>20 DEF Whole
  <1>22. e.frags = r /\ r # <<>> /\ (e.no_more <=> ~s.more)
    BY <1>4, <1>8
  <1>23. \A i \in DOMAIN e.frags : e.frags[i].id = s.id /\ e.frags[i].seg <= s.seg
    BY <1>15, <1>22
  <1> QED BY <1>21, <1>22, <1>23 DEF Took

\* defrag_get_seg() finds the one segment with a number.
LEMMA GetSeg ==
    ASSUME NEW L, NEW e, OneNpdu(L, e.frags), NEW i \in DOMAIN e.frags
    PROVE  defrag_get_seg(e, e.frags[i].seg) = i
  <1>1. PICK q, n : q = e.frags /\ n = q[i].seg
    OBVIOUS
  <1>2. q \in Seq(Seg) /\ \A j, k \in DOMAIN q : q[j].seg = q[k].seg => j = k
    BY <1>1 DEF OneNpdu
  <1>3. DOMAIN q = 1..Len(q) /\ Len(q) \in Nat
    BY <1>2
  <1>4. PICK I : I = {j \in 1..Len(q) : q[j].seg = n}
    OBVIOUS
  <1>5. I = {i} /\ i \in Int
    BY <1>1, <1>2, <1>3, <1>4
  <1>6. Min(I) = i
    BY <1>5 DEF Min
  <1>7. defrag_get_seg(e, n) = IF I # {} THEN Min(I) ELSE 0
    BY <1>1, <1>4 DEF defrag_get_seg, SelectInSeq
  <1> QED BY <1>1, <1>5, <1>6, <1>7

\* A queue with all the segments up to the last: an N-PDU as it was sent, and nothing stays behind.
LEMMA Completed ==
    ASSUME NEW L, Counts(L), NEW e, Whole(L, e), e.frags # <<>>, e.no_more, defrag_have_all_segments(e)
    PROVE  /\ Present(e) = 0..e.high /\ Rest(e) = [e EXCEPT !.frags = <<>>]
           /\ Intact(L, {e.frags[i] : i \in Taken(e)}, Len(e.frags))
  <1>1. PICK q, n : q = e.frags /\ n = Len(q)
    OBVIOUS
  <1>2. OneNpdu(L, q) /\ Recorded(e) /\ q # <<>>
    BY <1>1 DEF Whole
  <1>3. q \in Seq(Seg) /\ DOMAIN q = 1..n /\ n \in Nat
    BY <1>1, <1>2 DEF OneNpdu
  <1>4. 1 \in DOMAIN q
    BY <1>1, <1>2, <1>3
  <1>5. PICK x : x = q[1].id
    OBVIOUS
  <1>6. \A i \in DOMAIN q : q[i].id = x /\ Cut(L, q[i])
    BY <1>2, <1>4, <1>5 DEF OneNpdu
  <1>7. PICK size : size = L.sizes[x]
    OBVIOUS
  <1>8. x \in DOMAIN L.sizes /\ size \in 1..MaxSeg /\ MaxSeg \in Nat
    <2>1. x \in DOMAIN L.sizes
      BY <1>4, <1>6 DEF Cut
    <2> QED BY <1>7, <2>1, LlcBounds DEF Counts
  <1>9. \A i \in DOMAIN q : q[i].seg \in Nat /\ q[i].seg < size /\ (q[i].more <=> q[i].seg + 1 < size)
    <2>1. \A i \in DOMAIN q : q[i] \in Seg
      BY <1>3
    <2>2. \A i \in DOMAIN q : q[i].seg \in Nat
      BY <2>1 DEF Seg
    <2> QED BY <1>6, <1>7, <2>2 DEF Cut
  <1>10. e.have = Segs(q) /\ e.high \in Segs(q) /\ (\A m \in Segs(q) : m <= e.high) /\ Ended(q)
    BY <1>1, <1>2 DEF Recorded
  <1>11. e.high = size - 1
    <2>1. PICK i \in DOMAIN q : ~q[i].more
      BY <1>10 DEF Ended
    <2>2. q[i].seg = size - 1 /\ q[i].seg \in Segs(q)
      BY <1>8, <1>9, <2>1 DEF Segs
    <2>3. e.high \in Nat /\ e.high < size
      BY <1>9, <1>10 DEF Segs
    <2> QED BY <1>8, <1>10, <2>2, <2>3
  <1>12. Segs(q) = 0..(size - 1)
    BY <1>10, <1>11 DEF defrag_have_all_segments
  <1>13. \A i \in DOMAIN q : defrag_get_seg(e, q[i].seg) = i
    BY <1>1, <1>2, GetSeg
  <1>14. \A m \in 0..(size - 1) : \E i \in DOMAIN q : m = q[i].seg /\ defrag_get_seg(e, m) = i
    BY <1>12, <1>13 DEF Segs
  <1>15. \A m \in 0..(size - 1) : defrag_get_seg(e, m) # 0
    BY <1>3, <1>14
  <1>16. Present(e) = 0..(size - 1)
    <2>1. \A m \in 0..e.high : \A k \in 0..m : defrag_get_seg(e, k) # 0
      BY <1>8, <1>11, <1>15
    <2> QED BY <1>11, <2>1 DEF Present
  <1>17. Taken(e) = 1..n
    <2>1. ASSUME NEW i \in 1..n
          PROVE  i \in Taken(e)
      <3>1. q[i].seg \in Present(e)
        BY <1>3, <1>12, <1>16 DEF Segs
      <3> QED BY <1>3, <1>13, <3>1 DEF Taken
    <2>2. ASSUME NEW i \in Taken(e)
          PROVE  i \in 1..n
      BY <1>3, <1>14, <1>16 DEF Taken
    <2> QED BY <2>1, <2>2
  <1>18. Rest(e) = [e EXCEPT !.frags = <<>>]
    <2>1. (1..Len(e.frags)) \ Taken(e) = {}
      BY <1>1, <1>17
    <2>2. Cardinality({}) = 0
      BY FS_EmptySet
    <2>3. 1..0 = {}
      OBVIOUS
    <2>4. PICK f : f = [i \in 1..Cardinality((1..Len(e.frags)) \ Taken(e)) |->
               e.frags[CHOOSE k \in (1..Len(e.frags)) \ Taken(e) :
                          Cardinality({j \in 1..k : j \notin Taken(e)}) = i]]
      OBVIOUS
    <2>5. f = <<>>
      <3>1. f = [i \in {} |-> e.frags[CHOOSE k \in (1..Len(e.frags)) \ Taken(e) :
                          Cardinality({j \in 1..k : j \notin Taken(e)}) = i]]
        BY <2>1, <2>2, <2>3, <2>4
      <3>2. DOMAIN f = {}
        BY <3>1
      <3>3. f = [i \in {} |-> f[i]]
        BY <3>1
      <3> QED BY <3>3
    <2> QED BY <2>4, <2>5 DEF Rest
  <1>19. Cardinality(1..n) = n /\ IsFiniteSet(1..n)
    BY <1>3, FS_Interval
  <1>20. n = size
    <2>1. PICK f : f = [i \in 1..n |-> q[i].seg]
      OBVIOUS
    <2>2. f \in [1..n -> 0..(size - 1)]
      BY <1>3, <1>8, <1>9, <2>1
    <2>3. \A i, j \in 1..n : f[i] = f[j] => i = j
      BY <1>2, <1>3, <2>1 DEF OneNpdu
    <2>4. \A m \in 0..(size - 1) : \E i \in 1..n : f[i] = m
      BY <1>3, <1>14, <2>1
    <2>5. f \in Bijection(1..n, 0..(size - 1))
      BY <2>2, <2>3, <2>4 DEF Bijection, Injection, Surjection, IsInjective
    <2>6. Cardinality(0..(size - 1)) = n
      BY <1>19, <2>5, FS_Bijection DEF ExistsBijection
    <2>7. Cardinality(0..(size - 1)) = size
      BY <1>8, FS_Interval
    <2> QED BY <2>6, <2>7
  <1>21. PICK segs : segs = {q[i] : i \in 1..n}
    OBVIOUS
  <1>22. Cardinality(segs) = n
    <2>1. PICK f : f = [i \in 1..n |-> q[i]]
      OBVIOUS
    <2>2. f \in [1..n -> segs] /\ \A m \in segs : \E i \in 1..n : f[i] = m
      BY <1>21, <2>1
    <2>3. \A i, j \in 1..n : f[i] = f[j] => i = j
      BY <1>2, <1>3, <2>1 DEF OneNpdu
    <2>4. f \in Bijection(1..n, segs)
      BY <2>2, <2>3 DEF Bijection, Injection, Surjection, IsInjective
    <2> QED BY <1>19, <2>4, FS_Bijection DEF ExistsBijection
  <1>23. \A s \in segs : s.id = x
    BY <1>3, <1>6, <1>21
  <1>24. Intact(L, segs, n)
    BY <1>7, <1>20, <1>22, <1>23 DEF Intact
  <1> QED BY <1>1, <1>11, <1>16, <1>17, <1>18, <1>21, <1>24

\* What SNDCP makes of a segment that opens an N-PDU or was awaited.
Served(L, T, s) ==
    /\ ~T.bad /\ Whole(L, T.sne)
    /\ s.more => \A f \in Seg : f.id = s.id /\ s.seg < f.seg => Awaits(T.sne, f)

\* It hands up nothing but what was sent, and waits for the rest of the N-PDU.
LEMMA SndcpServes ==
    ASSUME NEW L, Shape(L), Counts(L), Whole(L, L.sne), ~L.bad, NEW s \in Seg, Cut(L, s),
           s.first \/ Awaits(L.sne, s), NEW T, T = sndcp_llunitdata_ind(L, s)
    PROVE  Served(L, T, s)
  <1>1. CASE ~(~s.first \/ s.more)
    <2>1. T = sgsn_rx_sndcp_ud_ind(L, {s}, 1)
      BY <1>1 DEF sndcp_llunitdata_ind
    <2>2. L.sizes[s.id] \in 1..MaxSeg /\ MaxSeg \in Nat
      BY LlcBounds DEF Counts, Cut
    <2>3. L.sizes[s.id] = 1
      BY <1>1, <2>2 DEF Cut
    <2>4. Cardinality({s}) = 1
      BY FS_Singleton
    <2>5. Intact(L, {s}, 1)
      BY <2>3, <2>4 DEF Intact
    <2>6. T.sne = L.sne /\ ~T.bad
      BY <2>1, <2>5, HandedUp
    <2> QED BY <1>1, <2>6 DEF Served
  <1>2. CASE ~s.first \/ s.more
    <2>1. PICK e, E : e = Entered(L, s) /\ E = PutSne(L, e)
      OBVIOUS
    <2>2. Took(L, e, s)
      BY <2>1, FirstTaken, NextTaken
    <2>3. Beside(L, E) /\ E.sne = e /\ ~E.bad
      BY <2>1, SneOnly
    <2>4. T = IF e.no_more /\ defrag_have_all_segments(e) THEN defrag_segments(E) ELSE E
      BY <1>2, <2>1 DEF sndcp_llunitdata_ind, defrag_input, Entered, PutSne
    <2>5. CASE e.no_more /\ defrag_have_all_segments(e)
      <3>1. PICK r, D : r = Rest(e) /\ D = PutSne(E, r)
        OBVIOUS
      <3>2. /\ Present(e) = 0..e.high /\ r = [e EXCEPT !.frags = <<>>]
            /\ Intact(L, {e.frags[i] : i \in Taken(e)}, Len(e.frags))
        BY <2>2, <2>5, <3>1, Completed DEF Took
      <3>3. Beside(E, D) /\ D.sne = r /\ ~D.bad
        BY <2>3, <3>1, SneOnly DEF Beside
      <3>4. PICK segs : segs = {e.frags[i] : i \in Taken(e)}
        OBVIOUS
      <3>5. T = sgsn_rx_sndcp_ud_ind(D, segs, Len(e.frags))
        BY <2>3, <2>4, <2>5, <3>1, <3>2, <3>4 DEF defrag_segments, PutSne
      <3>6. D.sizes = L.sizes
        BY <2>3, <3>3 DEF Beside
      <3>7. Intact(D, segs, Len(e.frags))
        BY <3>2, <3>4, <3>6 DEF Intact
      <3>8. T.sne = r /\ ~T.bad
        BY <3>3, <3>5, <3>7, HandedUp DEF Beside
      <3>9. r = [n \in SneFields |-> r[n]] /\ r.frags = <<>>
        BY <2>2, <3>2 DEF Took, Whole, SneFields
      <3>10. OneNpdu(L, <<>>)
        BY DEF OneNpdu
      <3>11. Whole(L, r)
        BY <3>9, <3>10 DEF Whole
      <3>12. ~s.more
        BY <2>2, <2>5 DEF Took
      <3> QED BY <3>8, <3>11, <3>12 DEF Served
    <2>6. CASE ~(e.no_more /\ defrag_have_all_segments(e))
      <3>1. T = E
        BY <2>4, <2>6
      <3>2. Whole(L, e) /\ e.frags # <<>> /\ (e.no_more <=> ~s.more)
            /\ \A i \in DOMAIN e.frags : e.frags[i].id = s.id /\ e.frags[i].seg <= s.seg
        BY <2>2 DEF Took
      <3>3. \A i \in DOMAIN e.frags : e.frags[i].seg \in Nat
        <4>1. e.frags \in Seq(Seg)
          BY <3>2 DEF Whole, OneNpdu
        <4>2. \A i \in DOMAIN e.frags : e.frags[i] \in Seg
          BY <4>1
        <4> QED BY <4>2 DEF Seg
      <3>4. ASSUME s.more, NEW f \in Seg, f.id = s.id, s.seg < f.seg
            PROVE  Awaits(e, f)
        <4>1. s.seg \in Nat /\ f.seg \in Nat
          BY DEF Seg
        <4> QED BY <3>2, <3>3, <3>4, <4>1 DEF Awaits
      <3> QED BY <2>3, <3>1, <3>2, <3>4 DEF Served
    <2> QED BY <2>5, <2>6
  <1> QED BY <1>1, <1>2

-----------------------------------------------------------------------------
(* Frames taken from the air *)

\* The modulus is a positive number.
LEMMA ModPositive ==
    ASSUME LlInv
    PROVE  llEnv.mod \in Nat \ {0}
  BY LlcEnvAssumption DEF LlInv, LlcEnv

\* The first off frames have been taken away.
Shift(a, b, off) == b \in Seq(Seg) /\ Len(b) = Len(a) - off /\ \A k \in 1..Len(b) : b[k] = a[k + off]

\* A frame that was there before.
LEMMA ShiftIndex ==
    ASSUME NEW a \in Seq(Seg), NEW off \in 0..1, NEW b, Shift(a, b, off), NEW k \in DOMAIN b
    PROVE  k \in Int /\ k + off \in DOMAIN a /\ b[k] = a[k + off]
  <1>1. Len(a) \in Nat /\ DOMAIN a = 1..Len(a)
    OBVIOUS
  <1>2. Len(b) \in Nat /\ DOMAIN b = 1..Len(b)
    BY DEF Shift
  <1> QED BY <1>1, <1>2 DEF Shift

\* The frames left are in order.
LEMMA ShiftOrdered ==
    ASSUME NEW L, NEW T, NEW off \in 0..1, L.air \in Seq(Seg), Shift(L.air, T.air, off), Ordered(L)
    PROVE  Ordered(T)
  <1> SUFFICES ASSUME NEW i \in DOMAIN T.air, NEW j \in DOMAIN T.air, i < j
               PROVE  /\ T.air[i].abs < T.air[j].abs /\ T.air[i].id <= T.air[j].id
                      /\ T.air[i].id = T.air[j].id => T.air[i].seg < T.air[j].seg
    BY DEF Ordered
  <1>1. i \in Int /\ i + off \in DOMAIN L.air /\ T.air[i] = L.air[i + off]
    BY ShiftIndex
  <1>2. j \in Int /\ j + off \in DOMAIN L.air /\ T.air[j] = L.air[j + off]
    BY ShiftIndex
  <1>3. i + off < j + off
    BY <1>1, <1>2
  <1> QED BY <1>1, <1>2, <1>3 DEF Ordered

\* A frame taken away that does not open an N-PDU leaves the others led.
LEMMA ShiftLed ==
    ASSUME NEW L, NEW T, NEW off \in 0..1, L.air \in Seq(Seg), Shift(L.air, T.air, off), Led(L),
           T.up = L.up, T.sne = L.sne, off = 1 => ~Opens(L, 1)
    PROVE  Led(T)
  <1> SUFFICES ASSUME NEW k \in DOMAIN T.air, T.air[k].abs > T.up, ~T.air[k].first
               PROVE  \/ Awaits(T.sne, T.air[k]) /\ \A j \in 1..(k - 1) : ~Opens(T, j)
                      \/ \E j \in 1..(k - 1) : Opens(T, j) /\ T.air[j].id = T.air[k].id
    BY DEF Led
  <1>1. k \in Int /\ k + off \in DOMAIN L.air /\ T.air[k] = L.air[k + off]
    BY ShiftIndex
  <1>2. PICK m : m = k + off
    OBVIOUS
  <1>3. DOMAIN T.air = 1..Len(T.air) /\ Len(T.air) \in Nat
    BY DEF Shift
  <1>4. \A j \in 1..(k - 1) : j \in DOMAIN T.air /\ j + off \in 1..(m - 1)
    BY <1>1, <1>2, <1>3, SMTT(60)
  <1>5. \A j \in 1..(k - 1) : T.air[j] = L.air[j + off]
    BY <1>4, ShiftIndex
  <1>6. CASE Awaits(L.sne, L.air[m]) /\ \A j \in 1..(m - 1) : ~Opens(L, j)
    <2>1. \A j \in 1..(k - 1) : ~Opens(T, j)
      BY <1>4, <1>5, <1>6 DEF Opens
    <2> QED BY <1>1, <1>2, <1>6, <2>1
  <1>7. CASE \E j \in 1..(m - 1) : Opens(L, j) /\ L.air[j].id = L.air[m].id
    <2>1. PICK j \in 1..(m - 1) : Opens(L, j) /\ L.air[j].id = L.air[m].id
      BY <1>7
    <2>2. PICK i : i = j - off
      OBVIOUS
    <2>3. i \in 1..(k - 1) /\ i + off = j
      BY <1>1, <1>2, <2>1, <2>2
    <2>4. T.air[i] = L.air[j]
      BY <1>5, <2>3
    <2> QED BY <1>1, <1>2, <2>1, <2>3, <2>4 DEF Opens
  <1>8. L.air[m].abs > L.up /\ ~L.air[m].first /\ m \in DOMAIN L.air
    BY <1>1, <1>2
  <1> QED BY <1>6, <1>7, <1>8 DEF Led

\* The first frame taken, whether it stays or not: the others are led still.
LEMMA TakenLed ==
    ASSUME NEW L, NEW T, NEW off \in 0..1, L.air \in Seq(Seg), L.air # <<>>, Shift(L.air, T.air, off), Led(L), Ordered(L),
           Whole(L, L.sne), Waits(L), Counts(L), NEW f \in Seg, f = L.air[1], f.abs > L.up, T.up = f.abs, Served(L, T, f)
    PROVE  Led(T)
  <1> SUFFICES ASSUME NEW k \in DOMAIN T.air, T.air[k].abs > T.up, ~T.air[k].first
               PROVE  \/ Awaits(T.sne, T.air[k]) /\ \A j \in 1..(k - 1) : ~Opens(T, j)
                      \/ \E j \in 1..(k - 1) : Opens(T, j) /\ T.air[j].id = T.air[k].id
    BY DEF Led
  <1>1. k \in Int /\ k + off \in DOMAIN L.air /\ T.air[k] = L.air[k + off]
    BY ShiftIndex
  <1>2. PICK m, g : m = k + off /\ g = L.air[m]
    OBVIOUS
  <1>3. DOMAIN T.air = 1..Len(T.air) /\ Len(T.air) \in Nat /\ DOMAIN L.air = 1..Len(L.air) /\ Len(L.air) \in Nat
    BY DEF Shift
  <1>4. \A j \in 1..(k - 1) : j \in DOMAIN T.air /\ j + off \in 1..(m - 1)
    BY <1>1, <1>2, <1>3, SMTT(60)
  <1>5. \A j \in 1..(k - 1) : T.air[j] = L.air[j + off]
    BY <1>4, ShiftIndex
  <1>6. g \in Seg /\ g = T.air[k] /\ g.abs > f.abs /\ ~g.first /\ m \in DOMAIN L.air /\ 1 \in DOMAIN L.air
    BY <1>1, <1>2, <1>3
  <1>7. \A i \in DOMAIN L.air : L.air[i] \in Seg
    OBVIOUS
  <1>8. /\ L.up \in Nat
        /\ \A i \in DOMAIN L.air : L.air[i].abs \in Nat /\ L.air[i].seg \in Nat /\ L.air[i].id \in Nat
    <2>1. \A x \in Seg : x.abs \in Nat /\ x.seg \in Nat /\ x.id \in Nat
      BY LlcBounds DEF Seg
    <2>2. L.up \in Nat
      BY DEF Counts
    <2> QED BY <1>7, <2>1, <2>2
  <1>9. 1 < m /\ m \in 1..Len(L.air)
    BY <1>1, <1>2, <1>3, <1>6, <1>8
  <1>10. f.id <= g.id /\ (f.id = g.id => f.seg < g.seg)
    BY <1>2, <1>6, <1>9 DEF Ordered
  <1>11. ASSUME f.id = g.id
         PROVE  Awaits(T.sne, g)
    <2>1. Cut(L, f) /\ Cut(L, g)
      BY <1>2, <1>6 DEF Waits
    <2>2. L.sizes[g.id] \in Nat
      BY <2>1, LlcBounds, SMTT(60) DEF Counts, Cut
    <2>3. f.seg < g.seg /\ f.seg \in Nat /\ g.seg \in Nat
      BY <1>2, <1>6, <1>8, <1>10, <1>11
    <2>4. f.more
      BY <1>11, <2>1, <2>2, <2>3 DEF Cut
    <2> QED BY <1>6, <1>11, <2>3, <2>4 DEF Served
  <1>12. CASE Awaits(L.sne, g) /\ \A j \in 1..(m - 1) : ~Opens(L, j)
    <2>1. 1 \in 1..(m - 1)
      BY <1>2, <1>3, <1>6, <1>9
    <2>2. ~f.first
      BY <1>12, <2>1 DEF Opens
    <2>3. Awaits(L.sne, f)
      BY <1>6, <2>2 DEF Led
    <2>4. f.id = g.id
      <3>1. PICK q : q = L.sne.frags
        OBVIOUS
      <3>2. q # <<>> /\ \A i \in DOMAIN q : q[i].id = f.id /\ q[i].id = g.id
        BY <1>12, <2>3, <3>1 DEF Awaits
      <3>3. q \in Seq(Seg)
        BY <3>1 DEF Whole, OneNpdu
      <3>4. 1 \in DOMAIN q
        BY <3>2, <3>3
      <3> QED BY <3>2, <3>4
    <2>5. ASSUME NEW j \in 1..(k - 1), Opens(T, j)
          PROVE  FALSE
      <3>1. j + off \in 1..(m - 1) /\ T.air[j] = L.air[j + off]
        BY <1>4, <1>5
      <3>2. j + off \in DOMAIN L.air
        BY <1>2, <1>3, <1>6, <3>1
      <3>3. L.air[j + off].abs > L.up
        BY <1>6, <1>8, <2>5, <3>1, <3>2 DEF Opens
      <3> QED BY <1>12, <2>5, <3>1, <3>3 DEF Opens
    <2> QED BY <1>6, <1>11, <2>4, <2>5
  <1>13. ASSUME NEW j \in 1..(m - 1), Opens(L, j), L.air[j].id = g.id
         PROVE  \/ Awaits(T.sne, T.air[k]) /\ \A i \in 1..(k - 1) : ~Opens(T, i)
                \/ \E i \in 1..(k - 1) : Opens(T, i) /\ T.air[i].id = T.air[k].id
    <2>1. j \in DOMAIN L.air /\ j \in Int
      BY <1>2, <1>3, <1>6
    <2>2. CASE j = 1
      <3>1. f.id = g.id
        BY <1>13, <2>2
      <3>2. ASSUME NEW i \in 1..(k - 1), Opens(T, i)
            PROVE  FALSE
        <4>1. PICK n : n = i + off
          OBVIOUS
        <4>2. n \in 1..(m - 1) /\ T.air[i] = L.air[n]
          BY <1>4, <1>5, <4>1
        <4>3. n \in DOMAIN L.air /\ n < m
          BY <1>3, <1>9, <4>2
        <4>4. L.air[n].first /\ L.air[n].abs > f.abs
          BY <3>2, <4>2 DEF Opens
        <4>5. 1 < n
          BY <1>6, <1>8, <4>2, <4>3, <4>4
        <4>6. f.id <= L.air[n].id /\ L.air[n].id <= g.id
          BY <1>2, <1>6, <4>3, <4>5 DEF Ordered
        <4>7. f.id = L.air[n].id
          BY <1>6, <1>8, <3>1, <4>3, <4>6
        <4>8. f.seg < L.air[n].seg
          BY <1>6, <4>3, <4>5, <4>7 DEF Ordered
        <4>9. L.air[n].seg = 0
          BY <4>3, <4>4 DEF Waits, Cut
        <4> QED BY <1>6, <1>8, <4>8, <4>9
      <3> QED BY <1>6, <1>11, <3>1, <3>2
    <2>3. CASE j # 1
      <3>1. f.abs < L.air[j].abs
        <4>1. 1 < j
          BY <1>3, <2>1, <2>3
        <4> QED BY <1>6, <2>1, <4>1 DEF Ordered
      <3>2. PICK i : i = j - off
        OBVIOUS
      <3>3. i \in 1..(k - 1) /\ i + off = j
        <4>1. k \in Int /\ m = k + off /\ off \in {0, 1} /\ j \in Int /\ 1 <= j /\ j <= m - 1
          BY <1>1, <1>2, <1>9
        <4> QED BY <2>3, <3>2, <4>1
      <3>4. T.air[i] = L.air[j]
        BY <1>5, <3>3
      <3>5. Opens(T, i)
        BY <1>6, <1>8, <1>13, <2>1, <3>1, <3>4 DEF Opens
      <3> QED BY <1>6, <1>13, <3>3, <3>4, <3>5
    <2> QED BY <2>2, <2>3
  <1>14. g.abs > L.up
    <2>1. g.abs \in Nat /\ f.abs \in Nat
      BY <1>2, <1>6, <1>8
    <2> QED BY <1>6, <1>8, <2>1
  <1> QED BY <1>2, <1>6, <1>12, <1>13, <1>14 DEF Led

-----------------------------------------------------------------------------
(* The steps *)

\* The new state is a fine one: so it is after the step.
LEMMA LlAfter ==
    ASSUME LlInv, NEW T, LlFine(T), LlBecomes(T)
    PROVE  LlInv'
  <1>1. ll' = T /\ llEnv' = llEnv
    BY DEF LlBecomes
  <1>2. InTurn' = InTurn
    BY <1>1 DEF InTurn, LlHas
  <1>3. Early(ll)' = Early(T) /\ Clean(ll)' = Clean(T)
    BY <1>1, <1>2 DEF Early, Clean, LlHas
  <1>4. Waits(ll)' = Waits(T) /\ Counts(ll)' = Counts(T)
    BY <1>1 DEF Waits, Counts, Numbered
  <1>5. InStep(ll)' = InStep(T)
    BY <1>1, <1>2, <1>3 DEF InStep
  <1>6. LlFine(ll)' = LlFine(T)
    BY <1>1, <1>3, <1>4, <1>5 DEF LlFine
  <1> QED BY <1>1, <1>6 DEF LlInv

\* The queue is right for any state in which the same N-PDUs, and perhaps more, have been sent.
LEMMA SizesAlike ==
    ASSUME NEW L, NEW T, DOMAIN L.sizes \subseteq DOMAIN T.sizes,
           \A n \in DOMAIN L.sizes : T.sizes[n] = L.sizes[n], NEW d, Whole(L, d)
    PROVE  Whole(T, d)
  <1>1. \A f : Cut(L, f) => Cut(T, f)
    BY DEF Cut
  <1>2. OneNpdu(L, d.frags) => OneNpdu(T, d.frags)
    BY <1>1 DEF OneNpdu
  <1> QED BY <1>2 DEF Whole

\* A state that differs in what the frames do not depend on.
LEMMA LlAlike ==
    ASSUME NEW L, LlFine(L), NEW T, Beside(L, T), T.sne = L.sne, T.bad = L.bad
    PROVE  LlFine(T)
  <1>1. Shape(T) /\ T.vu_recv = L.vu_recv /\ T.frames = L.frames /\ T.sizes = L.sizes /\ T.air = L.air
        /\ T.up = L.up /\ T.dropped = L.dropped
    BY DEF Beside
  <1>2. Waits(T) /\ Counts(T)
    BY <1>1 DEF LlFine, Waits, Counts, Cut, Numbered
  <1>3. InStep(T) /\ (Clean(T) <=> Clean(L))
    BY <1>1 DEF LlFine, InStep, Early, Clean
  <1>4. Clean(L) => Ordered(T) /\ Whole(T, T.sne) /\ Led(T) /\ ~T.bad
    <2>1. Ordered(L) => Ordered(T)
      BY <1>1 DEF Ordered
    <2>2. Led(L) => Led(T)
      BY <1>1 DEF Led, Opens
    <2>3. Whole(L, L.sne) => Whole(T, T.sne)
      BY <1>1, SizesAlike
    <2> QED BY <2>1, <2>2, <2>3 DEF LlFine
  <1> QED BY <1>1, <1>2, <1>3, <1>4 DEF LlFine

\* Nothing has been sent.
LEMMA LlInitFine ==
    ASSUME LlInit
    PROVE  LlInv
  <1>1. llEnv \in LlcEnvs /\ llEnv.mod \in Nat \ {0}
    BY LlcEnvAssumption DEF LlInit, LlcEnv
  <1>2. /\ Shape(ll) /\ ll.vu_recv = 0 /\ ll.sne = NoDefrag /\ ll.frames = 0 /\ ll.sizes = <<>> /\ ll.air = <<>>
        /\ ll.up = 0 /\ ~ll.dropped /\ ~ll.bad
    BY DEF LlInit, Shape, LlFields
  <1>3. Waits(ll) /\ Counts(ll)
    BY <1>1, <1>2 DEF Waits, Counts
  <1>4. InStep(ll)
    BY <1>1, <1>2 DEF InStep
  <1>5. NoDefrag = [n \in SneFields |-> NoDefrag[n]] /\ NoDefrag.frags = <<>>
    BY DEF NoDefrag, SneFields
  <1>6. Whole(ll, ll.sne)
    <2>1. OneNpdu(ll, <<>>)
      BY DEF OneNpdu
    <2> QED BY <1>2, <1>5, <2>1 DEF Whole
  <1>7. Ordered(ll) /\ Led(ll)
    BY <1>2 DEF Ordered, Led
  <1> QED BY <1>1, <1>2, <1>3, <1>4, <1>6, <1>7 DEF LlInv, LlFine

\* SABM, DISC and N-PDUs to the MS do not touch what comes from it.
LEMMA OtherSteps ==
    ASSUME LlInv, NEW cmd \in {"SABM", "DISC"}, NEW n, NEW sent, Control(cmd) \/ Downlink(n, sent)
    PROVE  LlInv'
  <1>1. Shape(ll) /\ LlFine(ll)
    BY DEF LlInv, LlFine
  <1>2. CASE Control(cmd)
    <2>1. PICK T : T = gprs_llc_hdr_rx(ll, cmd)
      OBVIOUS
    <2>2. T = [ll EXCEPT !.state = "ABM"] \/ T = [ll EXCEPT !.state = "ASSIGNED_ADM"]
      BY <2>1 DEF gprs_llc_hdr_rx
    <2>3. Beside(ll, T) /\ T.sne = ll.sne /\ T.bad = ll.bad
      BY <1>1, <2>2 DEF Shape, LlFields, Beside
    <2>4. LlFine(T)
      BY <1>1, <2>3, LlAlike
    <2> QED BY <1>2, <2>1, <2>4, LlAfter DEF Control
  <1>3. CASE Downlink(n, sent)
    <2>1. PICK T : T = sndcp_unitdata_req(ll, n, sent)
      OBVIOUS
    <2>2. Beside(ll, T) /\ T.sne = ll.sne /\ T.bad = ll.bad
      BY <1>1, <2>1 DEF Shape, LlFields, Beside, sndcp_unitdata_req
    <2>3. LlFine(T)
      BY <1>1, <2>2, LlAlike
    <2> QED BY <1>3, <2>1, <2>3, LlAfter DEF Downlink
  <1> QED BY <1>2, <1>3

\* Both ends count from 0 again when nothing is under way and their counters agree.
LEMMA ReassignStep ==
    ASSUME LlInv, Reassign
    PROVE  LlInv'
  <1>1. Shape(ll) /\ LlFine(ll) /\ llEnv.mod \in Nat \ {0}
    BY ModPositive DEF LlInv, LlFine
  <1>2. PICK T : T \in {ResetCounters(ll), ResetReceive(ll)} /\ LlBecomes(T)
    BY DEF Reassign
  <1>3. Shape(T) /\ T.vu_recv = 0 /\ T.frames = ll.frames /\ T.sizes = ll.sizes /\ T.air = ll.air
        /\ T.up = ll.up /\ T.dropped = ll.dropped /\ T.sne = ll.sne /\ T.bad = ll.bad
    BY <1>1, <1>2 DEF Shape, LlFields, ResetCounters, ResetReceive
  <1>4. ll.air = <<>> /\ ll.frames % llEnv.mod = 0
    BY DEF Reassign
  <1>5. ll.frames \in Nat /\ ll.up \in 0..ll.frames
    BY <1>1 DEF LlFine, Counts
  <1>6. Waits(T) /\ Counts(T)
    BY <1>1, <1>3 DEF LlFine, Waits, Counts, Cut, Numbered
  <1>7. ASSUME Early(T)
        PROVE  T.vu_recv = T.up
    <2>1. ll.frames = 0
      BY <1>1, <1>3, <1>4, <1>5, <1>7 DEF Early
    <2> QED BY <1>3, <1>5, <2>1
  <1>8. ASSUME InTurn
        PROVE  T.vu_recv = T.up % llEnv.mod /\ Len(T.air) = T.frames - T.up
    <2>1. Len(ll.air) = ll.frames - ll.up /\ Len(ll.air) = 0
      BY <1>1, <1>4, <1>8 DEF LlFine, InStep
    <2>2. ll.up = ll.frames
      BY <1>5, <2>1
    <2> QED BY <1>3, <1>4, <2>1, <2>2
  <1>9. DOMAIN T.air = {}
    BY <1>3, <1>4
  <1>10. InStep(T)
    <2>1. Early(T) \/ InTurn => ~T.dropped
      BY <1>1, <1>3 DEF LlFine, InStep, Early
    <2> QED BY <1>7, <1>8, <1>9, <2>1 DEF InStep
  <1>11. Ordered(T) /\ Led(T)
    BY <1>9 DEF Ordered, Led
  <1>12. Clean(T) => Whole(T, T.sne) /\ ~T.bad
    BY <1>1, <1>3 DEF LlFine, Clean, Early, Whole, OneNpdu, Cut
  <1>13. LlFine(T)
    BY <1>3, <1>6, <1>10, <1>11, <1>12 DEF LlFine
  <1> QED BY <1>2, <1>13, LlAfter

\* The air with one frame less.
LEMMA Thinner ==
    ASSUME LlInv, NEW i \in DOMAIN ll.air, NEW a, a = RemoveAt(ll.air, i)
    PROVE  /\ a \in Seq(Seg) /\ Len(a) = Len(ll.air) - 1
           /\ \A k \in DOMAIN a : \E m \in DOMAIN ll.air : a[k] = ll.air[m]
           /\ i = 1 => Shift(ll.air, a, 1)
  <1>1. ll.air \in Seq(Seg)
    BY DEF LlInv, LlFine, Waits
  <1>2. a \in Seq(Seg) /\ Len(a) = Len(ll.air) - 1 /\ \A j \in DOMAIN a : a[j] = ll.air[IF j < i THEN j ELSE j + 1]
    BY <1>1, RemoveAtElements
  <1>3. DOMAIN a = 1..(Len(ll.air) - 1) /\ DOMAIN ll.air = 1..Len(ll.air) /\ Len(ll.air) \in Nat
    BY <1>1, <1>2
  <1>4. \A k \in DOMAIN a : \E m \in DOMAIN ll.air : a[k] = ll.air[m]
    <2>1. \A k \in DOMAIN a : (IF k < i THEN k ELSE k + 1) \in DOMAIN ll.air
      BY <1>3
    <2> QED BY <1>2, <2>1
  <1>5. ASSUME i = 1
        PROVE  Shift(ll.air, a, 1)
    <2>1. \A k \in 1..Len(a) : a[k] = ll.air[k + 1]
      BY <1>2, <1>3, <1>5
    <2> QED BY <1>2, <2>1 DEF Shift
  <1> QED BY <1>2, <1>4, <1>5

\* A frame is lost; not the first of an N-PDU unless any may be.
LEMMA LoseStep ==
    ASSUME LlInv, Lose
    PROVE  LlInv'
  <1>1. Shape(ll) /\ LlFine(ll)
    BY DEF LlInv, LlFine
  <1>2. PICK a, T : a = Tail(ll.air) /\ T = [ll EXCEPT !.air = a]
    OBVIOUS
  <1>3. Shape(T) /\ T.vu_recv = ll.vu_recv /\ T.frames = ll.frames /\ T.sizes = ll.sizes /\ T.air = a
        /\ T.up = ll.up /\ T.dropped = ll.dropped /\ T.sne = ll.sne /\ T.bad = ll.bad
    BY <1>1, <1>2 DEF Shape, LlFields
  <1>4. ll.air \in Seq(Seg) /\ ll.air # <<>>
    BY <1>1 DEF LlFine, Waits, Lose
  <1>5. Shift(ll.air, a, 1)
    BY <1>2, <1>4 DEF Shift
  <1>6. \A k \in DOMAIN a : k + 1 \in DOMAIN ll.air /\ a[k] = ll.air[k + 1]
    BY <1>4, <1>5, ShiftIndex
  <1>7. Waits(T) /\ Counts(T)
    <2>1. a \in Seq(Seg)
      BY <1>5 DEF Shift
    <2>2. \A k \in DOMAIN a : Cut(T, a[k]) /\ Numbered(T, a[k])
      BY <1>1, <1>3, <1>6 DEF LlFine, Waits, Cut, Numbered
    <2> QED BY <1>1, <1>3, <2>1, <2>2 DEF Waits, Counts, LlFine
  <1>8. ~InTurn
    BY DEF Lose, InTurn
  <1>9. InStep(T)
    BY <1>1, <1>3, <1>8 DEF LlFine, InStep, Early
  <1>10. ASSUME Clean(T)
         PROVE  Ordered(T) /\ Whole(T, T.sne) /\ Led(T) /\ ~T.bad
    <2>1. Clean(ll) /\ ~LlHas("lose_first")
      BY <1>3, <1>10 DEF Clean, Early
    <2>2. Ordered(ll) /\ Whole(ll, ll.sne) /\ Led(ll) /\ ~ll.bad
      BY <1>1, <2>1 DEF LlFine
    <2>3. ~ll.air[1].first
      BY <1>4, <2>1 DEF Lose
    <2>4. Ordered(T)
      BY <1>3, <1>4, <1>5, <2>2, ShiftOrdered
    <2>5. Led(T)
      <3>1. 1 \in 0..1 /\ ~Opens(ll, 1)
        BY <2>3 DEF Opens
      <3> QED BY <1>3, <1>4, <1>5, <2>2, <3>1, ShiftLed
    <2>6. Whole(T, T.sne)
      BY <1>3, <2>2, SizesAlike
    <2> QED BY <1>3, <2>2, <2>4, <2>5, <2>6
  <1>11. LlFine(T)
    BY <1>3, <1>7, <1>9, <1>10 DEF LlFine
  <1> QED BY <1>2, <1>11, LlAfter DEF Lose

\* The air as a frame is received: the frame i is gone, or stays to come again.
Before(A, i, off) ==
    /\ Shape(A) /\ A.vu_recv = ll.vu_recv /\ A.frames = ll.frames /\ A.sizes = ll.sizes
    /\ A.up = ll.up /\ A.dropped = ll.dropped /\ A.sne = ll.sne /\ A.bad = ll.bad
    /\ A.air \in Seq(Seg) /\ (\A k \in DOMAIN A.air : \E m \in DOMAIN ll.air : A.air[k] = ll.air[m])
    /\ off \in 0..1 /\ (i = 1 => Shift(ll.air, A.air, off))
    /\ (~LlHas("overtake") => i = 1) /\ (InTurn => off = 1)

\* Such is the state in which gprs_llc_hdr_rx() begins.
LEMMA ReceiveBegins ==
    ASSUME LlInv, NEW i, NEW twice \in BOOLEAN, Receive(i, twice),
           NEW A, A = IF twice THEN ll ELSE [ll EXCEPT !.air = RemoveAt(@, i)]
    PROVE  \E off : Before(A, i, off)
  <1>1. Shape(ll) /\ ll.air \in Seq(Seg) /\ i \in DOMAIN ll.air
    BY DEF LlInv, LlFine, Waits, Receive
  <1>2. ~LlHas("overtake") => i = 1
    <2>1. i \in Nat /\ 1 <= i
      BY <1>1
    <2> QED BY <2>1 DEF Receive
  <1>3. CASE twice
    <2>1. A = ll /\ ~InTurn
      BY <1>3 DEF Receive, InTurn
    <2>2. Shift(ll.air, ll.air, 0)
      BY <1>1 DEF Shift
    <2>3. 0 \in 0..1 /\ \A k \in DOMAIN ll.air : \E m \in DOMAIN ll.air : ll.air[k] = ll.air[m]
      OBVIOUS
    <2>4. Before(ll, i, 0)
      BY <1>1, <1>2, <2>1, <2>2, <2>3 DEF Before
    <2> QED BY <2>1, <2>4
  <1>4. CASE ~twice
    <2>1. PICK a : a = RemoveAt(ll.air, i)
      OBVIOUS
    <2>2. A = [ll EXCEPT !.air = a]
      BY <1>4, <2>1
    <2>3. /\ a \in Seq(Seg) /\ \A k \in DOMAIN a : \E m \in DOMAIN ll.air : a[k] = ll.air[m]
          /\ i = 1 => Shift(ll.air, a, 1)
      BY <1>1, <2>1, Thinner
    <2>4. Shape(A) /\ A.vu_recv = ll.vu_recv /\ A.frames = ll.frames /\ A.sizes = ll.sizes /\ A.air = a
          /\ A.up = ll.up /\ A.dropped = ll.dropped /\ A.sne = ll.sne /\ A.bad = ll.bad
      BY <1>1, <2>2 DEF Shape, LlFields
    <2>5. Before(A, i, 1)
      BY <1>2, <2>3, <2>4 DEF Before
    <2> QED BY <2>5
  <1> QED BY <1>3, <1>4

\* What is under way stays as it was sent.
LEMMA BeforeWaits ==
    ASSUME LlInv, NEW i, NEW off, NEW A, Before(A, i, off), NEW T, T.air = A.air, T.sizes = ll.sizes, T.frames = ll.frames
    PROVE  Waits(T)
  <1>1. \A k \in DOMAIN ll.air : Cut(ll, ll.air[k]) /\ Numbered(ll, ll.air[k])
    BY DEF LlInv, LlFine, Waits
  <1>2. \A f : (Cut(ll, f) => Cut(T, f)) /\ (Numbered(ll, f) => Numbered(T, f))
    BY DEF Cut, Numbered
  <1> QED BY <1>1, <1>2 DEF Before, Waits

\* The number of a frame, and what V(UR) says of it.
LEMMA NumberOf ==
    ASSUME LlInv, NEW i \in DOMAIN ll.air, NEW f, f = ll.air[i]
    PROVE  /\ f \in Seg /\ Cut(ll, f) /\ f.abs \in 1..ll.frames /\ f.nu \in 0..(llEnv.mod - 1)
           /\ Early(ll) => f.nu = f.abs - 1 /\ (f.nu < ll.vu_recv <=> f.abs <= ll.up)
           /\ InTurn /\ i = 1 => f.abs = ll.up + 1 /\ f.nu = ll.vu_recv
  <1>1. llEnv.mod \in Nat \ {0} /\ ll.frames \in Nat /\ ll.up \in 0..ll.frames
    BY ModPositive DEF LlInv, LlFine, Counts
  <1>2. f \in Seg /\ Cut(ll, f) /\ f.abs \in 1..ll.frames /\ f.nu = (f.abs - 1) % llEnv.mod
    BY DEF LlInv, LlFine, Waits, Numbered
  <1>3. f.nu \in 0..(llEnv.mod - 1)
    <2>1. f.abs - 1 \in Nat
      BY <1>1, <1>2
    <2> QED BY <1>1, <1>2, <2>1
  <1>4. ASSUME Early(ll)
        PROVE  f.nu = f.abs - 1 /\ (f.nu < ll.vu_recv <=> f.abs <= ll.up)
    <2>1. f.abs - 1 \in Nat /\ f.abs - 1 < llEnv.mod
      BY <1>1, <1>2, <1>4 DEF Early
    <2>2. f.nu = f.abs - 1
      BY <1>1, <1>2, <2>1
    <2>3. ll.vu_recv = ll.up
      BY <1>4 DEF LlInv, LlFine, InStep
    <2> QED BY <1>1, <1>2, <2>2, <2>3
  <1>5. ASSUME InTurn, i = 1
        PROVE  f.abs = ll.up + 1 /\ f.nu = ll.vu_recv
    <2>1. ll.vu_recv = ll.up % llEnv.mod /\ f.abs = ll.up + 1
      BY <1>5 DEF LlInv, LlFine, InStep
    <2>2. f.abs - 1 = ll.up
      BY <1>1, <2>1
    <2> QED BY <1>2, <2>1, <2>2
  <1> QED BY <1>2, <1>3, <1>4, <1>5

\* A frame with a number below V(UR) is dropped: it is old, if the numbers can say so.
LEMMA DropFine ==
    ASSUME LlInv, NEW i \in DOMAIN ll.air, NEW off, NEW A, Before(A, i, off), NEW f, f = ll.air[i], f.nu < A.vu_recv,
           NEW T, T = [A EXCEPT !.dropped = @ \/ f.abs > A.up]
    PROVE  LlFine(T)
  <1>1. Shape(A) /\ A.up = ll.up /\ A.vu_recv = ll.vu_recv /\ A.dropped = ll.dropped
    BY DEF Before
  <1>2. Shape(T) /\ T.vu_recv = ll.vu_recv /\ T.frames = ll.frames /\ T.sizes = ll.sizes /\ T.air = A.air
        /\ T.up = ll.up /\ T.sne = ll.sne /\ T.bad = ll.bad
    BY DEF Before, Shape, LlFields
  <1>3. T.dropped = (ll.dropped \/ f.abs > ll.up)
    BY <1>1 DEF Shape, LlFields
  <1>4. Waits(T)
    BY <1>2, BeforeWaits
  <1>5. Counts(T)
    BY <1>2 DEF LlInv, LlFine, Counts
  <1>6. /\ f \in Seg /\ f.abs \in 1..ll.frames /\ f.nu \in 0..(llEnv.mod - 1)
        /\ Early(ll) => f.abs <= ll.up
        /\ InTurn /\ i = 1 => f.nu = ll.vu_recv
    BY <1>1, NumberOf
  <1>7. ~InTurn
    <2>1. SUFFICES ASSUME InTurn PROVE FALSE
      OBVIOUS
    <2>2. i = 1
      BY <2>1 DEF Before, InTurn
    <2>3. f.nu = ll.vu_recv /\ ll.vu_recv \in Int
      BY <1>6, <2>1, <2>2, ModPositive DEF LlInv, LlFine, Counts
    <2> QED BY <1>1, <2>3
  <1>8. InStep(T)
    <2>1. ASSUME Early(T)
          PROVE  T.vu_recv = T.up /\ ~T.dropped
      <3>1. Early(ll)
        BY <1>2, <2>1 DEF Early
      <3>2. ll.vu_recv = ll.up /\ ~ll.dropped
        BY <3>1 DEF LlInv, LlFine, InStep
      <3>3. ~(f.abs > ll.up)
        BY <1>6, <3>1 DEF LlInv, LlFine, Counts
      <3> QED BY <1>2, <1>3, <3>2, <3>3
    <2> QED BY <1>7, <2>1 DEF InStep
  <1>9. ASSUME Clean(T)
        PROVE  Ordered(T) /\ Whole(T, T.sne) /\ Led(T) /\ ~T.bad
    <2>1. Clean(ll) /\ ~LlHas("overtake") /\ Early(ll)
      BY <1>2, <1>7, <1>9 DEF Clean, Early
    <2>2. Ordered(ll) /\ Whole(ll, ll.sne) /\ Led(ll) /\ ~ll.bad /\ ll.air \in Seq(Seg)
      BY <2>1 DEF LlInv, LlFine, Waits
    <2>3. i = 1 /\ Shift(ll.air, T.air, off) /\ off \in 0..1
      BY <1>2, <2>1 DEF Before
    <2>4. Ordered(T)
      BY <2>2, <2>3, ShiftOrdered
    <2>5. ~Opens(ll, 1)
      <3>1. f.abs <= ll.up /\ f.abs \in Int /\ ll.up \in Int
        BY <1>6, <2>1 DEF LlInv, LlFine, Counts
      <3> QED BY <2>3, <3>1 DEF Opens
    <2>6. Led(T)
      BY <1>2, <2>2, <2>3, <2>5, ShiftLed
    <2>7. Whole(T, T.sne)
      BY <1>2, <2>2, SizesAlike
    <2> QED BY <1>2, <2>2, <2>4, <2>6, <2>7
  <1> QED BY <1>2, <1>4, <1>5, <1>8, <1>9 DEF LlFine

\* A frame that is taken is newer than those before, and V(UR) follows it.
LEMMA TakeFine ==
    ASSUME LlInv, NEW i \in DOMAIN ll.air, NEW off, NEW A, Before(A, i, off), NEW f, f = ll.air[i], ~(f.nu < A.vu_recv),
           NEW T, T = sndcp_llunitdata_ind([A EXCEPT !.vu_recv = (f.nu + 1) % llEnv.mod, !.up = f.abs], f)
    PROVE  LlFine(T)
  <1>1. llEnv.mod \in Nat \ {0}
    BY ModPositive
  <1>2. PICK v, B : v = (f.nu + 1) % llEnv.mod /\ B = [A EXCEPT !.vu_recv = v, !.up = f.abs]
    OBVIOUS
  <1>3. Shape(B) /\ B.vu_recv = v /\ B.frames = ll.frames /\ B.sizes = ll.sizes /\ B.air = A.air
        /\ B.up = f.abs /\ B.dropped = ll.dropped /\ B.sne = ll.sne /\ B.bad = ll.bad
    BY <1>2 DEF Before, Shape, LlFields
  <1>4. T = sndcp_llunitdata_ind(B, f)
    BY <1>2
  <1>5. Beside(B, T)
    BY <1>3, <1>4, SndcpBeside
  <1>6. Shape(T) /\ T.vu_recv = v /\ T.frames = ll.frames /\ T.sizes = ll.sizes /\ T.air = A.air
        /\ T.up = f.abs /\ T.dropped = ll.dropped
    BY <1>3, <1>5 DEF Beside
  <1>7. /\ f \in Seg /\ Cut(ll, f) /\ f.abs \in 1..ll.frames /\ f.nu \in 0..(llEnv.mod - 1)
        /\ Early(ll) => f.nu = f.abs - 1 /\ (f.nu < ll.vu_recv <=> f.abs <= ll.up)
        /\ InTurn /\ i = 1 => f.abs = ll.up + 1 /\ f.nu = ll.vu_recv
    BY NumberOf
  <1>8. ll.frames \in Nat /\ ll.up \in 0..ll.frames
    BY DEF LlInv, LlFine, Counts
  <1>9. f.nu + 1 \in Nat /\ v \in 0..(llEnv.mod - 1)
    <2>1. f.nu + 1 \in Nat
      BY <1>1, <1>7
    <2> QED BY <1>1, <1>2, <2>1
  <1>10. Counts(B) /\ Counts(T)
    <2>1. ll.sizes \in Seq(1..MaxSeg)
      BY DEF LlInv, LlFine, Counts
    <2>2. f.abs \in 0..ll.frames
      BY <1>7, <1>8
    <2> QED BY <1>3, <1>6, <1>8, <1>9, <2>1, <2>2, ZenonT(60) DEF Counts
  <1>11. Waits(T)
    BY <1>6, BeforeWaits
  <1>12. ASSUME Early(T)
         PROVE  T.vu_recv = T.up
    <2>1. Early(ll)
      BY <1>6, <1>12 DEF Early
    <2>2. f.nu + 1 = f.abs /\ f.abs \in Nat /\ f.abs < llEnv.mod
      BY <1>1, <1>7, <1>8, <2>1 DEF Early
    <2>3. v = f.abs
      BY <1>1, <1>2, <2>2
    <2> QED BY <1>6, <2>3
  <1>13. ASSUME InTurn
         PROVE  /\ T.vu_recv = T.up % llEnv.mod /\ Len(T.air) = T.frames - T.up
                /\ \A k \in DOMAIN T.air : T.air[k].abs = T.up + k
    <2>1. i = 1 /\ off = 1
      BY <1>13 DEF Before, InTurn
    <2>2. Shift(ll.air, T.air, 1) /\ ll.air \in Seq(Seg)
      BY <1>6, <2>1 DEF Before, LlInv, LlFine, Waits
    <2>3. /\ ll.vu_recv = ll.up % llEnv.mod /\ Len(ll.air) = ll.frames - ll.up
          /\ \A k \in DOMAIN ll.air : ll.air[k].abs = ll.up + k
      BY <1>13 DEF LlInv, LlFine, InStep
    <2>4. f.abs = ll.up + 1 /\ f.nu = ll.vu_recv
      BY <1>7, <1>13, <2>1
    <2>5. ((ll.up % llEnv.mod) + 1) % llEnv.mod = (ll.up + 1) % llEnv.mod
      BY <1>1, <1>8, ModNext
    <2>6. v = f.abs % llEnv.mod
      BY <1>2, <2>3, <2>4, <2>5
    <2>7. Len(T.air) = Len(ll.air) - 1
      BY <2>2 DEF Shift
    <2>8. Len(T.air) = T.frames - T.up
      BY <1>6, <1>8, <2>3, <2>4, <2>7
    <2>9. ASSUME NEW k \in DOMAIN T.air
          PROVE  T.air[k].abs = T.up + k
      <3>1. k \in Int /\ k + 1 \in DOMAIN ll.air /\ T.air[k] = ll.air[k + 1]
        BY <2>2, ShiftIndex
      <3>2. T.air[k].abs = ll.up + (k + 1)
        BY <2>3, <3>1
      <3> QED BY <1>6, <1>8, <2>4, <3>1, <3>2
    <2> QED BY <1>6, <2>6, <2>8, <2>9
  <1>14. InStep(T)
    <2>1. Early(T) \/ InTurn => ~T.dropped
      BY <1>6 DEF Early, LlInv, LlFine, InStep
    <2> QED BY <1>12, <1>13, <2>1 DEF InStep
  <1>15. ASSUME Clean(T)
         PROVE  Ordered(T) /\ Whole(T, T.sne) /\ Led(T) /\ ~T.bad
    <2>1. Clean(ll) /\ ~LlHas("overtake") /\ (InTurn \/ Early(ll))
      BY <1>6, <1>15 DEF Clean, Early
    <2>2. Ordered(ll) /\ Whole(ll, ll.sne) /\ Led(ll) /\ ~ll.bad /\ Waits(ll) /\ ll.air \in Seq(Seg) /\ Counts(ll)
      BY <2>1 DEF LlInv, LlFine, Waits
    <2>3. i = 1 /\ Shift(ll.air, T.air, off) /\ off \in 0..1
      BY <1>6, <2>1 DEF Before
    <2>4. f.abs > ll.up
      <3>1. A.vu_recv = ll.vu_recv
        BY DEF Before
      <3> QED BY <1>7, <1>8, <2>1, <2>3, <3>1
    <2>5. f.first \/ Awaits(ll.sne, f)
      BY <2>2, <2>3, <2>4 DEF Led
    <2>6. Whole(B, B.sne) /\ Cut(B, f) /\ ~B.bad
      <3>1. Whole(B, B.sne)
        BY <1>3, <2>2, SizesAlike
      <3> QED BY <1>3, <1>7, <2>2, <3>1 DEF Cut
    <2>7. Served(B, T, f)
      BY <1>3, <1>4, <1>7, <1>10, <2>5, <2>6, SndcpServes
    <2>8. Whole(B, T.sne)
      BY <2>7 DEF Served
    <2>9. Whole(ll, T.sne) /\ Whole(T, T.sne)
      <3>1. B.sizes = ll.sizes /\ B.sizes = T.sizes
        BY <1>3, <1>6
      <3>2. PICK d : d = T.sne
        OBVIOUS
      <3>3. Whole(B, d)
        BY <2>8, <3>2
      <3>4. Whole(ll, d)
        BY <3>1, <3>3, SizesAlike
      <3>5. Whole(T, d)
        BY <3>1, <3>3, SizesAlike
      <3> QED BY <3>2, <3>4, <3>5
    <2>10. Served(ll, T, f)
      BY <2>7, <2>9 DEF Served
    <2>11. Ordered(T)
      BY <2>2, <2>3, ShiftOrdered
    <2>12. ll.air # <<>>
      BY <2>2
    <2>13. Led(T)
      BY <1>6, <1>7, <2>2, <2>3, <2>4, <2>10, <2>12, TakenLed
    <2> QED BY <2>7, <2>9, <2>11, <2>13 DEF Served
  <1> QED BY <1>6, <1>10, <1>11, <1>14, <1>15 DEF LlFine

\* A frame is received.
LEMMA ReceiveStep ==
    ASSUME LlInv, NEW i, NEW twice \in BOOLEAN, Receive(i, twice)
    PROVE  LlInv'
  <1>1. PICK A : A = IF twice THEN ll ELSE [ll EXCEPT !.air = RemoveAt(@, i)]
    OBVIOUS
  <1>2. PICK off : Before(A, i, off)
    BY <1>1, ReceiveBegins
  <1>3. PICK f, T : f = ll.air[i] /\ T = hdr_rx_ui(A, f)
    OBVIOUS
  <1>4. i \in DOMAIN ll.air /\ LlBecomes(T)
    BY <1>1, <1>3 DEF Receive
  <1>5. CASE f.nu < A.vu_recv
    <2>1. T = [A EXCEPT !.dropped = @ \/ f.abs > A.up]
      BY <1>3, <1>5 DEF hdr_rx_ui
    <2>2. LlFine(T)
      BY <1>2, <1>3, <1>4, <1>5, <2>1, DropFine
    <2> QED BY <1>4, <2>2, LlAfter
  <1>6. CASE ~(f.nu < A.vu_recv)
    <2>1. T = sndcp_llunitdata_ind([A EXCEPT !.vu_recv = (f.nu + 1) % llEnv.mod, !.up = f.abs], f)
      BY <1>3, <1>6 DEF hdr_rx_ui
    <2>2. LlFine(T)
      BY <1>2, <1>3, <1>4, <1>6, <2>1, TakeFine
    <2> QED BY <1>4, <2>2, LlAfter
  <1> QED BY <1>5, <1>6

\* One more N-PDU, of n segments, has been sent.
NewFrame(f, i, n) ==
    /\ f.abs = ll.frames + i /\ f.nu = (ll.frames + i - 1) % llEnv.mod /\ f.seg = i - 1
    /\ (f.first <=> i = 1) /\ (f.more <=> i < n) /\ f.id = Len(ll.sizes) + 1
Frames(n, id) ==
    [i \in 1..n |-> [abs |-> ll.frames + i, nu |-> (ll.frames + i - 1) % llEnv.mod, npdu |-> id % NpduMod,
                     seg |-> i - 1, first |-> i = 1, more |-> i < n, id |-> id]]
Sent(n, g) == [ll EXCEPT !.sizes = Append(@, n), !.frames = @ + n, !.air = @ \o g]
Grown(T, n) ==
    /\ Shape(T) /\ T.vu_recv = ll.vu_recv /\ T.frames = ll.frames + n /\ T.up = ll.up /\ T.dropped = ll.dropped
    /\ T.sne = ll.sne /\ T.bad = ll.bad
    /\ T.sizes \in Seq(1..MaxSeg) /\ DOMAIN T.sizes = 1..(Len(ll.sizes) + 1) /\ T.sizes[Len(ll.sizes) + 1] = n
    /\ \A k \in 1..Len(ll.sizes) : T.sizes[k] = ll.sizes[k]
    /\ T.air \in Seq(Seg) /\ Len(T.air) = Len(ll.air) + n
    /\ \A i \in 1..Len(ll.air) : T.air[i] = ll.air[i]
    /\ \A i \in 1..n : NewFrame(T.air[Len(ll.air) + i], i, n)

\* What MsSends does to the state.
LEMMA NewFrames ==
    ASSUME LlInv, NEW n \in 1..MaxSeg, NEW id, id = Len(ll.sizes) + 1, id <= MaxNpdu,
           NEW g, g = Frames(n, id), NEW T, T = Sent(n, g)
    PROVE  Grown(T, n)
  <1>1. llEnv.mod \in Nat \ {0} /\ ll.frames \in Nat /\ ll.sizes \in Seq(1..MaxSeg)
    BY ModPositive DEF LlInv, LlFine, Counts
  <1>2. {MaxNpdu, MaxSeg, NpduMod} \subseteq Nat \ {0} /\ n \in Nat
    BY LlcBounds
  <1>3. id \in 1..MaxNpdu /\ id = Len(ll.sizes) + 1 /\ Len(ll.sizes) \in Nat
    BY <1>1, <1>2
  <1>4. PICK s, a : s = Append(ll.sizes, n) /\ a = ll.air \o g
    OBVIOUS
  <1>5. Shape(T) /\ T.vu_recv = ll.vu_recv /\ T.frames = ll.frames + n /\ T.sizes = s /\ T.air = a
        /\ T.up = ll.up /\ T.dropped = ll.dropped /\ T.sne = ll.sne /\ T.bad = ll.bad
    BY <1>4 DEF LlInv, LlFine, Shape, LlFields, Sent
  <1>6. /\ s \in Seq(1..MaxSeg) /\ s[id] = n /\ DOMAIN s = 1..id
        /\ \A k \in 1..Len(ll.sizes) : s[k] = ll.sizes[k]
    BY <1>1, <1>2, <1>3, <1>4
  <1>7. \A i \in 1..n : NewFrame(g[i], i, n)
    BY DEF NewFrame, Frames
  <1>8. \A i \in 1..n : g[i] \in Seg
    <2> SUFFICES ASSUME NEW i \in 1..n PROVE g[i] \in Seg
      OBVIOUS
    <2>1. ll.frames + i \in Nat /\ ll.frames + i - 1 \in Nat /\ i - 1 \in 0..MaxSeg /\ id \in Nat
      BY <1>1, <1>2, <1>3, SMTT(60)
    <2>2. (ll.frames + i - 1) % llEnv.mod \in Nat
      BY <1>1, <2>1
    <2>3. id % NpduMod \in Nat
      BY <1>2, <2>1
    <2> QED BY <1>3, <2>1, <2>2, <2>3 DEF Seg, Frames
  <1>9. ll.air \in Seq(Seg)
    BY DEF LlInv, LlFine, Waits
  <1>10. /\ a \in Seq(Seg) /\ Len(a) = Len(ll.air) + n
         /\ \A i \in 1..Len(ll.air) : a[i] = ll.air[i]
         /\ \A i \in 1..n : a[Len(ll.air) + i] = g[i]
    <2>1. g \in [1..n -> Seg]
      BY <1>8 DEF Frames
    <2>2. PICK q, S : q = ll.air /\ S = Seg
      OBVIOUS
    <2>3. q \in Seq(S) /\ n \in Nat /\ g \in [1..n -> S] /\ a = q \o g
      BY <1>2, <1>4, <1>9, <2>1, <2>2
    <2>4. Joined(S, q, n, g, a)
      BY <2>3, ConcatElements
    <2> QED BY <2>2, <2>4 DEF Joined
  <1>11. \A i \in 1..n : NewFrame(a[Len(ll.air) + i], i, n)
    BY <1>7, <1>10
  <1> QED BY <1>3, <1>5, <1>6, <1>10, <1>11 DEF Grown

\* The frames of the new N-PDU come after those under way, in order, its first segment first.
LEMMA GrownFine ==
    ASSUME LlInv, NEW n \in 1..MaxSeg, NEW T, Grown(T, n)
    PROVE  LlFine(T)
  <1>1. /\ llEnv.mod \in Nat \ {0} /\ ll.frames \in Nat /\ ll.up \in 0..ll.frames
        /\ ll.sizes \in Seq(1..MaxSeg) /\ ll.vu_recv \in 0..(llEnv.mod - 1)
    BY ModPositive DEF LlInv, LlFine, Counts
  <1>2. n \in Nat /\ 1 <= n
    BY LlcBounds
  <1>3. PICK id, a : id = Len(ll.sizes) + 1 /\ a = T.air
    OBVIOUS
  <1>4. id \in Nat /\ Len(ll.sizes) \in Nat /\ DOMAIN ll.sizes = 1..Len(ll.sizes)
    BY <1>1, <1>3
  <1>5. Shape(T) /\ T.vu_recv = ll.vu_recv /\ T.frames = ll.frames + n /\ T.air = a
        /\ T.up = ll.up /\ T.dropped = ll.dropped /\ T.sne = ll.sne /\ T.bad = ll.bad
    BY <1>3 DEF Grown
  <1>6. /\ T.sizes \in Seq(1..MaxSeg) /\ T.sizes[id] = n /\ id \in DOMAIN T.sizes
        /\ \A k \in DOMAIN ll.sizes : k \in DOMAIN T.sizes /\ T.sizes[k] = ll.sizes[k] /\ k \in Nat /\ k < id
    BY <1>3, <1>4 DEF Grown
  <1>7. ll.air \in Seq(Seg) /\ DOMAIN ll.air = 1..Len(ll.air) /\ Len(ll.air) \in Nat
    BY DEF LlInv, LlFine, Waits
  <1>8. PICK m : m = Len(ll.air)
    OBVIOUS
  <1>9. /\ a \in Seq(Seg) /\ Len(a) = m + n /\ m \in Nat
        /\ \A i \in 1..m : a[i] = ll.air[i]
        /\ \A i \in 1..n : NewFrame(a[m + i], i, n)
    BY <1>3, <1>7, <1>8 DEF Grown
  <1>10. DOMAIN a = 1..(m + n)
    BY <1>9
  <1>11. ASSUME NEW k \in DOMAIN a
         PROVE  k \in Nat /\ (k \in 1..m \/ \E i \in 1..n : k = m + i)
    <2>1. k \in Nat /\ 1 <= k /\ k <= m + n
      BY <1>2, <1>9, <1>10
    <2>2. CASE k <= m
      BY <1>9, <2>1, <2>2
    <2>3. CASE ~(k <= m)
      <3>1. k - m \in 1..n /\ k = m + (k - m)
        BY <1>2, <1>9, <2>1, <2>3
      <3> QED BY <2>1, <3>1
    <2> QED BY <2>2, <2>3
  <1>12. \A i \in 1..n : LET f == a[m + i] IN
            /\ f.abs = ll.frames + i /\ f.nu = (ll.frames + i - 1) % llEnv.mod /\ f.seg = i - 1
            /\ (f.first <=> i = 1) /\ (f.more <=> i < n) /\ f.id = id /\ i \in Nat /\ 1 <= i /\ i <= n
    <2> SUFFICES ASSUME NEW i \in 1..n, NEW f, f = a[m + i]
                 PROVE  /\ f.abs = ll.frames + i /\ f.nu = (ll.frames + i - 1) % llEnv.mod /\ f.seg = i - 1
                        /\ (f.first <=> i = 1) /\ (f.more <=> i < n) /\ f.id = id /\ i \in Nat /\ 1 <= i /\ i <= n
      OBVIOUS
    <2>1. NewFrame(f, i, n)
      BY <1>9
    <2>2. i \in Nat /\ 1 <= i /\ i <= n
      BY <1>2
    <2> QED BY <1>3, <2>1, <2>2 DEF NewFrame
  <1>13. \A k \in 1..m : Cut(ll, ll.air[k]) /\ Numbered(ll, ll.air[k]) /\ ll.air[k] \in Seg
    BY <1>7, <1>8 DEF LlInv, LlFine, Waits
  <1>14. \A f : Cut(ll, f) => Cut(T, f)
    BY <1>6 DEF Cut
  <1>15. \A i \in 1..n : Cut(T, a[m + i])
    <2> SUFFICES ASSUME NEW i \in 1..n PROVE Cut(T, a[m + i])
      OBVIOUS
    <2>1. PICK f : f = a[m + i]
      OBVIOUS
    <2>2. f.seg = i - 1 /\ (f.first <=> i = 1) /\ (f.more <=> i < n) /\ f.id = id /\ i \in Nat /\ 1 <= i /\ i <= n
      BY <1>12, <2>1
    <2>3. Cut(T, f)
      BY <1>2, <1>6, <2>2 DEF Cut
    <2> QED BY <2>1, <2>3
  <1>16. \A k \in 1..m : Numbered(T, ll.air[k])
    <2>1. \A x \in 1..ll.frames : x \in 1..(ll.frames + n)
      BY <1>1, <1>2
    <2> QED BY <1>5, <1>13, <2>1 DEF Numbered
  <1>17. \A i \in 1..n : Numbered(T, a[m + i])
    <2> SUFFICES ASSUME NEW i \in 1..n PROVE Numbered(T, a[m + i])
      OBVIOUS
    <2>1. ll.frames + i \in 1..(ll.frames + n) /\ (ll.frames + i) - 1 = ll.frames + i - 1
      BY <1>1, <1>2
    <2>2. PICK f : f = a[m + i]
      OBVIOUS
    <2>3. f.abs = ll.frames + i /\ f.nu = (ll.frames + i - 1) % llEnv.mod
      BY <1>12, <2>2
    <2>4. Numbered(T, f)
      BY <1>5, <2>1, <2>3 DEF Numbered
    <2> QED BY <2>2, <2>4
  <1>18. Waits(T)
    <2>1. ASSUME NEW k \in DOMAIN a
          PROVE  Cut(T, a[k]) /\ Numbered(T, a[k])
      <3>1. CASE k \in 1..m
        BY <1>9, <1>13, <1>14, <1>16, <3>1
      <3>2. CASE \E i \in 1..n : k = m + i
        BY <1>15, <1>17, <3>2
      <3> QED BY <1>11, <3>1, <3>2
    <2> QED BY <1>5, <1>9, <2>1 DEF Waits
  <1>19. Counts(T)
    <2>1. ll.frames + n \in Nat /\ ll.up \in 0..(ll.frames + n)
      BY <1>1, <1>2
    <2> QED BY <1>1, <1>5, <1>6, <2>1 DEF Counts
  <1>20. Early(T) => Early(ll)
    <2>1. llEnv.mod \in Nat
      BY <1>1
    <2> QED BY <1>1, <1>2, <1>5, <2>1 DEF Early
  <1>21. InStep(T)
    <2>1. Early(T) => T.vu_recv = T.up
      BY <1>5, <1>20 DEF LlInv, LlFine, InStep
    <2>2. Early(T) \/ InTurn => ~T.dropped
      BY <1>5, <1>20 DEF LlInv, LlFine, InStep
    <2>3. ASSUME InTurn
          PROVE  /\ T.vu_recv = T.up % llEnv.mod /\ Len(T.air) = T.frames - T.up
                 /\ \A k \in DOMAIN T.air : T.air[k].abs = T.up + k
      <3>1. /\ ll.vu_recv = ll.up % llEnv.mod /\ m = ll.frames - ll.up
            /\ \A k \in 1..m : ll.air[k].abs = ll.up + k
        BY <1>7, <1>8, <2>3 DEF LlInv, LlFine, InStep
      <3>2. m + n = (ll.frames + n) - ll.up
        BY <1>1, <1>2, <3>1
      <3>3. ASSUME NEW k \in DOMAIN a
            PROVE  a[k].abs = ll.up + k
        <4>1. CASE k \in 1..m
          BY <1>9, <3>1, <4>1
        <4>2. ASSUME NEW i \in 1..n, k = m + i
              PROVE  a[k].abs = ll.up + k
          <5>1. a[k].abs = ll.frames + i /\ i \in Nat
            BY <1>12, <4>2
          <5>2. ll.frames + i = ll.up + (m + i)
            <6>1. ll.up \in Nat
              BY <1>1
            <6> QED BY <1>1, <3>1, <5>1, <6>1
          <5> QED BY <4>2, <5>1, <5>2
        <4> QED BY <1>11, <4>1, <4>2
      <3> QED BY <1>5, <1>9, <3>1, <3>2, <3>3
    <2> QED BY <2>1, <2>2, <2>3 DEF InStep
  <1>22. ASSUME Clean(T)
         PROVE  Ordered(T) /\ Whole(T, T.sne) /\ Led(T) /\ ~T.bad
    <2>1. Ordered(ll) /\ Whole(ll, ll.sne) /\ Led(ll) /\ ~ll.bad
      BY <1>20, <1>22 DEF Clean, LlInv, LlFine
    <2>2. Whole(T, T.sne)
      <3>1. DOMAIN ll.sizes \subseteq DOMAIN T.sizes /\ \A k \in DOMAIN ll.sizes : T.sizes[k] = ll.sizes[k]
        BY <1>6
      <3>2. PICK d : d = ll.sne
        OBVIOUS
      <3>3. Whole(ll, d)
        BY <2>1, <3>2
      <3>4. Whole(T, d)
        BY <3>1, <3>3, SizesAlike
      <3> QED BY <1>5, <3>2, <3>4
    <2>3. \A k \in 1..m : ll.air[k].abs \in Nat /\ ll.air[k].abs <= ll.frames /\ ll.air[k].id \in Nat /\ ll.air[k].id < id
      BY <1>1, <1>6, <1>13, SMTT(60) DEF Cut, Numbered
    <2>4. Ordered(T)
      <3>1. ASSUME NEW i \in DOMAIN a, NEW j \in DOMAIN a, i < j
            PROVE  /\ a[i].abs < a[j].abs /\ a[i].id <= a[j].id
                   /\ a[i].id = a[j].id => a[i].seg < a[j].seg
        <4>1. i \in Nat /\ j \in Nat
          BY <1>11
        <4>2. CASE i \in 1..m /\ j \in 1..m
          BY <1>7, <1>8, <1>9, <2>1, <3>1, <4>2 DEF Ordered
        <4>3. ASSUME i \in 1..m, NEW y \in 1..n, j = m + y
              PROVE  a[i].abs < a[j].abs /\ a[i].id <= a[j].id /\ a[i].id # a[j].id
          <5>1. a[j].abs = ll.frames + y /\ a[j].id = id /\ y \in Nat /\ 1 <= y
            BY <1>12, <4>3
          <5>2. a[i].abs \in Nat /\ a[i].abs <= ll.frames /\ a[i].id \in Nat /\ a[i].id < id
            BY <1>9, <2>3, <4>3
          <5> QED BY <1>1, <1>4, <5>1, <5>2
        <4>4. ASSUME NEW x \in 1..n, i = m + x, NEW y \in 1..n, j = m + y
              PROVE  a[i].abs < a[j].abs /\ a[i].id <= a[j].id /\ a[i].seg < a[j].seg
          <5>1. a[j].abs = ll.frames + y /\ a[j].id = id /\ a[j].seg = y - 1 /\ y \in Nat
            BY <1>12, <4>4
          <5>2. a[i].abs = ll.frames + x /\ a[i].id = id /\ a[i].seg = x - 1 /\ x \in Nat
            BY <1>12, <4>4
          <5>3. x < y
            BY <1>9, <3>1, <4>4, <5>1, <5>2
          <5> QED BY <1>1, <1>4, <5>1, <5>2, <5>3
        <4>5. ASSUME NEW x \in 1..n, i = m + x, j \in 1..m
              PROVE  FALSE
          <5>1. x \in Nat /\ 1 <= x
            BY <1>2
          <5> QED BY <1>9, <3>1, <4>5, <5>1
        <4> QED BY <1>11, <4>2, <4>3, <4>4, <4>5
      <3> QED BY <1>5, <3>1 DEF Ordered
    <2>5. Led(T)
      <3>1. ASSUME NEW k \in DOMAIN a, a[k].abs > ll.up, ~a[k].first
            PROVE  \/ Awaits(T.sne, T.air[k]) /\ \A j \in 1..(k - 1) : ~Opens(T, j)
                   \/ \E j \in 1..(k - 1) : Opens(T, j) /\ T.air[j].id = T.air[k].id
        <4>1. CASE k \in 1..m
          <5>1. \A j \in 1..k : j \in 1..m /\ a[j] = ll.air[j]
            BY <1>9, <4>1
          <5>2. \A j \in 1..k : Opens(T, j) <=> Opens(ll, j)
            BY <1>5, <5>1 DEF Opens
          <5>3. k \in 1..k /\ \A j \in 1..(k - 1) : j \in 1..k
            BY <1>9, <4>1
          <5>4. k \in DOMAIN ll.air /\ ll.air[k].abs > ll.up /\ ~ll.air[k].first
            BY <1>7, <1>8, <1>9, <3>1, <4>1
          <5>5. \/ Awaits(ll.sne, ll.air[k]) /\ \A j \in 1..(k - 1) : ~Opens(ll, j)
                \/ \E j \in 1..(k - 1) : Opens(ll, j) /\ ll.air[j].id = ll.air[k].id
            BY <2>1, <5>4 DEF Led
          <5>6. CASE Awaits(ll.sne, ll.air[k]) /\ \A j \in 1..(k - 1) : ~Opens(ll, j)
            BY <1>5, <5>1, <5>2, <5>3, <5>6
          <5>7. CASE \E j \in 1..(k - 1) : Opens(ll, j) /\ ll.air[j].id = ll.air[k].id
            BY <1>5, <5>1, <5>2, <5>3, <5>7
          <5> QED BY <5>5, <5>6, <5>7
        <4>2. ASSUME NEW i \in 1..n, k = m + i
              PROVE  \E j \in 1..(k - 1) : Opens(T, j) /\ T.air[j].id = T.air[k].id
          <5>1. i # 1 /\ a[k].id = id /\ i \in Nat /\ 1 <= i
            BY <1>12, <3>1, <4>2
          <5>2. 1 \in 1..n /\ m + 1 \in 1..(k - 1)
            BY <1>2, <1>9, <4>2, <5>1
          <5>3. a[m + 1].first /\ a[m + 1].id = id /\ a[m + 1].abs = ll.frames + 1
            BY <1>12, <5>2
          <5>4. ll.frames + 1 > ll.up
            BY <1>1
          <5>5. Opens(T, m + 1)
            BY <1>5, <5>3, <5>4 DEF Opens
          <5> QED BY <1>5, <5>1, <5>2, <5>3, <5>5
        <4> QED BY <1>11, <4>1, <4>2
      <3> QED BY <1>5, <3>1 DEF Led
    <2> QED BY <1>5, <2>1, <2>2, <2>4, <2>5
  <1> QED BY <1>5, <1>18, <1>19, <1>21, <1>22 DEF LlFine

\* The MS sends an N-PDU.
LEMMA SendStep ==
    ASSUME LlInv, NEW n \in 1..MaxSeg, MsSends(n)
    PROVE  LlInv'
  <1>1. PICK id : id = Len(ll.sizes) + 1
    OBVIOUS
  <1>2. PICK g, T : g = Frames(n, id) /\ T = Sent(n, g)
    OBVIOUS
  <1>3. id <= MaxNpdu /\ LlBecomes(T)
    BY <1>1, <1>2 DEF MsSends, Frames, Sent
  <1>4. Grown(T, n)
    BY <1>1, <1>2, <1>3, NewFrames
  <1>5. LlFine(T)
    BY <1>4, GrownFine
  <1> QED BY <1>3, <1>5, LlAfter

-----------------------------------------------------------------------------
(* The theorems *)

\* Every step keeps the invariant.
LEMMA LlStep ==
    ASSUME LlInv, [LlNext]_llVars
    PROVE  LlInv'
  <1>1. ASSUME NEW n \in 1..MaxSeg, MsSends(n)
        PROVE  LlInv'
    BY <1>1, SendStep
  <1>2. CASE Lose
    BY <1>2, LoseStep
  <1>3. CASE Reassign
    BY <1>3, ReassignStep
  <1>4. ASSUME NEW i, NEW twice \in BOOLEAN, Receive(i, twice)
        PROVE  LlInv'
    BY <1>4, ReceiveStep
  <1>5. ASSUME NEW cmd \in {"SABM", "DISC"}, Control(cmd)
        PROVE  LlInv'
    BY <1>5, OtherSteps
  <1>6. ASSUME NEW n, NEW sent, Downlink(n, sent)
        PROVE  LlInv'
    BY <1>6, OtherSteps
  <1>7. CASE UNCHANGED llVars
    <2>1. LlBecomes(ll) /\ LlFine(ll)
      BY <1>7 DEF llVars, LlBecomes, LlInv
    <2> QED BY <2>1, LlAfter
  <1> QED BY <1>1, <1>2, <1>3, <1>4, <1>5, <1>6, <1>7 DEF LlNext

\* The invariant of the uplink through gprs_llc_hdr_rx() and defrag_input(), for any modulus, faults and N-PDUs.
THEOREM LlInvariant == LlSpec => []LlInv
<1>1. LlInit => LlInv  BY LlInitFine
<1>2. LlInv /\ [LlNext]_llVars => LlInv'  BY LlStep
<1> QED  BY <1>1, <1>2, PTL DEF LlSpec

\* gprs_llc_hdr_rx() drops no new frame before the numbers begin again, and none at all when the air is in order.
THEOREM NewFrameTakenHolds == LlSpec => []NewFrameTaken
<1>1. ASSUME LlInv PROVE NewFrameTaken
  <2>0. ll.frames \in Nat  BY <1>1 DEF LlInv, LlFine, Counts
  <2>1. llEnv.mod \in Nat /\ ll.frames \in Nat  BY <1>1, <2>0, ModPositive
  <2>2. Early(ll) \/ InTurn => ~ll.dropped  BY <1>1 DEF LlInv, LlFine, InStep
  <2>3. llEnv.faults = {} => InTurn  BY DEF InTurn, LlHas
  <2> QED  BY <2>1, <2>2, <2>3 DEF NewFrameTaken, Early
<1> QED  BY <1>1, LlInvariant, PTL

\* What defrag_segments() hands up is an N-PDU the MS sent, unless first segments are missing.
THEOREM NpduIntactHolds == LlSpec => []NpduIntact
<1>1. ASSUME LlInv PROVE NpduIntact
  <2>0. ll.frames \in Nat  BY <1>1 DEF LlInv, LlFine, Counts
  <2>1. llEnv.mod \in Nat /\ ll.frames \in Nat  BY <1>1, <2>0, ModPositive
  <2>2. Clean(ll) => ~ll.bad  BY <1>1 DEF LlInv, LlFine
  <2> QED  BY <2>1, <2>2 DEF NpduIntact, Clean, Early, InTurn
<1> QED  BY <1>1, LlInvariant, PTL

-----------------------------------------------------------------------------
(* Gb: messages and state *)

UpTypes == {"RESET", "BLOCK", "UNBLOCK", "SUSPEND", "RESUME", "UL_UD", "FC_BVC", "FC_MS", "LLC_DISC"}
DownTypes == {"RESET", "RESET_ACK", "PAGING", "STATUS", "SUSPEND_ACK", "BLOCK_ACK", "UNBLOCK_ACK", "DL_UD", "FC_ACK"}
UpMsg == [t : UpTypes, b : Bss]
DownMsg == {m \in [t : DownTypes, b : {0} \cup Bss] : m.t = "RESET" \/ m.b \in Bss}
GbState == [bvc : [Bss -> Bvc], peer : [Bss -> Peer], fc : Fc, up : Seq(UpMsg), down : Seq(DownMsg),
            strayed : BOOLEAN, bad : BOOLEAN]

-----------------------------------------------------------------------------
(* Queues *)

\* A queue with one more element: the new one is last, the others keep their places.
LEMMA AppendAt ==
  ASSUME NEW D, NEW s \in Seq(D), NEW m \in D, NEW q, q = Append(s, m)
  PROVE  /\ q \in Seq(D) /\ DOMAIN q = 1..(Len(s) + 1) /\ DOMAIN s = 1..Len(s) /\ Len(s) \in Nat
         /\ q[Len(s) + 1] = m /\ \A i \in 1..Len(s) : q[i] = s[i]
  OBVIOUS

\* A queue without its first element: the others move up by one.
LEMMA TailAt ==
  ASSUME NEW D, NEW s \in Seq(D), s # <<>>, NEW q, q = Tail(s)
  PROVE  /\ q \in Seq(D) /\ DOMAIN q = 1..(Len(s) - 1) /\ DOMAIN s = 1..Len(s) /\ Len(s) \in Nat /\ Len(s) > 0
         /\ Head(s) = s[1] /\ Head(s) \in D /\ \A i \in 1..(Len(s) - 1) : q[i] = s[i + 1]
  OBVIOUS

\* An acknowledgement that tells the proxy whether a BVC is blocked.
Ack(m, b) == m.b = b /\ m.t \in {"BLOCK_ACK", "UNBLOCK_ACK"}
\* The last one under way says what the SGSN thinks; without one the proxy thinks the same.
Told(s, b, P, B) ==
  /\ (\A i \in DOMAIN s : ~Ack(s[i], b)) => (P.blocked <=> B.blocked)
  /\ \A i \in DOMAIN s : Ack(s[i], b) /\ (\A j \in DOMAIN s : j > i => ~Ack(s[j], b)) =>
        (s[i].t = "BLOCK_ACK" <=> B.blocked)

\* A message that says nothing of BVC b does not change what the proxy will think of b.
LEMMA ToldAppendOther ==
  ASSUME NEW s \in Seq(DownMsg), NEW m \in DownMsg, NEW b, NEW P, NEW B, Told(s, b, P, B), ~Ack(m, b)
  PROVE  Told(Append(s, m), b, P, B)
<1>1. PICK q : q = Append(s, m)  OBVIOUS
<1>2. /\ DOMAIN q = 1..(Len(s) + 1) /\ DOMAIN s = 1..Len(s) /\ Len(s) \in Nat
      /\ q[Len(s) + 1] = m /\ \A i \in 1..Len(s) : q[i] = s[i]
  BY <1>1, AppendAt
<1>3. (\A i \in DOMAIN q : ~Ack(q[i], b)) => \A i \in DOMAIN s : ~Ack(s[i], b)  BY <1>2
<1>4. ASSUME NEW i \in DOMAIN q, Ack(q[i], b), \A j \in DOMAIN q : j > i => ~Ack(q[j], b)
      PROVE  q[i].t = "BLOCK_ACK" <=> B.blocked
  <2>1. i \in DOMAIN s /\ q[i] = s[i]  BY <1>2, <1>4
  <2>2. \A j \in DOMAIN s : j > i => ~Ack(s[j], b)  BY <1>2, <1>4
  <2> QED  BY <1>4, <2>1, <2>2 DEF Told
<1> QED  BY <1>1, <1>3, <1>4 DEF Told

\* A new last acknowledgement says what the SGSN thinks, whatever was under way before.
LEMMA ToldAppendAck ==
  ASSUME NEW s \in Seq(DownMsg), NEW m \in DownMsg, NEW b, NEW P, NEW B, Ack(m, b), m.t = "BLOCK_ACK" <=> B.blocked
  PROVE  Told(Append(s, m), b, P, B)
<1>1. PICK q : q = Append(s, m)  OBVIOUS
<1>2. /\ DOMAIN q = 1..(Len(s) + 1) /\ Len(s) \in Nat /\ q[Len(s) + 1] = m
  BY <1>1, AppendAt
<1>3. Len(s) + 1 \in DOMAIN q /\ Ack(q[Len(s) + 1], b)  BY <1>2
<1>4. ASSUME NEW i \in DOMAIN q, Ack(q[i], b), \A j \in DOMAIN q : j > i => ~Ack(q[j], b)
      PROVE  q[i].t = "BLOCK_ACK" <=> B.blocked
  <2>1. ~(Len(s) + 1 > i)  BY <1>3, <1>4
  <2>2. i = Len(s) + 1  BY <1>2, <2>1
  <2> QED  BY <1>2, <2>2
<1> QED  BY <1>1, <1>3, <1>4 DEF Told

\* Taking a message that says nothing of BVC b leaves what the proxy will think of b.
LEMMA ToldTailOther ==
  ASSUME NEW s \in Seq(DownMsg), s # <<>>, NEW b, NEW P, NEW B, Told(s, b, P, B), ~Ack(Head(s), b)
  PROVE  Told(Tail(s), b, P, B)
<1>1. PICK q : q = Tail(s)  OBVIOUS
<1>2. /\ DOMAIN q = 1..(Len(s) - 1) /\ DOMAIN s = 1..Len(s) /\ Len(s) \in Nat /\ Len(s) > 0
      /\ Head(s) = s[1] /\ \A i \in 1..(Len(s) - 1) : q[i] = s[i + 1]
  BY <1>1, TailAt
<1>3. ASSUME \A i \in DOMAIN q : ~Ack(q[i], b) PROVE \A i \in DOMAIN s : ~Ack(s[i], b)
  <2> SUFFICES ASSUME NEW i \in DOMAIN s PROVE ~Ack(s[i], b)  OBVIOUS
  <2>1. CASE i = 1  BY <1>2, <2>1
  <2>2. CASE i # 1
    <3>1. i - 1 \in DOMAIN q /\ q[i - 1] = s[i]  BY <1>2, <2>2
    <3> QED  BY <1>3, <3>1
  <2> QED  BY <2>1, <2>2
<1>4. ASSUME NEW i \in DOMAIN q, Ack(q[i], b), \A j \in DOMAIN q : j > i => ~Ack(q[j], b)
      PROVE  q[i].t = "BLOCK_ACK" <=> B.blocked
  <2>1. i + 1 \in DOMAIN s /\ q[i] = s[i + 1]  BY <1>2
  <2>2. ASSUME NEW j \in DOMAIN s, j > i + 1 PROVE ~Ack(s[j], b)
    <3>1. j - 1 \in DOMAIN q /\ q[j - 1] = s[j] /\ j - 1 > i  BY <1>2, <2>2
    <3> QED  BY <1>4, <3>1
  <2> QED  BY <1>4, <2>1, <2>2 DEF Told
<1> QED  BY <1>1, <1>3, <1>4 DEF Told

\* Taking an acknowledgement and doing what it says brings the proxy in step.
LEMMA ToldTailAck ==
  ASSUME NEW s \in Seq(DownMsg), s # <<>>, NEW b, NEW P, NEW Q, NEW B, Told(s, b, P, B), Ack(Head(s), b),
         Head(s).t = "BLOCK_ACK" <=> Q.blocked
  PROVE  Told(Tail(s), b, Q, B)
<1>1. PICK q : q = Tail(s)  OBVIOUS
<1>2. /\ DOMAIN q = 1..(Len(s) - 1) /\ DOMAIN s = 1..Len(s) /\ Len(s) \in Nat /\ Len(s) > 0
      /\ Head(s) = s[1] /\ \A i \in 1..(Len(s) - 1) : q[i] = s[i + 1]
  BY <1>1, TailAt
<1>3. ASSUME \A i \in DOMAIN q : ~Ack(q[i], b) PROVE Q.blocked <=> B.blocked
  <2>1. 1 \in DOMAIN s /\ Ack(s[1], b)  BY <1>2
  <2>2. ASSUME NEW j \in DOMAIN s, j > 1 PROVE ~Ack(s[j], b)
    <3>1. j - 1 \in DOMAIN q /\ q[j - 1] = s[j]  BY <1>2, <2>2
    <3> QED  BY <1>3, <3>1
  <2>3. s[1].t = "BLOCK_ACK" <=> B.blocked  BY <2>1, <2>2 DEF Told
  <2> QED  BY <1>2, <2>3
<1>4. ASSUME NEW i \in DOMAIN q, Ack(q[i], b), \A j \in DOMAIN q : j > i => ~Ack(q[j], b)
      PROVE  q[i].t = "BLOCK_ACK" <=> B.blocked
  <2>1. i + 1 \in DOMAIN s /\ q[i] = s[i + 1]  BY <1>2
  <2>2. ASSUME NEW j \in DOMAIN s, j > i + 1 PROVE ~Ack(s[j], b)
    <3>1. j - 1 \in DOMAIN q /\ q[j - 1] = s[j] /\ j - 1 > i  BY <1>2, <2>2
    <3> QED  BY <1>4, <3>1
  <2> QED  BY <1>4, <2>1, <2>2 DEF Told
<1> QED  BY <1>1, <1>3, <1>4 DEF Told

-----------------------------------------------------------------------------
(* The invariant *)

\* A BVC the SGSN knows, and whatever a BSS has sent, is of a BSS the proxy knows; only what is known is blocked.
Known(S) ==
  /\ \A b \in Bss : /\ S.bvc[b].used => S.peer[b].used
                    /\ S.bvc[b].blocked => S.bvc[b].used
                    /\ S.peer[b].blocked => S.peer[b].used
  /\ \A i \in DOMAIN S.up : S.peer[S.up[i].b].used
  /\ \A i \in DOMAIN S.down : S.down[i].t \in {"BLOCK_ACK", "UNBLOCK_ACK"} => S.peer[S.down[i].b].used
\* The proxy has every BSS at its own NS-VC and routeing area, and data comes only for those.
Placed(S) ==
  /\ ~S.strayed
  /\ \A b \in Bss : S.peer[b].used => S.peer[b].nsvc = b /\ S.peer[b].ra \in {0, b}
  /\ \A i \in DOMAIN S.down : S.down[i].t \in {"DL_UD", "FC_ACK"} => S.peer[S.down[i].b].used
\* A RESET finds its BVC unblocked: it is so, and no BLOCK is ahead of the RESET.
NotAhead(s, b) == \A j \in DOMAIN s : ~(s[j].t = "RESET" /\ s[j].b = b)
ResetsFree(S) ==
  \A i \in DOMAIN S.up : S.up[i].t = "RESET" =>
     /\ ~S.bvc[S.up[i].b].blocked
     /\ \A j \in DOMAIN S.up : j < i => ~(S.up[j].t = "BLOCK" /\ S.up[j].b = S.up[i].b)
TellsAll(S) == \A b \in Bss : Told(S.down, b, S.peer[b], S.bvc[b])
GbFine(S) ==
  /\ S \in GbState /\ Known(S)
  /\ ~GbHas("early_data") => Placed(S)
  /\ ~GbHas("reset_blocked") => ResetsFree(S)
  /\ ~GbHas("reset_blocked") /\ ~GbHas("loss") => TellsAll(S)
GbInv == GbFine(gb) /\ gbEnv \in GbEnvs

Msg(t, b) == [t |-> t, b |-> b]
\* The fields of a message, and when it is one of a BSS or of the SGSN.
LEMMA MsgFields ==
  ASSUME NEW t, NEW b
  PROVE  /\ Msg(t, b).t = t /\ Msg(t, b).b = b
         /\ t \in UpTypes /\ b \in Bss => Msg(t, b) \in UpMsg
         /\ t \in DownTypes /\ b \in Bss => Msg(t, b) \in DownMsg
         /\ t = "RESET" /\ b \in {0} \cup Bss => Msg(t, b) \in DownMsg
  BY DEF Msg, UpMsg, DownMsg, DownTypes

\* The fields of a message of the SGSN: only a RESET may be for the signalling BVC.
LEMMA DownMsgFields ==
  ASSUME NEW m \in DownMsg
  PROVE  m.t \in DownTypes /\ m.b \in {0} \cup Bss /\ (m.t # "RESET" => m.b \in Bss)
  BY DEF DownMsg

\* The fields of a message of a BSS.
LEMMA UpMsgFields ==
  ASSUME NEW m \in UpMsg PROVE m.t \in UpTypes /\ m.b \in Bss
  BY DEF UpMsg

\* The signalling BVC is none of a BSS.
LEMMA BssNotZero == 0 \notin Bss
  BY GbBounds

\* What the message of the SGSN at the end of the queue leaves alone.
SentBy(S, T, m) ==
  /\ T \in GbState /\ T.down = Append(S.down, m)
  /\ T.bvc = S.bvc /\ T.peer = S.peer /\ T.fc = S.fc /\ T.up = S.up /\ T.strayed = S.strayed /\ T.bad = S.bad
\* bssgp_tx() adds to the queue for the proxy and leaves all else alone.
LEMMA TxFields ==
  ASSUME NEW S \in GbState, NEW t, NEW b, Msg(t, b) \in DownMsg, NEW T, T = bssgp_tx(S, t, b)
  PROVE  SentBy(S, T, Msg(t, b))
<1>1. T = [S EXCEPT !.down = Append(S.down, Msg(t, b))]  BY DEF bssgp_tx, Msg
<1>2. S.down \in Seq(DownMsg)  BY DEF GbState
<1>3. PICK q : q = Append(S.down, Msg(t, b))  OBVIOUS
<1>4. q \in Seq(DownMsg)  BY <1>2, <1>3, AppendAt
<1>5. T = [S EXCEPT !.down = q]  BY <1>1, <1>3
<1> QED  BY <1>3, <1>4, <1>5 DEF GbState, SentBy

\* The contexts of the SGSN know and block the same BVCs.
SameBvc(S, T) == \A b \in Bss : (T.bvc[b].used <=> S.bvc[b].used) /\ (T.bvc[b].blocked <=> S.bvc[b].blocked)
SameRest(S, T) == T \in GbState /\ T.peer = S.peer /\ T.up = S.up /\ T.strayed = S.strayed

\* A step that leaves queues, peers and the blocking of contexts alone keeps the invariant.
LEMMA QuietFine ==
  ASSUME NEW S, GbFine(S), NEW T, SameRest(S, T), SameBvc(S, T), T.down = S.down PROVE GbFine(T)
<1>1. Known(T)  BY DEF GbFine, Known, SameRest, SameBvc, GbState
<1>2. ~GbHas("early_data") => Placed(T)  BY DEF GbFine, Placed, SameRest
<1>3. ~GbHas("reset_blocked") => ResetsFree(T)
  <2>1. \A i \in DOMAIN S.up : S.up[i].b \in Bss
    <3>1. S.up \in Seq(UpMsg)  BY DEF GbFine, GbState
    <3> QED  BY <3>1, UpMsgFields
  <2> QED  BY <2>1 DEF GbFine, ResetsFree, SameRest, SameBvc
<1>4. ~GbHas("reset_blocked") /\ ~GbHas("loss") => TellsAll(T)
  BY DEF GbFine, TellsAll, Told, SameRest, SameBvc
<1> QED  BY <1>1, <1>2, <1>3, <1>4 DEF GbFine, SameRest

\* Another message is queued by the SGSN.
LEMMA AppendFine ==
  ASSUME NEW S, GbFine(S), NEW m \in DownMsg, NEW T, SameRest(S, T), SameBvc(S, T), T.down = Append(S.down, m),
         m.t \notin {"BLOCK_ACK", "UNBLOCK_ACK"},
         m.t \in {"DL_UD", "FC_ACK"} /\ ~GbHas("early_data") => S.peer[m.b].used
  PROVE  GbFine(T)
<1>1. S \in GbState  BY DEF GbFine
<1>2. S.down \in Seq(DownMsg) /\ S.up \in Seq(UpMsg)  BY <1>1 DEF GbState
<1>3. /\ DOMAIN T.down = 1..(Len(S.down) + 1) /\ DOMAIN S.down = 1..Len(S.down) /\ Len(S.down) \in Nat
      /\ T.down[Len(S.down) + 1] = m /\ \A i \in 1..Len(S.down) : T.down[i] = S.down[i]
  BY <1>2, AppendAt
<1>4. \A i \in DOMAIN T.down : (i \in DOMAIN S.down /\ T.down[i] = S.down[i]) \/ T.down[i] = m  BY <1>3
<1>5. Known(T)  BY <1>4 DEF GbFine, Known, SameRest, SameBvc
<1>6. ~GbHas("early_data") => Placed(T)  BY <1>4 DEF GbFine, Placed, SameRest
<1>7. ~GbHas("reset_blocked") => ResetsFree(T)
  <2>1. \A i \in DOMAIN S.up : S.up[i].b \in Bss  BY <1>2, UpMsgFields
  <2> QED  BY <2>1 DEF GbFine, ResetsFree, SameRest, SameBvc
<1>8. ASSUME ~GbHas("reset_blocked") /\ ~GbHas("loss"), NEW b \in Bss
      PROVE  Told(T.down, b, T.peer[b], T.bvc[b])
  <2>1. Told(S.down, b, S.peer[b], S.bvc[b])  BY <1>8 DEF GbFine, TellsAll
  <2>2. ~Ack(m, b)  BY DEF Ack
  <2>3. Told(T.down, b, S.peer[b], S.bvc[b])  BY <1>2, <2>1, <2>2, ToldAppendOther
  <2> QED  BY <2>3 DEF Told, SameRest, SameBvc
<1> QED  BY <1>5, <1>6, <1>7, <1>8 DEF GbFine, SameRest, TellsAll

-----------------------------------------------------------------------------
(* The SGSN *)

\* The context of one BVC changes, and an acknowledgement is queued.
Changed(S, T, b, t) ==
  /\ SameRest(S, T) /\ T.down = Append(S.down, Msg(t, b)) /\ T.bvc[b].used
  /\ \A c \in Bss \ {b} : T.bvc[c] = S.bvc[c]
Heard(S, T, m) ==
  \/ SameRest(S, T) /\ SameBvc(S, T) /\ T.down = S.down
  \/ /\ SameRest(S, T) /\ SameBvc(S, T)
     /\ \E t \in {"STATUS", "SUSPEND_ACK"} : T.down = Append(S.down, Msg(t, m.b))
  \/ SameRest(S, T) /\ SameBvc(S, T) /\ S.bvc[m.b].used /\ T.down = Append(S.down, Msg("FC_ACK", m.b))
  \/ m.t = "RESET" /\ Changed(S, T, m.b, "RESET_ACK") /\ ~T.bvc[m.b].blocked
  \/ m.t = "BLOCK" /\ S.bvc[m.b].used /\ Changed(S, T, m.b, "BLOCK_ACK") /\ T.bvc[m.b].blocked
  \/ m.t = "UNBLOCK" /\ S.bvc[m.b].used /\ Changed(S, T, m.b, "UNBLOCK_ACK") /\ ~T.bvc[m.b].blocked

\* A RESET makes the context, unblocks it and is acknowledged.
LEMMA ResetHeard ==
  ASSUME NEW S \in GbState, NEW b \in Bss, NEW T, T = bssgp_rx_bvc_reset(S, b)
  PROVE  Changed(S, T, b, "RESET_ACK") /\ ~T.bvc[b].blocked /\ T.bad = S.bad
<1>1. PICK x : x = [S.bvc[b] EXCEPT !.used = TRUE, !.blocked = FALSE, !.ra = b]  OBVIOUS
<1>2. S.bvc \in [Bss -> Bvc]  BY DEF GbState
<1>3. x \in Bvc /\ x.used /\ ~x.blocked
  <2>1. PICK y : y = S.bvc[b]  OBVIOUS
  <2>2. y \in Bvc /\ x = [y EXCEPT !.used = TRUE, !.blocked = FALSE, !.ra = b] /\ b \in {0} \cup Bss  BY <1>1, <1>2, <2>1
  <2>3. x \in Bvc  BY <2>2 DEF Bvc
  <2>4. x.used /\ ~x.blocked  BY <2>2 DEF Bvc
  <2> QED  BY <2>3, <2>4
<1>4. PICK B : B = [S.bvc EXCEPT ![b] = x]  OBVIOUS
<1>5. B \in [Bss -> Bvc] /\ B[b] = x /\ \A c \in Bss \ {b} : B[c] = S.bvc[c]  BY <1>2, <1>3, <1>4
<1>6. PICK A : A = [S EXCEPT !.bvc = B]  OBVIOUS
<1>7. A \in GbState  BY <1>5, <1>6 DEF GbState
<1>8. A.bvc = B /\ A.peer = S.peer /\ A.up = S.up /\ A.down = S.down /\ A.strayed = S.strayed /\ A.bad = S.bad
  BY <1>6 DEF GbState
<1>9. T = bssgp_tx(A, "RESET_ACK", b)
  BY <1>1, <1>2, <1>4, <1>6 DEF bssgp_rx_bvc_reset, bssgp_tx_simple_bvci, GbState
<1>10. Msg("RESET_ACK", b) \in DownMsg  BY MsgFields DEF DownTypes
<1>11. SentBy(A, T, Msg("RESET_ACK", b))  BY <1>7, <1>9, <1>10, TxFields
<1> QED  BY <1>3, <1>5, <1>8, <1>11 DEF SentBy, Changed, SameRest

\* A BLOCK of a known BVC blocks the context and is acknowledged.
LEMMA BlockHeard ==
  ASSUME NEW S \in GbState, NEW b \in Bss, S.bvc[b].used, NEW T, T = bssgp_rx_bvc_block(S, b)
  PROVE  Changed(S, T, b, "BLOCK_ACK") /\ T.bvc[b].blocked /\ T.bad = S.bad
<1>1. PICK x : x = [S.bvc[b] EXCEPT !.blocked = TRUE]  OBVIOUS
<1>2. S.bvc \in [Bss -> Bvc]  BY DEF GbState
<1>3. x \in Bvc /\ x.used /\ x.blocked  BY <1>1, <1>2 DEF Bvc
<1>4. PICK B : B = [S.bvc EXCEPT ![b] = x]  OBVIOUS
<1>5. B \in [Bss -> Bvc] /\ B[b] = x /\ \A c \in Bss \ {b} : B[c] = S.bvc[c]  BY <1>2, <1>3, <1>4
<1>6. PICK A : A = [S EXCEPT !.bvc = B]  OBVIOUS
<1>7. A \in GbState  BY <1>5, <1>6 DEF GbState
<1>8. A.bvc = B /\ A.peer = S.peer /\ A.up = S.up /\ A.down = S.down /\ A.strayed = S.strayed /\ A.bad = S.bad
  BY <1>6 DEF GbState
<1>9. T = bssgp_tx(A, "BLOCK_ACK", b)
  BY <1>1, <1>2, <1>4, <1>6 DEF bssgp_rx_bvc_block, bssgp_tx_simple_bvci, GbState
<1>10. Msg("BLOCK_ACK", b) \in DownMsg  BY MsgFields DEF DownTypes
<1>11. SentBy(A, T, Msg("BLOCK_ACK", b))  BY <1>7, <1>9, <1>10, TxFields
<1> QED  BY <1>3, <1>5, <1>8, <1>11 DEF SentBy, Changed, SameRest

\* An UNBLOCK of a known BVC unblocks the context and is acknowledged.
LEMMA UnblockHeard ==
  ASSUME NEW S \in GbState, NEW b \in Bss, S.bvc[b].used, NEW T, T = bssgp_rx_bvc_unblock(S, b)
  PROVE  Changed(S, T, b, "UNBLOCK_ACK") /\ ~T.bvc[b].blocked /\ T.bad = S.bad
<1>1. PICK x : x = [S.bvc[b] EXCEPT !.blocked = FALSE]  OBVIOUS
<1>2. S.bvc \in [Bss -> Bvc]  BY DEF GbState
<1>3. x \in Bvc /\ x.used /\ ~x.blocked  BY <1>1, <1>2 DEF Bvc
<1>4. PICK B : B = [S.bvc EXCEPT ![b] = x]  OBVIOUS
<1>5. B \in [Bss -> Bvc] /\ B[b] = x /\ \A c \in Bss \ {b} : B[c] = S.bvc[c]  BY <1>2, <1>3, <1>4
<1>6. PICK A : A = [S EXCEPT !.bvc = B]  OBVIOUS
<1>7. A \in GbState  BY <1>5, <1>6 DEF GbState
<1>8. A.bvc = B /\ A.peer = S.peer /\ A.up = S.up /\ A.down = S.down /\ A.strayed = S.strayed /\ A.bad = S.bad
  BY <1>6 DEF GbState
<1>9. T = bssgp_tx(A, "UNBLOCK_ACK", b)
  BY <1>1, <1>2, <1>4, <1>6 DEF bssgp_rx_bvc_unblock, bssgp_tx_simple_bvci, GbState
<1>10. Msg("UNBLOCK_ACK", b) \in DownMsg  BY MsgFields DEF DownTypes
<1>11. SentBy(A, T, Msg("UNBLOCK_ACK", b))  BY <1>7, <1>9, <1>10, TxFields
<1> QED  BY <1>3, <1>5, <1>8, <1>11 DEF SentBy, Changed, SameRest

\* A FLOW-CONTROL-BVC sets the bucket of the context and is acknowledged.
LEMMA FcBvcHeard ==
  ASSUME NEW S \in GbState, NEW b \in Bss, NEW T, T = bssgp_rx_fc_bvc(S, b)
  PROVE  SameRest(S, T) /\ SameBvc(S, T) /\ T.down = Append(S.down, Msg("FC_ACK", b)) /\ T.bad = S.bad
<1>1. PICK x : x = [S.bvc[b] EXCEPT !.bmax = Bmax, !.rate = 1]  OBVIOUS
<1>2. S.bvc \in [Bss -> Bvc]  BY DEF GbState
<1>3. Bmax \in 0..Bmax  BY GbBounds
<1>4. x \in Bvc /\ x.used = S.bvc[b].used /\ x.blocked = S.bvc[b].blocked
  <2>1. PICK y : y = S.bvc[b]  OBVIOUS
  <2>2. y \in Bvc /\ x = [y EXCEPT !.bmax = Bmax, !.rate = 1]  BY <1>1, <1>2, <2>1
  <2>3. x \in Bvc
    <3>1. PICK max, rate : max = Bmax /\ rate = 1 /\ max \in 0..Bmax /\ rate \in 0..1  BY <1>3
    <3>2. x = [y EXCEPT !.bmax = max, !.rate = rate]  BY <2>2, <3>1
    <3> QED  BY <2>2, <3>1, <3>2 DEF Bvc
  <2>4. x.used = y.used /\ x.blocked = y.blocked  BY <2>2 DEF Bvc
  <2> QED  BY <2>1, <2>3, <2>4
<1>5. PICK B : B = [S.bvc EXCEPT ![b] = x]  OBVIOUS
<1>6. B \in [Bss -> Bvc] /\ B[b] = x /\ \A c \in Bss \ {b} : B[c] = S.bvc[c]  BY <1>2, <1>4, <1>5
<1>7. PICK A : A = [S EXCEPT !.bvc = B]  OBVIOUS
<1>8. A \in GbState  BY <1>6, <1>7 DEF GbState
<1>9. A.bvc = B /\ A.peer = S.peer /\ A.up = S.up /\ A.down = S.down /\ A.strayed = S.strayed /\ A.bad = S.bad
  BY <1>7 DEF GbState
<1>10. T = bssgp_tx(A, "FC_ACK", b)
  BY <1>1, <1>2, <1>5, <1>7 DEF bssgp_rx_fc_bvc, bssgp_tx_fc_bvc_ack, GbState
<1>11. Msg("FC_ACK", b) \in DownMsg  BY MsgFields DEF DownTypes
<1>12. SentBy(A, T, Msg("FC_ACK", b))  BY <1>8, <1>10, <1>11, TxFields
<1> QED  BY <1>4, <1>6, <1>9, <1>12 DEF SentBy, SameRest, SameBvc

\* An answer without effect on the contexts.
LEMMA PlainHeard ==
  ASSUME NEW S \in GbState, NEW b \in Bss, NEW t \in {"STATUS", "SUSPEND_ACK", "FC_ACK"}, NEW T, T = bssgp_tx(S, t, b)
  PROVE  SameRest(S, T) /\ SameBvc(S, T) /\ T.down = Append(S.down, Msg(t, b)) /\ T.bad = S.bad
<1>1. Msg(t, b) \in DownMsg  BY MsgFields DEF DownTypes
<1> QED  BY <1>1, TxFields DEF SentBy, SameRest, SameBvc

\* A state differs in nothing from itself.
LEMMA SelfHeard ==
  ASSUME NEW S \in GbState PROVE SameRest(S, S) /\ SameBvc(S, S)
  BY DEF SameRest, SameBvc

\* What gprs_bssgp_rcvmsg() does with any message of a BSS is one of the six outcomes of Heard.
LEMMA RcvHeard ==
  ASSUME NEW S \in GbState, NEW m \in UpMsg, NEW T, T = gprs_bssgp_rcvmsg(S, m)
  PROVE  Heard(S, T, m) /\ T.bad = S.bad
<1>1. m.t \in UpTypes /\ m.b \in Bss  BY UpMsgFields
<1>2. ASSUME T = bssgp_tx(S, "STATUS", m.b) PROVE Heard(S, T, m) /\ T.bad = S.bad
  BY <1>1, <1>2, PlainHeard DEF Heard
<1>3. ASSUME T = S PROVE Heard(S, T, m) /\ T.bad = S.bad
  BY <1>3, SelfHeard DEF Heard
<1>4. CASE m.t \in PtpTypes
  <2>1. CASE ~S.bvc[m.b].used \/ S.bvc[m.b].blocked
    <3>1. T = bssgp_tx(S, "STATUS", m.b)
      BY <1>4, <2>1 DEF gprs_bssgp_rcvmsg, gprs_bssgp_rx_ptp, bssgp_tx_status, PtpTypes
    <3> QED  BY <1>2, <3>1
  <2>2. CASE S.bvc[m.b].used /\ ~S.bvc[m.b].blocked
    <3>1. T = gprs_bssgp_rx_ptp(S, m)  BY <1>4, <2>2 DEF gprs_bssgp_rcvmsg
    <3>2. CASE m.t = "UL_UD"
      <4>1. T = S  BY <2>2, <3>1, <3>2 DEF gprs_bssgp_rx_ptp, bssgp_rx_ul_ud
      <4> QED  BY <1>3, <4>1
    <3>3. CASE m.t = "FC_MS"
      <4>1. T = bssgp_tx(S, "FC_ACK", m.b)  BY <2>2, <3>1, <3>3 DEF gprs_bssgp_rx_ptp, bssgp_rx_fc_ms, bssgp_tx_fc_ms_ack
      <4> QED  BY <1>1, <2>2, <4>1, PlainHeard DEF Heard
    <3>4. CASE m.t = "FC_BVC"
      <4>1. T = bssgp_rx_fc_bvc(S, m.b)  BY <2>2, <3>1, <3>4 DEF gprs_bssgp_rx_ptp
      <4> QED  BY <1>1, <2>2, <4>1, FcBvcHeard DEF Heard
    <3> QED  BY <1>4, <3>2, <3>3, <3>4 DEF PtpTypes
  <2> QED  BY <2>1, <2>2
<1>5. CASE m.t \notin PtpTypes
  <2>1. CASE ~gbEnv.sign /\ m.t # "RESET"
    <3>1. T = bssgp_tx(S, "STATUS", m.b)  BY <1>5, <2>1 DEF gprs_bssgp_rcvmsg, bssgp_tx_status
    <3> QED  BY <1>2, <3>1
  <2>2. CASE ~(~gbEnv.sign /\ m.t # "RESET")
    <3>1. T = gprs_bssgp_rx_sign(S, m)  BY <1>5, <2>2 DEF gprs_bssgp_rcvmsg
    <3>2. CASE m.t = "RESET"
      <4>1. T = bssgp_rx_bvc_reset(S, m.b)  BY <3>1, <3>2 DEF gprs_bssgp_rx_sign
      <4> QED  BY <1>1, <3>2, <4>1, ResetHeard DEF Heard
    <3>3. CASE m.t = "BLOCK"
      <4>1. T = bssgp_rx_bvc_block(S, m.b)  BY <3>1, <3>3 DEF gprs_bssgp_rx_sign
      <4>2. CASE S.bvc[m.b].used  BY <1>1, <3>3, <4>1, <4>2, BlockHeard DEF Heard
      <4>3. CASE ~S.bvc[m.b].used  BY <1>2, <4>1, <4>3 DEF bssgp_rx_bvc_block, bssgp_tx_status
      <4> QED  BY <4>2, <4>3
    <3>4. CASE m.t = "UNBLOCK"
      <4>1. T = bssgp_rx_bvc_unblock(S, m.b)  BY <3>1, <3>4 DEF gprs_bssgp_rx_sign
      <4>2. CASE S.bvc[m.b].used  BY <1>1, <3>4, <4>1, <4>2, UnblockHeard DEF Heard
      <4>3. CASE ~S.bvc[m.b].used  BY <1>2, <4>1, <4>3 DEF bssgp_rx_bvc_unblock, bssgp_tx_status
      <4> QED  BY <4>2, <4>3
    <3>5. CASE m.t \in {"SUSPEND", "RESUME"}
      <4>1. T = bssgp_tx(S, "SUSPEND_ACK", m.b)
        BY <3>1, <3>5 DEF gprs_bssgp_rx_sign, bssgp_rx_suspend, bssgp_rx_resume, bssgp_tx_suspend_ack, bssgp_tx_resume_ack
      <4> QED  BY <1>1, <4>1, PlainHeard DEF Heard
    <3>6. CASE m.t = "LLC_DISC"
      <4>1. T = S  BY <3>1, <3>6 DEF gprs_bssgp_rx_sign, bssgp_rx_llc_disc
      <4> QED  BY <1>3, <4>1
    <3> QED  BY <1>1, <1>5, <3>2, <3>3, <3>4, <3>5, <3>6 DEF UpTypes, PtpTypes
  <2> QED  BY <2>1, <2>2
<1> QED  BY <1>4, <1>5

\* The context of a BVC changes together with what the SGSN tells the proxy.
LEMMA ChangedFine ==
  ASSUME NEW S, GbFine(S), NEW b \in Bss, NEW t \in {"RESET_ACK", "BLOCK_ACK", "UNBLOCK_ACK"}, NEW T,
         Changed(S, T, b, t), S.peer[b].used,
         t = "RESET_ACK" => ~T.bvc[b].blocked /\ (~GbHas("reset_blocked") => ~S.bvc[b].blocked),
         t # "RESET_ACK" => (T.bvc[b].blocked <=> t = "BLOCK_ACK"),
         t = "BLOCK_ACK" /\ ~GbHas("reset_blocked") => NotAhead(S.up, b)
  PROVE  GbFine(T)
<1>1. S \in GbState /\ SameRest(S, T)  BY DEF GbFine, Changed
<1>2. S.down \in Seq(DownMsg) /\ S.up \in Seq(UpMsg)  BY <1>1 DEF GbState
<1>3. PICK m : m = Msg(t, b)  OBVIOUS
<1>4. m \in DownMsg /\ m.t = t /\ m.b = b  BY <1>3, MsgFields DEF DownTypes
<1>5. T.down = Append(S.down, m)  BY <1>3 DEF Changed
<1>6. /\ DOMAIN T.down = 1..(Len(S.down) + 1) /\ DOMAIN S.down = 1..Len(S.down) /\ Len(S.down) \in Nat
      /\ T.down[Len(S.down) + 1] = m /\ \A i \in 1..Len(S.down) : T.down[i] = S.down[i]
  BY <1>2, <1>4, <1>5, AppendAt
<1>7. \A i \in DOMAIN T.down : (i \in DOMAIN S.down /\ T.down[i] = S.down[i]) \/ T.down[i] = m  BY <1>6
<1>8. \A c \in Bss : T.bvc[c].used => S.bvc[c].used \/ c = b  BY DEF Changed
<1>9. \A c \in Bss : T.bvc[c].blocked => T.bvc[c].used  BY DEF Changed, GbFine, Known
<1>10. Known(T)  BY <1>1, <1>4, <1>7, <1>8, <1>9 DEF GbFine, Known, SameRest
<1>11. ~GbHas("early_data") => Placed(T)  BY <1>1, <1>4, <1>7 DEF GbFine, Placed, SameRest
<1>12. ASSUME ~GbHas("reset_blocked"), NEW i \in DOMAIN T.up, T.up[i].t = "RESET" PROVE ~T.bvc[T.up[i].b].blocked
  <2>1. i \in DOMAIN S.up /\ S.up[i] = T.up[i]  BY <1>1 DEF SameRest
  <2>2. ~S.bvc[S.up[i].b].blocked  BY <1>12, <2>1 DEF GbFine, ResetsFree
  <2>3. S.up[i].b \in Bss  BY <1>2, <2>1, UpMsgFields
  <2>4. CASE S.up[i].b # b  BY <2>1, <2>2, <2>3, <2>4 DEF Changed
  <2>5. CASE S.up[i].b = b
    <3>1. t # "BLOCK_ACK"  BY <1>12, <2>1, <2>5 DEF NotAhead
    <3> QED  BY <2>1, <2>5, <3>1
  <2> QED  BY <2>4, <2>5
<1>13. ~GbHas("reset_blocked") => ResetsFree(T)
  BY <1>1, <1>12 DEF GbFine, ResetsFree, SameRest
<1>14. ASSUME ~GbHas("reset_blocked") /\ ~GbHas("loss"), NEW c \in Bss
       PROVE  Told(T.down, c, T.peer[c], T.bvc[c])
  <2>1. Told(S.down, c, S.peer[c], S.bvc[c])  BY <1>14 DEF GbFine, TellsAll
  <2>2. CASE Ack(m, c)
    <3>1. m.t = "BLOCK_ACK" <=> T.bvc[c].blocked  BY <1>4, <2>2 DEF Ack
    <3> QED  BY <1>2, <1>4, <1>5, <2>2, <3>1, ToldAppendAck
  <2>3. CASE ~Ack(m, c)
    <3>1. Told(T.down, c, S.peer[c], S.bvc[c])  BY <1>2, <1>4, <1>5, <2>1, <2>3, ToldAppendOther
    <3>2. T.bvc[c].blocked <=> S.bvc[c].blocked
      <4>1. CASE c = b  BY <1>4, <1>14, <2>3, <4>1 DEF Ack
      <4>2. CASE c # b  BY <4>2 DEF Changed
      <4> QED  BY <4>1, <4>2
    <3> QED  BY <1>1, <3>1, <3>2 DEF Told, SameRest
  <2> QED  BY <2>2, <2>3
<1> QED  BY <1>1, <1>10, <1>11, <1>13, <1>14 DEF GbFine, SameRest, TellsAll

\* Each outcome keeps the invariant when the message was the next one under way.
LEMMA HeardFine ==
  ASSUME NEW S, GbFine(S), NEW m \in UpMsg, NEW T, Heard(S, T, m), S.peer[m.b].used,
         ~GbHas("reset_blocked") => /\ m.t = "RESET" => ~S.bvc[m.b].blocked
                                    /\ m.t = "BLOCK" => NotAhead(S.up, m.b)
  PROVE  GbFine(T)
<1>1. m.b \in Bss  BY UpMsgFields
<1>2. ASSUME NEW t \in {"STATUS", "SUSPEND_ACK", "FC_ACK"}, SameRest(S, T), SameBvc(S, T), T.down = Append(S.down, Msg(t, m.b))
      PROVE  GbFine(T)
  <2>1. PICK n : n = Msg(t, m.b)  OBVIOUS
  <2>2. n \in DownMsg /\ n.t = t /\ n.b = m.b  BY <1>1, <2>1, MsgFields DEF DownTypes
  <2>3. n.t \notin {"BLOCK_ACK", "UNBLOCK_ACK"} /\ S.peer[n.b].used /\ T.down = Append(S.down, n)  BY <1>2, <2>1, <2>2
  <2> QED  BY <1>2, <2>2, <2>3, AppendFine
<1>3. CASE SameRest(S, T) /\ SameBvc(S, T) /\ T.down = S.down  BY <1>3, QuietFine
<1>4. CASE m.t = "RESET" /\ Changed(S, T, m.b, "RESET_ACK") /\ ~T.bvc[m.b].blocked
  BY <1>1, <1>4, ChangedFine
<1>5. CASE m.t = "BLOCK" /\ S.bvc[m.b].used /\ Changed(S, T, m.b, "BLOCK_ACK") /\ T.bvc[m.b].blocked
  BY <1>1, <1>5, ChangedFine
<1>6. CASE m.t = "UNBLOCK" /\ S.bvc[m.b].used /\ Changed(S, T, m.b, "UNBLOCK_ACK") /\ ~T.bvc[m.b].blocked
  BY <1>1, <1>6, ChangedFine
<1> QED  BY <1>2, <1>3, <1>4, <1>5, <1>6 DEF Heard

\* The first message of the BSS side is taken.
TakenUp(S, T) ==
  /\ T \in GbState /\ T.up = Tail(S.up)
  /\ T.bvc = S.bvc /\ T.peer = S.peer /\ T.fc = S.fc /\ T.down = S.down /\ T.strayed = S.strayed /\ T.bad = S.bad
\* A state with the first message of a BSS taken keeps its type and all else.
LEMMA TakeUpFields ==
  ASSUME NEW S \in GbState, S.up # <<>>, NEW T, T = [S EXCEPT !.up = Tail(@)] PROVE TakenUp(S, T)
<1>1. S.up \in Seq(UpMsg)  BY DEF GbState
<1>2. PICK q : q = Tail(S.up)  OBVIOUS
<1>3. q \in Seq(UpMsg)  BY <1>1, <1>2, TailAt
<1>4. T = [S EXCEPT !.up = q]  BY <1>2
<1> QED  BY <1>2, <1>3, <1>4 DEF GbState, TakenUp

\* Taking the first message of a BSS keeps the invariant; a RESET then finds its BVC unblocked,
\* and behind a BLOCK no RESET of the same BVC is under way.
LEMMA TakeUpFine ==
  ASSUME NEW S, GbFine(S), S.up # <<>>, NEW T, TakenUp(S, T), NEW m, m = Head(S.up)
  PROVE  /\ GbFine(T) /\ m \in UpMsg /\ T.peer[m.b].used
         /\ ~GbHas("reset_blocked") => /\ m.t = "RESET" => ~T.bvc[m.b].blocked
                                       /\ m.t = "BLOCK" => NotAhead(T.up, m.b)
<1>1. S \in GbState  BY DEF GbFine
<1>2. S.up \in Seq(UpMsg)  BY <1>1 DEF GbState
<1>3. /\ DOMAIN T.up = 1..(Len(S.up) - 1) /\ DOMAIN S.up = 1..Len(S.up) /\ Len(S.up) \in Nat /\ Len(S.up) > 0
      /\ m = S.up[1] /\ m \in UpMsg /\ \A i \in 1..(Len(S.up) - 1) : T.up[i] = S.up[i + 1]
  <2>1. T.up = Tail(S.up)  BY DEF TakenUp
  <2> QED  BY <1>2, <2>1, TailAt
<1>4. 1 \in DOMAIN S.up /\ \A i \in DOMAIN T.up : i + 1 \in DOMAIN S.up /\ T.up[i] = S.up[i + 1]  BY <1>3
<1>5. Known(T)  BY <1>4 DEF GbFine, Known, TakenUp
<1>6. ~GbHas("early_data") => Placed(T)  BY DEF GbFine, Placed, TakenUp
<1>7. ASSUME ~GbHas("reset_blocked") PROVE ResetsFree(T)
  <2>1. ASSUME NEW i \in DOMAIN T.up, T.up[i].t = "RESET", NEW j \in DOMAIN T.up, j < i
        PROVE  ~(T.up[j].t = "BLOCK" /\ T.up[j].b = T.up[i].b)
    <3>1. i + 1 \in DOMAIN S.up /\ j + 1 \in DOMAIN S.up /\ T.up[i] = S.up[i + 1] /\ T.up[j] = S.up[j + 1]
      BY <1>4
    <3>2. i \in Nat /\ j \in Nat /\ j < i  BY <1>3, <2>1
    <3>3. j + 1 < i + 1  BY <3>2
    <3> QED  BY <1>7, <2>1, <3>1, <3>3 DEF GbFine, ResetsFree
  <2>2. ASSUME NEW i \in DOMAIN T.up, T.up[i].t = "RESET" PROVE ~T.bvc[T.up[i].b].blocked
    BY <1>4, <1>7, <2>2 DEF GbFine, ResetsFree, TakenUp
  <2> QED  BY <2>1, <2>2 DEF ResetsFree
<1>8. ~GbHas("reset_blocked") /\ ~GbHas("loss") => TellsAll(T)  BY DEF GbFine, TellsAll, TakenUp
<1>9. GbFine(T)  BY <1>5, <1>6, <1>7, <1>8 DEF GbFine, TakenUp
<1>10. T.peer[m.b].used  BY <1>3, <1>4 DEF GbFine, Known, TakenUp
<1>11. ASSUME ~GbHas("reset_blocked"), m.t = "RESET" PROVE ~T.bvc[m.b].blocked
  BY <1>3, <1>4, <1>11 DEF GbFine, ResetsFree, TakenUp
<1>12. ASSUME ~GbHas("reset_blocked"), m.t = "BLOCK", NEW j \in DOMAIN T.up, T.up[j].t = "RESET" PROVE T.up[j].b # m.b
  <2>1. j + 1 \in DOMAIN S.up /\ T.up[j] = S.up[j + 1] /\ 1 < j + 1  BY <1>3, <1>4
  <2> QED  BY <1>3, <1>4, <1>12, <2>1 DEF GbFine, ResetsFree
<1> QED  BY <1>3, <1>9, <1>10, <1>11, <1>12 DEF NotAhead

\* The SGSN takes a message.
LEMMA SgsnReceivesStep ==
  ASSUME GbInv, SgsnReceives PROVE GbFine(gb') /\ gbEnv' = gbEnv
<1>1. GbFine(gb) /\ gb \in GbState  BY DEF GbInv, GbFine
<1>2. PICK m : m = Head(gb.up)  OBVIOUS
<1>3. PICK T : T = gprs_bssgp_rcvmsg(gb, m)  OBVIOUS
<1>4. gb.up # <<>> /\ gbEnv' = gbEnv /\ gb' = [T EXCEPT !.up = Tail(@)]
  BY <1>2, <1>3 DEF SgsnReceives, GbBecomes
<1>5. PICK U : U = [gb EXCEPT !.up = Tail(@)]  OBVIOUS
<1>6. TakenUp(gb, U)  BY <1>1, <1>4, <1>5, TakeUpFields
<1>7. /\ GbFine(U) /\ m \in UpMsg /\ U.peer[m.b].used
      /\ ~GbHas("reset_blocked") => /\ m.t = "RESET" => ~U.bvc[m.b].blocked
                                    /\ m.t = "BLOCK" => NotAhead(U.up, m.b)
  BY <1>1, <1>2, <1>4, <1>6, TakeUpFine
<1>8. Heard(gb, T, m)  BY <1>1, <1>3, <1>7, RcvHeard
<1>9. T \in GbState /\ T.up = gb.up  BY <1>8 DEF Heard, SameRest, Changed
<1>10. TakenUp(T, gb')  BY <1>4, <1>9, TakeUpFields
<1>11. gb'.up = U.up  BY <1>6, <1>9, <1>10 DEF TakenUp
<1>12. SameRest(gb, T) => SameRest(U, gb')  BY <1>6, <1>10, <1>11 DEF SameRest, TakenUp
<1>13. SameBvc(gb, T) => SameBvc(U, gb')  BY <1>6, <1>10 DEF SameBvc, TakenUp
<1>14. \A t : Changed(gb, T, m.b, t) => Changed(U, gb', m.b, t)  BY <1>6, <1>10, <1>12 DEF Changed, TakenUp
<1>15. Heard(U, gb', m)  BY <1>6, <1>8, <1>10, <1>12, <1>13, <1>14 DEF Heard, TakenUp
<1> QED  BY <1>4, <1>7, <1>15, HeardFine

-----------------------------------------------------------------------------
(* The proxy *)

\* Another message of a BSS is queued.
RelayedBy(S, T, m) ==
  /\ T \in GbState /\ T.up = Append(S.up, m)
  /\ T.bvc = S.bvc /\ T.peer = S.peer /\ T.fc = S.fc /\ T.down = S.down /\ T.strayed = S.strayed /\ T.bad = S.bad
\* gbprox_relay2sgsn() adds to the queue for the SGSN and leaves all else alone.
LEMMA RelayFields ==
  ASSUME NEW S \in GbState, NEW m \in UpMsg, NEW T, T = gbprox_relay2sgsn(S, m) PROVE RelayedBy(S, T, m)
<1>1. S.up \in Seq(UpMsg)  BY DEF GbState
<1>2. PICK q : q = Append(S.up, m)  OBVIOUS
<1>3. q \in Seq(UpMsg)  BY <1>1, <1>2, AppendAt
<1>4. T = [S EXCEPT !.up = q]  BY <1>2 DEF gbprox_relay2sgsn
<1> QED  BY <1>2, <1>3, <1>4 DEF GbState, RelayedBy

\* A message of a BSS the proxy knows is queued; a RESET only for a BVC that is and will be
\* unblocked.
LEMMA RelayFine ==
  ASSUME NEW S, GbFine(S), NEW m \in UpMsg, NEW T, T = gbprox_relay2sgsn(S, m), S.peer[m.b].used,
         m.t = "RESET" /\ ~GbHas("reset_blocked") =>
            /\ ~S.bvc[m.b].blocked
            /\ \A j \in DOMAIN S.up : ~(S.up[j].t = "BLOCK" /\ S.up[j].b = m.b)
  PROVE  GbFine(T)
<1>1. S \in GbState  BY DEF GbFine
<1>2. S.up \in Seq(UpMsg)  BY <1>1 DEF GbState
<1>3. RelayedBy(S, T, m)  BY <1>1, RelayFields
<1>4. T.up = Append(S.up, m)  BY <1>3 DEF RelayedBy
<1>5. /\ DOMAIN T.up = 1..(Len(S.up) + 1) /\ DOMAIN S.up = 1..Len(S.up) /\ Len(S.up) \in Nat
      /\ T.up[Len(S.up) + 1] = m /\ \A i \in 1..Len(S.up) : T.up[i] = S.up[i]
  BY <1>2, <1>4, AppendAt
<1>6. \A i \in DOMAIN T.up : (i \in DOMAIN S.up /\ T.up[i] = S.up[i]) \/ (i = Len(S.up) + 1 /\ T.up[i] = m)
  <2> SUFFICES ASSUME NEW i \in DOMAIN T.up, i # Len(S.up) + 1 PROVE i \in DOMAIN S.up /\ T.up[i] = S.up[i]
    BY <1>5
  <2>1. i \in 1..Len(S.up)  BY <1>5
  <2> QED  BY <1>5, <2>1
<1>7. Known(T)  BY <1>3, <1>6 DEF GbFine, Known, RelayedBy
<1>8. ~GbHas("early_data") => Placed(T)  BY <1>3 DEF GbFine, Placed, RelayedBy
<1>9. ASSUME ~GbHas("reset_blocked") PROVE ResetsFree(T)
  <2>1. ASSUME NEW i \in DOMAIN T.up, T.up[i].t = "RESET" PROVE ~T.bvc[T.up[i].b].blocked
    BY <1>3, <1>6, <1>9, <2>1 DEF GbFine, ResetsFree, RelayedBy
  <2>2. ASSUME NEW i \in DOMAIN T.up, T.up[i].t = "RESET", NEW j \in DOMAIN T.up, j < i
        PROVE  ~(T.up[j].t = "BLOCK" /\ T.up[j].b = T.up[i].b)
    <3>1. j \in 1..Len(S.up)  BY <1>5, <2>2
    <3>2. j \in DOMAIN S.up /\ T.up[j] = S.up[j]  BY <1>5, <3>1
    <3>3. CASE i \in DOMAIN S.up /\ T.up[i] = S.up[i]  BY <1>9, <2>2, <3>2, <3>3 DEF GbFine, ResetsFree
    <3>4. CASE T.up[i] = m  BY <1>9, <2>2, <3>2, <3>4
    <3> QED  BY <1>6, <3>3, <3>4
  <2> QED  BY <2>1, <2>2 DEF ResetsFree
<1>10. ~GbHas("reset_blocked") /\ ~GbHas("loss") => TellsAll(T)  BY <1>3 DEF GbFine, TellsAll, RelayedBy
<1> QED  BY <1>3, <1>7, <1>8, <1>9, <1>10 DEF GbFine, RelayedBy

\* One peer changes, and not whether it is blocked.
PeerOnly(S, T, p) ==
  /\ T \in GbState /\ T.bvc = S.bvc /\ T.fc = S.fc /\ T.up = S.up /\ T.down = S.down /\ T.strayed = S.strayed /\ T.bad = S.bad
  /\ \A c \in Bss \ {p} : T.peer[c] = S.peer[c]
\* One peer is made or moved to its own place: the invariant is kept.
LEMMA PeerFine ==
  ASSUME NEW S, GbFine(S), NEW p \in Bss, NEW T, PeerOnly(S, T, p), T.peer[p].used,
         T.peer[p].blocked <=> S.peer[p].blocked,
         ~GbHas("early_data") => T.peer[p].nsvc = p /\ T.peer[p].ra \in {0, p}
  PROVE  GbFine(T)
<1>1. \A c \in Bss : S.peer[c].used => T.peer[c].used  BY DEF PeerOnly
<1>2. \A c \in Bss : T.peer[c].blocked <=> S.peer[c].blocked  BY DEF PeerOnly
<1>3. S \in GbState  BY DEF GbFine
<1>4. S.up \in Seq(UpMsg) /\ S.down \in Seq(DownMsg)  BY <1>3 DEF GbState
<1>5. \A i \in DOMAIN S.up : S.up[i].b \in Bss  BY <1>4, UpMsgFields
<1>6. \A i \in DOMAIN S.down : S.down[i].t # "RESET" => S.down[i].b \in Bss
  <2>1. \A i \in DOMAIN S.down : S.down[i] \in DownMsg  BY <1>4
  <2> QED  BY <2>1, DownMsgFields
<1>7. Known(T)
  <2>1. \A c \in Bss : T.bvc[c].used => T.peer[c].used  BY <1>1 DEF GbFine, Known, PeerOnly
  <2>2. \A c \in Bss : T.bvc[c].blocked => T.bvc[c].used  BY DEF GbFine, Known, PeerOnly
  <2>3. \A c \in Bss : T.peer[c].blocked => T.peer[c].used  BY <1>1, <1>2 DEF GbFine, Known
  <2>4. \A i \in DOMAIN T.up : T.peer[T.up[i].b].used  BY <1>1, <1>5 DEF GbFine, Known, PeerOnly
  <2>5. \A i \in DOMAIN T.down : T.down[i].t \in {"BLOCK_ACK", "UNBLOCK_ACK"} => T.peer[T.down[i].b].used
    BY <1>1, <1>6 DEF GbFine, Known, PeerOnly
  <2> QED  BY <2>1, <2>2, <2>3, <2>4, <2>5 DEF Known
<1>8. ASSUME ~GbHas("early_data") PROVE Placed(T)
  <2>1. \A c \in Bss : T.peer[c].used => T.peer[c].nsvc = c /\ T.peer[c].ra \in {0, c}
    BY <1>8 DEF GbFine, Placed, PeerOnly
  <2>2. \A i \in DOMAIN T.down : T.down[i].t \in {"DL_UD", "FC_ACK"} => T.peer[T.down[i].b].used
    BY <1>1, <1>6, <1>8 DEF GbFine, Placed, PeerOnly
  <2> QED  BY <1>8, <2>1, <2>2 DEF Placed, PeerOnly, GbFine
<1>9. ~GbHas("reset_blocked") => ResetsFree(T)  BY DEF GbFine, ResetsFree, PeerOnly
<1>10. ~GbHas("reset_blocked") /\ ~GbHas("loss") => TellsAll(T)
  BY <1>2 DEF GbFine, TellsAll, Told, PeerOnly
<1> QED  BY <1>7, <1>8, <1>9, <1>10 DEF GbFine, PeerOnly

\* A peer is set to a new value, or a new routeing area.
WithPeer(S, p, x) == [S EXCEPT !.peer[p] = x]
Routed(S, p, r) == [S EXCEPT !.peer[p].ra = r]
\* Setting one peer changes no other and nothing else.
LEMMA SetPeer ==
  ASSUME NEW S \in GbState, NEW p \in Bss, NEW x \in Peer, NEW T, T = WithPeer(S, p, x)
  PROVE  PeerOnly(S, T, p) /\ T.peer[p] = x
<1>1. S.peer \in [Bss -> Peer]  BY DEF GbState
<1>2. PICK P : P = [S.peer EXCEPT ![p] = x]  OBVIOUS
<1>3. P \in [Bss -> Peer] /\ P[p] = x /\ \A c \in Bss \ {p} : P[c] = S.peer[c]  BY <1>1, <1>2
<1>4. T = [S EXCEPT !.peer = P]  BY <1>2 DEF GbState, WithPeer
<1> QED  BY <1>3, <1>4 DEF PeerOnly, GbState

\* peer_alloc() makes an unblocked peer at the given NS-VC.
LEMMA AllocPeer ==
  ASSUME NEW S \in GbState, NEW b \in Bss, NEW n \in {0} \cup Bss, NEW T, T = peer_alloc(S, b, n)
  PROVE  PeerOnly(S, T, b) /\ T.peer[b].used /\ ~T.peer[b].blocked /\ T.peer[b].nsvc = n /\ T.peer[b].ra = 0
<1>1. PICK x : x = [used |-> TRUE, blocked |-> FALSE, nsvc |-> n, ra |-> 0]  OBVIOUS
<1>2. x \in Peer /\ x.used /\ ~x.blocked /\ x.nsvc = n /\ x.ra = 0  BY <1>1 DEF Peer
<1>3. T = WithPeer(S, b, x)  BY <1>1 DEF peer_alloc, WithPeer
<1> QED  BY <1>2, <1>3, SetPeer

\* T is S with BSS b made a new peer, reached through its own NS-VC.
OwnPeer(S, T, b) ==
  PeerOnly(S, T, b) /\ T.peer[b].used /\ ~T.peer[b].blocked /\ T.peer[b].nsvc = b /\ T.peer[b].ra = 0

\* The peer a BVC-RESET makes is reached through the NS-VC the reset came by.
LEMMA AllocOwnPeer ==
  ASSUME NEW S \in GbState, NEW b \in Bss
  PROVE  OwnPeer(S, peer_alloc(S, b, b), b)
<1>1. PICK x : x = [used |-> TRUE, blocked |-> FALSE, nsvc |-> b, ra |-> 0]  OBVIOUS
<1>2. x \in Peer /\ x.used /\ ~x.blocked /\ x.nsvc = b /\ x.ra = 0  BY <1>1 DEF Peer
<1>3. PICK T : T = peer_alloc(S, b, b)  OBVIOUS
<1>4. T = WithPeer(S, b, x)  BY <1>1, <1>3 DEF peer_alloc, WithPeer
<1>5. PeerOnly(S, T, b) /\ T.peer[b] = x  BY <1>2, <1>4, SetPeer
<1>6. OwnPeer(S, T, b)  BY <1>2, <1>5 DEF OwnPeer
<1> QED  BY <1>3, <1>6

\* A routeing area noted for a peer changes nothing else of it.
LEMMA RoutePeer ==
  ASSUME NEW S \in GbState, NEW p \in Bss, NEW r \in Bss, NEW T, T = Routed(S, p, r)
  PROVE  /\ PeerOnly(S, T, p) /\ T.peer[p].used = S.peer[p].used /\ T.peer[p].blocked = S.peer[p].blocked
         /\ T.peer[p].nsvc = S.peer[p].nsvc /\ T.peer[p].ra = r
<1>1. S.peer \in [Bss -> Peer]  BY DEF GbState
<1>2. PICK y : y = S.peer[p]  OBVIOUS
<1>3. PICK x : x = [y EXCEPT !.ra = r]  OBVIOUS
<1>4. y \in Peer  BY <1>1, <1>2
<1>5. x \in Peer  BY <1>3, <1>4 DEF Peer
<1>6. x.used = y.used /\ x.blocked = y.blocked /\ x.nsvc = y.nsvc /\ x.ra = r  BY <1>3, <1>4 DEF Peer
<1>7. T = WithPeer(S, p, x)  BY <1>1, <1>2, <1>3 DEF GbState, WithPeer, Routed
<1> QED  BY <1>2, <1>5, <1>6, <1>7, SetPeer

\* A BSS sends: the proxy may make its peer or note its routeing area, and relays.
LEMMA BssSendsStep ==
  ASSUME GbInv, NEW b \in Bss,
         NEW t \in {"RESET", "BLOCK", "UNBLOCK", "SUSPEND", "RESUME", "UL_UD", "FC_BVC", "FC_MS", "LLC_DISC"},
         BssSends(b, t)
  PROVE  GbFine(gb') /\ gbEnv' = gbEnv
<1>1. GbFine(gb) /\ gb \in GbState  BY DEF GbInv, GbFine
<1>2. PICK m : m = Msg(t, b)  OBVIOUS
<1>3. m \in UpMsg /\ m.t = t /\ m.b = b  BY <1>2, MsgFields DEF UpTypes
<1>4. /\ t # "RESET" => gb.peer[b].used
      /\ gbEnv' = gbEnv
      /\ gb' = IF t \in PtpTypes THEN gbprox_relay2sgsn(gb, m) ELSE gbprox_rx_sig_from_bss(gb, m)
  BY <1>2 DEF BssSends, GbBecomes, Msg
<1>5. t = "RESET" /\ ~GbHas("reset_blocked") => ~gb.bvc[b].blocked /\ Msg("BLOCK", b) \notin Range(gb.up)
  BY DEF BssSends, Msg
<1>6. ASSUME t = "RESET", ~GbHas("reset_blocked"), NEW j \in DOMAIN gb.up PROVE ~(gb.up[j].t = "BLOCK" /\ gb.up[j].b = b)
  <2>1. gb.up[j] \in UpMsg /\ gb.up[j] \in Range(gb.up)  BY <1>1 DEF GbState, Range
  <2>2. gb.up[j].t = "BLOCK" /\ gb.up[j].b = b => gb.up[j] = Msg("BLOCK", b)  BY <2>1 DEF UpMsg, Msg
  <2> QED  BY <1>5, <1>6, <2>1, <2>2
<1>7. CASE t \in PtpTypes \cup {"BLOCK", "UNBLOCK", "LLC_DISC"}
  <2>1. gb' = gbprox_relay2sgsn(gb, m)
    BY <1>3, <1>4, <1>7 DEF gbprox_rx_sig_from_bss, PtpTypes
  <2>2. t # "RESET"  BY <1>7 DEF PtpTypes
  <2> QED  BY <1>1, <1>3, <1>4, <2>1, <2>2, RelayFine
<1>8. CASE t \in {"SUSPEND", "RESUME"}
  <2>1. gb' = IF peer_by_nsvc(gb, b) = {} THEN gb
              ELSE gbprox_relay2sgsn([gb EXCEPT !.peer[CHOOSE p \in peer_by_nsvc(gb, b) : TRUE].ra = b], m)
    BY <1>3, <1>4, <1>8 DEF gbprox_rx_sig_from_bss, PtpTypes
  <2>2. CASE peer_by_nsvc(gb, b) = {}  BY <1>1, <1>4, <2>1, <2>2
  <2>3. CASE peer_by_nsvc(gb, b) # {}
    <3>1. PICK p : p = CHOOSE x \in peer_by_nsvc(gb, b) : TRUE  OBVIOUS
    <3>2. p \in Bss /\ gb.peer[p].used /\ gb.peer[p].nsvc = b
      <4>1. p \in peer_by_nsvc(gb, b)  BY <2>3, <3>1
      <4> QED  BY <4>1 DEF peer_by_nsvc
    <3>3. PICK T : T = Routed(gb, p, b)  OBVIOUS
    <3>4. /\ PeerOnly(gb, T, p) /\ T.peer[p].used = gb.peer[p].used /\ T.peer[p].blocked = gb.peer[p].blocked
          /\ T.peer[p].nsvc = gb.peer[p].nsvc /\ T.peer[p].ra = b
      <4>1. gb \in GbState /\ p \in Bss  BY <1>1, <3>2
      <4> QED  BY <3>3, <4>1, RoutePeer
    <3>5. ~GbHas("early_data") => p = b  BY <1>1, <3>2 DEF GbFine, Placed
    <3>6. GbFine(T)  BY <1>1, <3>2, <3>4, <3>5, PeerFine
    <3>7. T.peer[b].used  BY <1>4, <1>8, <3>2, <3>4 DEF PeerOnly
    <3>8. gb' = gbprox_relay2sgsn(T, m)  BY <2>1, <2>3, <3>1, <3>3 DEF Routed
    <3>9. m.t # "RESET"  BY <1>3, <1>8
    <3> QED  BY <1>3, <1>4, <3>6, <3>7, <3>8, <3>9, RelayFine
  <2> QED  BY <2>2, <2>3
<1>9. CASE t = "RESET"
  <2>1. PICK T : T = IF gb.peer[b].used THEN gb ELSE peer_alloc(gb, b, b)  OBVIOUS
  <2>2. /\ GbFine(T) /\ T.peer[b].used /\ T.bvc = gb.bvc /\ T.up = gb.up
        /\ ~GbHas("early_data") => T.peer[b].nsvc = b
    <3>1. CASE gb.peer[b].used  BY <1>1, <2>1, <3>1 DEF GbFine, Placed
    <3>2. CASE ~gb.peer[b].used
      <4>1. T = peer_alloc(gb, b, b)  BY <2>1, <3>2
      <4>2. PeerOnly(gb, T, b) /\ T.peer[b].used /\ ~T.peer[b].blocked /\ T.peer[b].nsvc = b /\ T.peer[b].ra = 0
        <5>1. OwnPeer(gb, peer_alloc(gb, b, b), b)  BY <1>1, AllocOwnPeer
        <5>2. OwnPeer(gb, T, b)  BY <4>1, <5>1
        <5> QED  BY <5>2 DEF OwnPeer
      <4>3. ~gb.peer[b].blocked  BY <1>1, <3>2 DEF GbFine, Known
      <4>4. GbFine(T)  BY <1>1, <4>2, <4>3, PeerFine
      <4> QED  BY <4>2, <4>4 DEF PeerOnly
    <3> QED  BY <3>1, <3>2
  <2>3. PICK U : U = Routed(T, b, b)  OBVIOUS
  <2>4. T \in GbState  BY <2>2 DEF GbFine
  <2>5. /\ PeerOnly(T, U, b) /\ U.peer[b].used = T.peer[b].used /\ U.peer[b].blocked = T.peer[b].blocked
        /\ U.peer[b].nsvc = T.peer[b].nsvc /\ U.peer[b].ra = b
    BY <2>3, <2>4, RoutePeer
  <2>6. GbFine(U)  BY <2>2, <2>5, PeerFine
  <2>7. gb' = gbprox_relay2sgsn(U, m)
    BY <1>3, <1>4, <1>9, <2>1, <2>3 DEF gbprox_rx_sig_from_bss, PtpTypes, Routed
  <2>8. U.bvc = gb.bvc /\ U.up = gb.up /\ U.peer[b].used  BY <2>2, <2>5 DEF PeerOnly
  <2> QED  BY <1>3, <1>4, <1>5, <1>6, <1>9, <2>6, <2>7, <2>8, RelayFine
<1> QED  BY <1>7, <1>8, <1>9 DEF PtpTypes

\* The proxy sends a message on: it may only stray.
LEMMA RelayPeerFields ==
  ASSUME NEW S \in GbState, NEW p, NEW b, NEW T, T = gbprox_relay2peer(S, p, b)
  PROVE  /\ T \in GbState /\ T.bvc = S.bvc /\ T.peer = S.peer /\ T.fc = S.fc /\ T.up = S.up /\ T.down = S.down /\ T.bad = S.bad
         /\ S.peer[p].nsvc = b => T.strayed = S.strayed
  BY DEF gbprox_relay2peer, GbState

\* What the proxy has made of a message of the SGSN.
Passed(S, T) ==
  /\ T \in GbState /\ T.bvc = S.bvc /\ T.fc = S.fc /\ T.up = S.up /\ T.down = S.down /\ T.bad = S.bad
  /\ ~GbHas("early_data") => T.strayed = S.strayed
\* The peers are as they were, or one was made for data, or one was blocked or unblocked.
Routes(S, T, m) ==
  /\ Passed(S, T)
  /\ \/ T.peer = S.peer /\ ~(\E b \in Bss : Ack(m, b))
     \/ /\ GbHas("early_data") /\ m.b \in Bss /\ ~S.peer[m.b].used /\ ~(\E b \in Bss : Ack(m, b))
        /\ T.peer[m.b].used /\ ~T.peer[m.b].blocked
        /\ \A c \in Bss \ {m.b} : T.peer[c] = S.peer[c]
     \/ /\ m.b \in Bss /\ Ack(m, m.b) /\ S.peer[m.b].used /\ (T.peer[m.b].blocked <=> m.t = "BLOCK_ACK")
        /\ T.peer[m.b].used = S.peer[m.b].used /\ T.peer[m.b].nsvc = S.peer[m.b].nsvc /\ T.peer[m.b].ra = S.peer[m.b].ra
        /\ \A c \in Bss \ {m.b} : T.peer[c] = S.peer[c]

\* What is relayed to the peer of a BVCI does not stray while the peers are in their places.
LEMMA BvciPassed ==
  ASSUME NEW S, GbFine(S), NEW b \in Bss, NEW A, PeerOnly(S, A, b), A.peer[b].nsvc = S.peer[b].nsvc,
         A.peer[b].used = S.peer[b].used, NEW T, T = gbprox_relay2bvci(A, b)
  PROVE  Passed(S, T) /\ T.peer = A.peer
<1>1. A \in GbState  BY DEF PeerOnly
<1>2. CASE A.peer[b].used
  <2>1. T = gbprox_relay2peer(A, b, b)  BY <1>2 DEF gbprox_relay2bvci
  <2>2. ~GbHas("early_data") => A.peer[b].nsvc = b  BY <1>2 DEF GbFine, Placed
  <2>3. /\ T \in GbState /\ T.bvc = A.bvc /\ T.peer = A.peer /\ T.fc = A.fc /\ T.up = A.up /\ T.down = A.down /\ T.bad = A.bad
        /\ A.peer[b].nsvc = b => T.strayed = A.strayed
    BY <1>1, <2>1, RelayPeerFields
  <2> QED  BY <2>2, <2>3 DEF Passed, PeerOnly
<1>3. CASE ~A.peer[b].used
  <2>1. T = A  BY <1>3 DEF gbprox_relay2bvci
  <2> QED  BY <2>1 DEF Passed, PeerOnly
<1> QED  BY <1>2, <1>3

\* A state that is not changed is passed on as it is.
LEMMA SamePeer ==
  ASSUME NEW S \in GbState, NEW b PROVE PeerOnly(S, S, b) /\ Passed(S, S)
  BY DEF PeerOnly, Passed

\* What is relayed by routeing area does not stray while the peers are in their places.
LEMMA PagingPassed ==
  ASSUME NEW S, GbFine(S), NEW r \in Bss, NEW T, T = gbprox_rx_paging(S, r)
  PROVE  Passed(S, T) /\ T.peer = S.peer
<1>1. S \in GbState  BY DEF GbFine
<1>2. CASE peer_by_rac(S, r) = {}
  <2>1. T = S  BY <1>2 DEF gbprox_rx_paging
  <2> QED  BY <1>1, <2>1, SamePeer
<1>3. CASE peer_by_rac(S, r) # {}
  <2>1. PICK p : p = CHOOSE x \in peer_by_rac(S, r) : TRUE  OBVIOUS
  <2>2. T = gbprox_relay2peer(S, p, r)  BY <1>3, <2>1 DEF gbprox_rx_paging
  <2>3. p \in peer_by_rac(S, r)  BY <1>3, <2>1
  <2>4. p \in Bss /\ S.peer[p].used /\ S.peer[p].ra = r  BY <2>3 DEF peer_by_rac
  <2>5. ~GbHas("early_data") => S.peer[p].nsvc = r
    BY <2>4, BssNotZero DEF GbFine, Placed
  <2>6. /\ T \in GbState /\ T.bvc = S.bvc /\ T.peer = S.peer /\ T.fc = S.fc /\ T.up = S.up /\ T.down = S.down /\ T.bad = S.bad
        /\ S.peer[p].nsvc = r => T.strayed = S.strayed
    BY <1>1, <2>2, RelayPeerFields
  <2> QED  BY <2>5, <2>6 DEF Passed
<1> QED  BY <1>2, <1>3

\* A peer is blocked, or unblocked.
Blocking(S, b) == [S EXCEPT !.peer[b].blocked = TRUE]
Unblocking(S, b) == [S EXCEPT !.peer[b].blocked = FALSE]
\* Peer b of T is that of S but for whether it is blocked.
OnlyBlocked(S, T, b) ==
  /\ PeerOnly(S, T, b) /\ T.peer[b].used = S.peer[b].used
  /\ T.peer[b].nsvc = S.peer[b].nsvc /\ T.peer[b].ra = S.peer[b].ra
\* Blocking a peer changes nothing else of it.
LEMMA BlockPeer ==
  ASSUME NEW S \in GbState, NEW b \in Bss, NEW T, T = Blocking(S, b)
  PROVE  OnlyBlocked(S, T, b) /\ T.peer[b].blocked
<1>1. S.peer \in [Bss -> Peer]  BY DEF GbState
<1>2. PICK y : y = S.peer[b]  OBVIOUS
<1>3. PICK x : x = [y EXCEPT !.blocked = TRUE]  OBVIOUS
<1>4. y \in Peer  BY <1>1, <1>2
<1>5. x \in Peer  BY <1>3, <1>4 DEF Peer
<1>6. x.used = y.used /\ x.blocked /\ x.nsvc = y.nsvc /\ x.ra = y.ra  BY <1>3, <1>4 DEF Peer
<1>7. T = WithPeer(S, b, x)  BY <1>1, <1>2, <1>3 DEF GbState, WithPeer, Blocking
<1> QED  BY <1>2, <1>5, <1>6, <1>7, SetPeer DEF OnlyBlocked

\* Unblocking a peer changes nothing else of it.
LEMMA UnblockPeer ==
  ASSUME NEW S \in GbState, NEW b \in Bss, NEW T, T = Unblocking(S, b)
  PROVE  OnlyBlocked(S, T, b) /\ ~T.peer[b].blocked
<1>1. S.peer \in [Bss -> Peer]  BY DEF GbState
<1>2. PICK y : y = S.peer[b]  OBVIOUS
<1>3. PICK x : x = [y EXCEPT !.blocked = FALSE]  OBVIOUS
<1>4. y \in Peer  BY <1>1, <1>2
<1>5. x \in Peer  BY <1>3, <1>4 DEF Peer
<1>6. x.used = y.used /\ ~x.blocked /\ x.nsvc = y.nsvc /\ x.ra = y.ra  BY <1>3, <1>4 DEF Peer
<1>7. T = WithPeer(S, b, x)  BY <1>1, <1>2, <1>3 DEF GbState, WithPeer, Unblocking
<1> QED  BY <1>2, <1>5, <1>6, <1>7, SetPeer DEF OnlyBlocked

\* BLOCK-ACK and UNBLOCK-ACK set the peer and are relayed to it.
LEMMA AckRoutes ==
  ASSUME NEW S, GbFine(S), NEW m \in DownMsg, m.t \in {"BLOCK_ACK", "UNBLOCK_ACK"}, S.peer[m.b].used,
         NEW T, T = gbprox_rcvmsg(S, m)
  PROVE  Routes(S, T, m)
<1>1. S \in GbState /\ m.b \in Bss  BY DownMsgFields DEF GbFine
<1>2. PICK A : /\ T = gbprox_relay2bvci(A, m.b) /\ OnlyBlocked(S, A, m.b)
               /\ (A.peer[m.b].blocked <=> m.t = "BLOCK_ACK")
  <2>1. CASE m.t = "BLOCK_ACK"
    <3>1. PICK A : A = Blocking(S, m.b)  OBVIOUS
    <3>2. OnlyBlocked(S, A, m.b) /\ A.peer[m.b].blocked  BY <1>1, <3>1, BlockPeer
    <3>3. T = gbprox_relay2bvci(A, m.b)
      BY <2>1, <3>1 DEF gbprox_rcvmsg, gbprox_rx_sig_from_sgsn, block_unblock_peer, Blocking
    <3> QED  BY <2>1, <3>2, <3>3
  <2>2. CASE m.t = "UNBLOCK_ACK"
    <3>1. PICK A : A = Unblocking(S, m.b)  OBVIOUS
    <3>2. OnlyBlocked(S, A, m.b) /\ ~A.peer[m.b].blocked  BY <1>1, <3>1, UnblockPeer
    <3>3. T = gbprox_relay2bvci(A, m.b)
      BY <2>2, <3>1 DEF gbprox_rcvmsg, gbprox_rx_sig_from_sgsn, block_unblock_peer, Unblocking
    <3> QED  BY <2>2, <3>2, <3>3
  <2> QED  BY <2>1, <2>2
<1>3. Passed(S, T) /\ T.peer = A.peer
  <2>1. PeerOnly(S, A, m.b) /\ A.peer[m.b].nsvc = S.peer[m.b].nsvc /\ A.peer[m.b].used = S.peer[m.b].used
    BY <1>2 DEF OnlyBlocked
  <2>2. T = gbprox_relay2bvci(A, m.b)  BY <1>2
  <2>3. PICK b \in Bss : b = m.b  BY <1>1
  <2>4. PeerOnly(S, A, b)  BY <2>1, <2>3
  <2>5. A.peer[b].nsvc = S.peer[b].nsvc  BY <2>1, <2>3
  <2>6. A.peer[b].used = S.peer[b].used  BY <2>1, <2>3
  <2>7. T = gbprox_relay2bvci(A, b)  BY <2>2, <2>3
  <2> QED  BY <2>4, <2>5, <2>6, <2>7, BvciPassed
<1> QED  BY <1>1, <1>2, <1>3 DEF Routes, PeerOnly, OnlyBlocked, Ack

\* Data and flow control acknowledgements are relayed to an unblocked peer, made at NS-VC 0 where
\* there is none.
LEMMA DataRoutes ==
  ASSUME NEW S, GbFine(S), NEW m \in DownMsg, m.t \in {"DL_UD", "FC_ACK"}, ~GbHas("early_data") => S.peer[m.b].used,
         NEW T, T = gbprox_rcvmsg(S, m)
  PROVE  Routes(S, T, m)
<1>1. S \in GbState /\ m.b \in Bss  BY DownMsgFields DEF GbFine
<1>2. ~(\E b \in Bss : Ack(m, b))  BY DEF Ack
<1>3. PICK A : A = IF S.peer[m.b].used THEN S ELSE peer_alloc(S, m.b, 0)  OBVIOUS
<1>4. T = IF A.peer[m.b].blocked THEN A ELSE gbprox_relay2peer(A, m.b, m.b)
  BY <1>3 DEF gbprox_rcvmsg
<1>5. /\ PeerOnly(S, A, m.b)
      /\ \/ A = S /\ S.peer[m.b].used
         \/ GbHas("early_data") /\ ~S.peer[m.b].used /\ A.peer[m.b].used /\ ~A.peer[m.b].blocked
  <2>1. CASE S.peer[m.b].used  BY <1>1, <1>3, <2>1, SamePeer
  <2>2. CASE ~S.peer[m.b].used
    <3>1. A = peer_alloc(S, m.b, 0) /\ 0 \in {0} \cup Bss  BY <1>3, <2>2
    <3>2. PeerOnly(S, A, m.b) /\ A.peer[m.b].used /\ ~A.peer[m.b].blocked  BY <1>1, <3>1, AllocPeer
    <3> QED  BY <2>2, <3>2
  <2> QED  BY <2>1, <2>2
<1>6. A \in GbState  BY <1>5 DEF PeerOnly
<1>7. Passed(S, T) /\ T.peer = A.peer
  <2>1. CASE A.peer[m.b].blocked
    <3>1. T = A  BY <1>4, <2>1
    <3> QED  BY <1>5, <3>1 DEF Passed, PeerOnly
  <2>2. CASE ~A.peer[m.b].blocked
    <3>1. T = gbprox_relay2peer(A, m.b, m.b)  BY <1>4, <2>2
    <3>2. /\ T \in GbState /\ T.bvc = A.bvc /\ T.peer = A.peer /\ T.fc = A.fc /\ T.up = A.up /\ T.down = A.down /\ T.bad = A.bad
          /\ A.peer[m.b].nsvc = m.b => T.strayed = A.strayed
      BY <1>6, <3>1, RelayPeerFields
    <3>3. ~GbHas("early_data") => A.peer[m.b].nsvc = m.b  BY <1>1, <1>5 DEF GbFine, Placed
    <3> QED  BY <1>5, <3>2, <3>3 DEF Passed, PeerOnly
  <2> QED  BY <2>1, <2>2
<1> QED  BY <1>1, <1>2, <1>5, <1>7 DEF Routes, PeerOnly

\* Every other message of the SGSN leaves the peers as they are.
LEMMA OtherRoutes ==
  ASSUME NEW S, GbFine(S), NEW m \in DownMsg, m.t \in {"RESET", "RESET_ACK", "PAGING", "STATUS", "SUSPEND_ACK"},
         NEW T, T = gbprox_rcvmsg(S, m)
  PROVE  Routes(S, T, m)
<1>1. S \in GbState /\ m.b \in {0} \cup Bss /\ (m.t # "RESET" => m.b \in Bss)  BY DownMsgFields DEF GbFine
<1>2. ~(\E b \in Bss : Ack(m, b))  BY DEF Ack
<1>3. Passed(S, T) /\ T.peer = S.peer
  <2>1. T = gbprox_rx_sig_from_sgsn(S, m)  BY DEF gbprox_rcvmsg
  <2>2. CASE m.t = "RESET" /\ m.b = 0
    <3>1. T = S  BY <2>1, <2>2 DEF gbprox_rx_sig_from_sgsn, rx_reset_from_sgsn
    <3> QED  BY <1>1, <3>1, SamePeer
  <2>3. CASE m.t \in {"RESET", "RESET_ACK"} /\ m.b # 0
    <3>1. T = gbprox_relay2bvci(S, m.b)  BY <2>1, <2>3 DEF gbprox_rx_sig_from_sgsn, rx_reset_from_sgsn
    <3>2. m.b \in Bss /\ PeerOnly(S, S, m.b)  BY <1>1, <2>3, SamePeer
    <3> QED  BY <3>1, <3>2, BvciPassed
  <2>4. CASE m.t \in {"PAGING", "SUSPEND_ACK"}
    <3>1. T = gbprox_rx_paging(S, m.b)  BY <2>1, <2>4 DEF gbprox_rx_sig_from_sgsn
    <3> QED  BY <1>1, <2>4, <3>1, PagingPassed
  <2>5. CASE m.t = "STATUS"
    <3>1. T = S  BY <2>1, <2>5 DEF gbprox_rx_sig_from_sgsn
    <3> QED  BY <1>1, <3>1, SamePeer
  <2> QED  BY <1>1, <2>2, <2>3, <2>4, <2>5, BssNotZero
<1> QED  BY <1>2, <1>3 DEF Routes

\* The first message of the SGSN is taken.
TakenDown(S, T) ==
  /\ T \in GbState /\ T.down = Tail(S.down)
  /\ T.bvc = S.bvc /\ T.peer = S.peer /\ T.fc = S.fc /\ T.up = S.up /\ T.strayed = S.strayed /\ T.bad = S.bad
\* A state with the first message of the SGSN taken keeps its type and all else.
LEMMA TakeDownFields ==
  ASSUME NEW S \in GbState, S.down # <<>>, NEW T, T = [S EXCEPT !.down = Tail(@)] PROVE TakenDown(S, T)
<1>1. S.down \in Seq(DownMsg)  BY DEF GbState
<1>2. PICK q : q = Tail(S.down)  OBVIOUS
<1>3. q \in Seq(DownMsg)  BY <1>1, <1>2, TailAt
<1>4. T = [S EXCEPT !.down = q]  BY <1>2
<1> QED  BY <1>2, <1>3, <1>4 DEF GbState, TakenDown

\* What is known of the first message of the SGSN.
LEMMA HeadDown ==
  ASSUME NEW S, GbFine(S), S.down # <<>>, NEW m, m = Head(S.down)
  PROVE  /\ m \in DownMsg
         /\ m.t \in {"BLOCK_ACK", "UNBLOCK_ACK"} => S.peer[m.b].used
         /\ m.t \in {"DL_UD", "FC_ACK"} /\ ~GbHas("early_data") => S.peer[m.b].used
<1>1. S \in GbState  BY DEF GbFine
<1>2. S.down \in Seq(DownMsg)  BY <1>1 DEF GbState
<1>3. PICK q : q = Tail(S.down)  OBVIOUS
<1>4. DOMAIN S.down = 1..Len(S.down) /\ Len(S.down) \in Nat /\ Len(S.down) > 0 /\ m = S.down[1] /\ m \in DownMsg
  BY <1>2, <1>3, TailAt
<1>5. 1 \in DOMAIN S.down  BY <1>4
<1>6. m.t \in {"BLOCK_ACK", "UNBLOCK_ACK"} => S.peer[m.b].used  BY <1>4, <1>5 DEF GbFine, Known
<1>7. m.t \in {"DL_UD", "FC_ACK"} /\ ~GbHas("early_data") => S.peer[m.b].used  BY <1>4, <1>5 DEF GbFine, Placed
<1> QED  BY <1>4, <1>6, <1>7

\* What the proxy makes of a message keeps every peer it has, its place and, but for an
\* acknowledgement, whether it is blocked.
LEMMA RoutesPeers ==
  ASSUME NEW S, GbFine(S), NEW m \in DownMsg, NEW T, Routes(S, T, m)
  PROVE  /\ \A c \in Bss : S.peer[c].used => T.peer[c].used
         /\ \A c \in Bss : T.peer[c].blocked => T.peer[c].used \/ S.peer[c].blocked
         /\ \A c \in Bss : ~Ack(m, c) => (T.peer[c].blocked <=> S.peer[c].blocked)
         /\ \A c \in Bss : Ack(m, c) => (T.peer[c].blocked <=> m.t = "BLOCK_ACK")
         /\ ~GbHas("early_data") => \A c \in Bss : /\ T.peer[c].used = S.peer[c].used
                                                   /\ T.peer[c].nsvc = S.peer[c].nsvc
                                                   /\ T.peer[c].ra = S.peer[c].ra
<1>1. CASE T.peer = S.peer /\ ~(\E b \in Bss : Ack(m, b))  BY <1>1
<1>2. CASE /\ GbHas("early_data") /\ m.b \in Bss /\ ~S.peer[m.b].used /\ ~(\E b \in Bss : Ack(m, b))
           /\ T.peer[m.b].used /\ ~T.peer[m.b].blocked
           /\ \A c \in Bss \ {m.b} : T.peer[c] = S.peer[c]
  <2>1. ~S.peer[m.b].blocked  BY <1>2 DEF GbFine, Known
  <2>2. \A c \in Bss : c = m.b \/ T.peer[c] = S.peer[c]  BY <1>2
  <2> QED  BY <1>2, <2>1, <2>2
<1>3. CASE /\ m.b \in Bss /\ Ack(m, m.b) /\ S.peer[m.b].used /\ (T.peer[m.b].blocked <=> m.t = "BLOCK_ACK")
           /\ T.peer[m.b].used = S.peer[m.b].used /\ T.peer[m.b].nsvc = S.peer[m.b].nsvc /\ T.peer[m.b].ra = S.peer[m.b].ra
           /\ \A c \in Bss \ {m.b} : T.peer[c] = S.peer[c]
  <2>1. \A c \in Bss : c = m.b \/ (T.peer[c] = S.peer[c] /\ ~Ack(m, c))  BY <1>3 DEF Ack
  <2> QED  BY <1>3, <2>1
<1> QED  BY <1>1, <1>2, <1>3 DEF Routes

\* The proxy has dealt with the first message of the SGSN and taken it.
LEMMA RoutedFine ==
  ASSUME NEW S, GbFine(S), S.down # <<>>, NEW m, m = Head(S.down), NEW T, Routes(S, T, m), NEW U, TakenDown(T, U)
  PROVE  GbFine(U)
<1>1. S \in GbState  BY DEF GbFine
<1>2. S.down \in Seq(DownMsg) /\ S.up \in Seq(UpMsg)  BY <1>1 DEF GbState
<1>3. m \in DownMsg  BY HeadDown
<1>4. /\ \A c \in Bss : S.peer[c].used => T.peer[c].used
      /\ \A c \in Bss : T.peer[c].blocked => T.peer[c].used \/ S.peer[c].blocked
      /\ \A c \in Bss : ~Ack(m, c) => (T.peer[c].blocked <=> S.peer[c].blocked)
      /\ \A c \in Bss : Ack(m, c) => (T.peer[c].blocked <=> m.t = "BLOCK_ACK")
      /\ ~GbHas("early_data") => \A c \in Bss : /\ T.peer[c].used = S.peer[c].used
                                                /\ T.peer[c].nsvc = S.peer[c].nsvc
                                                /\ T.peer[c].ra = S.peer[c].ra
  BY <1>3, RoutesPeers
<1>5. /\ U \in GbState /\ U.down = Tail(S.down) /\ U.bvc = S.bvc /\ U.peer = T.peer /\ U.up = S.up
      /\ ~GbHas("early_data") => U.strayed = S.strayed
  BY DEF Routes, Passed, TakenDown
<1>6. /\ DOMAIN U.down = 1..(Len(S.down) - 1) /\ DOMAIN S.down = 1..Len(S.down) /\ Len(S.down) \in Nat
      /\ \A i \in 1..(Len(S.down) - 1) : U.down[i] = S.down[i + 1]
  BY <1>2, <1>5, TailAt
<1>7. \A i \in DOMAIN U.down : i + 1 \in DOMAIN S.down /\ U.down[i] = S.down[i + 1]  BY <1>6
<1>8. \A i \in DOMAIN S.down : S.down[i].t # "RESET" => S.down[i].b \in Bss
  <2>1. \A i \in DOMAIN S.down : S.down[i] \in DownMsg  BY <1>2
  <2> QED  BY <2>1, DownMsgFields
<1>9. \A i \in DOMAIN S.up : S.up[i].b \in Bss  BY <1>2, UpMsgFields
<1>10. Known(U)
  <2>1. \A c \in Bss : U.bvc[c].used => U.peer[c].used  BY <1>4, <1>5 DEF GbFine, Known
  <2>2. \A c \in Bss : U.bvc[c].blocked => U.bvc[c].used  BY <1>5 DEF GbFine, Known
  <2>3. \A c \in Bss : U.peer[c].blocked => U.peer[c].used  BY <1>4, <1>5 DEF GbFine, Known
  <2>4. \A i \in DOMAIN U.up : U.peer[U.up[i].b].used  BY <1>4, <1>5, <1>9 DEF GbFine, Known
  <2>5. \A i \in DOMAIN U.down : U.down[i].t \in {"BLOCK_ACK", "UNBLOCK_ACK"} => U.peer[U.down[i].b].used
    BY <1>4, <1>5, <1>7, <1>8 DEF GbFine, Known
  <2> QED  BY <2>1, <2>2, <2>3, <2>4, <2>5 DEF Known
<1>11. ASSUME ~GbHas("early_data") PROVE Placed(U)
  <2>1. \A c \in Bss : U.peer[c].used => U.peer[c].nsvc = c /\ U.peer[c].ra \in {0, c}
    BY <1>4, <1>5, <1>11 DEF GbFine, Placed
  <2>2. \A i \in DOMAIN U.down : U.down[i].t \in {"DL_UD", "FC_ACK"} => U.peer[U.down[i].b].used
    BY <1>4, <1>5, <1>7, <1>8, <1>11 DEF GbFine, Placed
  <2> QED  BY <1>5, <1>11, <2>1, <2>2 DEF Placed, GbFine
<1>12. ~GbHas("reset_blocked") => ResetsFree(U)  BY <1>5 DEF GbFine, ResetsFree
<1>13. ASSUME ~GbHas("reset_blocked") /\ ~GbHas("loss"), NEW c \in Bss
       PROVE  Told(U.down, c, U.peer[c], U.bvc[c])
  <2>1. Told(S.down, c, S.peer[c], S.bvc[c])  BY <1>13 DEF GbFine, TellsAll
  <2>2. CASE Ack(m, c)
    <3>1. m.t = "BLOCK_ACK" <=> T.peer[c].blocked  BY <1>4, <2>2
    <3>2. Told(Tail(S.down), c, T.peer[c], S.bvc[c])  BY <1>2, <2>1, <2>2, <3>1, ToldTailAck
    <3> QED  BY <1>5, <3>2
  <2>3. CASE ~Ack(m, c)
    <3>1. Told(Tail(S.down), c, S.peer[c], S.bvc[c])  BY <1>2, <2>1, <2>3, ToldTailOther
    <3>2. T.peer[c].blocked <=> S.peer[c].blocked  BY <1>4, <2>3
    <3> QED  BY <1>5, <3>1, <3>2 DEF Told
  <2> QED  BY <2>2, <2>3
<1> QED  BY <1>5, <1>10, <1>11, <1>12, <1>13 DEF GbFine, TellsAll

\* The proxy takes a message of the SGSN.
LEMMA ProxyReceivesStep ==
  ASSUME GbInv, ProxyReceives PROVE GbFine(gb') /\ gbEnv' = gbEnv
<1>1. GbFine(gb) /\ gb \in GbState  BY DEF GbInv, GbFine
<1>2. PICK m : m = Head(gb.down)  OBVIOUS
<1>3. PICK T : T = gbprox_rcvmsg(gb, m)  OBVIOUS
<1>4. gb.down # <<>> /\ gbEnv' = gbEnv /\ gb' = [T EXCEPT !.down = Tail(@)]
  BY <1>2, <1>3 DEF ProxyReceives, GbBecomes
<1>5. /\ m \in DownMsg
      /\ m.t \in {"BLOCK_ACK", "UNBLOCK_ACK"} => gb.peer[m.b].used
      /\ m.t \in {"DL_UD", "FC_ACK"} /\ ~GbHas("early_data") => gb.peer[m.b].used
  BY <1>1, <1>2, <1>4, HeadDown
<1>6. Routes(gb, T, m)
  <2>1. CASE m.t \in {"BLOCK_ACK", "UNBLOCK_ACK"}  BY <1>1, <1>3, <1>5, <2>1, AckRoutes
  <2>2. CASE m.t \in {"DL_UD", "FC_ACK"}  BY <1>1, <1>3, <1>5, <2>2, DataRoutes
  <2>3. CASE m.t \in {"RESET", "RESET_ACK", "PAGING", "STATUS", "SUSPEND_ACK"}  BY <1>1, <1>3, <1>5, <2>3, OtherRoutes
  <2>4. m.t \in DownTypes  BY <1>5, DownMsgFields
  <2> QED  BY <2>1, <2>2, <2>3, <2>4 DEF DownTypes
<1>7. T \in GbState /\ T.down # <<>>  BY <1>4, <1>6 DEF Routes, Passed
<1>8. TakenDown(T, gb')  BY <1>4, <1>7, TakeDownFields
<1> QED  BY <1>1, <1>2, <1>4, <1>6, <1>8, RoutedFine

\* A message under way is lost.
LEMMA GbLosesStep ==
  ASSUME GbInv, GbLoses PROVE GbFine(gb') /\ gbEnv' = gbEnv
<1>1. GbFine(gb) /\ gb \in GbState /\ GbHas("loss") /\ gbEnv' = gbEnv  BY DEF GbInv, GbFine, GbLoses, GbBecomes
<1>2. CASE gb.up # <<>> /\ gb' = [gb EXCEPT !.up = Tail(@)]
  <2>1. TakenUp(gb, gb')  BY <1>1, <1>2, TakeUpFields
  <2> QED  BY <1>1, <1>2, <2>1, TakeUpFine
<1>3. CASE gb.down # <<>> /\ gb' = [gb EXCEPT !.down = Tail(@)]
  <2>1. TakenDown(gb, gb')  BY <1>1, <1>3, TakeDownFields
  <2>2. gb.down \in Seq(DownMsg) /\ gb'.down = Tail(gb.down)  BY <1>1, <2>1 DEF GbState, TakenDown
  <2>3. /\ DOMAIN gb'.down = 1..(Len(gb.down) - 1) /\ DOMAIN gb.down = 1..Len(gb.down) /\ Len(gb.down) \in Nat
        /\ \A i \in 1..(Len(gb.down) - 1) : gb'.down[i] = gb.down[i + 1]
    BY <1>3, <2>2, TailAt
  <2>4. \A i \in DOMAIN gb'.down : i + 1 \in DOMAIN gb.down /\ gb'.down[i] = gb.down[i + 1]  BY <2>3
  <2>5. Known(gb')  BY <1>1, <2>1, <2>4 DEF GbFine, Known, TakenDown
  <2>6. ~GbHas("early_data") => Placed(gb')  BY <1>1, <2>1, <2>4 DEF GbFine, Placed, TakenDown
  <2>7. ~GbHas("reset_blocked") => ResetsFree(gb')  BY <1>1, <2>1 DEF GbFine, ResetsFree, TakenDown
  <2> QED  BY <1>1, <2>1, <2>5, <2>6, <2>7 DEF GbFine, TakenDown
<1> QED  BY <1>2, <1>3 DEF GbLoses, GbBecomes

-----------------------------------------------------------------------------
(* Flow control, and what the SGSN does by itself *)

\* A PDU that needs no queueing leaves the bucket within its bounds.
LEMMA FcPassedType ==
  ASSUME NEW f \in Fc, NEW len \in 1..2, ~bssgp_fc_needs_queueing(f, len) PROVE FcPassed(f, len) \in Fc
<1>1. /\ Bmax \in Nat /\ f.max \in 0..Bmax /\ f.rate \in 0..1 /\ f.counter \in 0..Bmax /\ f.since \in 0..Bmax
      /\ f.real \in 0..(2 * Bmax)
  BY GbBounds DEF Fc
<1>2. PICK l : l = Leaked(f)  OBVIOUS
<1>3. l \in Nat
  <2>1. l = f.since * f.rate  BY <1>2 DEF Leaked
  <2>2. CASE f.rate = 0
    <3>1. l = 0  BY <1>1, <2>1, <2>2
    <3> QED  BY <3>1
  <2>3. CASE f.rate = 1
    <3>1. l = f.since  BY <1>1, <2>1, <2>3
    <3> QED  BY <1>1, <3>1
  <2> QED  BY <1>1, <2>2, <2>3
<1>4. PICK c : c = IF Underflows(f) THEN f.counter ELSE f.counter + len - l  OBVIOUS
<1>5. c \in 0..Bmax
  <2>1. CASE Underflows(f)  BY <1>1, <1>4, <2>1
  <2>2. CASE ~Underflows(f)
    <3>1. f.counter + len - l <= f.max /\ ~(f.counter < l)
      BY <1>1, <1>2, <1>3, <2>2 DEF bssgp_fc_needs_queueing, Underflows
    <3>2. c = f.counter + len - l  BY <1>4, <2>2
    <3> QED  BY <1>1, <1>3, <3>1, <3>2
  <2> QED  BY <2>1, <2>2
<1>6. PICK d : d = Drained(f)  OBVIOUS
<1>7. d \in Nat  BY <1>1, <1>2, <1>3, <1>6 DEF Drained
<1>8. PICK r : r = IF d + len > 2 * Bmax THEN 2 * Bmax ELSE d + len  OBVIOUS
<1>9. r \in 0..(2 * Bmax)  BY <1>1, <1>7, <1>8
<1>10. FcPassed(f, len) = [f EXCEPT !.counter = c, !.since = 0, !.real = r]
  BY <1>2, <1>4, <1>6, <1>8 DEF FcPassed, Fc
<1>11. PICK z : z = 0 /\ z \in 0..Bmax  BY <1>1
<1>12. FcPassed(f, len) = [f EXCEPT !.counter = c, !.since = z, !.real = r]  BY <1>10, <1>11
<1> QED  BY <1>5, <1>9, <1>11, <1>12 DEF Fc

\* Another bucket, and nothing else.
WithFc(S, F) == [S EXCEPT !.fc = F]
\* The bucket is no concern of the invariant beyond its type.
LEMMA FcFine ==
  ASSUME NEW S, GbFine(S), NEW F \in Fc, NEW T, T = WithFc(S, F)
  PROVE  GbFine(T) /\ T.bvc = S.bvc /\ T.peer = S.peer
<1>1. S \in GbState  BY DEF GbFine
<1>2. T \in GbState  BY <1>1 DEF WithFc, GbState
<1>3. T.bvc = S.bvc /\ T.peer = S.peer /\ T.up = S.up /\ T.down = S.down /\ T.strayed = S.strayed
  BY <1>1 DEF WithFc, GbState
<1>4. SameRest(S, T) /\ SameBvc(S, T)  BY <1>2, <1>3 DEF SameRest, SameBvc
<1> QED  BY <1>3, <1>4, QuietFine

\* The SGSN sends a message of its own accord.
LEMMA TxFine ==
  ASSUME NEW S, GbFine(S), NEW t \in {"PAGING", "RESET", "DL_UD"}, NEW b \in {0} \cup Bss, t # "RESET" => b \in Bss,
         t = "DL_UD" /\ ~GbHas("early_data") => S.peer[b].used, NEW T, T = bssgp_tx(S, t, b)
  PROVE  GbFine(T)
<1>1. S \in GbState  BY DEF GbFine
<1>2. PICK m : m = Msg(t, b)  OBVIOUS
<1>3. m \in DownMsg /\ m.t = t /\ m.b = b  BY <1>2, MsgFields DEF DownTypes
<1>4. SentBy(S, T, m)  BY <1>1, <1>2, <1>3, TxFields
<1>5. SameRest(S, T) /\ SameBvc(S, T) /\ T.down = Append(S.down, m)  BY <1>4 DEF SentBy, SameRest, SameBvc
<1>6. m.t \notin {"BLOCK_ACK", "UNBLOCK_ACK"} /\ (m.t \in {"DL_UD", "FC_ACK"} /\ ~GbHas("early_data") => S.peer[m.b].used)
  BY <1>3
<1> QED  BY <1>3, <1>5, <1>6, AppendFine

\* The SGSN pages.
LEMMA SgsnPagesStep ==
  ASSUME GbInv, NEW b \in Bss, SgsnPages(b) PROVE GbFine(gb') /\ gbEnv' = gbEnv
<1>1. GbFine(gb) /\ gbEnv' = gbEnv /\ gb' = bssgp_tx(gb, "PAGING", b)
  BY DEF GbInv, SgsnPages, GbBecomes, gprs_bssgp_tx_paging
<1>2. b \in {0} \cup Bss  OBVIOUS
<1> QED  BY <1>1, <1>2, TxFine

\* The SGSN resets a BVC.
LEMMA SgsnResetsStep ==
  ASSUME GbInv, NEW b \in {0} \cup Bss, SgsnResets(b) PROVE GbFine(gb') /\ gbEnv' = gbEnv
<1>1. GbFine(gb) /\ gbEnv' = gbEnv /\ gb' = bssgp_tx(gb, "RESET", b)
  BY DEF GbInv, SgsnResets, GbBecomes
<1> QED  BY <1>1, TxFine

\* An MS attaches at a BVC and its bucket gets the size and the rate of the BVC's.
LEMMA AttachedAtStep ==
  ASSUME GbInv, NEW b \in Bss, AttachedAt(b) PROVE GbFine(gb') /\ gbEnv' = gbEnv
<1>1. GbFine(gb) /\ gb \in GbState /\ gbEnv' = gbEnv /\ gb' = bssgp_fc_ms_init(gb, b)
  BY DEF GbInv, GbFine, AttachedAt, GbBecomes
<1>2. CASE ~gb.bvc[b].used  BY <1>1, <1>2 DEF bssgp_fc_ms_init
<1>3. CASE gb.bvc[b].used
  <2>1. PICK f, max, rate : f = gb.fc /\ max = gb.bvc[b].bmax /\ rate = gb.bvc[b].rate  OBVIOUS
  <2>2. f \in Fc /\ gb.bvc[b] \in Bvc  BY <1>1, <2>1 DEF GbState
  <2>3. max \in 0..Bmax /\ rate \in 0..1  BY <2>1, <2>2 DEF Bvc
  <2>4. PICK F : F = [f EXCEPT !.max = max, !.rate = rate]  OBVIOUS
  <2>5. F \in Fc  BY <2>2, <2>3, <2>4 DEF Fc
  <2>6. gb' = WithFc(gb, F)
    BY <1>1, <1>3, <2>1, <2>4 DEF bssgp_fc_ms_init, WithFc, GbState
  <2> QED  BY <1>1, <2>5, <2>6, FcFine
<1> QED  BY <1>2, <1>3

\* Time passes and the bucket may leak.
LEMMA TimePassesStep ==
  ASSUME GbInv, TimePasses PROVE GbFine(gb') /\ gbEnv' = gbEnv
<1>1. GbFine(gb) /\ gb \in GbState /\ gbEnv' = gbEnv /\ gb.fc.since < Bmax /\ gb' = [gb EXCEPT !.fc.since = @ + 1]
  BY DEF GbInv, GbFine, TimePasses, GbBecomes
<1>2. PICK f : f = gb.fc  OBVIOUS
<1>3. f \in Fc  BY <1>1, <1>2 DEF GbState
<1>4. PICK s : s = f.since + 1  OBVIOUS
<1>5. s \in 0..Bmax  BY <1>1, <1>2, <1>3, <1>4, GbBounds DEF Fc
<1>6. PICK F : F = [f EXCEPT !.since = s]  OBVIOUS
<1>7. F \in Fc  BY <1>3, <1>5, <1>6 DEF Fc
<1>8. gb' = WithFc(gb, F)  BY <1>1, <1>2, <1>4, <1>6 DEF WithFc, GbState
<1> QED  BY <1>1, <1>7, <1>8, FcFine

\* The SGSN sends data, by way of the flow control when that is looked at.
LEMMA SgsnDataStep ==
  ASSUME GbInv, NEW b \in Bss, NEW len \in 1..2, SgsnData(b, len) PROVE GbFine(gb') /\ gbEnv' = gbEnv
<1>1. GbFine(gb) /\ gb \in GbState /\ gbEnv' = gbEnv /\ b \in {0} \cup Bss
  BY DEF GbInv, GbFine, SgsnData, GbBecomes
<1>2. gb.bvc[b].used \/ GbHas("early_data")  BY DEF SgsnData
<1>3. ~GbHas("early_data") => gb.peer[b].used  BY <1>1, <1>2 DEF GbFine, Known
<1>4. CASE gb.bvc[b].used /\ gbEnv.flow
  <2>1. gb' = bssgp_fc_in(gb, b, len)  BY <1>4 DEF SgsnData, GbBecomes, gprs_bssgp_tx_dl_ud
  <2>2. CASE bssgp_fc_needs_queueing(gb.fc, len)
    <3>1. gb' = [gb EXCEPT !.bad = TRUE]  BY <2>1, <2>2 DEF bssgp_fc_in, fc_enqueue
    <3>2. gb' \in GbState  BY <1>1, <3>1 DEF GbState
    <3>3. /\ gb'.bvc = gb.bvc /\ gb'.peer = gb.peer /\ gb'.up = gb.up /\ gb'.down = gb.down /\ gb'.strayed = gb.strayed
      BY <1>1, <3>1 DEF GbState
    <3>4. SameRest(gb, gb') /\ SameBvc(gb, gb')  BY <3>2, <3>3 DEF SameRest, SameBvc
    <3> QED  BY <1>1, <3>3, <3>4, QuietFine
  <2>3. CASE ~bssgp_fc_needs_queueing(gb.fc, len)
    <3>1. PICK f : f = gb.fc  OBVIOUS
    <3>2. f \in Fc /\ ~bssgp_fc_needs_queueing(f, len)  BY <1>1, <2>3, <3>1 DEF GbState
    <3>3. PICK F : F = FcPassed(f, len)  OBVIOUS
    <3>4. F \in Fc  BY <3>2, <3>3, FcPassedType
    <3>5. PICK A : A = WithFc(gb, F)  OBVIOUS
    <3>6. GbFine(A) /\ A.bvc = gb.bvc /\ A.peer = gb.peer  BY <1>1, <3>4, <3>5, FcFine
    <3>7. gb' = bssgp_tx(A, "DL_UD", b)  BY <2>1, <2>3, <3>1, <3>3, <3>5 DEF bssgp_fc_in, WithFc
    <3>8. ~GbHas("early_data") => A.peer[b].used  BY <1>3, <3>6
    <3> QED  BY <1>1, <3>6, <3>7, <3>8, TxFine
  <2> QED  BY <2>2, <2>3
<1>5. CASE ~(gb.bvc[b].used /\ gbEnv.flow)
  <2>1. gb' = bssgp_tx(gb, "DL_UD", b)  BY <1>5 DEF SgsnData, GbBecomes
  <2> QED  BY <1>1, <1>3, <2>1, TxFine
<1> QED  BY <1>4, <1>5

-----------------------------------------------------------------------------
(* The theorems *)

\* Nothing is known, nothing is under way at the start.
LEMMA GbStarts == GbInit => GbInv
<1> SUFFICES ASSUME GbInit PROVE GbInv  OBVIOUS
<1>1. gbEnv \in GbEnvs  BY DEF GbInit
<1>2. PICK x, y, f : /\ x = [used |-> FALSE, blocked |-> FALSE, ra |-> 0, bmax |-> 0, rate |-> 0]
                     /\ y = [used |-> FALSE, blocked |-> FALSE, nsvc |-> 0, ra |-> 0]
                     /\ f = [max |-> 0, rate |-> 0, counter |-> 0, since |-> Bmax, real |-> 0]
  OBVIOUS
<1>3. x \in Bvc
  <2>1. 0 \in 0..Bmax /\ 0 \in 0..1 /\ 0 \in {0} \cup Bss  BY GbBounds
  <2> QED  BY <1>2, <2>1 DEF Bvc
<1>4. y \in Peer  BY <1>2 DEF Peer
<1>5. f \in Fc
  <2>1. 0 \in 0..Bmax /\ 0 \in 0..1 /\ Bmax \in 0..Bmax /\ 0 \in 0..(2 * Bmax)  BY GbBounds
  <2> QED  BY <1>2, <2>1 DEF Fc
<1>6. gb = [bvc |-> [b \in Bss |-> x], peer |-> [b \in Bss |-> y], fc |-> f, up |-> <<>>, down |-> <<>>,
            strayed |-> FALSE, bad |-> FALSE]
  BY <1>2 DEF GbInit
<1>7. gb \in GbState  BY <1>3, <1>4, <1>5, <1>6 DEF GbState
<1>8. /\ \A b \in Bss : gb.bvc[b] = x /\ gb.peer[b] = y
      /\ gb.up = <<>> /\ gb.down = <<>> /\ ~gb.strayed /\ DOMAIN gb.up = {} /\ DOMAIN gb.down = {}
  BY <1>6
<1>9. ~x.used /\ ~x.blocked /\ ~y.used /\ ~y.blocked  BY <1>2
<1>10. Known(gb) /\ Placed(gb) /\ ResetsFree(gb)  BY <1>8, <1>9 DEF Known, Placed, ResetsFree
<1>11. TellsAll(gb)  BY <1>8, <1>9 DEF TellsAll, Told
<1> QED  BY <1>1, <1>7, <1>10, <1>11 DEF GbInv, GbFine

\* Every step keeps the invariant: what holds of the new state under the same surroundings.
LEMMA GbStep == GbInv /\ [GbNext]_gbVars => GbInv'
<1> SUFFICES ASSUME GbInv, [GbNext]_gbVars PROVE GbInv'  OBVIOUS
<1>1. GbFine(gb') /\ gbEnv' = gbEnv
  <2>1. ASSUME NEW b \in Bss,
               NEW t \in {"RESET", "BLOCK", "UNBLOCK", "SUSPEND", "RESUME", "UL_UD", "FC_BVC", "FC_MS", "LLC_DISC"},
               BssSends(b, t)
        PROVE  GbFine(gb') /\ gbEnv' = gbEnv
    BY <2>1, BssSendsStep
  <2>2. CASE SgsnReceives  BY <2>2, SgsnReceivesStep
  <2>3. CASE ProxyReceives  BY <2>3, ProxyReceivesStep
  <2>4. CASE GbLoses  BY <2>4, GbLosesStep
  <2>5. CASE TimePasses  BY <2>5, TimePassesStep
  <2>6. CASE \E b \in {0} \cup Bss : SgsnResets(b)  BY <2>6, SgsnResetsStep
  <2>7. CASE \E b \in Bss : SgsnPages(b)  BY <2>7, SgsnPagesStep
  <2>8. CASE \E b \in Bss : AttachedAt(b)  BY <2>8, AttachedAtStep
  <2>9. CASE \E b \in Bss, len \in 1..2 : SgsnData(b, len)  BY <2>9, SgsnDataStep
  <2>10. CASE UNCHANGED gbVars  BY <2>10 DEF gbVars, GbInv
  <2> QED  BY <2>1, <2>2, <2>3, <2>4, <2>5, <2>6, <2>7, <2>8, <2>9, <2>10 DEF GbNext
<1>2. GbFine(gb)'  BY <1>1 DEF GbFine, GbHas, Placed, ResetsFree, TellsAll, Known
<1> QED  BY <1>1, <1>2 DEF GbInv

\* The invariant holds in every state.
THEOREM GbInvariant == GbSpec => []GbInv
<1>1. GbInit => GbInv  BY GbStarts
<1>2. GbInv /\ [GbNext]_gbVars => GbInv'  BY GbStep
<1> QED  BY <1>1, <1>2, PTL DEF GbSpec

\* What the SGSN sends for a BVC only ever strays when the SGSN uses the BVC before its BSS has reset it.
THEOREM NothingStraysHolds == GbSpec => []NothingStrays
<1>1. GbInv => NothingStrays  BY DEF GbInv, GbFine, Placed, NothingStrays
<1> QED  BY <1>1, GbInvariant, PTL

\* With nothing under way, nothing lost and no blocked BVC reset, proxy and SGSN agree on which BVCs are blocked.
THEOREM BlockedAgreedHolds == GbSpec => []BlockedAgreed
<1>1. ASSUME GbInv PROVE BlockedAgreed
  <2> SUFFICES ASSUME gb.up = <<>>, gb.down = <<>>, gbEnv.faults \cap {"loss", "reset_blocked"} = {}, NEW b \in Bss
               PROVE  gb.bvc[b].blocked = gb.peer[b].blocked
    BY DEF BlockedAgreed
  <2>1. ~GbHas("loss") /\ ~GbHas("reset_blocked")  BY DEF GbHas
  <2>2. Told(gb.down, b, gb.peer[b], gb.bvc[b])  BY <1>1, <2>1 DEF GbInv, GbFine, TellsAll
  <2>3. DOMAIN gb.down = {}  OBVIOUS
  <2>4. gb.peer[b].blocked <=> gb.bvc[b].blocked  BY <2>2, <2>3 DEF Told
  <2>5. gb.peer[b].blocked \in BOOLEAN /\ gb.bvc[b].blocked \in BOOLEAN
    <3>1. gb.peer[b] \in Peer /\ gb.bvc[b] \in Bvc  BY <1>1 DEF GbInv, GbFine, GbState
    <3> QED  BY <3>1 DEF Peer, Bvc
  <2> QED  BY <2>4, <2>5
<1>2. GbInv => BlockedAgreed  BY <1>1
<1> QED  BY <1>2, GbInvariant, PTL
=============================================================================
