------------------------------ MODULE MgcpProofs ------------------------------
(***************************************************************************)
(* Proofs about the media gateway (Mgcp), for any number of endpoints,     *)
(* calls, pairs of ports and call ids, any modulus of the sequence numbers *)
(* and any environment.  The invariant MgInv says of each endpoint         *)
(*   EpFine    its ports are those of its call, and it is clean when free; *)
(*   AgentAt   the call it serves was given this endpoint by the agent;    *)
(*   GivenAt   a running call given it finds it its own, free, or taken by *)
(*             a late repetition of another CRCX;                          *)
(*   PeersAt   the addresses it sends to are those of that call;           *)
(*   StreamAt  its stream state is what the party heard last;              *)
(* and of all of them that call ids differ.  A command changes one         *)
(* endpoint (Alone), so that AloneKeeps carries every command over.        *)
(***************************************************************************)
EXTENDS Mgcp, FiniteSetTheorems, TLAPS

Sides == {"NET", "BTS"}
Modes == {"NONE", "sendrecv", "recvonly", "sendonly", "loopback", "unknown"}
Seqs == 0..(MgSeq - 1)
Ranges == {"net_end", "bts_end", "transcoder"}
Fd == {-1} \cup (0..(MgPairs - 1)) \cup MgEndp
End == [fd : Fd, local_alloc : {"NONE", "DYNAMIC", "STATIC"}, peer : 0..MgMax]
Rtp == [initialized : BOOLEAN, ssrc : 0..4, orig_ssrc : 0..4, seq_no : Seqs, seq_offset : Seqs, patch : BOOLEAN]
Packet == [ssrc : 0..4, seq : Seqs]
Endp == [allocated : BOOLEAN, ci : 0..MgIds, callid : 0..MgMax, conn_mode : Modes, orig_mode : Modes,
         is_transcoded : BOOLEAN, allow_patch : BOOLEAN, end : [MgEnds -> End], state : [Sides -> Rtp]]
Call == [at : {0} \cup MgEndp, st : {"NONE", "ASKED", "UP", "OVER"}, ssrc : [Sides -> 1..2], seq : [Sides -> Seqs]]
\* What was heard: on which side, from whom, on whose endpoint, by whom.
Heard == Sides \X (1..MgMax) \X (0..MgMax) \X (1..MgMax)
MgState == [ep : [MgEndp -> Endp], last_call_id : 0..MgIds, last_port : [Ranges -> Nat],
            trans : SUBSET MgEndp, call : [1..MgMax -> Call],
            heard : SUBSET Heard,
            out : [1..MgMax -> [Sides -> Packet]], jump : BOOLEAN]

\* The pairs an endpoint has bound are those of its call, and were bound for it.
Held(E) == {n \in MgEnds : E.end[n].fd # -1}
Wanted(E) == IF ~E.allocated THEN {} ELSE IF E.is_transcoded THEN MgEnds ELSE {"net_end", "bts_end"}
Bound(E) == ~mgEnv.static => \A n \in MgEnds : E.end[n].local_alloc = "DYNAMIC" <=> E.end[n].fd # -1
Ports(E) == Bound(E) /\ (~mgEnv.static => Held(E) = Wanted(E))
Unused(E) == /\ \A n \in MgEnds : E.end[n].peer = 0
             /\ ~E.is_transcoded /\ \A to \in Sides : E.state[to] = MgRtp
Used(E) == /\ E.allocated = (E.ci # 0) /\ E.allocated = (E.callid # 0)
           /\ ~E.allocated => Unused(E)

-----------------------------------------------------------------------------
(* Endpoints *)

LEMMA Bounds ==
    /\ MgMax \in Nat /\ MgPairs \in Nat /\ MgIds \in Nat \ {0} /\ MgSeq \in Nat \ {0, 1}
    /\ IsFiniteSet(MgEndp) /\ Cardinality(MgEndp) \in Nat /\ Cardinality(MgEndp) < MgIds
  BY MgBounds, FS_CardinalityType

\* S with another endpoint e.
WithEp(S, e, E) == [S EXCEPT !.ep[e] = E]
LEMMA WithEpFields ==
    ASSUME NEW S \in MgState, NEW e \in MgEndp, NEW E \in Endp, NEW T, T = WithEp(S, e, E)
    PROVE  /\ T \in MgState /\ T.ep[e] = E /\ (\A f \in MgEndp \ {e} : T.ep[f] = S.ep[f])
           /\ T.last_call_id = S.last_call_id /\ T.last_port = S.last_port /\ T.trans = S.trans /\ T.call = S.call
           /\ T.heard = S.heard /\ T.out = S.out /\ T.jump = S.jump
  BY DEF WithEp, MgState
LEMMA StateFields ==
    ASSUME NEW S \in MgState
    PROVE  /\ S.ep \in [MgEndp -> Endp] /\ S.last_call_id \in 0..MgIds /\ S.last_port \in [Ranges -> Nat]
           /\ S.trans \subseteq MgEndp /\ S.call \in [1..MgMax -> Call] /\ S.out \in [1..MgMax -> [Sides -> Packet]]
           /\ S.jump \in BOOLEAN
  BY DEF MgState
\* Endpoint e differs, and what belongs to no endpoint or call.
Alone(S, T, e) ==
    /\ T \in MgState /\ T.call = S.call /\ T.heard = S.heard /\ T.out = S.out /\ T.jump = S.jump
    /\ \A f \in MgEndp \ {e} : T.ep[f] = S.ep[f]
LEMMA AloneTrans ==
    ASSUME NEW S, NEW T, NEW U, NEW e, Alone(S, T, e), Alone(T, U, e) PROVE Alone(S, U, e)
  BY DEF Alone

\* An endpoint with other ends.
WithEnds(E, w) == [E EXCEPT !.end = w]
LEMMA WithEndsFields ==
    ASSUME NEW E \in Endp, NEW w \in [MgEnds -> End], NEW F, F = WithEnds(E, w)
    PROVE  /\ F \in Endp /\ F.end = w /\ F.allocated = E.allocated /\ F.ci = E.ci /\ F.callid = E.callid
           /\ F.conn_mode = E.conn_mode /\ F.orig_mode = E.orig_mode /\ F.is_transcoded = E.is_transcoded
           /\ F.allow_patch = E.allow_patch /\ F.state = E.state
  BY DEF WithEnds, Endp
LEMMA EndpFields ==
    ASSUME NEW E \in Endp
    PROVE  /\ E.end \in [MgEnds -> End] /\ E.state \in [Sides -> Rtp] /\ E.ci \in 0..MgIds /\ E.callid \in 0..MgMax
           /\ E.allocated \in BOOLEAN /\ E.is_transcoded \in BOOLEAN /\ E.allow_patch \in BOOLEAN /\ E.conn_mode \in Modes
           /\ E.orig_mode \in Modes
  BY DEF Endp

\* mgcp_rtp_end_reset(): a port that was bound for the endpoint is free again.
LEMMA ResetEnd ==
    ASSUME NEW d \in End, NEW r, r = mgcp_rtp_end_reset(d)
    PROVE  /\ r \in End /\ r.peer = 0 /\ r.local_alloc = "NONE"
           /\ (d.local_alloc = "DYNAMIC" <=> d.fd # -1) => r.fd = -1
  <1>1. MgMax \in Nat
    BY Bounds
  <1>2. PICK f : f = IF d.local_alloc = "DYNAMIC" THEN mgcp_free_rtp_port(d) ELSE d
    OBVIOUS
  <1>3. f \in End /\ ((d.local_alloc = "DYNAMIC" <=> d.fd # -1) => f.fd = -1)
    <2>1. CASE d.local_alloc = "DYNAMIC"
      BY <1>2, <2>1 DEF mgcp_free_rtp_port, End, Fd
    <2>2. CASE d.local_alloc # "DYNAMIC"
      BY <1>2, <2>2
    <2> QED BY <2>1, <2>2
  <1>4. r = [f EXCEPT !.peer = 0, !.local_alloc = "NONE"]
    BY <1>2 DEF mgcp_rtp_end_reset
  <1>5. r \in End /\ r.peer = 0 /\ r.local_alloc = "NONE" /\ r.fd = f.fd
    <2>1. f \in End /\ 0 \in 0..MgMax
      BY <1>1, <1>3
    <2> QED BY <1>4, <2>1 DEF End
  <1> QED BY <1>3, <1>5

\* The endpoint after MgReset().
ResetEnds(E, N) == [n \in MgEnds |-> IF n \in N THEN mgcp_rtp_end_reset(E.end[n]) ELSE E.end[n]]
LEMMA ResetIs ==
    ASSUME NEW S \in MgState, NEW e \in MgEndp, NEW N \in SUBSET MgEnds
    PROVE  MgReset(S, e, N) = WithEp(S, e, WithEnds(S.ep[e], ResetEnds(S.ep[e], N)))
  BY DEF MgReset, WithEp, WithEnds, ResetEnds, MgState, Endp
LEMMA ResetEndsFields ==
    ASSUME NEW E \in Endp, NEW N \in SUBSET MgEnds, NEW w, w = ResetEnds(E, N)
    PROVE  /\ w \in [MgEnds -> End] /\ \A n \in N : w[n].peer = 0
           /\ \A n \in MgEnds \ N : w[n] = E.end[n]
           /\ Bound(E) => \A n \in MgEnds : /\ ~mgEnv.static => (w[n].local_alloc = "DYNAMIC" <=> w[n].fd # -1)
                                            /\ ~mgEnv.static /\ n \in N => w[n].fd = -1
  <1>1. E.end \in [MgEnds -> End]
    BY EndpFields
  <1>2. \A n \in MgEnds : E.end[n] \in End
    BY <1>1
  <1>3. \A n \in N : /\ w[n] \in End /\ w[n].peer = 0 /\ w[n].local_alloc = "NONE"
                     /\ (E.end[n].local_alloc = "DYNAMIC" <=> E.end[n].fd # -1) => w[n].fd = -1
    BY <1>2, ResetEnd DEF ResetEnds
  <1>4. \A n \in MgEnds \ N : w[n] = E.end[n]
    BY DEF ResetEnds
  <1>5. w \in [MgEnds -> End]
    BY <1>2, <1>3, ResetEnd DEF ResetEnds
  <1> QED BY <1>3, <1>4, <1>5 DEF Bound

\* An endpoint nobody uses, as mgcp_free_endp() leaves it.
Freed(E) == /\ E \in Endp /\ ~E.allocated /\ E.ci = 0 /\ E.callid = 0 /\ Unused(E) /\ Ports(E)
            /\ E.conn_mode = "NONE" /\ ~E.allow_patch
LEMMA InitialEndp ==
    MgEndpoint \in Endp /\ MgEndFree \in End /\ MgRtp \in Rtp /\ MgQuiet \in Packet
  BY Bounds DEF MgEndpoint, Endp, MgEndFree, End, Fd, MgRtp, Rtp, MgQuiet, Packet, Modes, Sides, Seqs
LEMMA FreeFields ==
    ASSUME NEW S \in MgState, NEW e \in MgEndp, Bound(S.ep[e]), NEW T, T = mgcp_free_endp(S, e)
    PROVE  Alone(S, T, e) /\ Freed(T.ep[e]) /\ T = WithEp(S, e, T.ep[e])
  <1>0. S.ep[e] \in Endp
    BY StateFields
  <1>1. PICK w : w = ResetEnds(S.ep[e], MgEnds)
    OBVIOUS
  <1>2. /\ w \in [MgEnds -> End] /\ \A n \in MgEnds : w[n].peer = 0
        /\ \A n \in MgEnds : /\ ~mgEnv.static => (w[n].local_alloc = "DYNAMIC" <=> w[n].fd # -1)
                             /\ ~mgEnv.static => w[n].fd = -1
    BY <1>0, <1>1, ResetEndsFields
  <1>3. PICK E : E = WithEnds(MgEndpoint, w)
    OBVIOUS
  <1>4. PICK D : D = WithEnds(S.ep[e], w)
    OBVIOUS
  <1>5. D \in Endp /\ D.end = w
    BY <1>0, <1>2, <1>4, WithEndsFields
  <1>6. PICK R : R = WithEp(S, e, D)
    OBVIOUS
  <1>7. R = MgReset(S, e, MgEnds)
    BY <1>1, <1>4, <1>6, ResetIs
  <1>8. R.ep[e] = D
    BY <1>5, <1>6, WithEpFields
  <1>9. T = [R EXCEPT !.ep[e] = E]
    BY <1>3, <1>5, <1>7, <1>8 DEF mgcp_free_endp, WithEnds
  <1>10. T = WithEp(S, e, E)
    BY <1>6, <1>9 DEF WithEp, MgState
  <1>11. /\ E \in Endp /\ E.end = w /\ E.allocated = MgEndpoint.allocated /\ E.ci = MgEndpoint.ci /\ E.callid = MgEndpoint.callid
         /\ E.conn_mode = MgEndpoint.conn_mode /\ E.is_transcoded = MgEndpoint.is_transcoded
         /\ E.allow_patch = MgEndpoint.allow_patch /\ E.state = MgEndpoint.state
    BY <1>2, <1>3, InitialEndp, WithEndsFields
  <1>12. ~E.allocated /\ E.ci = 0 /\ E.callid = 0 /\ E.conn_mode = "NONE" /\ ~E.is_transcoded /\ ~E.allow_patch
         /\ \A to \in Sides : E.state[to] = MgRtp
    BY <1>11 DEF MgEndpoint, Sides
  <1>13. Unused(E)
    BY <1>2, <1>11, <1>12 DEF Unused
  <1>14. Ports(E)
    BY <1>2, <1>11, <1>12 DEF Ports, Bound, Held, Wanted
  <1>15. Freed(E)
    BY <1>11, <1>12, <1>13, <1>14 DEF Freed
  <1>16. T.ep[e] = E /\ Alone(S, T, e)
    BY <1>10, <1>11, WithEpFields DEF Alone
  <1> QED BY <1>10, <1>15, <1>16
-----------------------------------------------------------------------------
(* Ports *)

\* A set of numbers has a least one.
LEMMA LeastIsIn ==
    ASSUME NEW X \in SUBSET Nat, X # {} PROVE Min(X) \in X /\ \A y \in X : Min(X) <= y
  <1>1. PICK R : R = StrictSubsetOrdering(Nat) /\ IsWellFoundedOn(R, FiniteSubsetsOf(Nat))
    BY FS_StrictSubsetOrderingWellFounded
  <1>2. PICK Y : Y = {0..(x - 1) : x \in X}
    OBVIOUS
  <1>3. Y \subseteq FiniteSubsetsOf(Nat) /\ Y # {}
    <2>1. ASSUME NEW x \in X PROVE 0..(x - 1) \in FiniteSubsetsOf(Nat)
      <3>1. IsFiniteSet(0..(x - 1))
        BY FS_Interval
      <3> QED BY <3>1 DEF FiniteSubsetsOf
    <2> QED BY <1>2, <2>1
  <1>4. PICK a \in Y : \A b \in Y : ~(<<b, a>> \in R)
    BY <1>1, <1>3, WFMin
  <1>5. PICK x \in X : a = 0..(x - 1)
    BY <1>2
  <1>6. \A y \in X : x <= y
    <2> SUFFICES ASSUME NEW y \in X, y < x PROVE FALSE
      OBVIOUS
    <2>1. PICK b : b = 0..(y - 1)
      OBVIOUS
    <2>2. b \in Y /\ b \subseteq Nat /\ a \subseteq Nat /\ b \subseteq a /\ y \in a /\ y \notin b
      BY <1>2, <1>5, <2>1
    <2>3. <<b, a>> \in R
      BY <1>1, <2>2 DEF StrictSubsetOrdering
    <2> QED BY <1>4, <2>2, <2>3
  <1> QED BY <1>6 DEF Min

\* Only end n has changed, its peer has not.
OneEnd(E, F, n) ==
    /\ F \in Endp /\ F = WithEnds(E, F.end) /\ F.end[n].peer = E.end[n].peer
    /\ \A k \in MgEnds \ {n} : F.end[k] = E.end[k]
    /\ Bound(E) => Bound(F)

\* S with a port taken.
WithPort(S, r, p) == [S EXCEPT !.last_port[r] = p]
LEMMA WithPortFields ==
    ASSUME NEW S \in MgState, NEW r \in Ranges, NEW p \in Nat, NEW T, T = WithPort(S, r, p)
    PROVE  /\ T \in MgState /\ T.ep = S.ep /\ T.last_call_id = S.last_call_id /\ T.trans = S.trans /\ T.call = S.call
           /\ T.heard = S.heard /\ T.out = S.out /\ T.jump = S.jump
  BY DEF WithPort, MgState

\* Another end n of an endpoint.
LEMMA EndChanged ==
    ASSUME NEW E \in Endp, NEW n \in MgEnds, NEW d \in End, d.peer = E.end[n].peer,
           ~mgEnv.static => (d.local_alloc = "DYNAMIC" <=> d.fd # -1),
           NEW F, F = WithEnds(E, [E.end EXCEPT ![n] = d])
    PROVE  OneEnd(E, F, n) /\ F.end[n] = d
  <1>1. E.end \in [MgEnds -> End]
    BY EndpFields
  <1>2. PICK w : w = [E.end EXCEPT ![n] = d]
    OBVIOUS
  <1>3. w \in [MgEnds -> End] /\ w[n] = d /\ \A k \in MgEnds \ {n} : w[k] = E.end[k]
    BY <1>1, <1>2
  <1>4. F \in Endp /\ F.end = w /\ F = WithEnds(E, w)
    BY <1>2, <1>3, WithEndsFields
  <1>5. Bound(E) => Bound(F)
    BY <1>3, <1>4 DEF Bound
  <1> QED BY <1>3, <1>4, <1>5 DEF OneEnd

LEMMA PortFields ==
    ASSUME NEW S \in MgState, NEW e \in MgEndp, NEW n \in MgEnds, NEW r, r = allocate_port(S, e, n)
    PROVE  /\ Alone(S, r.S, e) /\ OneEnd(S.ep[e], r.S.ep[e], n) /\ r.ok \in BOOLEAN
           /\ r.ok /\ ~mgEnv.static => r.S.ep[e].end[n].fd # -1
           /\ ~r.ok => r.S = S
  <1> DEFINE rg == MgRange(n)
             free == MgUnbound(S, rg)
  <1>0. S.ep[e] \in Endp /\ S.ep[e].end \in [MgEnds -> End] /\ S.ep[e].end[n] \in End /\ S.last_port \in [Ranges -> Nat]
    BY StateFields, EndpFields
  <1>1. CASE mgEnv.static
    <2>1. PICK d : d = [S.ep[e].end[n] EXCEPT !.local_alloc = "STATIC"]
      OBVIOUS
    <2>2. d \in End /\ d.peer = S.ep[e].end[n].peer
      BY <1>0, <2>1 DEF End
    <2>3. PICK F : F = WithEnds(S.ep[e], [S.ep[e].end EXCEPT ![n] = d])
      OBVIOUS
    <2>4. OneEnd(S.ep[e], F, n)
      BY <1>0, <1>1, <2>2, <2>3, EndChanged
    <2>5. r.ok /\ r.S = [S EXCEPT !.ep[e].end[n].local_alloc = "STATIC"]
      <3>1. r = [ok |-> TRUE, S |-> MgStatic(S, e, n)]
        BY <1>1 DEF allocate_port
      <3> QED BY <3>1 DEF MgStatic
    <2>6. r.S = WithEp(S, e, F)
      BY <2>1, <2>3, <2>5 DEF WithEp, WithEnds
    <2>7. F \in Endp
      BY <2>4 DEF OneEnd
    <2>8. Alone(S, r.S, e) /\ r.S.ep[e] = F
      BY <2>6, <2>7, WithEpFields DEF Alone
    <2> QED BY <1>1, <2>4, <2>5, <2>8
  <1>2. CASE ~mgEnv.static /\ free = {}
    <2>1. r = MgFail(S)
      BY <1>2 DEF allocate_port
    <2>2. Alone(S, S, e)
      BY DEF Alone
    <2>3. OneEnd(S.ep[e], S.ep[e], n)
      BY <1>0 DEF OneEnd, WithEnds, Endp
    <2> QED BY <2>1, <2>2, <2>3 DEF MgFail
  <1>3. CASE ~mgEnv.static /\ free # {}
    <2>1. PICK i : i = Min(free)
      OBVIOUS
    <2>2. i \in free
      <3>1. free \in SUBSET Nat
        BY Bounds DEF MgUnbound
      <3> QED BY <1>3, <2>1, <3>1, LeastIsIn
    <2>3. PICK p : p = MgPair(S, rg, i)
      OBVIOUS
    <2>4. rg \in Ranges
      BY DEF MgRange, Ranges
    <2>5. MgPairs \in Nat \ {0} /\ i \in Nat /\ S.last_port[rg] \in Nat
      BY <1>0, <2>2, <2>4, Bounds DEF MgUnbound
    <2>6. p \in 0..(MgPairs - 1) /\ (p + 1) % MgPairs \in Nat
      BY <2>3, <2>5 DEF MgPair
    <2>7. PICK U : U = WithPort(S, rg, (p + 1) % MgPairs)
      OBVIOUS
    <2>8. U \in MgState /\ U.ep = S.ep /\ Alone(S, U, e)
      BY <2>4, <2>6, <2>7, WithPortFields DEF Alone
    <2>9. r.ok /\ r.S = int_bind(U, e, n, p)
      <3>1. r = [ok |-> TRUE, S |-> MgDynamic(S, e, n, Min(free))]
        BY <1>3 DEF allocate_port
      <3>2. MgDynamic(S, e, n, i) = int_bind([S EXCEPT !.last_port[rg] = (MgPair(S, rg, i) + 1) % MgPairs], e, n, MgPair(S, rg, i))
        BY DEF MgDynamic
      <3> HIDE DEF free
      <3> QED BY <2>1, <2>3, <2>7, <3>1, <3>2 DEF WithPort
    <2> HIDE DEF free, rg
    <2>10. PICK d : d = [S.ep[e].end[n] EXCEPT !.fd = p, !.local_alloc = "DYNAMIC"]
      OBVIOUS
    <2>11. p # -1 /\ p \in Fd
      BY <2>5, <2>6 DEF Fd
    <2>12. d \in End /\ d.peer = S.ep[e].end[n].peer /\ d.local_alloc = "DYNAMIC" /\ d.fd = p
      BY <1>0, <2>10, <2>11 DEF End
    <2>13. PICK F : F = WithEnds(S.ep[e], [S.ep[e].end EXCEPT ![n] = d])
      OBVIOUS
    <2>14. OneEnd(S.ep[e], F, n) /\ F.end[n] = d
      BY <1>0, <2>11, <2>12, <2>13, EndChanged
    <2>15. d = [mgcp_free_rtp_port(S.ep[e].end[n]) EXCEPT !.fd = p, !.local_alloc = "DYNAMIC"]
      BY <1>0, <2>10 DEF mgcp_free_rtp_port, End
    <2>16. r.S = WithEp(U, e, F)
      BY <2>8, <2>9, <2>13, <2>15 DEF int_bind, WithEp, WithEnds
    <2>17. F \in Endp
      BY <2>14 DEF OneEnd
    <2>18. Alone(U, r.S, e) /\ r.S.ep[e] = F
      BY <2>8, <2>16, <2>17, WithEpFields DEF Alone
    <2> QED BY <2>8, <2>9, <2>11, <2>12, <2>14, <2>18, AloneTrans
  <1> QED BY <1>1, <1>2, <1>3
\* Beside its ends, only whether it is transcoded may have changed of the endpoint.
SameEp(E, F) ==
    /\ F \in Endp /\ F.allocated = E.allocated /\ F.ci = E.ci /\ F.callid = E.callid /\ F.conn_mode = E.conn_mode
    /\ F.orig_mode = E.orig_mode /\ F.allow_patch = E.allow_patch /\ F.state = E.state
SamePeers(E, F) == \A n \in MgEnds : F.end[n].peer = E.end[n].peer
LEMMA OneEndSame ==
    ASSUME NEW E \in Endp, NEW F, NEW n \in MgEnds, OneEnd(E, F, n)
    PROVE  /\ SameEp(E, F) /\ SamePeers(E, F) /\ F.is_transcoded = E.is_transcoded /\ (Bound(E) => Bound(F))
           /\ F.end[n].fd # -1 => Held(F) = Held(E) \cup {n}
  <1>1. F.end \in [MgEnds -> End]
    BY EndpFields DEF OneEnd
  <1>2. SameEp(E, F) /\ F.is_transcoded = E.is_transcoded
    BY <1>1, WithEndsFields DEF OneEnd, SameEp
  <1>3. SamePeers(E, F) /\ (F.end[n].fd # -1 => Held(F) = Held(E) \cup {n})
    BY DEF OneEnd, SamePeers, Held
  <1> QED BY <1>2, <1>3 DEF OneEnd
LEMMA ResetSame ==
    ASSUME NEW S \in MgState, NEW e \in MgEndp, NEW N \in SUBSET MgEnds, Bound(S.ep[e]), NEW T, T = MgReset(S, e, N)
    PROVE  Alone(S, T, e) /\ SameEp(S.ep[e], T.ep[e]) /\ T.ep[e].is_transcoded = S.ep[e].is_transcoded /\ Bound(T.ep[e])
  <1>1. S.ep[e] \in Endp
    BY StateFields
  <1>2. PICK w : w = ResetEnds(S.ep[e], N)
    OBVIOUS
  <1>3. /\ w \in [MgEnds -> End]
        /\ \A n \in MgEnds : ~mgEnv.static => (w[n].local_alloc = "DYNAMIC" <=> w[n].fd # -1)
    BY <1>1, <1>2, ResetEndsFields
  <1>4. PICK F : F = WithEnds(S.ep[e], w)
    OBVIOUS
  <1>5. SameEp(S.ep[e], F) /\ F.is_transcoded = S.ep[e].is_transcoded /\ F.end = w /\ F \in Endp
    BY <1>1, <1>3, <1>4, WithEndsFields DEF SameEp
  <1>6. T = WithEp(S, e, F)
    BY <1>2, <1>4, ResetIs
  <1>7. Alone(S, T, e) /\ T.ep[e] = F
    BY <1>5, <1>6, WithEpFields DEF Alone
  <1> QED BY <1>3, <1>5, <1>7 DEF Bound
LEMMA SameTrans ==
    ASSUME NEW E, NEW F, NEW G, SameEp(E, F), SameEp(F, G)
    PROVE  SameEp(E, G) /\ (SamePeers(E, F) /\ SamePeers(F, G) => SamePeers(E, G))
  BY DEF SameEp, SamePeers

\* One more port of the endpoint: the state beside S, the endpoint beside what it was before the first.
Took(S, T, e, N) ==
    /\ Alone(S, T, e) /\ SameEp(S.ep[e], T.ep[e]) /\ SamePeers(S.ep[e], T.ep[e]) /\ Bound(T.ep[e])
    /\ T.ep[e].is_transcoded = S.ep[e].is_transcoded
    /\ ~mgEnv.static => Held(T.ep[e]) = N
LEMMA TakesPort ==
    ASSUME NEW S \in MgState, NEW T, NEW e \in MgEndp, NEW N, Took(S, T, e, N), NEW n \in MgEnds, NEW M, M = N \cup {n},
           NEW r, r = allocate_port(T, e, n)
    PROVE  /\ r.ok \in BOOLEAN /\ (r.ok => Took(S, r.S, e, M)) /\ (~r.ok => r.S = T)
  <1>1. T \in MgState /\ T.ep[e] \in Endp
    BY StateFields DEF Took, Alone
  <1>2. /\ Alone(T, r.S, e) /\ OneEnd(T.ep[e], r.S.ep[e], n) /\ r.ok \in BOOLEAN
        /\ r.ok /\ ~mgEnv.static => r.S.ep[e].end[n].fd # -1
        /\ ~r.ok => r.S = T
    BY <1>1, PortFields
  <1>3. PICK F : F = r.S.ep[e]
    OBVIOUS
  <1>4. /\ SameEp(T.ep[e], F) /\ SamePeers(T.ep[e], F) /\ F.is_transcoded = T.ep[e].is_transcoded /\ (Bound(T.ep[e]) => Bound(F))
        /\ F.end[n].fd # -1 => Held(F) = Held(T.ep[e]) \cup {n}
    BY <1>1, <1>2, <1>3, OneEndSame
  <1>5. Alone(S, r.S, e) /\ SameEp(S.ep[e], F) /\ SamePeers(S.ep[e], F)
    BY <1>2, <1>4, AloneTrans, SameTrans DEF Took
  <1>6. r.ok /\ ~mgEnv.static => Held(F) = N \cup {n}
    BY <1>2, <1>3, <1>4 DEF Took
  <1> QED BY <1>2, <1>3, <1>4, <1>5, <1>6 DEF Took
Failed(S, T, e) == Alone(S, T, e) /\ Bound(T.ep[e])
\* An attempt that fails half-way leaves nothing but what mgcp_free_endp() frees.
LEMMA GivesUp ==
    ASSUME NEW S \in MgState, NEW T, NEW e \in MgEndp, NEW N, Took(S, T, e, N), NEW K \in SUBSET MgEnds,
           NEW r, r = MgFail(MgReset(T, e, K))
    PROVE  r.ok = FALSE /\ Failed(S, r.S, e)
  <1>1. T \in MgState /\ Bound(T.ep[e]) /\ Alone(S, T, e)
    BY DEF Took, Alone
  <1>2. r.ok = FALSE /\ r.S = MgReset(T, e, K)
    BY DEF MgFail
  <1>3. Alone(T, r.S, e) /\ Bound(r.S.ep[e])
    BY <1>1, <1>2, ResetSame
  <1> QED BY <1>1, <1>2, <1>3, AloneTrans DEF Failed

\* allocate_ports(): all ports the endpoint needs, or none.
LEMMA PortsFields ==
    ASSUME NEW S \in MgState, NEW e \in MgEndp, Bound(S.ep[e]), ~mgEnv.static => Held(S.ep[e]) = {},
           ~S.ep[e].is_transcoded, NEW r, r = allocate_ports(S, e)
    PROVE  /\ Alone(S, r.S, e) /\ Bound(r.S.ep[e]) /\ r.ok \in BOOLEAN
           /\ r.ok => /\ SameEp(S.ep[e], r.S.ep[e]) /\ SamePeers(S.ep[e], r.S.ep[e])
                      /\ ~mgEnv.static => Held(r.S.ep[e]) = IF r.S.ep[e].is_transcoded THEN MgEnds ELSE {"net_end", "bts_end"}
  <1>0. S.ep[e] \in Endp /\ Took(S, S, e, {})
    BY StateFields DEF Took, Alone, SameEp, SamePeers
  <1>1. PICK a, b : a = allocate_port(S, e, "net_end") /\ b = allocate_port(a.S, e, "bts_end")
    OBVIOUS
  <1>2. PICK c, d : c = allocate_port(b.S, e, "trans_net") /\ d = allocate_port(c.S, e, "trans_bts")
    OBVIOUS
  <1>3. r = IF ~a.ok THEN a
            ELSE IF ~b.ok THEN MgFail(MgReset(b.S, e, {"net_end"}))
            ELSE IF ~mgEnv.transcoder THEN b
            ELSE IF ~c.ok THEN MgFail(MgReset(c.S, e, {"net_end", "bts_end"}))
            ELSE IF ~d.ok THEN MgFail(MgReset(d.S, e, {"net_end", "bts_end", "trans_net"}))
            ELSE [ok |-> TRUE, S |-> [d.S EXCEPT !.ep[e].is_transcoded = TRUE]]
    BY <1>1, <1>2 DEF allocate_ports
  <1>a. "net_end" \in MgEnds /\ "bts_end" \in MgEnds /\ "trans_net" \in MgEnds /\ "trans_bts" \in MgEnds
    BY DEF MgEnds
  <1>b. PICK N1, N2, N3 : N1 = {"net_end"} /\ N2 = {"net_end", "bts_end"} /\ N3 = {"net_end", "bts_end", "trans_net"}
    OBVIOUS
  <1>c. /\ N1 = {} \cup {"net_end"} /\ N2 = N1 \cup {"bts_end"} /\ N3 = N2 \cup {"trans_net"} /\ MgEnds = N3 \cup {"trans_bts"}
        /\ N1 \in SUBSET MgEnds /\ N2 \in SUBSET MgEnds /\ N3 \in SUBSET MgEnds
    BY <1>b DEF MgEnds
  <1>4. a.ok \in BOOLEAN /\ (a.ok => Took(S, a.S, e, N1)) /\ (~a.ok => a.S = S)
    BY <1>0, <1>1, <1>a, <1>c, TakesPort
  <1>5. CASE ~a.ok
    BY <1>0, <1>3, <1>4, <1>5 DEF Took
  <1>6. a.ok => b.ok \in BOOLEAN /\ (b.ok => Took(S, b.S, e, N2)) /\ (~b.ok => b.S = a.S)
    BY <1>1, <1>4, <1>a, <1>c, TakesPort
  <1>7. CASE a.ok /\ ~b.ok
    <2>1. Took(S, b.S, e, N1)
      BY <1>4, <1>6, <1>7
    <2>2. r = MgFail(MgReset(b.S, e, N1))
      BY <1>3, <1>7, <1>b
    <2>3. r.ok = FALSE /\ Failed(S, r.S, e)
      BY <1>c, <2>1, <2>2, GivesUp
    <2> QED BY <2>3 DEF Failed
  <1>9. CASE a.ok /\ b.ok /\ ~mgEnv.transcoder
    BY <1>3, <1>6, <1>9, <1>b DEF Took
  <1>10. a.ok /\ b.ok => c.ok \in BOOLEAN /\ (c.ok => Took(S, c.S, e, N3)) /\ (~c.ok => c.S = b.S)
    BY <1>2, <1>6, <1>a, <1>c, TakesPort
  <1>11. CASE a.ok /\ b.ok /\ mgEnv.transcoder /\ ~c.ok
    <2>1. Took(S, c.S, e, N2)
      BY <1>6, <1>10, <1>11
    <2>2. r = MgFail(MgReset(c.S, e, N2))
      BY <1>3, <1>11, <1>b
    <2>3. r.ok = FALSE /\ Failed(S, r.S, e)
      BY <1>c, <2>1, <2>2, GivesUp
    <2> QED BY <2>3 DEF Failed
  <1>12. a.ok /\ b.ok /\ c.ok => d.ok \in BOOLEAN /\ (d.ok => Took(S, d.S, e, MgEnds)) /\ (~d.ok => d.S = c.S)
    BY <1>2, <1>10, <1>a, <1>c, TakesPort
  <1>13. CASE a.ok /\ b.ok /\ mgEnv.transcoder /\ c.ok /\ ~d.ok
    <2>1. Took(S, d.S, e, N3)
      BY <1>10, <1>12, <1>13
    <2>2. r = MgFail(MgReset(d.S, e, N3))
      BY <1>3, <1>13, <1>b
    <2>3. r.ok = FALSE /\ Failed(S, r.S, e)
      BY <1>c, <2>1, <2>2, GivesUp
    <2> QED BY <2>3 DEF Failed
  <1>14. CASE a.ok /\ b.ok /\ mgEnv.transcoder /\ c.ok /\ d.ok
    <2>1. r.ok /\ r.S = [d.S EXCEPT !.ep[e].is_transcoded = TRUE]
      BY <1>3, <1>14
    <2>2. PICK D : D = d.S
      OBVIOUS
    <2>3. Took(S, D, e, MgEnds)
      BY <1>12, <1>14, <2>2
    <2>4. PICK E, F : E = D.ep[e] /\ F = [E EXCEPT !.is_transcoded = TRUE]
      OBVIOUS
    <2>5. D \in MgState /\ E \in Endp
      BY <2>3, <2>4, StateFields DEF Took, Alone
    <2>6. F \in Endp /\ F.is_transcoded /\ F.end = E.end /\ SameEp(E, F)
      BY <2>4, <2>5 DEF Endp, SameEp
    <2>7. r.S = WithEp(D, e, F)
      BY <2>1, <2>2, <2>4 DEF WithEp
    <2>8. Alone(D, r.S, e) /\ r.S.ep[e] = F
      BY <2>5, <2>6, <2>7, WithEpFields DEF Alone
    <2>9. SamePeers(E, F) /\ Bound(F) /\ Held(F) = Held(E)
      BY <2>3, <2>4, <2>6 DEF SamePeers, Bound, Held, Took
    <2>10. Alone(S, r.S, e) /\ SameEp(S.ep[e], F) /\ SamePeers(S.ep[e], F)
      BY <2>3, <2>4, <2>6, <2>8, <2>9, AloneTrans, SameTrans DEF Took
    <2>11. ~mgEnv.static => Held(F) = MgEnds
      BY <2>3, <2>4, <2>9 DEF Took
    <2> QED BY <2>1, <2>6, <2>8, <2>9, <2>10, <2>11
  <1> QED BY <1>4, <1>5, <1>6, <1>7, <1>9, <1>10, <1>11, <1>12, <1>13, <1>14

-----------------------------------------------------------------------------
(* Commands *)

\* generate_call_id(): an identifier that no endpoint has.
LEMMA NewId ==
    ASSUME NEW S \in MgState, NEW id, id = generate_call_id(S)
    PROVE  id \in 1..MgIds /\ \A e \in MgEndp : S.ep[e].ci # id
  <1>1. PICK N, I : /\ N = {i \in 0..(MgIds - 1) : \A e \in MgEndp : S.ep[e].ci # MgId(S, i)}
                    /\ I = 1..MgIds
    OBVIOUS
  <1>2. MgIds \in Nat \ {0} /\ S.last_call_id \in 0..MgIds
    BY Bounds, StateFields
  <1>3. \A i \in 0..(MgIds - 1) : MgId(S, i) \in I
    BY <1>1, <1>2 DEF MgId
  <1>4. \A k \in I : \E i \in 0..(MgIds - 1) : MgId(S, i) = k
    <2> SUFFICES ASSUME NEW k \in I PROVE \E i \in 0..(MgIds - 1) : MgId(S, i) = k
      OBVIOUS
    <2>1. PICK a : a = S.last_call_id
      OBVIOUS
    <2>2. CASE a <= k - 1
      <3>1. PICK i \in 0..(MgIds - 1) : i = k - 1 - a
        BY <1>1, <1>2, <2>1, <2>2
      <3>2. a + i \in 0..(MgIds - 1)
        BY <1>1, <1>2, <2>1, <3>1
      <3>3. (a + i) % MgIds = a + i
        BY <1>2, <3>2
      <3>4. MgId(S, i) = k
        BY <1>1, <1>2, <2>1, <3>1, <3>3 DEF MgId
      <3> QED BY <3>4
    <2>3. CASE a > k - 1
      <3>1. PICK i \in 0..(MgIds - 1) : i = MgIds + k - 1 - a
        BY <1>1, <1>2, <2>1, <2>3
      <3>2. PICK x \in 0..(MgIds - 1) : x = k - 1 /\ a + i = MgIds + x
        BY <1>1, <1>2, <2>1, <3>1
      <3>3. (MgIds + x) % MgIds = x
        BY <1>2
      <3>4. MgId(S, i) = k
        BY <1>1, <1>2, <2>1, <3>2, <3>3 DEF MgId
      <3> QED BY <3>4
    <2> QED BY <1>1, <1>2, <2>1, <2>2, <2>3
  <1>5. N # {}
    <2> SUFFICES ASSUME N = {} PROVE FALSE
      OBVIOUS
    <2>1. \A k \in I : \E e \in MgEndp : S.ep[e].ci = k
      BY <1>1, <1>4
    <2>2. PICK f : f = [e \in MgEndp |-> IF S.ep[e].ci \in I THEN S.ep[e].ci ELSE 1]
      OBVIOUS
    <2>3. 1 \in I
      BY <1>1, <1>2
    <2>4. f \in [MgEndp -> I] /\ \A k \in I : \E e \in MgEndp : f[e] = k
      BY <2>1, <2>2, <2>3
    <2>5. f \in Surjection(MgEndp, I)
      BY <2>4 DEF Surjection
    <2>6. IsFiniteSet(I) /\ Cardinality(I) <= Cardinality(MgEndp)
      BY <2>5, Bounds, FS_Surjection
    <2>7. Cardinality(I) = MgIds
      BY <1>1, <1>2, FS_Interval
    <2> QED BY <2>6, <2>7, Bounds
  <1>6. PICK i : i = Min(N)
    OBVIOUS
  <1>7. i \in N
    <2>1. N \in SUBSET Nat
      BY <1>1, <1>2
    <2> QED BY <1>5, <1>6, <2>1, LeastIsIn
  <1>8. id = MgId(S, i)
    BY <1>1, <1>6 DEF generate_call_id
  <1> QED BY <1>1, <1>3, <1>7, <1>8

\* An endpoint that call c has just been given.
Fresh(E, c) ==
    /\ E \in Endp /\ E.allocated /\ E.callid = c /\ E.ci # 0 /\ Ports(E) /\ E.conn_mode = "recvonly"
    /\ E.end["net_end"].peer = 0 /\ E.end["bts_end"].peer = 0 /\ \A to \in Sides : E.state[to] = MgRtp
\* What commands rely on of an endpoint.
EpFine(E) == E \in Endp /\ Ports(E) /\ Used(E)

\* The endpoint becomes free (if it is not), and call c and the mode are put down.
Noted(E, c, mode) == [E EXCEPT !.callid = c, !.conn_mode = mode]
LEMMA NotedFields ==
    ASSUME NEW E \in Endp, NEW c \in 1..MgMax, NEW mode \in Modes, NEW F, F = Noted(E, c, mode)
    PROVE  /\ F \in Endp /\ F.callid = c /\ F.conn_mode = mode /\ F.end = E.end /\ F.state = E.state
           /\ F.allocated = E.allocated /\ F.ci = E.ci /\ F.is_transcoded = E.is_transcoded
  <1>1. c \in 0..MgMax
    BY Bounds
  <1> QED BY <1>1 DEF Noted, Endp
\* It gets its identifier.
Named(E, id) == [E EXCEPT !.ci = id, !.allocated = TRUE]
LEMMA NamedFields ==
    ASSUME NEW E \in Endp, NEW id \in 1..MgIds, NEW F, F = Named(E, id)
    PROVE  /\ F \in Endp /\ F.callid = E.callid /\ F.conn_mode = E.conn_mode /\ F.end = E.end /\ F.state = E.state
           /\ F.allocated /\ F.ci = id /\ F.is_transcoded = E.is_transcoded
  <1>1. id \in 0..MgIds
    BY Bounds
  <1> QED BY <1>1 DEF Named, Endp
\* S with another identifier given last.
WithId(S, id) == [S EXCEPT !.last_call_id = id]
LEMMA WithIdFields ==
    ASSUME NEW S \in MgState, NEW id \in 1..MgIds, NEW T, T = WithId(S, id)
    PROVE  T \in MgState /\ T.ep = S.ep /\ T.call = S.call /\ T.heard = S.heard /\ T.out = S.out /\ T.jump = S.jump
  BY SMTT(60) DEF WithId, MgState

\* create_transcoder(): the peers of the transcoder's ends.
LEMMA TranscoderFields ==
    ASSUME NEW S \in MgState, NEW e \in MgEndp, NEW c \in 1..MgMax, Fresh(S.ep[e], c), NEW T, T = create_transcoder(S, e)
    PROVE  Alone(S, T, e) /\ Fresh(T.ep[e], c) /\ T.ep[e].ci = S.ep[e].ci
  <1>0. S.ep[e] \in Endp /\ S.ep[e].end \in [MgEnds -> End] /\ S.trans \subseteq MgEndp
    BY StateFields, EndpFields
  <1>1. CASE ~S.ep[e].is_transcoded
    BY <1>1 DEF create_transcoder, Alone
  <1>2. CASE S.ep[e].is_transcoded
    <2>1. PICK E : E = S.ep[e]
      OBVIOUS
    <2>2. PICK w : w = [n \in MgEnds |-> IF MgRange(n) = "transcoder" THEN [E.end[n] EXCEPT !.peer = c] ELSE E.end[n]]
      OBVIOUS
    <2>3. \A n \in MgEnds : E.end[n] \in End
      BY <1>0, <2>1
    <2>4. \A n \in MgEnds : [E.end[n] EXCEPT !.peer = c] \in End
      BY <2>3, Bounds DEF End
    <2>5. w \in [MgEnds -> End] /\ \A n \in MgEnds : w[n] = IF MgRange(n) = "transcoder" THEN [E.end[n] EXCEPT !.peer = c] ELSE E.end[n]
      BY <2>2, <2>3, <2>4
    <2>6. \A n \in MgEnds : w[n].fd = E.end[n].fd /\ w[n].local_alloc = E.end[n].local_alloc
      BY <2>3, <2>5 DEF End
    <2>7. w["net_end"] = E.end["net_end"] /\ w["bts_end"] = E.end["bts_end"]
      BY <2>5 DEF MgEnds, MgRange
    <2>8. PICK F : F = WithEnds(E, w)
      OBVIOUS
    <2>9. /\ F \in Endp /\ F.end = w /\ F.allocated = E.allocated /\ F.ci = E.ci /\ F.callid = E.callid
          /\ F.conn_mode = E.conn_mode /\ F.is_transcoded = E.is_transcoded /\ F.state = E.state
      BY <1>0, <2>1, <2>5, <2>8, WithEndsFields
    <2>10. Ports(F)
      <3>1. Ports(E)
        BY <2>1 DEF Fresh
      <3>2. Held(F) = Held(E) /\ Wanted(F) = Wanted(E)
        BY <2>6, <2>9 DEF Held, Wanted
      <3>3. Bound(E) => Bound(F)
        BY <2>6, <2>9 DEF Bound
      <3> QED BY <3>1, <3>2, <3>3 DEF Ports
    <2>11. Fresh(F, c)
      BY <2>1, <2>7, <2>9, <2>10 DEF Fresh
    <2>12. PICK U : U = [S EXCEPT !.trans = @ \cup {e}]
      OBVIOUS
    <2>13. U \in MgState /\ Alone(S, U, e) /\ U.ep = S.ep
      BY <2>12 DEF MgState, Alone
    <2>14. T = WithEp(U, e, F)
      BY <1>2, <2>1, <2>2, <2>8, <2>12 DEF create_transcoder, WithEp, WithEnds, Fresh
    <2>15. Alone(U, T, e) /\ T.ep[e] = F
      BY <2>9, <2>13, <2>14, WithEpFields DEF Alone
    <2> QED BY <2>1, <2>9, <2>11, <2>13, <2>15, AloneTrans
  <1> QED BY <1>0, <1>1, <1>2 DEF Endp

\* MgTaken(): the endpoint is given to the call, or it is free.
LEMMA TakenFields ==
    ASSUME NEW S \in MgState, NEW e \in MgEndp, EpFine(S.ep[e]), NEW c \in 1..MgMax, NEW mode \in {"recvonly", "unknown"},
           NEW policy, NEW r, r = MgTaken(S, e, c, mode, policy)
    PROVE  /\ r.ok \in BOOLEAN /\ Alone(S, r.S, e)
           /\ r.ok => Fresh(r.S.ep[e], c) /\ \A f \in MgEndp \ {e} : S.ep[f].ci # r.S.ep[e].ci
           /\ ~r.ok => Freed(r.S.ep[e])
  <1>1. PICK T : T = MgCleared(S, e)
    OBVIOUS
  <1>2. /\ Alone(S, T, e) /\ T.ep[e] \in Endp /\ ~T.ep[e].allocated /\ T.ep[e].ci = 0 /\ Unused(T.ep[e]) /\ Ports(T.ep[e])
    <2>1. CASE S.ep[e].allocated
      <3>1. T = mgcp_free_endp(S, e) /\ Bound(S.ep[e])
        BY <1>1, <2>1 DEF MgCleared, EpFine, Ports
      <3>2. Alone(S, T, e) /\ Freed(T.ep[e])
        BY <3>1, FreeFields
      <3> QED BY <3>2 DEF Freed
    <2>2. CASE ~S.ep[e].allocated
      <3>1. T = S
        BY <1>1, <2>2 DEF MgCleared
      <3> QED BY <2>2, <3>1 DEF EpFine, Alone, Used
    <2> QED BY <2>1, <2>2
  <1>3. PICK N : N = Noted(T.ep[e], c, mode)
    OBVIOUS
  <1>4. /\ N \in Endp /\ N.callid = c /\ N.conn_mode = mode /\ N.end = T.ep[e].end /\ N.state = T.ep[e].state
        /\ N.allocated = T.ep[e].allocated /\ N.ci = T.ep[e].ci /\ N.is_transcoded = T.ep[e].is_transcoded
    <2>1. mode \in Modes
      BY DEF Modes
    <2> QED BY <1>2, <1>3, <2>1, NotedFields
  <1>5. T \in MgState
    BY <1>2 DEF Alone
  <1>6. PICK U : U = WithEp(T, e, N)
    OBVIOUS
  <1>7. U \in MgState /\ U.ep[e] = N /\ Alone(T, U, e) /\ Alone(S, U, e)
    <2>1. U \in MgState /\ U.ep[e] = N /\ Alone(T, U, e)
      BY <1>4, <1>5, <1>6, WithEpFields DEF Alone
    <2> QED BY <1>2, <2>1, AloneTrans
  <1>8. Bound(N) /\ (~mgEnv.static => Held(N) = {}) /\ ~N.is_transcoded
    BY <1>2, <1>4 DEF Bound, Ports, Held, Wanted, Unused
  <1>9. PICK p : p = allocate_ports(U, e)
    OBVIOUS
  <1>10. /\ Alone(U, p.S, e) /\ Bound(p.S.ep[e]) /\ p.ok \in BOOLEAN
         /\ p.ok => /\ SameEp(N, p.S.ep[e]) /\ SamePeers(N, p.S.ep[e])
                    /\ ~mgEnv.static => Held(p.S.ep[e]) = IF p.S.ep[e].is_transcoded THEN MgEnds ELSE {"net_end", "bts_end"}
    BY <1>7, <1>8, <1>9, PortsFields
  <1>11. PICK P : P = p.S
    OBVIOUS
  <1>12. Alone(S, P, e) /\ P \in MgState /\ P.ep[e] \in Endp
    BY <1>7, <1>10, <1>11, AloneTrans, StateFields DEF Alone
  <1>13. PICK id : id = generate_call_id(P)
    OBVIOUS
  <1>14. id \in 1..MgIds /\ \A f \in MgEndp : P.ep[f].ci # id
    BY <1>12, <1>13, NewId
  <1>15. PICK M, W : M = Named(P.ep[e], id) /\ W = WithId(P, id)
    OBVIOUS
  <1>16. PICK V : V = WithEp(W, e, M)
    OBVIOUS
  <1>17. V = [P EXCEPT !.last_call_id = id, !.ep[e].ci = id, !.ep[e].allocated = TRUE]
    BY <1>12, <1>15, <1>16 DEF WithEp, WithId, Named, MgState
  <1>18. r = IF ~parse_conn_mode(mode) \/ ~p.ok THEN create_err_response(mgcp_free_endp(P, e))
             ELSE IF policy = "REJECT" THEN create_err_response(mgcp_free_endp(V, e))
             ELSE create_response_with_sdp(create_transcoder(V, e))
    <2>1. U = [T EXCEPT !.ep[e].callid = c, !.ep[e].conn_mode = mode]
      BY <1>3, <1>5, <1>6 DEF WithEp, Noted, MgState
    <2>2. r = MgGive(U, e, mode, policy)
      BY <1>1, <2>1 DEF MgTaken
    <2> QED BY <1>9, <1>11, <1>13, <1>17, <2>2, Zenon DEF MgGive
  <1>19. CASE ~parse_conn_mode(mode) \/ ~p.ok
    <2>1. r.ok = FALSE /\ r.S = mgcp_free_endp(P, e)
      BY <1>18, <1>19 DEF create_err_response, MgAnswer
    <2>2. Alone(P, r.S, e) /\ Freed(r.S.ep[e])
      BY <1>10, <1>11, <1>12, <2>1, FreeFields
    <2> QED BY <1>12, <2>1, <2>2, AloneTrans
  <1>20. CASE parse_conn_mode(mode) /\ p.ok
    <2>1. mode = "recvonly"
      BY <1>20 DEF parse_conn_mode
    <2>2. /\ M \in Endp /\ M.callid = P.ep[e].callid /\ M.conn_mode = P.ep[e].conn_mode /\ M.end = P.ep[e].end
          /\ M.state = P.ep[e].state /\ M.allocated /\ M.ci = id /\ M.is_transcoded = P.ep[e].is_transcoded
      BY <1>12, <1>14, <1>15, NamedFields
    <2>3. W \in MgState /\ W.ep = P.ep /\ Alone(P, W, e)
      BY <1>12, <1>14, <1>15, WithIdFields DEF Alone
    <2>4. V \in MgState /\ V.ep[e] = M /\ Alone(W, V, e)
      BY <1>16, <2>2, <2>3, WithEpFields DEF Alone
    <2>5. Alone(S, V, e)
      BY <1>12, <2>3, <2>4, AloneTrans
    <2>6. Bound(M) /\ Held(M) = Held(P.ep[e])
      BY <1>10, <1>11, <2>2 DEF Bound, Held
    <2>7. Ports(M)
      BY <1>10, <1>11, <1>20, <2>2, <2>6 DEF Ports, Wanted
    <2>8. SameEp(N, P.ep[e]) /\ SamePeers(N, P.ep[e])
      BY <1>10, <1>11, <1>20
    <2>9. M.callid = c /\ M.conn_mode = "recvonly" /\ \A to \in Sides : M.state[to] = MgRtp
      BY <1>2, <1>4, <2>1, <2>2, <2>8 DEF SameEp, Unused
    <2>10. M.end["net_end"].peer = 0 /\ M.end["bts_end"].peer = 0
      BY <1>2, <1>4, <2>2, <2>8 DEF SamePeers, Unused, MgEnds
    <2>11. id # 0 /\ \A f \in MgEndp \ {e} : S.ep[f].ci # id
      <3>1. \A f \in MgEndp \ {e} : P.ep[f] = S.ep[f]
        BY <1>12 DEF Alone
      <3> QED BY <1>14, <3>1, Bounds
    <2>12. Fresh(M, c)
      BY <2>2, <2>7, <2>9, <2>10, <2>11 DEF Fresh
    <2>13. CASE policy = "REJECT"
      <3>1. r.ok = FALSE /\ r.S = mgcp_free_endp(V, e)
        BY <1>18, <1>20, <2>13 DEF create_err_response, MgAnswer
      <3>2. Alone(V, r.S, e) /\ Freed(r.S.ep[e])
        BY <2>4, <2>6, <3>1, FreeFields
      <3> QED BY <2>5, <3>1, <3>2, AloneTrans
    <2>14. CASE policy # "REJECT"
      <3>1. r.ok = TRUE /\ r.S = create_transcoder(V, e)
        BY <1>18, <1>20, <2>14 DEF create_response_with_sdp, create_ok_response, MgAnswer
      <3>2. Alone(V, r.S, e) /\ Fresh(r.S.ep[e], c) /\ r.S.ep[e].ci = id
        BY <2>2, <2>4, <2>12, <3>1, TranscoderFields
      <3> QED BY <2>5, <2>11, <3>1, <3>2, AloneTrans
    <2> QED BY <2>13, <2>14
  <1> QED BY <1>19, <1>20

-----------------------------------------------------------------------------
(* The inductive invariant *)

Busy(S, c) == S.call[c].st \in {"ASKED", "UP"}
\* A call that was made has an endpoint, and no two that are running have the same.
Agents(S) ==
    /\ \A c \in 1..MgMax : S.call[c].st # "NONE" => S.call[c].at \in MgEndp
    /\ \A c, d \in 1..MgMax : Busy(S, c) /\ Busy(S, d) /\ S.call[c].at = S.call[d].at => c = d
Distinct(S) == \A e, f \in MgEndp : S.ep[e].ci # 0 /\ S.ep[f].ci = S.ep[e].ci => e = f
\* The endpoint's call was given this endpoint.
AgentAt(S, e) == S.ep[e].callid # 0 => S.call[S.ep[e].callid].at = e /\ S.call[S.ep[e].callid].st # "NONE"
\* A late command has taken the endpoint: the network's party will not be known.
TakenLate(S, e) == /\ MgHas("late_dup") /\ S.ep[e].callid # 0 /\ S.call[S.ep[e].callid].st = "OVER"
                   /\ S.ep[e].end["net_end"].peer = 0
\* Call c was answered as if it were the call before it, whose endpoint it keeps: its identifier begins with that one's.
Kept(S, e, c) == /\ c \in 1..MgMax /\ <<S.ep[e].callid, c>> \in mgEnv.extends
                 /\ S.ep[e].callid # 0 /\ S.call[S.ep[e].callid].st = "OVER"
                 /\ S.call[c].at = e /\ S.call[c].st # "NONE"
\* The endpoint a running call was given is that call's, free, taken late, or kept from the call before.
GivenAt(S, e) == \A c \in 1..MgMax :
    S.call[c].st = "UP" /\ S.call[c].at = e /\ S.ep[e].allocated => S.ep[e].callid = c \/ TakenLate(S, e) \/ Kept(S, e, c)
PeersAt(S, e) ==
    /\ S.ep[e].end["net_end"].peer \in {0, S.ep[e].callid}
    /\ ~MgHas("late_rtp") => \/ S.ep[e].end["bts_end"].peer \in {0, S.ep[e].callid} \/ TakenLate(S, e)
                             \/ Kept(S, e, S.ep[e].end["bts_end"].peer)
HearsOwn(h) ==
    /\ h[1] = "NET" => h[2] = h[3] \/ (MgHas("late_rtp") /\ mgEnv.transcoder)
    /\ \/ MgHas("late_rtp")
       \/ h[4] = h[2] /\ (MgHas("late_dup") \/ h[2] = h[3])
       \/ h[1] = "BTS" /\ <<h[3], h[2]>> \in mgEnv.extends /\ h[4] \in {h[2], h[3]}
Hears(S) == \A h \in S.heard : HearsOwn(h)

\* Where streams go on: audio is looked at, and nothing changes or comes late.
Steady == mgEnv.audio /\ ~MgHas("changes") /\ ~MgHas("late_dup") /\ ~MgHas("late_rtp")
\* The SSRC of what is meant for a side, and of what leaves for it; the end it leaves by.
Meant(dest) == IF dest = "BTS" THEN 1 ELSE 3
Source(to) == IF mgEnv.audio_loop = (to = "BTS") THEN 3 ELSE 1
EndOf(to) == IF to = "NET" THEN "net_end" ELSE "bts_end"
Patched(E, to) ==
    /\ E.state[to].initialized => /\ E.state[to].orig_ssrc # 0
                                  /\ E.state[to].patch \/ E.state[to].ssrc = E.state[to].orig_ssrc
                                  /\ E.allow_patch \/ E.state[to].ssrc = Source(to)
    /\ E.conn_mode = "loopback" => E.allow_patch
\* The endpoint's state is that of the last packet its party was sent, and a running call that heard anything is that party.
Peer(S, e, to) == S.ep[e].end[EndOf(to)].peer
Follows(S, e, to) ==
    Peer(S, e, to) # 0 /\ S.out[Peer(S, e, to)][to].ssrc # 0 =>
        /\ S.ep[e].state[to].initialized /\ S.ep[e].state[to].orig_ssrc = S.out[Peer(S, e, to)][to].ssrc
        /\ S.ep[e].state[to].seq_no = S.out[Peer(S, e, to)][to].seq
Known(S, e, to) == \A c \in 1..MgMax :
    S.call[c].st = "UP" /\ S.call[c].at = e /\ S.ep[e].allocated /\ S.out[c][to].ssrc # 0 => Peer(S, e, to) = c
StreamAt(S, e) == \A to \in Sides : Patched(S.ep[e], to) /\ Follows(S, e, to) /\ Known(S, e, to)
Sources(S) ==
    /\ ~S.jump
    /\ \A c \in 1..MgMax, s \in Sides : S.call[c].ssrc[s] = 1 /\ (S.out[c][s].ssrc # 0 => S.call[c].st \in {"UP", "OVER"})

EndpGood(S, e) == EpFine(S.ep[e]) /\ AgentAt(S, e) /\ GivenAt(S, e) /\ PeersAt(S, e) /\ (Steady => StreamAt(S, e))
MgFine(S) ==
    /\ S \in MgState /\ Agents(S) /\ Distinct(S) /\ Hears(S)
    /\ (~mgEnv.audio => ~S.jump) /\ (Steady => Sources(S))
    /\ \A e \in MgEndp : EndpGood(S, e)
MgInv == mgEnv \in MgEnvs /\ MgFine(mg)

\* An endpoint that a step leaves alone.
LEMMA UntouchedGood ==
    ASSUME NEW S, NEW T, NEW f, T.ep[f] = S.ep[f], T.call = S.call, EndpGood(S, f)
    PROVE  EpFine(T.ep[f]) /\ AgentAt(T, f) /\ GivenAt(T, f) /\ PeersAt(T, f)
  BY DEF EndpGood, AgentAt, GivenAt, PeersAt, TakenLate, Kept
LEMMA UntouchedStream ==
    ASSUME NEW S, NEW T, NEW f, T.ep[f] = S.ep[f], T.call = S.call, StreamAt(S, f),
           \A d \in 1..MgMax : S.call[d].at = f => \A t \in Sides : T.out[d][t] = S.out[d][t],
           \A t \in Sides : Peer(S, f, t) # 0 => Peer(S, f, t) \in 1..MgMax /\ S.call[Peer(S, f, t)].at = f
    PROVE  StreamAt(T, f)
  <1> SUFFICES ASSUME NEW t \in Sides PROVE Patched(T.ep[f], t) /\ Follows(T, f, t) /\ Known(T, f, t)
    BY DEF StreamAt
  <1>1. Patched(S.ep[f], t) /\ Follows(S, f, t) /\ Known(S, f, t)
    BY DEF StreamAt
  <1>2. PICK g : g = Peer(S, f, t)
    OBVIOUS
  <1>3. Peer(T, f, t) = g
    BY <1>2 DEF Peer
  <1>4. Follows(T, f, t)
    <2>1. g # 0 => T.out[g][t] = S.out[g][t]
      BY <1>2
    <2> QED BY <1>1, <1>2, <1>3, <2>1 DEF Follows
  <1>5. Known(T, f, t)
    BY <1>1, <1>2, <1>3 DEF Known
  <1> QED BY <1>1, <1>4, <1>5
LEMMA UntouchedOut ==
    ASSUME NEW S, NEW T, NEW f, T.ep[f] = S.ep[f], T.call = S.call, T.out = S.out, StreamAt(S, f)
    PROVE  StreamAt(T, f)
  <1> SUFFICES ASSUME NEW t \in Sides PROVE Patched(T.ep[f], t) /\ Follows(T, f, t) /\ Known(T, f, t)
    BY DEF StreamAt
  <1>1. Patched(S.ep[f], t) /\ Follows(S, f, t) /\ Known(S, f, t)
    BY DEF StreamAt
  <1> QED BY <1>1 DEF Follows, Known, Peer

\* What a step at one endpoint must keep.
LEMMA AloneKeeps ==
    ASSUME NEW S, NEW T, NEW e \in MgEndp, MgFine(S), Alone(S, T, e), EndpGood(T, e),
           T.ep[e].ci # 0 => \A f \in MgEndp \ {e} : S.ep[f].ci # T.ep[e].ci
    PROVE  MgFine(T)
  <1>1. T \in MgState /\ Agents(T) /\ Hears(T) /\ (~mgEnv.audio => ~T.jump) /\ (Steady => Sources(T))
    BY DEF MgFine, Alone, Agents, Busy, Hears, Sources
  <1>2. Distinct(T)
    BY DEF MgFine, Alone, Distinct
  <1>3. ASSUME NEW f \in MgEndp \ {e} PROVE EndpGood(T, f)
    <2>1. T.ep[f] = S.ep[f] /\ T.call = S.call /\ T.out = S.out /\ EndpGood(S, f)
      BY DEF Alone, MgFine
    <2>2. EpFine(T.ep[f]) /\ AgentAt(T, f) /\ GivenAt(T, f) /\ PeersAt(T, f)
      BY <2>1, UntouchedGood
    <2>3. Steady => StreamAt(T, f)
      BY <2>1, UntouchedOut DEF EndpGood
    <2> QED BY <2>2, <2>3 DEF EndpGood
  <1> QED BY <1>1, <1>2, <1>3 DEF MgFine

\* An endpoint is freed.
LEMMA FreedGood ==
    ASSUME NEW T, NEW e \in MgEndp, Freed(T.ep[e])
    PROVE  EndpGood(T, e) /\ T.ep[e].ci = 0
  <1>1. EpFine(T.ep[e]) /\ T.ep[e].ci = 0
    <2>1. T.ep[e].allocated = FALSE
      BY EndpFields DEF Freed
    <2> QED BY <2>1 DEF Freed, EpFine, Used
  <1>2. AgentAt(T, e) /\ GivenAt(T, e)
    BY DEF Freed, AgentAt, GivenAt
  <1>3. PeersAt(T, e)
    BY DEF Freed, Unused, PeersAt, MgEnds
  <1>4. StreamAt(T, e)
    <2>1. \A to \in Sides : ~T.ep[e].state[to].initialized
      BY DEF Freed, Unused, MgRtp
    <2>2. \A to \in Sides : Peer(T, e, to) = 0
      BY DEF Freed, Unused, Peer, EndOf, MgEnds
    <2>3. \A to \in Sides : Follows(T, e, to) /\ Known(T, e, to)
      BY <2>2 DEF Freed, Follows, Known
    <2> QED BY <2>1, <2>3 DEF Freed, StreamAt, Patched
  <1> QED BY <1>1, <1>2, <1>3, <1>4 DEF EndpGood
LEMMA FreedKeeps ==
    ASSUME NEW S, NEW T, NEW e \in MgEndp, MgFine(S), Alone(S, T, e), Freed(T.ep[e])
    PROVE  MgFine(T)
  BY FreedGood, AloneKeeps

\* An endpoint is given to a call.
LEMMA FreshKeeps ==
    ASSUME NEW S, NEW T, NEW e \in MgEndp, NEW c \in 1..MgMax, MgFine(S), Alone(S, T, e), Fresh(T.ep[e], c),
           \A f \in MgEndp \ {e} : S.ep[f].ci # T.ep[e].ci,
           S.call[c].at = e, S.call[c].st = "ASKED" \/ (MgHas("late_dup") /\ S.call[c].st = "OVER")
    PROVE  MgFine(T)
  <1>0. c # 0 /\ T.call = S.call /\ T.out = S.out
    BY Bounds DEF Alone
  <1>1. EpFine(T.ep[e])
    BY <1>0 DEF Fresh, EpFine, Used
  <1>2. AgentAt(T, e) /\ PeersAt(T, e)
    BY <1>0 DEF Fresh, AgentAt, PeersAt
  <1>3. GivenAt(T, e)
    <2>1. CASE S.call[c].st = "ASKED"
      <3>1. \A d \in 1..MgMax : S.call[d].st = "UP" /\ S.call[d].at = e => d = c
        BY <2>1 DEF MgFine, Agents, Busy
      <3> QED BY <1>0, <3>1 DEF Fresh, GivenAt
    <2>2. CASE MgHas("late_dup") /\ S.call[c].st = "OVER"
      BY <1>0, <2>2 DEF Fresh, GivenAt, TakenLate
    <2> QED BY <2>1, <2>2
  <1>4. ASSUME Steady PROVE StreamAt(T, e)
    <2>1. \A to \in Sides : ~T.ep[e].state[to].initialized
      BY DEF Fresh, MgRtp
    <2>2. \A to \in Sides : Peer(T, e, to) = 0
      BY DEF Fresh, Peer, EndOf
    <2>3. \A d \in 1..MgMax : S.call[d].at = e => S.call[d].st # "UP"
      BY <1>4 DEF MgFine, Agents, Busy, Steady
    <2>4. \A to \in Sides : Follows(T, e, to) /\ Known(T, e, to)
      BY <1>0, <2>2, <2>3 DEF Follows, Known
    <2> QED BY <2>1, <2>4 DEF Fresh, StreamAt, Patched
  <1> QED BY <1>1, <1>2, <1>3, <1>4, AloneKeeps DEF EndpGood

-----------------------------------------------------------------------------
(* Commands *)

LEMMA CallFields ==
    ASSUME NEW S \in MgState, NEW c \in 1..MgMax
    PROVE  /\ S.call[c] \in Call /\ S.call[c].at \in {0} \cup MgEndp /\ S.call[c].st \in {"NONE", "ASKED", "UP", "OVER"}
           /\ S.call[c].ssrc \in [Sides -> 1..2] /\ S.call[c].seq \in [Sides -> Seqs]
  BY DEF MgState, Call

LEMMA CreateKeeps ==
    ASSUME NEW S, MgFine(S), NEW e \in MgEndp, NEW c \in 1..MgMax, NEW mode \in {"recvonly", "unknown"}, NEW policy,
           S.call[c].at = e, S.call[c].st = "ASKED" \/ (MgHas("late_dup") /\ S.call[c].st = "OVER"),
           NEW r, r = handle_create_con(S, e, c, mode, policy)
    PROVE  /\ MgFine(r.S) /\ r.ok \in BOOLEAN /\ r.S.call = S.call
           /\ r.ok /\ S.call[c].st = "ASKED" => r.S.ep[e].callid = c \/ Kept(r.S, e, c)
  <1>0. S \in MgState /\ EpFine(S.ep[e])
    BY DEF MgFine, EndpGood
  <1>1. CASE S.ep[e].allocated /\ MgBegins(S.ep[e].callid, c)
    <2>1. r.S = S /\ r.ok = TRUE
      BY <1>1 DEF handle_create_con, create_response_with_sdp, create_ok_response, MgAnswer
    <2>2. PICK b : b = S.ep[e].callid
      OBVIOUS
    <2>3. b \in 1..MgMax
      <3>1. S.ep[e].callid \in 0..MgMax
        BY <1>0, EndpFields DEF EpFine
      <3>2. S.ep[e].callid # 0
        BY ONLY <1>0, <1>1, Zenon DEF EpFine, Used
      <3> QED BY <2>2, <3>1, <3>2, Bounds
    <2>4. ASSUME S.call[c].st = "ASKED", b # c PROVE Kept(S, e, c)
      <3>1. S.call[b].at = e /\ S.call[b].st # "NONE" /\ b # 0
        BY <2>2, <2>3, Bounds DEF MgFine, EndpGood, AgentAt
      <3>2. ~Busy(S, b)
        BY <2>3, <2>4, <3>1 DEF MgFine, Agents, Busy
      <3>3. S.call[b].st = "OVER"
        BY <1>0, <2>3, <3>1, <3>2, CallFields DEF Busy
      <3> QED BY <1>1, <2>2, <2>4, <3>1, <3>3 DEF Kept, MgBegins
    <2> QED BY <2>1, <2>2, <2>4
  <1>2. CASE ~(S.ep[e].allocated /\ MgBegins(S.ep[e].callid, c)) /\ S.ep[e].allocated /\ ~mgEnv.realloc
    BY <1>2 DEF handle_create_con, create_err_response, MgAnswer
  <1>3. CASE ~(S.ep[e].allocated /\ MgBegins(S.ep[e].callid, c)) /\ ~(S.ep[e].allocated /\ ~mgEnv.realloc)
    <2>1. r = MgTaken(S, e, c, mode, policy)
      BY <1>3 DEF handle_create_con
    <2>2. /\ r.ok \in BOOLEAN /\ Alone(S, r.S, e)
          /\ r.ok => Fresh(r.S.ep[e], c) /\ \A f \in MgEndp \ {e} : S.ep[f].ci # r.S.ep[e].ci
          /\ ~r.ok => Freed(r.S.ep[e])
      BY <1>0, <2>1, TakenFields
    <2>3. CASE r.ok
      <3>1. Fresh(r.S.ep[e], c) /\ \A f \in MgEndp \ {e} : S.ep[f].ci # r.S.ep[e].ci
        BY <2>2, <2>3
      <3>2. MgFine(r.S)
        BY <2>2, <3>1, FreshKeeps
      <3> QED BY <2>2, <3>1, <3>2 DEF Alone, Fresh
    <2>4. CASE ~r.ok
      BY <2>2, <2>4, FreedKeeps DEF Alone
    <2> QED BY <2>2, <2>3, <2>4
  <1> QED BY <1>1, <1>2, <1>3

\* Nothing of an endpoint or a call differs.
LEMMA SameKeeps ==
    ASSUME NEW S, MgFine(S), NEW T \in MgState, T.ep = S.ep, T.call = S.call, T.heard = S.heard, T.out = S.out, T.jump = S.jump
    PROVE  MgFine(T)
  <1>1. Agents(T) /\ Distinct(T) /\ Hears(T) /\ (~mgEnv.audio => ~T.jump) /\ (Steady => Sources(T))
    BY DEF MgFine, Agents, Busy, Distinct, Hears, Sources
  <1>2. ASSUME NEW f \in MgEndp PROVE EndpGood(T, f)
    <2>1. EndpGood(S, f)
      BY DEF MgFine
    <2>2. EpFine(T.ep[f]) /\ AgentAt(T, f) /\ GivenAt(T, f) /\ PeersAt(T, f)
      BY <2>1, UntouchedGood
    <2>3. Steady => StreamAt(T, f)
      BY <2>1, UntouchedOut DEF EndpGood
    <2> QED BY <2>2, <2>3 DEF EndpGood
  <1> QED BY <1>1, <1>2 DEF MgFine

WithTrans(S, t) == [S EXCEPT !.trans = t]
LEMMA TransKeeps ==
    ASSUME NEW S, MgFine(S), NEW t \in SUBSET MgEndp
    PROVE  MgFine(WithTrans(S, t)) /\ WithTrans(S, t).call = S.call /\ WithTrans(S, t).ep = S.ep
  <1>1. PICK T : T = WithTrans(S, t)
    OBVIOUS
  <1>2. /\ T \in MgState /\ T.ep = S.ep /\ T.call = S.call /\ T.heard = S.heard /\ T.out = S.out /\ T.jump = S.jump
    BY <1>1 DEF WithTrans, MgFine, MgState
  <1> QED BY <1>1, <1>2, SameKeeps

LEMMA FreeKeeps ==
    ASSUME NEW S, MgFine(S), NEW e \in MgEndp
    PROVE  MgFine(mgcp_free_endp(S, e)) /\ mgcp_free_endp(S, e).call = S.call
  <1>1. S \in MgState /\ Bound(S.ep[e])
    BY DEF MgFine, EndpGood, EpFine, Ports
  <1>2. Alone(S, mgcp_free_endp(S, e), e) /\ Freed(mgcp_free_endp(S, e).ep[e])
    BY <1>1, FreeFields
  <1> QED BY <1>2, FreedKeeps DEF Alone

LEMMA DeleteKeeps ==
    ASSUME NEW S, MgFine(S), NEW e \in MgEndp, NEW c, NEW policy, NEW r, r = handle_delete_con(S, e, c, policy)
    PROVE  MgFine(r.S)
  <1>1. PICK T : T = delete_transcoder(S, e)
    OBVIOUS
  <1>2. MgFine(T)
    <2>1. S \in MgState /\ S.trans \subseteq MgEndp
      BY StateFields DEF MgFine
    <2>2. S.trans \ {e} \in SUBSET MgEndp
      BY <2>1
    <2>3. T = S \/ T = WithTrans(S, S.trans \ {e})
      BY <1>1 DEF delete_transcoder, WithTrans
    <2> QED BY <2>2, <2>3, TransKeeps
  <1>3. r.S = S \/ r.S = T \/ r.S = mgcp_free_endp(T, e)
    BY <1>1 DEF handle_delete_con, create_err_response, create_ok_response, MgAnswer
  <1> QED BY <1>2, <1>3, FreeKeeps

\* handle_modify_con() when all lines are in order.
Modified(E, mode, c) == [E EXCEPT !.conn_mode = mode, !.orig_mode = mode, !.end["net_end"].peer = c]
LEMMA ModifiedFields ==
    ASSUME NEW E \in Endp, NEW mode \in Modes, NEW c \in 1..MgMax, NEW F, F = Modified(E, mode, c)
    PROVE  /\ F \in Endp /\ F.allocated = E.allocated /\ F.ci = E.ci /\ F.callid = E.callid /\ F.conn_mode = mode
           /\ F.is_transcoded = E.is_transcoded /\ F.allow_patch = E.allow_patch /\ F.state = E.state
           /\ F.end["net_end"].peer = c /\ F.end["bts_end"] = E.end["bts_end"]
           /\ \A n \in MgEnds : F.end[n].fd = E.end[n].fd /\ F.end[n].local_alloc = E.end[n].local_alloc
  <1>1. PICK w : w = [E.end EXCEPT !["net_end"].peer = c]
    OBVIOUS
  <1>2. E.end \in [MgEnds -> End] /\ c \in 0..MgMax /\ "net_end" \in MgEnds /\ "bts_end" \in MgEnds
    BY EndpFields, Bounds DEF MgEnds
  <1>3. w \in [MgEnds -> End] /\ w["net_end"].peer = c /\ w["bts_end"] = E.end["bts_end"]
    BY <1>1, <1>2 DEF End
  <1>4. \A n \in MgEnds : w[n].fd = E.end[n].fd /\ w[n].local_alloc = E.end[n].local_alloc
    BY <1>1, <1>2 DEF End
  <1>5. F = [E EXCEPT !.conn_mode = mode, !.orig_mode = mode, !.end = w]
    BY <1>1 DEF Modified, Endp
  <1> QED BY <1>3, <1>4, <1>5 DEF Endp

LEMMA SamePorts ==
    ASSUME NEW E, NEW F, Ports(E), F.allocated = E.allocated, F.is_transcoded = E.is_transcoded,
           \A n \in MgEnds : F.end[n].fd = E.end[n].fd /\ F.end[n].local_alloc = E.end[n].local_alloc
    PROVE  Ports(F)
  BY DEF Ports, Bound, Held, Wanted

LEMMA ModifyKeeps ==
    ASSUME NEW S, MgFine(S), NEW c \in 1..MgMax, S.call[c].st = "UP", NEW mode \in {"sendrecv", "loopback", "unknown"},
           mode = "loopback" => MgHas("changes"), NEW policy, NEW r, r = handle_modify_con(S, S.call[c].at, c, mode, policy)
    PROVE  MgFine(r.S) /\ r.S.call = S.call
  <1>0. PICK e \in MgEndp : e = S.call[c].at
    BY DEF MgFine, Agents
  <1>1. S \in MgState /\ S.ep[e] \in Endp /\ EndpGood(S, e)
    BY StateFields DEF MgFine
  <1>2. CASE r.S = S
    BY <1>2
  <1>3. CASE r.S # S
    <2>1. S.ep[e].ci # 0 /\ S.ep[e].callid = c /\ parse_conn_mode(mode)
      BY <1>0, <1>3 DEF handle_modify_con, create_err_response, MgAnswer, verify_call_id
    <2>2. PICK F : F = Modified(S.ep[e], mode, c)
      OBVIOUS
    <2>3. /\ F \in Endp /\ F.allocated = S.ep[e].allocated /\ F.ci = S.ep[e].ci /\ F.callid = c /\ F.conn_mode = mode
          /\ F.is_transcoded = S.ep[e].is_transcoded /\ F.allow_patch = S.ep[e].allow_patch /\ F.state = S.ep[e].state
          /\ F.end["net_end"].peer = c /\ F.end["bts_end"] = S.ep[e].end["bts_end"]
          /\ \A n \in MgEnds : F.end[n].fd = S.ep[e].end[n].fd /\ F.end[n].local_alloc = S.ep[e].end[n].local_alloc
      <3>1. mode \in Modes
        BY DEF Modes
      <3> QED BY <1>1, <2>1, <2>2, <3>1, ModifiedFields
    <2>4. r.S = WithEp(S, e, F)
      <3>1. r.S = [[S EXCEPT !.ep[e].conn_mode = mode, !.ep[e].orig_mode = mode] EXCEPT !.ep[e].end["net_end"].peer = c]
        BY <1>0, <2>1 DEF handle_modify_con, MgAnswer, verify_call_id
      <3>2. PICK D : D = [S.ep[e] EXCEPT !.conn_mode = mode, !.orig_mode = mode]
        OBVIOUS
      <3>3. F = [D EXCEPT !.end["net_end"].peer = c]
        BY <1>1, <2>2, <3>2 DEF Modified, Endp
      <3>4. PICK T : T = WithEp(S, e, D)
        OBVIOUS
      <3>5. T = [S EXCEPT !.ep[e].conn_mode = mode, !.ep[e].orig_mode = mode]
        BY <1>1, <3>2, <3>4 DEF WithEp, MgState
      <3>6. T.ep[e] = D /\ T.ep = [S.ep EXCEPT ![e] = D]
        BY <1>1, <3>4 DEF WithEp, MgState
      <3>7. r.S = [T EXCEPT !.ep[e] = F]
        BY <3>1, <3>3, <3>5, <3>6
      <3> QED BY <1>1, <3>4, <3>7 DEF WithEp, MgState
    <2>5. Alone(S, r.S, e) /\ r.S.ep[e] = F /\ r.S.call = S.call /\ r.S.out = S.out
      BY <1>1, <2>3, <2>4, WithEpFields DEF Alone
    <2>6. S.ep[e].allocated = TRUE /\ c # 0
      BY <1>1, <2>1, Bounds DEF EndpGood, EpFine, Used
    <2>7. EpFine(F)
      <3>1. Ports(F)
        BY <1>1, <2>3, SamePorts DEF EndpGood, EpFine
      <3> QED BY <2>1, <2>3, <2>6, <3>1 DEF EpFine, Used
    <2>8. AgentAt(r.S, e)
      BY <1>0, <2>3, <2>5 DEF AgentAt
    <2>9. GivenAt(r.S, e)
      <3>1. \A d \in 1..MgMax : S.call[d].st = "UP" /\ S.call[d].at = e => d = c
        BY <1>0 DEF MgFine, Agents, Busy
      <3> QED BY <2>3, <2>5, <3>1 DEF GivenAt
    <2>10. PeersAt(r.S, e)
      <3>1. ~TakenLate(S, e) /\ \A d : ~Kept(S, e, d)
        BY <2>1 DEF TakenLate, Kept
      <3> QED BY <1>1, <2>1, <2>3, <2>5, <3>1 DEF PeersAt, EndpGood
    <2>11. ASSUME Steady PROVE StreamAt(r.S, e)
      <3>1. StreamAt(S, e) /\ mode # "loopback"
        BY <1>1, <2>11 DEF EndpGood, Steady
      <3>2. ASSUME NEW to \in Sides PROVE Patched(F, to)
        BY <2>3, <3>1 DEF StreamAt, Patched
      <3>3. ASSUME NEW to \in Sides PROVE Follows(r.S, e, to) /\ Known(r.S, e, to)
        <4>1. Follows(S, e, to) /\ Known(S, e, to)
          BY <3>1 DEF StreamAt
        <4>2. Peer(r.S, e, to) = IF to = "NET" THEN c ELSE Peer(S, e, to)
          BY <2>3, <2>5 DEF EndOf, Peer, Sides
        <4>3. CASE to = "BTS"
          BY <2>3, <2>5, <4>1, <4>2, <4>3 DEF Follows, Known
        <4>4. CASE to = "NET"
          <5>1. Peer(S, e, to) \in {0, c}
            BY <1>1, <2>1, <4>4 DEF EndpGood, PeersAt, Peer, EndOf
          <5>2. S.out[c][to].ssrc # 0 => Peer(S, e, to) = c
            BY <1>0, <2>6, <4>1 DEF Known
          <5>3. Follows(r.S, e, to)
            BY <2>3, <2>5, <2>6, <4>1, <4>2, <4>4, <5>2 DEF Follows
          <5>4. \A d \in 1..MgMax : S.call[d].st = "UP" /\ S.call[d].at = e => d = c
            BY <1>0 DEF MgFine, Agents, Busy
          <5>5. Known(r.S, e, to)
            BY <2>5, <4>2, <4>4, <5>4 DEF Known
          <5> QED BY <5>3, <5>5
        <4> QED BY <4>3, <4>4 DEF Sides
      <3> QED BY <2>5, <3>2, <3>3 DEF StreamAt
    <2>12. EndpGood(r.S, e)
      BY <2>5, <2>7, <2>8, <2>9, <2>10, <2>11 DEF EndpGood
    <2>13. \A f \in MgEndp \ {e} : S.ep[f].ci # F.ci
      BY <2>1, <2>3 DEF MgFine, Distinct
    <2> QED BY <2>5, <2>12, <2>13, AloneKeeps
  <1> QED BY <1>2, <1>3

-----------------------------------------------------------------------------
(* The call agent *)

\* What a step of the agent or of a party must keep.
\* A call keeps its endpoint once it has one, and its states come in order.
CallsMove(S, T) ==
    /\ \A c \in 1..MgMax : S.call[c].st # "NONE" => T.call[c].at = S.call[c].at /\ T.call[c].st # "NONE"
    /\ \A c \in 1..MgMax : S.call[c].st = "OVER" => T.call[c].st = "OVER"
    /\ \A c \in 1..MgMax : S.call[c].st = "UP" => T.call[c].st \in {"UP", "OVER"}
    /\ \A c \in 1..MgMax : T.call[c].st = "UP" =>
           S.call[c].st = "UP" \/ (S.call[c].st = "ASKED" /\ (S.ep[T.call[c].at].callid = c \/ Kept(S, T.call[c].at, c)))
    /\ Steady => \A c \in 1..MgMax : T.call[c].ssrc = S.call[c].ssrc
LEMMA CallsKeep ==
    ASSUME NEW S, MgFine(S), NEW T \in MgState, T.ep = S.ep, T.heard = S.heard, T.out = S.out, T.jump = S.jump, Agents(T),
           CallsMove(S, T)
    PROVE  MgFine(T)
  <1>0. /\ \A c \in 1..MgMax : S.call[c].st # "NONE" => T.call[c].at = S.call[c].at /\ T.call[c].st # "NONE"
        /\ \A c \in 1..MgMax : S.call[c].st = "OVER" => T.call[c].st = "OVER"
    BY DEF CallsMove
  <1> USE DEF CallsMove
  <1>1. Distinct(T) /\ Hears(T) /\ (~mgEnv.audio => ~T.jump)
    BY DEF MgFine, Distinct, Hears
  <1>2. Steady => Sources(T)
    BY DEF MgFine, Sources
  <1>3. ASSUME NEW e \in MgEndp PROVE EndpGood(T, e)
    <2>1. EndpGood(S, e) /\ S.ep[e] \in Endp
      BY StateFields DEF MgFine
    <2>2. S.ep[e].callid \in 0..MgMax /\ MgMax \in Nat
      BY <2>1, EndpFields, Bounds
    <2>3. AgentAt(T, e)
      BY <2>1, <2>2 DEF EndpGood, AgentAt
    <2>4. (TakenLate(S, e) => TakenLate(T, e)) /\ \A c : Kept(S, e, c) => Kept(T, e, c)
      <3>1. PICK b : b = S.ep[e].callid /\ b = T.ep[e].callid /\ b \in 0..MgMax
        BY <2>2
      <3>2. b # 0 => b \in 1..MgMax
        BY <2>2, <3>1
      <3>3. TakenLate(S, e) => TakenLate(T, e)
        BY <3>1, <3>2 DEF TakenLate
      <3>4. ASSUME NEW c, Kept(S, e, c) PROVE Kept(T, e, c)
        <4>1. c \in 1..MgMax /\ b \in 1..MgMax /\ <<b, c>> \in mgEnv.extends /\ S.call[b].st = "OVER"
              /\ S.call[c].at = e /\ S.call[c].st # "NONE"
          BY <3>1, <3>2, <3>4 DEF Kept
        <4>2. T.call[b].st = "OVER" /\ T.call[c].at = e /\ T.call[c].st # "NONE"
          BY ONLY <1>0, <4>1
        <4> QED BY <3>1, <4>1, <4>2 DEF Kept
      <3> QED BY <3>3, <3>4
    <2>5. GivenAt(T, e)
      BY <2>1, <2>4 DEF EndpGood, GivenAt
    <2>6. PeersAt(T, e)
      BY <2>1, <2>4 DEF EndpGood, PeersAt
    <2>7. ASSUME Steady PROVE StreamAt(T, e)
      <3>1. StreamAt(S, e) /\ Sources(S)
        BY <2>1, <2>7 DEF EndpGood, MgFine
      <3>2. ASSUME NEW to \in Sides PROVE Patched(T.ep[e], to) /\ Follows(T, e, to)
        <4>1. Peer(T, e, to) = Peer(S, e, to) /\ Patched(T.ep[e], to) /\ Follows(S, e, to)
          BY <3>1 DEF StreamAt, Peer
        <4>2. Follows(T, e, to)
          BY ONLY <4>1, T.ep = S.ep, T.out = S.out DEF Follows
        <4> QED BY <4>1, <4>2
      <3>3. ASSUME NEW to \in Sides PROVE Known(T, e, to)
        <4>1. Known(S, e, to) /\ Peer(T, e, to) = Peer(S, e, to)
          BY <3>1 DEF StreamAt, Peer
        <4>2. \A c \in 1..MgMax : T.call[c].st = "UP" /\ T.out[c][to].ssrc # 0 => S.call[c].st = "UP" /\ S.call[c].at = T.call[c].at
          BY <3>1 DEF Sources
        <4> QED BY <4>1, <4>2 DEF Known
      <3> QED BY <3>2, <3>3 DEF StreamAt
    <2> QED BY <2>1, <2>3, <2>5, <2>6, <2>7 DEF EndpGood
  <1> QED BY <1>1, <1>2, <1>3 DEF MgFine

\* S with another call c.
WithCall(S, c, C) == [S EXCEPT !.call[c] = C]
LEMMA WithCallFields ==
    ASSUME NEW S \in MgState, NEW c \in 1..MgMax, NEW C \in Call, NEW T, T = WithCall(S, c, C)
    PROVE  /\ T \in MgState /\ T.ep = S.ep /\ T.heard = S.heard /\ T.out = S.out /\ T.jump = S.jump
           /\ T.call[c] = C /\ \A d \in 1..MgMax : d # c => T.call[d] = S.call[d]
  BY DEF WithCall, MgState
\* A call gets another state.
CallAt(C, e, st) == [C EXCEPT !.at = e, !.st = st]
LEMMA StateOfCall ==
    ASSUME NEW B \in Call, NEW e \in MgEndp, NEW st \in {"ASKED", "UP", "OVER"}, NEW C, C = CallAt(B, e, st)
    PROVE  C \in Call /\ C.at = e /\ C.st = st /\ C.ssrc = B.ssrc /\ C.seq = B.seq
  BY DEF Call, CallAt
LEMMA StIsCall ==
    ASSUME NEW S \in MgState, NEW c \in 1..MgMax, NEW st
    PROVE  [S EXCEPT !.call[c].st = st] = WithCall(S, c, CallAt(S.call[c], S.call[c].at, st))
  <1>1. S.call[c] \in Call
    BY CallFields
  <1>2. CallAt(S.call[c], S.call[c].at, st) = [S.call[c] EXCEPT !.st = st]
    BY <1>1 DEF Call, CallAt
  <1> QED BY <1>2 DEF WithCall

LEMMA AskedKeeps ==
    ASSUME NEW S, MgFine(S), NEW c \in 1..MgMax, NEW e \in MgEndp, S.call[c].st = "NONE",
           \A b \in 1..MgMax : Busy(S, b) => S.call[b].at # e,
           NEW T, T = WithCall(S, c, CallAt(S.call[c], e, "ASKED"))
    PROVE  MgFine(T) /\ T.call[c].at = e /\ T.call[c].st = "ASKED"
  <1>1. S \in MgState /\ Agents(S)
    BY DEF MgFine
  <1>2. PICK C : C = CallAt(S.call[c], e, "ASKED")
    OBVIOUS
  <1>3. C \in Call /\ C.at = e /\ C.st = "ASKED" /\ C.ssrc = S.call[c].ssrc
    <2>1. S.call[c] \in Call
      BY <1>1, CallFields
    <2> QED BY SMTT(60), <1>2, <2>1, StateOfCall
  <1>4. T = WithCall(S, c, C)
    BY <1>2
  <1>5. /\ T \in MgState /\ T.ep = S.ep /\ T.heard = S.heard /\ T.out = S.out /\ T.jump = S.jump
        /\ T.call[c] = C /\ \A d \in 1..MgMax : d # c => T.call[d] = S.call[d]
    BY <1>1, <1>3, <1>4, WithCallFields
  <1>6. Agents(T)
    BY <1>1, <1>3, <1>5 DEF Agents, Busy
  <1>7. CallsMove(S, T)
    BY <1>3, <1>5 DEF CallsMove
  <1> QED BY <1>3, <1>5, <1>6, <1>7, CallsKeep

LEMMA UpKeeps ==
    ASSUME NEW S, MgFine(S), NEW c \in 1..MgMax, Busy(S, c), S.ep[S.call[c].at].callid = c \/ Kept(S, S.call[c].at, c) \/ S.call[c].st = "UP",
           NEW T, T = WithCall(S, c, CallAt(S.call[c], S.call[c].at, "UP"))
    PROVE  MgFine(T)
  <1>1. S \in MgState /\ Agents(S)
    BY DEF MgFine
  <1>2. PICK e \in MgEndp : e = S.call[c].at
    BY <1>1 DEF Agents, Busy
  <1>3. PICK C : C = CallAt(S.call[c], e, "UP")
    OBVIOUS
  <1>4. C \in Call /\ C.at = e /\ C.st = "UP" /\ C.ssrc = S.call[c].ssrc
    <2>1. S.call[c] \in Call
      BY <1>1, CallFields
    <2> QED BY SMTT(60), <1>3, <2>1, StateOfCall
  <1>5. T = WithCall(S, c, C)
    BY <1>2, <1>3
  <1>6. /\ T \in MgState /\ T.ep = S.ep /\ T.heard = S.heard /\ T.out = S.out /\ T.jump = S.jump
        /\ T.call[c] = C /\ \A d \in 1..MgMax : d # c => T.call[d] = S.call[d]
    BY <1>1, <1>4, <1>5, WithCallFields
  <1>7. Agents(T)
    <2>1. \A d \in 1..MgMax : T.call[d].at = S.call[d].at /\ (S.call[d].st # "NONE" \/ d # c) /\ (Busy(T, d) => Busy(S, d))
      BY <1>2, <1>4, <1>6 DEF Busy
    <2>2. \A d \in 1..MgMax : T.call[d].st # "NONE" => S.call[d].st # "NONE"
      BY <1>6, <2>1
    <2> QED BY <1>1, <2>1, <2>2 DEF Agents
  <1>8. CallsMove(S, T)
    BY <1>2, <1>4, <1>6 DEF Busy, CallsMove
  <1> QED BY <1>6, <1>7, <1>8, CallsKeep

LEMMA OverKeeps ==
    ASSUME NEW S, MgFine(S), NEW c \in 1..MgMax, S.call[c].st # "NONE", NEW T, T = WithCall(S, c, CallAt(S.call[c], S.call[c].at, "OVER"))
    PROVE  MgFine(T)
  <1>1. S \in MgState /\ Agents(S)
    BY DEF MgFine
  <1>2. PICK e \in MgEndp : e = S.call[c].at
    BY <1>1 DEF Agents
  <1>3. PICK C : C = CallAt(S.call[c], e, "OVER")
    OBVIOUS
  <1>4. C \in Call /\ C.at = e /\ C.st = "OVER" /\ C.ssrc = S.call[c].ssrc
    <2>1. S.call[c] \in Call
      BY <1>1, CallFields
    <2> QED BY SMTT(60), <1>3, <2>1, StateOfCall
  <1>5. T = WithCall(S, c, C)
    BY <1>2, <1>3
  <1>6. /\ T \in MgState /\ T.ep = S.ep /\ T.heard = S.heard /\ T.out = S.out /\ T.jump = S.jump
        /\ T.call[c] = C /\ \A d \in 1..MgMax : d # c => T.call[d] = S.call[d]
    BY <1>1, <1>4, <1>5, WithCallFields
  <1>7. Agents(T)
    <2>1. \A d \in 1..MgMax : T.call[d].at = S.call[d].at /\ (S.call[d].st # "NONE" \/ d # c) /\ (Busy(T, d) => Busy(S, d))
      BY <1>2, <1>4, <1>6 DEF Busy
    <2>2. \A d \in 1..MgMax : T.call[d].st # "NONE" => S.call[d].st # "NONE"
      BY <1>6, <2>1
    <2> QED BY <1>1, <2>1, <2>2 DEF Agents
  <1>8. CallsMove(S, T)
    BY <1>2, <1>4, <1>6 DEF CallsMove
  <1> QED BY <1>6, <1>7, <1>8, CallsKeep

LEMMA EnvFields ==
    ASSUME mgEnv \in MgEnvs
    PROVE  mgEnv.endp \subseteq MgEndp /\ mgEnv.calls \in 0..MgMax /\ mgEnv.audio \in BOOLEAN /\ mgEnv.audio_loop \in BOOLEAN
  BY MgEnvAssumption DEF MgEnv

LEMMA EndedKeeps ==
    ASSUME NEW S, MgFine(S), NEW c \in 1..MgMax, Busy(S, c), NEW ok \in BOOLEAN,
           ok => S.ep[S.call[c].at].callid = c \/ Kept(S, S.call[c].at, c),
           NEW T, T = [S EXCEPT !.call[c].st = IF ok THEN "UP" ELSE "OVER"]
    PROVE  MgFine(T)
  <1>1. S \in MgState /\ S.call[c].st # "NONE"
    BY DEF MgFine, Busy
  <1>2. CASE ok
    <2>1. T = WithCall(S, c, CallAt(S.call[c], S.call[c].at, "UP"))
      BY <1>1, <1>2, StIsCall
    <2> QED BY <1>2, <2>1, UpKeeps
  <1>3. CASE ~ok
    <2>1. T = WithCall(S, c, CallAt(S.call[c], S.call[c].at, "OVER"))
      BY <1>1, <1>3, StIsCall
    <2> QED BY <1>1, <2>1, OverKeeps
  <1> QED BY <1>2, <1>3

LEMMA StepCreates ==
    ASSUME MgInv, AgentCreates PROVE MgFine(mg')
  <1>1. PICK c \in 1..mgEnv.calls, e \in mgEnv.endp, mode \in {"recvonly", "unknown"}, policy \in MgPolicies :
          LET S == [mg EXCEPT !.call[c] = [@ EXCEPT !.at = e, !.st = "ASKED"]]
              r == handle_create_con(S, e, c, mode, policy)
          IN  /\ \/ /\ mg.call[c].st = "NONE"
                    /\ \A d \in 1..(c - 1) : mg.call[d].st # "NONE"
                    /\ \A b \in MgCalls({"ASKED", "UP"}) : mg.call[b].at # e
                 \/ mg.call[c].st = "ASKED" /\ mg.call[c].at = e
              /\ \/ mg' = [r.S EXCEPT !.call[c].st = IF r.ok THEN "UP" ELSE "OVER"]
                 \/ MgHas("lossy") /\ mg' \in {S, r.S}
    BY DEF AgentCreates
  <1>2. MgFine(mg) /\ mg \in MgState /\ c \in 1..MgMax /\ e \in MgEndp
    BY EnvFields, Bounds DEF MgInv, MgFine
  <1>3. PICK S : S = WithCall(mg, c, CallAt(mg.call[c], e, "ASKED"))
    OBVIOUS
  <1>4. S = [mg EXCEPT !.call[c] = [@ EXCEPT !.at = e, !.st = "ASKED"]]
    BY <1>3 DEF WithCall, CallAt
  <1>5. PICK r : r = handle_create_con(S, e, c, mode, policy)
    OBVIOUS
  <1>6. /\ \/ mg.call[c].st = "NONE" /\ \A b \in MgCalls({"ASKED", "UP"}) : mg.call[b].at # e
           \/ mg.call[c].st = "ASKED" /\ mg.call[c].at = e
        /\ mg' = [r.S EXCEPT !.call[c].st = IF r.ok THEN "UP" ELSE "OVER"] \/ mg' \in {S, r.S}
    <2>1. \/ mg.call[c].st = "NONE" /\ \A b \in MgCalls({"ASKED", "UP"}) : mg.call[b].at # e
          \/ mg.call[c].st = "ASKED" /\ mg.call[c].at = e
      BY <1>1
    <2>2. LET q == handle_create_con(S, e, c, mode, policy)
          IN  mg' = [q.S EXCEPT !.call[c].st = IF q.ok THEN "UP" ELSE "OVER"] \/ mg' = S \/ mg' = q.S
      BY <1>1, <1>4
    <2> QED BY <1>5, <2>1, <2>2
  <1>7. MgFine(S) /\ S.call[c].at = e /\ S.call[c].st = "ASKED"
    <2>1. CASE mg.call[c].st = "NONE" /\ \A b \in MgCalls({"ASKED", "UP"}) : mg.call[b].at # e
      <3>1. \A b \in 1..MgMax : Busy(mg, b) => mg.call[b].at # e
        BY <2>1 DEF MgCalls, Busy
      <3> QED BY <1>2, <1>3, <2>1, <3>1, AskedKeeps
    <2>2. CASE mg.call[c].st = "ASKED" /\ mg.call[c].at = e
      <3>1. CallAt(mg.call[c], e, "ASKED") = mg.call[c]
        <4>1. mg.call[c] \in Call
          BY <1>2, CallFields
        <4> QED BY <2>2, <4>1 DEF CallAt, Call
      <3>2. S = mg
        BY <1>2, <1>3, <3>1 DEF WithCall, MgState
      <3> QED BY <1>2, <2>2, <3>2
    <2> QED BY <1>6, <2>1, <2>2
  <1>8. MgFine(r.S) /\ r.ok \in BOOLEAN /\ r.S.call = S.call /\ (r.ok => r.S.ep[e].callid = c \/ Kept(r.S, e, c))
    BY <1>2, <1>5, <1>7, CreateKeeps
  <1>9. CASE mg' = [r.S EXCEPT !.call[c].st = IF r.ok THEN "UP" ELSE "OVER"]
    <2>1. Busy(r.S, c) /\ r.S.call[c].at = e
      BY <1>7, <1>8 DEF Busy
    <2> QED BY <1>2, <1>8, <1>9, <2>1, EndedKeeps
  <1>10. CASE mg' \in {S, r.S}
    BY <1>7, <1>8, <1>10
  <1> QED BY <1>6, <1>9, <1>10

LEMMA StepModifies ==
    ASSUME MgInv, AgentModifies PROVE MgFine(mg')
  <1>1. PICK c \in MgCalls({"UP"}), mode \in {"sendrecv", "loopback", "unknown"}, policy \in MgPolicies :
          /\ mode = "loopback" => MgHas("changes")
          /\ MgExchange(handle_modify_con(mg, mg.call[c].at, c, mode, policy), c, "UP", "UP")
    BY DEF AgentModifies
  <1>2. MgFine(mg) /\ c \in 1..MgMax /\ mg.call[c].st = "UP"
    BY DEF MgInv, MgCalls
  <1>3. PICK r : r = handle_modify_con(mg, mg.call[c].at, c, mode, policy)
    OBVIOUS
  <1>4. MgFine(r.S) /\ r.S.call = mg.call
    BY <1>1, <1>2, <1>3, ModifyKeeps
  <1>5. mg' = [r.S EXCEPT !.call[c].st = "UP"] \/ mg' \in {mg, r.S}
    BY <1>1, <1>3 DEF MgExchange
  <1>6. CASE mg' = [r.S EXCEPT !.call[c].st = "UP"]
    <2>1. r.S \in MgState /\ Busy(r.S, c) /\ r.S.call[c].st = "UP"
      BY <1>2, <1>4 DEF Busy, MgFine
    <2>2. mg' = WithCall(r.S, c, CallAt(r.S.call[c], r.S.call[c].at, "UP"))
      BY <1>2, <1>6, <2>1, StIsCall
    <2> QED BY <1>2, <1>4, <2>1, <2>2, UpKeeps
  <1> QED BY <1>2, <1>4, <1>5, <1>6

LEMMA StepDeletes ==
    ASSUME MgInv, AgentDeletes PROVE MgFine(mg')
  <1>1. PICK c \in MgCalls({"ASKED", "UP"}), policy \in MgPolicies :
          LET S == [mg EXCEPT !.call[c].st = "OVER"]
              r == handle_delete_con(S, mg.call[c].at, c, policy)
          IN  mg' = r.S \/ (MgHas("lossy") /\ mg' = S)
    BY DEF AgentDeletes
  <1>2. MgFine(mg) /\ mg \in MgState /\ c \in 1..MgMax /\ mg.call[c].st # "NONE" /\ mg.call[c].at \in MgEndp
    BY DEF MgInv, MgFine, MgCalls, Agents
  <1>3. PICK S : S = WithCall(mg, c, CallAt(mg.call[c], mg.call[c].at, "OVER"))
    OBVIOUS
  <1>4. MgFine(S)
    BY <1>2, <1>3, OverKeeps
  <1>5. PICK r : r = handle_delete_con(S, mg.call[c].at, c, policy)
    OBVIOUS
  <1>6. MgFine(r.S)
    BY <1>2, <1>4, <1>5, DeleteKeeps
  <1>7. S = [mg EXCEPT !.call[c].st = "OVER"]
    BY <1>2, <1>3, StIsCall
  <1>8. mg' = r.S \/ mg' = S
    BY <1>1, <1>5, <1>7, Zenon
  <1> QED BY <1>4, <1>6, <1>8

LEMMA StepRepeats ==
    ASSUME MgInv, RepeatedLate PROVE MgFine(mg')
  <1>1. PICK c \in MgCalls({"OVER"}) : MgHas("late_dup") /\ mg' = handle_create_con(mg, mg.call[c].at, c, "recvonly", "CONT").S
    BY DEF RepeatedLate
  <1>2. MgFine(mg) /\ c \in 1..MgMax /\ mg.call[c].st = "OVER" /\ mg.call[c].at \in MgEndp
    BY DEF MgInv, MgFine, MgCalls, Agents
  <1> QED BY <1>1, <1>2, CreateKeeps

LEMMA RestartKeeps ==
    ASSUME NEW S, MgFine(S), NEW R, R = mgcp_rsip_cb(S) PROVE MgFine(R) /\ R.call = S.call
  <1>1. PICK ep : ep = [e \in MgEndp |-> mgcp_free_endp(S, e).ep[e]]
    OBVIOUS
  <1>2. \A e \in MgEndp : Freed(ep[e])
    <2>1. ASSUME NEW e \in MgEndp PROVE Freed(mgcp_free_endp(S, e).ep[e])
      <3>1. S \in MgState /\ Bound(S.ep[e])
        BY DEF MgFine, EndpGood, EpFine, Ports
      <3> QED BY <3>1, FreeFields
    <2> QED BY <1>1, <2>1
  <1>3. ep \in [MgEndp -> Endp]
    BY <1>1, <1>2 DEF Freed
  <1>4. R = [S EXCEPT !.ep = ep]
    BY <1>1 DEF mgcp_rsip_cb
  <1>5. S \in MgState
    BY DEF MgFine
  <1>6. R \in MgState /\ R.ep = ep /\ R.call = S.call /\ R.heard = S.heard /\ R.out = S.out /\ R.jump = S.jump
    BY <1>3, <1>4, <1>5 DEF MgState
  <1>7. \A e \in MgEndp : EndpGood(R, e) /\ R.ep[e].ci = 0
    BY <1>2, <1>6, FreedGood
  <1>8. Agents(R) /\ Hears(R) /\ (~mgEnv.audio => ~R.jump) /\ (Steady => Sources(R))
    BY <1>6 DEF MgFine, Agents, Busy, Hears, Sources
  <1>9. Distinct(R)
    BY <1>7 DEF Distinct
  <1> QED BY <1>6, <1>7, <1>8, <1>9 DEF MgFine

\* The agent ends all its calls.
Ended(C) == IF C.st = "NONE" THEN C ELSE [C EXCEPT !.st = "OVER"]
LEMMA StepRestarts ==
    ASSUME MgInv, AgentRestarts PROVE MgFine(mg')
  <1>1. PICK R : R = mgcp_rsip_cb(mg)
    OBVIOUS
  <1>2. MgFine(R) /\ R.call = mg.call /\ R \in MgState
    BY <1>1, RestartKeeps DEF MgInv, MgFine
  <1>3. PICK call : call = [c \in 1..MgMax |-> Ended(mg.call[c])]
    OBVIOUS
  <1>4. PICK T : T = [R EXCEPT !.call = call]
    OBVIOUS
  <1>5. mg' = T
    BY <1>1, <1>3, <1>4 DEF AgentRestarts, handle_rsip, Ended
  <1>6. \A c \in 1..MgMax : R.call[c] \in Call
    BY <1>2, CallFields
  <1>7. ASSUME NEW C \in Call PROVE /\ Ended(C) \in Call /\ Ended(C).at = C.at /\ Ended(C).ssrc = C.ssrc
                                    /\ Ended(C).st = IF C.st = "NONE" THEN "NONE" ELSE "OVER"
    BY DEF Call, Ended
  <1>8. \A c \in 1..MgMax : /\ call[c] \in Call /\ call[c].at = R.call[c].at /\ call[c].ssrc = R.call[c].ssrc
                            /\ call[c].st = IF R.call[c].st = "NONE" THEN "NONE" ELSE "OVER"
    BY <1>2, <1>3, <1>6, <1>7
  <1>9. call \in [1..MgMax -> Call]
    BY <1>3, <1>8
  <1>10. T \in MgState /\ T.call = call /\ T.ep = R.ep /\ T.heard = R.heard /\ T.out = R.out /\ T.jump = R.jump
    BY <1>2, <1>4, <1>9 DEF MgState
  <1>11. Agents(T)
    BY <1>2, <1>8, <1>10 DEF MgFine, Agents, Busy
  <1>12. CallsMove(R, T)
    BY <1>8, <1>10 DEF CallsMove
  <1>13. MgFine(T)
    <2> HIDE <1>4
    <2> QED BY <1>2, <1>10, <1>11, <1>12, CallsKeep
  <1> QED BY <1>5, <1>13

-----------------------------------------------------------------------------
(* The operator and the parties *)

Looped(E, m) == [E EXCEPT !.conn_mode = m, !.allow_patch = TRUE]
LEMMA StepLoops ==
    ASSUME MgInv, loop_endp PROVE MgFine(mg')
  <1>1. PICK e \in mgEnv.endp, loop \in BOOLEAN :
          mg' = [mg EXCEPT !.ep[e].conn_mode = IF loop THEN "loopback" ELSE mg.ep[e].orig_mode, !.ep[e].allow_patch = TRUE]
    BY DEF loop_endp
  <1>2. MgFine(mg) /\ mg \in MgState /\ e \in MgEndp /\ mg.ep[e] \in Endp /\ EndpGood(mg, e)
    BY EnvFields, StateFields DEF MgInv, MgFine
  <1>3. PICK m : m = IF loop THEN "loopback" ELSE mg.ep[e].orig_mode
    OBVIOUS
  <1>4. m \in Modes
    BY <1>2, <1>3, EndpFields DEF Modes
  <1>5. PICK F : F = Looped(mg.ep[e], m)
    OBVIOUS
  <1>6. /\ F \in Endp /\ F.allocated = mg.ep[e].allocated /\ F.ci = mg.ep[e].ci /\ F.callid = mg.ep[e].callid
        /\ F.is_transcoded = mg.ep[e].is_transcoded /\ F.allow_patch /\ F.state = mg.ep[e].state /\ F.end = mg.ep[e].end
    BY <1>2, <1>4, <1>5 DEF Looped, Endp
  <1>7. PICK T : T = WithEp(mg, e, F)
    OBVIOUS
  <1>8. mg' = T
    BY <1>1, <1>2, <1>3, <1>5, <1>7 DEF WithEp, Looped, MgState
  <1>9. Alone(mg, T, e) /\ T.ep[e] = F /\ T.call = mg.call /\ T.out = mg.out
    BY SMTT(60), <1>2, <1>6, <1>7, WithEpFields DEF Alone
  <1>10. EpFine(F)
    <2>1. Ports(F)
      BY <1>2, <1>6, SamePorts DEF EndpGood, EpFine
    <2> QED BY <1>2, <1>6, <2>1 DEF EndpGood, EpFine, Used, Unused
  <1>11. AgentAt(T, e) /\ GivenAt(T, e) /\ PeersAt(T, e)
    BY <1>2, <1>6, <1>9 DEF EndpGood, AgentAt, GivenAt, PeersAt, TakenLate, Kept
  <1>12. ASSUME Steady PROVE StreamAt(T, e)
    <2> SUFFICES ASSUME NEW to \in Sides PROVE Patched(F, to) /\ Follows(T, e, to) /\ Known(T, e, to)
      BY <1>9 DEF StreamAt
    <2>1. Patched(mg.ep[e], to) /\ Follows(mg, e, to) /\ Known(mg, e, to)
      BY <1>2, <1>12 DEF EndpGood, StreamAt
    <2>2. Patched(F, to)
      BY <1>6, <2>1 DEF Patched
    <2>3. Peer(T, e, to) = Peer(mg, e, to)
      BY <1>6, <1>9 DEF Peer
    <2>4. Follows(T, e, to)
      BY <1>6, <1>9, <2>1, <2>3 DEF Follows
    <2>5. Known(T, e, to)
      BY <1>6, <1>9, <2>1, <2>3 DEF Known
    <2> QED BY <2>2, <2>4, <2>5
  <1>13. EndpGood(T, e)
    BY <1>9, <1>10, <1>11, <1>12 DEF EndpGood
  <1>14. T.ep[e].ci # 0 => \A f \in MgEndp \ {e} : mg.ep[f].ci # T.ep[e].ci
    BY <1>2, <1>6, <1>9 DEF MgFine, Distinct
  <1>15. MgFine(T)
    BY <1>2, <1>9, <1>13, <1>14, AloneKeeps
  <1> QED BY <1>8, <1>15

\* Only what a party sends differs.
LEMMA PartyKeeps ==
    ASSUME NEW S, MgFine(S), NEW c \in 1..MgMax, NEW C \in Call, C.at = S.call[c].at, C.st = S.call[c].st,
           Steady => C.ssrc = S.call[c].ssrc, NEW T, T = WithCall(S, c, C)
    PROVE  /\ MgFine(T) /\ T.ep = S.ep /\ T.trans = S.trans /\ T.heard = S.heard /\ T.out = S.out /\ T.jump = S.jump
           /\ \A d \in 1..MgMax : T.call[d].at = S.call[d].at /\ T.call[d].st = S.call[d].st
  <1>1. S \in MgState
    BY DEF MgFine
  <1>2. /\ T \in MgState /\ T.ep = S.ep /\ T.heard = S.heard /\ T.out = S.out /\ T.jump = S.jump
        /\ T.call[c] = C /\ \A d \in 1..MgMax : d # c => T.call[d] = S.call[d]
    BY <1>1, WithCallFields
  <1>3. T.trans = S.trans
    BY <1>1 DEF WithCall, MgState
  <1>4. \A d \in 1..MgMax : T.call[d].at = S.call[d].at /\ T.call[d].st = S.call[d].st /\ (Steady => T.call[d].ssrc = S.call[d].ssrc)
    BY <1>2
  <1>5. Agents(T)
    BY <1>4 DEF MgFine, Agents, Busy
  <1>6. CallsMove(S, T)
    BY <1>4 DEF CallsMove
  <1>7. MgFine(T)
    BY <1>2, <1>5, <1>6, CallsKeep
  <1> QED BY <1>2, <1>3, <1>4, <1>7

LEMMA StepChanges ==
    ASSUME MgInv, PartyChanges PROVE MgFine(mg')
  <1>1. PICK c \in MgCalls({"UP"}) : MgHas("changes") /\ mg' = [mg EXCEPT !.call[c].ssrc["NET"] = 2]
    BY DEF PartyChanges
  <1>2. MgFine(mg) /\ mg \in MgState /\ c \in 1..MgMax /\ ~Steady
    BY <1>1 DEF MgInv, MgFine, MgCalls, Steady
  <1>3. PICK C : C = [mg.call[c] EXCEPT !.ssrc["NET"] = 2]
    OBVIOUS
  <1>4. C \in Call /\ C.at = mg.call[c].at /\ C.st = mg.call[c].st
    <2>1. mg.call[c] \in Call
      BY <1>2, CallFields
    <2> QED BY <1>3, <2>1 DEF Call, Sides
  <1>5. PICK T : T = WithCall(mg, c, C)
    OBVIOUS
  <1>6. mg' = T
    BY <1>1, <1>2, <1>3, <1>5 DEF WithCall, MgState
  <1>7. MgFine(T)
    BY <1>2, <1>4, <1>5, PartyKeeps
  <1> QED BY <1>6, <1>7

-----------------------------------------------------------------------------
(* Audio *)

LEMMA ModShift ==
    ASSUME NEW m \in Nat \ {0}, NEW z \in Int
    PROVE  /\ z % m \in 0..(m - 1)
           /\ z \in 0..(m - 1) => z % m = z
           /\ z \in m..(m + m - 1) => z % m = z - m
           /\ z \in (-m)..(-1) => z % m = z + m
  <1>1. z % m \in 0..(m - 1)
    OBVIOUS
  <1>2. z \in 0..(m - 1) => z % m = z
    OBVIOUS
  <1>3. ASSUME z \in m..(m + m - 1) PROVE z % m = z - m
    BY <1>3
  <1>4. ASSUME z \in (-m)..(-1) PROVE z % m = z + m
    BY <1>4
  <1> QED BY <1>1, <1>2, <1>3, <1>4

\* With the offset patch_and_count() takes, the number after a comes next.
LEMMA NextNumber ==
    ASSUME NEW m \in Nat \ {0, 1}, NEW a \in 0..(m - 1), NEW b \in 0..(m - 1), NEW x, NEW y,
           x = (a + 1 - b) % m, y = (b + x) % m
    PROVE  x \in 0..(m - 1) /\ y \in 0..(m - 1) /\ (y - a) % m = 1
  <1>1. PICK z \in Int : m \in Nat \ {0} /\ z = a + 1 - b /\ x = z % m
    OBVIOUS
  <1>2. x \in 0..(m - 1) /\ (x = z \/ x = z - m \/ x = z + m)
    <2>1. z \in 0..(m - 1) \/ z \in m..(m + m - 1) \/ z \in (-m)..(-1)
      BY <1>1
    <2>2. /\ z % m \in 0..(m - 1) /\ (z \in 0..(m - 1) => z % m = z)
          /\ (z \in m..(m + m - 1) => z % m = z - m) /\ (z \in (-m)..(-1) => z % m = z + m)
      BY <1>1, ModShift
    <2> QED BY <1>1, <2>1, <2>2
  <1>3. PICK w \in Int : w = b + x /\ y = w % m /\ (w \in 0..(m - 1) \/ w \in m..(m + m - 1))
    BY SMTT(60), <1>2
  <1>4. y \in 0..(m - 1) /\ (y = w \/ y = w - m)
    <2>1. w % m \in 0..(m - 1) /\ (w \in 0..(m - 1) => w % m = w) /\ (w \in m..(m + m - 1) => w % m = w - m)
      BY <1>1, ModShift
    <2> QED BY <1>3, <2>1
  <1>5. y = a + 1 \/ (y = 0 /\ a + 1 = m)
    BY <1>1, <1>2, <1>3, <1>4
  <1>6. CASE y = a + 1
    <2>1. y - a = 1 /\ 1 \in 0..(m - 1) /\ 1 \in Int
      BY <1>6
    <2>2. 1 % m = 1
      BY <1>1, <2>1, ModShift
    <2> QED BY <1>2, <1>4, <2>1, <2>2
  <1>7. CASE y = 0 /\ a + 1 = m
    <2>1. y - a = 1 - m /\ 1 - m \in Int /\ 1 - m \in (-m)..(-1)
      BY <1>7
    <2>2. (1 - m) % m = 1
      BY <1>1, <2>1, ModShift
    <2> QED BY <1>2, <1>4, <2>1, <2>2
  <1> QED BY <1>5, <1>6, <1>7

LEMMA PatchFields ==
    ASSUME NEW s \in Rtp, NEW allow \in BOOLEAN, NEW p \in Packet, NEW r, r = patch_and_count(s, allow, p)
    PROVE  /\ r.state \in Rtp /\ r.out \in Packet /\ r.state.initialized /\ r.state.ssrc = p.ssrc /\ r.state.seq_no = r.out.seq
           /\ r.out.ssrc = IF r.state.patch THEN r.state.orig_ssrc ELSE p.ssrc
           /\ ~s.initialized => r.state.orig_ssrc = p.ssrc
           /\ s.initialized => r.state.orig_ssrc = s.orig_ssrc
           /\ s.initialized /\ s.ssrc = p.ssrc => r.state.patch = s.patch
           /\ s.initialized /\ s.ssrc # p.ssrc => r.state.patch = allow /\ (allow => (r.out.seq - s.seq_no) % MgSeq = 1)
  <1>0. MgSeq \in Nat \ {0, 1} /\ Seqs = 0..(MgSeq - 1)
    BY Bounds DEF Seqs
  <1>1. /\ s.seq_no \in Seqs /\ s.seq_offset \in Seqs /\ s.ssrc \in 0..4 /\ s.orig_ssrc \in 0..4 /\ s.initialized \in BOOLEAN
        /\ s.patch \in BOOLEAN /\ p.seq \in Seqs /\ p.ssrc \in 0..4
    BY DEF Rtp, Packet
  <1>2. PICK t : t = IF ~s.initialized
                     THEN [s EXCEPT !.initialized = TRUE, !.seq_no = (p.seq - 1) % MgSeq, !.ssrc = p.ssrc, !.orig_ssrc = p.ssrc]
                     ELSE IF s.ssrc # p.ssrc
                     THEN [s EXCEPT !.ssrc = p.ssrc, !.seq_offset = (s.seq_no + 1 - p.seq) % MgSeq, !.patch = allow]
                     ELSE s
    OBVIOUS
  <1>3. PICK q : q = IF t.patch THEN [ssrc |-> t.orig_ssrc, seq |-> (p.seq + t.seq_offset) % MgSeq] ELSE p
    OBVIOUS
  <1>4. r = [state |-> [t EXCEPT !.seq_no = q.seq], out |-> q]
    BY <1>2, <1>3 DEF patch_and_count
  <1>5. (s.seq_no + 1 - p.seq) % MgSeq \in Seqs /\ (p.seq - 1) % MgSeq \in Seqs
    <2>1. PICK z \in Int, w \in Int : z = s.seq_no + 1 - p.seq /\ w = p.seq - 1
      BY <1>0, <1>1
    <2>2. z % MgSeq \in 0..(MgSeq - 1) /\ w % MgSeq \in 0..(MgSeq - 1)
      BY <1>0, ModShift
    <2> QED BY <1>0, <2>1, <2>2
  <1>6. t \in Rtp /\ t.initialized /\ t.ssrc = p.ssrc
    <2>1. CASE ~s.initialized
      BY <1>1, <1>2, <1>5, <2>1 DEF Rtp
    <2>2. CASE s.initialized /\ s.ssrc # p.ssrc
      BY <1>1, <1>2, <1>5, <2>2 DEF Rtp
    <2>3. CASE s.initialized /\ s.ssrc = p.ssrc
      BY <1>2, <2>3
    <2> QED BY <1>1, <2>1, <2>2, <2>3
  <1>7. /\ ~s.initialized => t.orig_ssrc = p.ssrc
        /\ s.initialized => t.orig_ssrc = s.orig_ssrc
        /\ s.initialized /\ s.ssrc = p.ssrc => t.patch = s.patch
        /\ s.initialized /\ s.ssrc # p.ssrc => t.patch = allow /\ t.seq_offset = (s.seq_no + 1 - p.seq) % MgSeq
    BY <1>2 DEF Rtp
  <1>8. t.patch \in BOOLEAN /\ t.orig_ssrc \in 0..4 /\ t.seq_offset \in Seqs
    BY <1>6 DEF Rtp
  <1>9. q \in Packet /\ q.ssrc = IF t.patch THEN t.orig_ssrc ELSE p.ssrc
    <2>1. (p.seq + t.seq_offset) % MgSeq \in Seqs
      <3>1. PICK z \in Int : z = p.seq + t.seq_offset
        BY <1>0, <1>1, <1>8
      <3>2. z % MgSeq \in 0..(MgSeq - 1)
        BY <1>0, ModShift
      <3> QED BY <1>0, <3>1, <3>2
    <2> QED BY <1>1, <1>3, <1>8, <2>1 DEF Packet
  <1>10. q.seq \in Seqs
    BY <1>9 DEF Packet
  <1>11. /\ r.out = q /\ r.state \in Rtp /\ r.state.initialized = t.initialized /\ r.state.ssrc = t.ssrc /\ r.state.seq_no = q.seq
         /\ r.state.patch = t.patch /\ r.state.orig_ssrc = t.orig_ssrc
    <2>1. PICK u, n : n = q.seq /\ u = [t EXCEPT !.seq_no = n]
      OBVIOUS
    <2>2. r.out = q /\ r.state = u
      BY <1>4, <2>1
    <2>3. /\ u \in Rtp /\ u.initialized = t.initialized /\ u.ssrc = t.ssrc /\ u.seq_no = n
          /\ u.patch = t.patch /\ u.orig_ssrc = t.orig_ssrc
      BY <1>6, <1>10, <2>1 DEF Rtp
    <2> QED BY <2>1, <2>2, <2>3
  <1>12. ASSUME s.initialized, s.ssrc # p.ssrc, allow PROVE (q.seq - s.seq_no) % MgSeq = 1
    <2>1. q.seq = (p.seq + t.seq_offset) % MgSeq /\ t.seq_offset = (s.seq_no + 1 - p.seq) % MgSeq
      BY <1>3, <1>7, <1>12
    <2>2. PICK a, b, x, y : a = s.seq_no /\ b = p.seq /\ x = t.seq_offset /\ y = q.seq
      OBVIOUS
    <2>3. a \in 0..(MgSeq - 1) /\ b \in 0..(MgSeq - 1) /\ x = (a + 1 - b) % MgSeq /\ y = (b + x) % MgSeq
      BY <1>0, <1>1, <2>1, <2>2
    <2>4. (y - a) % MgSeq = 1
      BY <1>0, <2>3, NextNumber
    <2> QED BY <2>2, <2>4
  <1> QED BY <1>6, <1>7, <1>9, <1>11, <1>12

\* The packet leaves as part of the stream its party knows.
LEMMA StreamStep ==
    ASSUME NEW E \in Endp, NEW to \in Sides, Patched(E, to),
           NEW p \in Packet, p.ssrc # 0, E.conn_mode # "loopback" => p.ssrc = Source(to), NEW o \in Packet,
           o.ssrc # 0 => E.state[to].initialized /\ E.state[to].orig_ssrc = o.ssrc /\ E.state[to].seq_no = o.seq,
           NEW r, r = patch_and_count(E.state[to], E.allow_patch, p)
    PROVE  /\ r.state.orig_ssrc # 0 /\ (r.state.patch \/ r.state.ssrc = r.state.orig_ssrc)
           /\ E.allow_patch \/ r.state.ssrc = Source(to)
           /\ r.out.ssrc = r.state.orig_ssrc
           /\ ~(/\ E.allow_patch /\ o.ssrc # 0
                /\ r.out.ssrc # o.ssrc \/ (r.state.ssrc # E.state[to].ssrc /\ (r.out.seq - o.seq) % MgSeq # 1))
  <1>1. PICK s : s = E.state[to]
    OBVIOUS
  <1>2. s \in Rtp /\ E.allow_patch \in BOOLEAN /\ s.initialized \in BOOLEAN /\ s.patch \in BOOLEAN
    BY <1>1, EndpFields DEF Rtp
  <1>3. r = patch_and_count(s, E.allow_patch, p)
    BY <1>1
  <1>4. /\ r.state \in Rtp /\ r.out \in Packet /\ r.state.initialized /\ r.state.ssrc = p.ssrc /\ r.state.seq_no = r.out.seq
        /\ r.out.ssrc = IF r.state.patch THEN r.state.orig_ssrc ELSE p.ssrc
        /\ ~s.initialized => r.state.orig_ssrc = p.ssrc
        /\ s.initialized => r.state.orig_ssrc = s.orig_ssrc
        /\ s.initialized /\ s.ssrc = p.ssrc => r.state.patch = s.patch
        /\ s.initialized /\ s.ssrc # p.ssrc => /\ r.state.patch = E.allow_patch
                                               /\ E.allow_patch => (r.out.seq - s.seq_no) % MgSeq = 1
    BY <1>2, <1>3, PatchFields
  <1>5. p.ssrc # 0 /\ (E.conn_mode = "loopback" => E.allow_patch) /\ (E.allow_patch \/ p.ssrc = Source(to))
    BY DEF Patched
  <1>6. s.initialized => s.orig_ssrc # 0 /\ (s.patch \/ s.ssrc = s.orig_ssrc) /\ (E.allow_patch \/ s.ssrc = Source(to))
    BY <1>1 DEF Patched
  <1>7. CASE ~s.initialized
    BY <1>1, <1>4, <1>5, <1>7
  <1>8. CASE s.initialized /\ s.ssrc = p.ssrc
    BY <1>1, <1>4, <1>5, <1>6, <1>8
  <1>9. CASE s.initialized /\ s.ssrc # p.ssrc
    <2>1. E.allow_patch
      BY <1>5, <1>6, <1>9
    <2>2. r.state.patch /\ r.out.ssrc = s.orig_ssrc /\ r.state.orig_ssrc = s.orig_ssrc /\ (r.out.seq - s.seq_no) % MgSeq = 1
      BY <1>4, <1>9, <2>1
    <2> QED BY <1>1, <1>6, <1>9, <2>1, <2>2
  <1> QED BY <1>2, <1>7, <1>8, <1>9

\* Whose call a packet is, and whose party hears it.
Sender(S, e, dest, c) == S.ep[e].end[IF dest = "BTS" THEN "net_end" ELSE "bts_end"].peer = c
LEMMA HeardIs ==
    ASSUME NEW S, MgFine(S), NEW e \in MgEndp, NEW c \in 1..MgMax, S.call[c].at = e, S.ep[e].allocated,
           S.call[c].st = "UP" \/ (MgHas("late_rtp") /\ S.call[c].st = "OVER"),
           NEW dest \in Sides, NEW to \in Sides, Sender(S, e, dest, c) \/ (MgHas("late_rtp") /\ mgEnv.transcoder),
           NEW g, g = Peer(S, e, to)
    PROVE  /\ dest = "BTS" => S.ep[e].callid = c \/ (MgHas("late_rtp") /\ mgEnv.transcoder)
           /\ \/ MgHas("late_rtp")
              \/ (g # 0 => g = c) /\ (MgHas("late_dup") \/ S.ep[e].callid = c)
              \/ dest = "NET" /\ <<S.ep[e].callid, c>> \in mgEnv.extends /\ g \in {0, c, S.ep[e].callid}
           /\ ~MgHas("late_rtp") /\ g # 0 => S.call[g].at = e /\ S.call[g].st \in {"UP", "OVER"}
  <1>1. GivenAt(S, e) /\ PeersAt(S, e) /\ AgentAt(S, e) /\ c # 0
    BY Bounds DEF MgFine, EndpGood
  <1>2. PICK b, n, t : b = S.ep[e].callid /\ n = S.ep[e].end["net_end"].peer /\ t = S.ep[e].end["bts_end"].peer
    OBVIOUS
  <1>3. g = IF to = "NET" THEN n ELSE t
    BY <1>2 DEF Peer, EndOf
  <1>4. n \in {0, b}
    BY <1>1, <1>2 DEF PeersAt
  <1>5. Sender(S, e, dest, c) => c = IF dest = "BTS" THEN n ELSE t
    BY <1>2 DEF Sender
  <1>6. dest = "BTS" => b = c \/ (MgHas("late_rtp") /\ mgEnv.transcoder)
    BY <1>1, <1>4, <1>5
  <1>7. CASE MgHas("late_rtp")
    BY <1>2, <1>6, <1>7
  <1>8. CASE ~MgHas("late_rtp")
    <2>1. S.call[c].st = "UP" /\ c = IF dest = "BTS" THEN n ELSE t
      BY <1>5, <1>8
    <2>2. b = c \/ TakenLate(S, e) \/ Kept(S, e, c)
      BY <1>1, <1>2, <2>1 DEF GivenAt
    <2>3. CASE b = c
      <3>1. ~TakenLate(S, e) /\ ~Kept(S, e, t)
        BY <1>2, <2>1, <2>3 DEF TakenLate, Kept
      <3>2. t \in {0, c}
        BY <1>1, <1>2, <1>8, <2>3, <3>1 DEF PeersAt
      <3>3. g # 0 => g = c
        BY <1>3, <1>4, <2>3, <3>2
      <3> QED BY <1>2, <1>6, <2>1, <2>3, <3>3
    <2>4. CASE TakenLate(S, e)
      <3>1. n = 0 /\ MgHas("late_dup")
        BY <1>2, <2>4 DEF TakenLate
      <3>2. t = c
        BY <1>1, <2>1, <3>1
      <3>3. g # 0 => g = c
        BY <1>3, <3>1, <3>2
      <3> QED BY <1>2, <1>6, <2>1, <3>1, <3>3
    <2>5. CASE Kept(S, e, c)
      <3>1. <<b, c>> \in mgEnv.extends /\ S.call[b].st = "OVER" /\ b # 0
        BY <1>2, <2>5 DEF Kept
      <3>2. b # c /\ S.call[b].at = e
        BY <1>1, <1>2, <2>1, <3>1 DEF AgentAt
      <3>3. dest = "NET" /\ t = c
        BY <1>1, <1>4, <2>1, <3>2 DEF Sides
      <3>4. g \in {0, c, b}
        BY <1>3, <1>4, <3>3
      <3> QED BY <1>2, <1>6, <2>1, <3>1, <3>2, <3>3, <3>4
    <2> QED BY <2>2, <2>3, <2>4, <2>5
  <1> QED BY <1>7, <1>8

LEMMA OutFields ==
    ASSUME NEW S \in MgState, NEW c \in 1..MgMax, NEW to \in Sides PROVE S.out[c][to] \in Packet
  <1>1. S.out \in [1..MgMax -> [Sides -> Packet]]
    BY StateFields
  <1>2. S.out[c] \in [Sides -> Packet]
    BY <1>1
  <1> QED BY <1>2
\* S after a party has heard a packet.
Delivered(S, h, j, g, to, q) == [S EXCEPT !.heard = @ \cup {h}, !.jump = j, !.out[g][to] = q]
LEMMA DeliveredFields ==
    ASSUME NEW S \in MgState, NEW h \in Heard, NEW j \in BOOLEAN,
           NEW g \in 1..MgMax, NEW to \in Sides, NEW q \in Packet, NEW T, T = Delivered(S, h, j, g, to, q)
    PROVE  /\ T \in MgState /\ T.ep = S.ep /\ T.call = S.call /\ T.heard = S.heard \cup {h} /\ T.jump = j
           /\ T.out[g][to] = q
           /\ \A d \in 1..MgMax, s \in Sides : d # g \/ s # to => T.out[d][s] = S.out[d][s]
  <1>1. S.out \in [1..MgMax -> [Sides -> Packet]]
    BY StateFields
  <1>2. PICK out : out = [S.out EXCEPT ![g][to] = q]
    OBVIOUS
  <1>3. out \in [1..MgMax -> [Sides -> Packet]]
    BY <1>1, <1>2
  <1>4. out[g][to] = q /\ \A d \in 1..MgMax, s \in Sides : d # g \/ s # to => out[d][s] = S.out[d][s]
    BY <1>1, <1>2
  <1>5. PICK hs : hs = S.heard \cup {h}
    OBVIOUS
  <1>6. hs \in SUBSET Heard
    BY <1>5 DEF MgState
  <1>7. T = [S EXCEPT !.heard = hs, !.jump = j, !.out = out]
    BY <1>2, <1>5 DEF Delivered
  <1>8. T \in MgState /\ T.ep = S.ep /\ T.call = S.call /\ T.heard = hs /\ T.jump = j /\ T.out = out
    BY <1>3, <1>6, <1>7 DEF MgState
  <1> QED BY <1>4, <1>5, <1>8

\* An endpoint with another state of one direction.
WithState(E, to, s) == [E EXCEPT !.state[to] = s]
LEMMA WithStateFields ==
    ASSUME NEW E \in Endp, NEW to \in Sides, NEW s \in Rtp, NEW F, F = WithState(E, to, s)
    PROVE  /\ F \in Endp /\ F.end = E.end /\ F.allocated = E.allocated /\ F.ci = E.ci /\ F.callid = E.callid
           /\ F.conn_mode = E.conn_mode /\ F.is_transcoded = E.is_transcoded /\ F.allow_patch = E.allow_patch
           /\ F.state[to] = s /\ \A t \in Sides : t # to => F.state[t] = E.state[t]
  <1>1. PICK st : st = [E.state EXCEPT ![to] = s]
    OBVIOUS
  <1>2. E.state \in [Sides -> Rtp]
    BY EndpFields
  <1>3. st \in [Sides -> Rtp] /\ st[to] = s /\ \A t \in Sides : t # to => st[t] = E.state[t]
    BY <1>1, <1>2
  <1>4. F = [E EXCEPT !.state = st]
    BY <1>1 DEF WithState
  <1>5. /\ F \in Endp /\ F.end = E.end /\ F.allocated = E.allocated /\ F.ci = E.ci /\ F.callid = E.callid
        /\ F.conn_mode = E.conn_mode /\ F.is_transcoded = E.is_transcoded /\ F.allow_patch = E.allow_patch /\ F.state = st
    BY <1>3, <1>4 DEF Endp
  <1> QED BY <1>3, <1>5

\* Where nothing is late, the parties an endpoint knows are of calls it was given to.
LEMMA PeersHere ==
    ASSUME NEW S, NEW f \in MgEndp, EndpGood(S, f), S.ep[f] \in Endp, Steady, NEW t \in Sides, Peer(S, f, t) # 0
    PROVE  Peer(S, f, t) \in 1..MgMax /\ S.call[Peer(S, f, t)].at = f
  <1>1. PICK g, b : g = Peer(S, f, t) /\ b = S.ep[f].callid
    OBVIOUS
  <1>2. b \in 0..MgMax /\ ~TakenLate(S, f)
    BY <1>1, EndpFields DEF Steady, TakenLate
  <1>3. g \in {0, b} \/ Kept(S, f, g)
    BY <1>1, <1>2 DEF EndpGood, PeersAt, Peer, EndOf, Steady
  <1>4. b # 0 => S.call[b].at = f
    BY <1>1 DEF EndpGood, AgentAt
  <1> QED BY <1>1, <1>2, <1>3, <1>4, Bounds DEF Kept

LEMMA SendKeeps ==
    ASSUME NEW S, MgFine(S), NEW e \in MgEndp, NEW c \in 1..MgMax, S.call[c].at = e, S.ep[e].allocated,
           S.call[c].st = "UP" \/ (MgHas("late_rtp") /\ S.call[c].st = "OVER"), NEW dest \in Sides,
           Sender(S, e, dest, c) \/ (MgHas("late_rtp") /\ mgEnv.transcoder), mgEnv.audio_loop \in BOOLEAN,
           NEW p \in Packet, Steady => p.ssrc = Meant(dest)
    PROVE  MgFine(send_to(S, e, dest, c, p))
  <1>1. PICK E, side : E = S.ep[e] /\ side = IF dest = "NET" THEN "BTS" ELSE "NET"
    OBVIOUS
  <1>2. PICK to : to = IF mgEnv.audio_loop = (E.conn_mode = "loopback") THEN dest ELSE side
    OBVIOUS
  <1>3. to \in Sides /\ side \in Sides /\ (side = "NET" <=> dest = "BTS") /\ (side = "BTS" <=> dest = "NET")
        /\ (E.conn_mode # "loopback" => Meant(dest) = Source(to))
    BY <1>1, <1>2 DEF Sides, Meant, Source
  <1>4. S \in MgState /\ E \in Endp /\ EndpGood(S, e)
    BY <1>1, StateFields DEF MgFine
  <1>5. PICK r : r = patch_and_count(E.state[to], E.allow_patch, p)
    OBVIOUS
  <1>6. r.state \in Rtp /\ r.out \in Packet /\ r.state.initialized /\ r.state.ssrc = p.ssrc /\ r.state.seq_no = r.out.seq
    <2>1. E.state[to] \in Rtp /\ E.allow_patch \in BOOLEAN
      BY <1>3, <1>4, EndpFields
    <2> QED BY <1>5, <2>1, PatchFields
  <1>7. PICK F : F = WithState(E, to, r.state)
    OBVIOUS
  <1>8. /\ F \in Endp /\ F.end = E.end /\ F.allocated = E.allocated /\ F.ci = E.ci /\ F.callid = E.callid
        /\ F.conn_mode = E.conn_mode /\ F.is_transcoded = E.is_transcoded /\ F.allow_patch = E.allow_patch
        /\ F.state[to] = r.state /\ \A t \in Sides : t # to => F.state[t] = E.state[t]
    BY <1>3, <1>4, <1>6, <1>7, WithStateFields
  <1>9. PICK U : U = WithEp(S, e, F)
    OBVIOUS
  <1>10. /\ U \in MgState /\ U.ep[e] = F /\ (\A f \in MgEndp \ {e} : U.ep[f] = S.ep[f])
         /\ U.call = S.call /\ U.heard = S.heard /\ U.out = S.out /\ U.jump = S.jump
    BY SMTT(60), <1>4, <1>8, <1>9, WithEpFields
  <1>11. PICK g, o, other : g = E.end[EndOf(to)].peer /\ o = S.out[g][to] /\ other = (r.state.ssrc # E.state[to].ssrc)
    OBVIOUS
  <1>12. PICK jump : jump = (U.jump \/ (/\ mgEnv.audio /\ E.allow_patch /\ o.ssrc # 0
                                        /\ r.out.ssrc # o.ssrc \/ (other /\ (r.out.seq - o.seq) % MgSeq # 1)))
    OBVIOUS
  <1>13. PICK q, h : q = (IF mgEnv.audio THEN r.out ELSE o) /\ h = <<side, c, E.callid, g>>
    OBVIOUS
  <1>14. send_to(S, e, dest, c, p) = IF g = 0 THEN U ELSE Delivered(U, h, jump, g, to, q)
    <2>1. U = [S EXCEPT !.ep[e].state[to] = r.state]
      BY <1>1, <1>7, <1>9 DEF WithEp, WithState
    <2>2. send_to(S, e, dest, c, p) = udp_send(U, e, to, side, c, r.out, other)
      BY ZenonT(60), <1>1, <1>2, <1>5, <1>11, <2>1 DEF send_to
    <2>3. U.ep[e].end[IF to = "NET" THEN "net_end" ELSE "bts_end"].peer = g
      BY <1>8, <1>10, <1>11 DEF EndOf
    <2>4. U.ep[e].allow_patch = E.allow_patch /\ U.ep[e].callid = E.callid /\ U.out[g][to] = o
      BY <1>8, <1>10, <1>11
    <2>5. CASE g = 0
      BY <2>2, <2>3, <2>5 DEF udp_send
    <2>6. CASE g # 0
      <3>1. udp_send(U, e, to, side, c, r.out, other) =
              [U EXCEPT !.heard = @ \cup {<<side, c, U.ep[e].callid, g>>},
                        !.jump = @ \/ (mgEnv.audio /\ U.ep[e].allow_patch /\ U.out[g][to].ssrc # 0
                                         /\ (r.out.ssrc # U.out[g][to].ssrc \/ (other /\ (r.out.seq - U.out[g][to].seq) % MgSeq # 1))),
                        !.out[g][to] = IF mgEnv.audio THEN r.out ELSE @]
        BY <2>3, <2>6 DEF udp_send
      <3> QED BY <1>12, <1>13, <2>2, <2>4, <2>6, <3>1 DEF Delivered
    <2> QED BY <2>5, <2>6
  <1>15. /\ dest = "BTS" => E.callid = c \/ (MgHas("late_rtp") /\ mgEnv.transcoder)
         /\ \/ MgHas("late_rtp")
            \/ (g # 0 => g = c) /\ (MgHas("late_dup") \/ E.callid = c)
            \/ dest = "NET" /\ <<E.callid, c>> \in mgEnv.extends /\ g \in {0, c, E.callid}
         /\ ~MgHas("late_rtp") /\ g # 0 => S.call[g].at = e /\ S.call[g].st \in {"UP", "OVER"}
    <2>1. g = Peer(S, e, to)
      BY <1>1, <1>11 DEF Peer
    <2> QED BY <1>1, <1>3, <2>1, HeardIs
  <1>16. EpFine(F)
    <2>1. Ports(F)
      BY <1>1, <1>4, <1>8, SamePorts DEF EndpGood, EpFine
    <2> QED BY <1>1, <1>4, <1>8, <2>1 DEF EndpGood, EpFine, Used
  <1>17. ASSUME NEW T, T.ep[e] = F, T.call = S.call PROVE AgentAt(T, e) /\ GivenAt(T, e) /\ PeersAt(T, e)
    <2>1. T.ep[e].callid = S.ep[e].callid /\ T.ep[e].end = S.ep[e].end /\ T.call = S.call
      BY <1>1, <1>8, <1>17
    <2>2. T.ep[e].allocated = S.ep[e].allocated
      BY <1>1, <1>8, <1>17
    <2>3. (TakenLate(S, e) <=> TakenLate(T, e)) /\ \A k : Kept(S, e, k) => Kept(T, e, k)
      BY ONLY <2>1 DEF TakenLate, Kept
    <2>4. AgentAt(T, e)
      BY <1>4, <2>1 DEF EndpGood, AgentAt
    <2>5. GivenAt(T, e)
      BY <1>4, <2>1, <2>2, <2>3 DEF EndpGood, GivenAt
    <2>6. PeersAt(T, e)
      BY <1>4, <2>1, <2>3 DEF EndpGood, PeersAt
    <2> QED BY <2>4, <2>5, <2>6
  <1>18. F.ci # 0 => \A f \in MgEndp \ {e} : S.ep[f].ci # F.ci
    BY <1>1, <1>8 DEF MgFine, Distinct
  <1>19. ASSUME Steady
         PROVE  /\ (\A t \in Sides : Patched(F, t)) /\ r.out.ssrc = r.state.orig_ssrc
                /\ g # 0 => /\ S.call[g].at = e /\ S.call[g].st \in {"UP", "OVER"} /\ g \in 1..MgMax
                            /\ ~(/\ E.allow_patch /\ o.ssrc # 0
                                 /\ r.out.ssrc # o.ssrc \/ (other /\ (r.out.seq - o.seq) % MgSeq # 1))
    <2>1. g # 0 => S.call[g].at = e /\ S.call[g].st \in {"UP", "OVER"} /\ g \in 1..MgMax
      <3>1. "net_end" \in MgEnds /\ "bts_end" \in MgEnds /\ E.end \in [MgEnds -> End]
        BY <1>4, EndpFields DEF MgEnds
      <3>2. E.end[EndOf(to)] \in End
        BY <3>1 DEF EndOf
      <3>3. g \in 0..MgMax
        BY <1>11, <3>2 DEF End
      <3> QED BY <1>15, <1>19, <3>3, Bounds DEF Steady
    <2>2. \A t \in Sides : Patched(E, t) /\ Follows(S, e, t)
      BY <1>1, <1>4, <1>19 DEF EndpGood, StreamAt
    <2>3. PICK w : w = IF g # 0 THEN o ELSE MgQuiet
      OBVIOUS
    <2>4. w \in Packet
      <3>1. CASE g # 0
        BY <1>3, <1>4, <1>11, <2>1, <2>3, <3>1, OutFields
      <3>2. CASE g = 0
        BY <2>3, <3>2, InitialEndp
      <3> QED BY <3>1, <3>2
    <2>5. w.ssrc # 0 => E.state[to].initialized /\ E.state[to].orig_ssrc = w.ssrc /\ E.state[to].seq_no = w.seq
      <3>1. CASE g # 0
        <4>1. Follows(S, e, to) /\ Peer(S, e, to) = g
          BY <1>1, <1>3, <1>11, <2>2 DEF Peer
        <4> QED BY <1>1, <1>11, <2>3, <3>1, <4>1 DEF Follows
      <3>2. CASE g = 0
        BY <2>3, <3>2 DEF MgQuiet
      <3> QED BY <3>1, <3>2
    <2>6. Patched(E, to) /\ p.ssrc = Meant(dest) /\ p.ssrc # 0 /\ (E.conn_mode # "loopback" => p.ssrc = Source(to))
      BY <1>3, <1>19, <2>2 DEF Meant
    <2>7. /\ r.state.orig_ssrc # 0 /\ (r.state.patch \/ r.state.ssrc = r.state.orig_ssrc)
          /\ E.allow_patch \/ r.state.ssrc = Source(to)
          /\ r.out.ssrc = r.state.orig_ssrc
          /\ ~(/\ E.allow_patch /\ w.ssrc # 0
               /\ r.out.ssrc # w.ssrc \/ (r.state.ssrc # E.state[to].ssrc /\ (r.out.seq - w.seq) % MgSeq # 1))
      BY <1>3, <1>4, <1>5, <2>4, <2>5, <2>6, StreamStep
    <2>8. \A t \in Sides : Patched(F, t)
      BY <1>6, <1>8, <2>2, <2>7 DEF Patched
    <2> QED BY <1>11, <2>1, <2>3, <2>7, <2>8
  <1>20. CASE g = 0
    <2>1. Alone(S, U, e)
      BY <1>10 DEF Alone
    <2>2. ASSUME Steady PROVE StreamAt(U, e)
      <3>2. ASSUME NEW t \in Sides PROVE Follows(U, e, t) /\ Known(U, e, t)
        <4>1. Follows(S, e, t) /\ Known(S, e, t)
          BY <1>4, <2>2 DEF EndpGood, StreamAt
        <4>2. Peer(U, e, t) = Peer(S, e, t) /\ (t = to => Peer(S, e, t) = 0)
          BY <1>1, <1>8, <1>10, <1>11, <1>20 DEF Peer
        <4>3. U.ep[e].allocated = S.ep[e].allocated /\ (t # to => U.ep[e].state[t] = S.ep[e].state[t])
          <5>1. F.allocated = E.allocated /\ (t # to => F.state[t] = E.state[t])
            BY ONLY <1>8, t \in Sides, Zenon
          <5> QED BY ONLY <1>1, <1>10, <5>1, Zenon
        <4>4. Known(U, e, t)
          BY <1>10, <4>1, <4>2, <4>3 DEF Known
        <4>5. Follows(U, e, t)
          BY <1>10, <4>1, <4>2, <4>3 DEF Follows
        <4> QED BY <4>4, <4>5
      <3> QED BY <1>10, <1>19, <2>2, <3>2 DEF StreamAt
    <2>3. EndpGood(U, e)
      BY <1>10, <1>16, <1>17, <2>2 DEF EndpGood
    <2>4. MgFine(U)
      BY <1>10, <1>18, <2>1, <2>3, AloneKeeps
    <2> QED BY <1>14, <1>20, <2>4
  <1>21. CASE g # 0
    <2>1. PICK V : V = Delivered(U, h, jump, g, to, q)
      OBVIOUS
    <2>2. g \in 1..MgMax /\ E.callid \in 0..MgMax
      <3>1. "net_end" \in MgEnds /\ "bts_end" \in MgEnds /\ E.end \in [MgEnds -> End]
        BY <1>4, EndpFields DEF MgEnds
      <3>2. E.end[EndOf(to)] \in End
        BY <3>1 DEF EndOf
      <3>3. g \in 0..MgMax
        BY <1>11, <3>2 DEF End
      <3> QED BY <1>4, <1>21, <3>3, EndpFields, Bounds
    <2>3. h \in Heard /\ jump \in BOOLEAN
      <3>1. jump \in BOOLEAN
        BY <1>12
      <3>2. h \in Heard
        BY <1>3, <1>13, <2>2 DEF Heard
      <3> QED BY <3>1, <3>2
    <2>4. o \in Packet /\ q \in Packet
      BY <1>3, <1>4, <1>6, <1>11, <1>13, <2>2, OutFields
    <2>5. /\ V \in MgState /\ V.ep = U.ep /\ V.call = U.call /\ V.heard = U.heard \cup {h} /\ V.jump = jump
          /\ V.out[g][to] = q
          /\ \A d \in 1..MgMax, t \in Sides : d # g \/ t # to => V.out[d][t] = U.out[d][t]
      BY SMTT(60), <1>3, <1>10, <2>1, <2>2, <2>3, <2>4, DeliveredFields
    <2>6. Agents(V)
      BY <1>10, <2>5 DEF MgFine, Agents, Busy
    <2>7. Distinct(V)
      BY <1>10, <1>18, <2>5 DEF MgFine, Distinct
    <2>8. Hears(V)
      <3>1. h[1] = side /\ h[2] = c /\ h[3] = E.callid /\ h[4] = g
        BY <1>13
      <3>2. HearsOwn(h)
        BY <1>3, <1>15, <1>21, <3>1 DEF HearsOwn
      <3> QED BY <1>10, <2>5, <3>2 DEF MgFine, Hears
    <2>9. ~mgEnv.audio => ~V.jump
      BY <1>10, <1>12, <2>5 DEF MgFine
    <2>10. ASSUME Steady PROVE Sources(V)
      <3>1. Sources(S)
        BY <2>10 DEF MgFine
      <3>2. ~V.jump
        BY <1>10, <1>12, <1>19, <1>21, <2>5, <2>10, <3>1 DEF Sources
      <3>3. ASSUME NEW d \in 1..MgMax, NEW t \in Sides
            PROVE  V.call[d].ssrc[t] = 1 /\ (V.out[d][t].ssrc # 0 => V.call[d].st \in {"UP", "OVER"})
        <4>1. CASE d = g
          BY <1>10, <1>19, <1>21, <2>5, <2>10, <3>1, <4>1 DEF Sources
        <4>2. CASE d # g
          BY <1>10, <2>5, <3>1, <4>2 DEF Sources
        <4> QED BY <4>1, <4>2
      <3> QED BY <3>2, <3>3 DEF Sources
    <2>11. ASSUME NEW f \in MgEndp \ {e} PROVE EndpGood(V, f)
      <3>1. V.ep[f] = S.ep[f] /\ V.call = S.call /\ EndpGood(S, f) /\ S.ep[f] \in Endp
        BY <1>4, <1>10, <2>5, StateFields DEF MgFine
      <3>2. EpFine(V.ep[f]) /\ AgentAt(V, f) /\ GivenAt(V, f) /\ PeersAt(V, f)
        BY <3>1, UntouchedGood
      <3>3. ASSUME Steady PROVE StreamAt(V, f)
        <4>1. S.call[g].at = e
          BY <1>19, <1>21, <3>3
        <4>2. \A d \in 1..MgMax : S.call[d].at = f => \A t \in Sides : V.out[d][t] = S.out[d][t]
          BY <1>10, <2>5, <4>1
        <4>3. \A t \in Sides : Peer(S, f, t) # 0 => Peer(S, f, t) \in 1..MgMax /\ S.call[Peer(S, f, t)].at = f
          BY <3>1, <3>3, PeersHere
        <4>4. StreamAt(S, f)
          BY <3>1, <3>3 DEF EndpGood
        <4> QED BY <3>1, <4>2, <4>3, <4>4, UntouchedStream
      <3> QED BY <3>2, <3>3 DEF EndpGood
    <2>12. ASSUME Steady PROVE StreamAt(V, e)
      <3>1. V.ep[e] = F /\ q = r.out
        BY <1>10, <1>13, <2>5, <2>12 DEF Steady
      <3>2. ASSUME NEW t \in Sides PROVE Follows(V, e, t) /\ Known(V, e, t)
        <4>1. Follows(S, e, t) /\ Known(S, e, t)
          BY <1>4, <2>12 DEF EndpGood, StreamAt
        <4>2. Peer(V, e, t) = Peer(S, e, t) /\ (t = to => Peer(S, e, t) = g) /\ V.ep[e].allocated = S.ep[e].allocated
          BY <1>1, <1>8, <1>11, <3>1 DEF Peer
        <4>3. CASE t = to
          <5>1. V.out[g][to] = r.out /\ F.state[to].initialized /\ F.state[to].orig_ssrc = r.out.ssrc /\ F.state[to].seq_no = r.out.seq
            BY <1>6, <1>8, <1>19, <2>5, <2>12, <3>1
          <5>2. Follows(V, e, t)
            BY <3>1, <4>2, <4>3, <5>1 DEF Follows
          <5>3. \A d \in 1..MgMax : d # g => V.out[d][to] = S.out[d][to]
            BY <1>3, <1>10, <2>5
          <5>4. Known(V, e, t)
            BY <1>10, <2>5, <4>1, <4>2, <4>3, <5>3 DEF Known
          <5> QED BY <5>2, <5>4
        <4>4. CASE t # to
          <5>1. \A d \in 1..MgMax : V.out[d][t] = S.out[d][t]
            BY <1>10, <2>5, <4>4
          <5>2. F.state[t] = E.state[t]
            BY <1>8, <4>4
          <5>3. V.ep[e].state[t] = S.ep[e].state[t]
            BY <1>1, <3>1, <5>2
          <5>4. Peer(S, e, t) # 0 => Peer(S, e, t) \in 1..MgMax
            BY <1>1, <1>4, <2>12, PeersHere
          <5>5. Follows(V, e, t)
            BY <4>1, <4>2, <5>1, <5>3, <5>4 DEF Follows
          <5>6. Known(V, e, t)
            BY <1>10, <2>5, <4>1, <4>2, <5>1 DEF Known
          <5> QED BY <5>5, <5>6
        <4> QED BY <4>3, <4>4
      <3> QED BY <1>19, <2>12, <3>1, <3>2 DEF StreamAt
    <2>13. EndpGood(V, e)
      BY <1>10, <1>16, <1>17, <2>5, <2>12 DEF EndpGood
    <2>14. MgFine(V)
      BY <2>5, <2>6, <2>7, <2>8, <2>9, <2>10, <2>11, <2>13 DEF MgFine
    <2> QED BY <1>14, <1>21, <2>1, <2>14
  <1> QED BY <1>20, <1>21

\* discover_bts() takes the sender for the base station.
WithBts(E, c) == [E EXCEPT !.end["bts_end"].peer = c]
LEMMA WithBtsFields ==
    ASSUME NEW E \in Endp, NEW c \in 1..MgMax, NEW F, F = WithBts(E, c)
    PROVE  /\ F \in Endp /\ F.allocated = E.allocated /\ F.ci = E.ci /\ F.callid = E.callid /\ F.conn_mode = E.conn_mode
           /\ F.is_transcoded = E.is_transcoded /\ F.allow_patch = E.allow_patch /\ F.state = E.state
           /\ F.end["bts_end"].peer = c /\ F.end["net_end"] = E.end["net_end"]
           /\ \A n \in MgEnds : F.end[n].fd = E.end[n].fd /\ F.end[n].local_alloc = E.end[n].local_alloc
  <1>1. PICK w : w = [E.end EXCEPT !["bts_end"].peer = c]
    OBVIOUS
  <1>2. E.end \in [MgEnds -> End] /\ c \in 0..MgMax /\ "net_end" \in MgEnds /\ "bts_end" \in MgEnds
    BY EndpFields, Bounds DEF MgEnds
  <1>3. w \in [MgEnds -> End] /\ w["bts_end"].peer = c /\ w["net_end"] = E.end["net_end"]
    BY <1>1, <1>2 DEF End
  <1>4. \A n \in MgEnds : w[n].fd = E.end[n].fd /\ w[n].local_alloc = E.end[n].local_alloc
    BY <1>1, <1>2 DEF End
  <1>5. F = [E EXCEPT !.end = w]
    BY <1>1 DEF WithBts
  <1> QED BY <1>3, <1>4, <1>5 DEF Endp

LEMMA DiscoverKeeps ==
    ASSUME NEW S, MgFine(S), NEW e \in MgEndp, NEW c \in 1..MgMax, S.call[c].at = e, S.ep[e].allocated,
           S.call[c].st = "UP" \/ (MgHas("late_rtp") /\ S.call[c].st = "OVER"), NEW T, T = discover_bts(S, e, c)
    PROVE  MgFine(T) /\ T.call = S.call /\ T.ep[e].allocated
  <1>1. CASE S.ep[e].end["bts_end"].peer # 0 \/ mgEnv.foreign
    BY <1>1 DEF discover_bts
  <1>2. CASE S.ep[e].end["bts_end"].peer = 0 /\ ~mgEnv.foreign
    <2>1. S \in MgState /\ S.ep[e] \in Endp /\ EndpGood(S, e) /\ c # 0
      BY StateFields, Bounds DEF MgFine
    <2>2. PICK F : F = WithBts(S.ep[e], c)
      OBVIOUS
    <2>3. /\ F \in Endp /\ F.allocated = S.ep[e].allocated /\ F.ci = S.ep[e].ci /\ F.callid = S.ep[e].callid
          /\ F.conn_mode = S.ep[e].conn_mode /\ F.is_transcoded = S.ep[e].is_transcoded
          /\ F.allow_patch = S.ep[e].allow_patch /\ F.state = S.ep[e].state
          /\ F.end["bts_end"].peer = c /\ F.end["net_end"] = S.ep[e].end["net_end"]
          /\ \A n \in MgEnds : F.end[n].fd = S.ep[e].end[n].fd /\ F.end[n].local_alloc = S.ep[e].end[n].local_alloc
      <3>1. PICK D : D = S.ep[e]
        OBVIOUS
      <3>2. D \in Endp /\ F = WithBts(D, c)
        BY <2>1, <2>2, <3>1
      <3>3. /\ F \in Endp /\ F.allocated = D.allocated /\ F.ci = D.ci /\ F.callid = D.callid /\ F.conn_mode = D.conn_mode
            /\ F.is_transcoded = D.is_transcoded /\ F.allow_patch = D.allow_patch /\ F.state = D.state
            /\ F.end["bts_end"].peer = c /\ F.end["net_end"] = D.end["net_end"]
            /\ \A n \in MgEnds : F.end[n].fd = D.end[n].fd /\ F.end[n].local_alloc = D.end[n].local_alloc
        BY <3>2, WithBtsFields
      <3> QED BY <3>1, <3>3
    <2>4. T = WithEp(S, e, F)
      BY <1>2, <2>2 DEF discover_bts, WithEp, WithBts
    <2>5. Alone(S, T, e) /\ T.ep[e] = F /\ T.call = S.call /\ T.out = S.out
      BY SMTT(60), <2>1, <2>3, <2>4, WithEpFields DEF Alone
    <2>6. EpFine(F)
      <3>1. Ports(F)
        BY <2>1, <2>3, SamePorts DEF EndpGood, EpFine
      <3> QED BY <2>1, <2>3, <3>1 DEF EndpGood, EpFine, Used
    <2>7. (TakenLate(T, e) <=> TakenLate(S, e)) /\ \A d : Kept(T, e, d) <=> Kept(S, e, d)
      BY <2>3, <2>5 DEF TakenLate, Kept
    <2>8. AgentAt(T, e) /\ GivenAt(T, e)
      BY <2>1, <2>3, <2>5, <2>7 DEF EndpGood, AgentAt, GivenAt
    <2>9. PeersAt(T, e)
      <3>1. ~MgHas("late_rtp") => S.ep[e].callid = c \/ TakenLate(S, e) \/ Kept(S, e, c)
        BY <2>1 DEF EndpGood, GivenAt
      <3> QED BY <2>1, <2>3, <2>5, <2>7, <3>1 DEF EndpGood, PeersAt
    <2>10. ASSUME Steady PROVE StreamAt(T, e)
      <3>1. StreamAt(S, e)
        BY <2>1, <2>10 DEF EndpGood
      <3>2. ASSUME NEW to \in Sides PROVE Patched(F, to) /\ Follows(T, e, to) /\ Known(T, e, to)
        <4>1. Patched(S.ep[e], to) /\ Follows(S, e, to) /\ Known(S, e, to)
          BY <3>1 DEF StreamAt
        <4>2. Peer(T, e, to) = IF to = "BTS" THEN c ELSE Peer(S, e, to)
          BY <2>3, <2>5 DEF EndOf, Peer, Sides
        <4>3. Patched(F, to)
          BY <2>3, <4>1 DEF Patched
        <4>4. CASE to = "NET"
          BY <2>3, <2>5, <4>1, <4>2, <4>3, <4>4 DEF Follows, Known
        <4>5. CASE to = "BTS"
          <5>1. S.call[c].st = "UP" /\ Peer(S, e, to) = 0
            BY <1>2, <2>10, <4>5 DEF Steady, Peer, EndOf
          <5>2. S.out[c][to].ssrc = 0
            BY <2>1, <4>1, <5>1 DEF Known
          <5>3. Follows(T, e, to)
            BY <2>5, <4>2, <4>5, <5>2 DEF Follows
          <5>4. \A d \in 1..MgMax : S.call[d].st = "UP" /\ S.call[d].at = e => d = c
            BY <5>1 DEF MgFine, Agents, Busy
          <5>5. Known(T, e, to)
            BY <2>5, <4>2, <4>5, <5>4 DEF Known
          <5> QED BY <4>3, <5>3, <5>5
        <4> QED BY <4>4, <4>5 DEF Sides
      <3> QED BY <2>5, <3>2 DEF StreamAt
    <2>11. EndpGood(T, e)
      BY <2>5, <2>6, <2>8, <2>9, <2>10 DEF EndpGood
    <2>12. T.ep[e].ci # 0 => \A f \in MgEndp \ {e} : S.ep[f].ci # T.ep[e].ci
      BY <2>3, <2>5 DEF MgFine, Distinct
    <2>13. MgFine(T)
      BY <2>5, <2>11, <2>12, AloneKeeps
    <2> QED BY <2>3, <2>5, <2>13
  <1> QED BY <1>1, <1>2

\* MgPass(): directly, or by the transcoder.
LEMMA PassIs ==
    ASSUME NEW S, NEW e, NEW dest, NEW c, NEW p
    PROVE  MgPass(S, e, dest, c, p) \in {S, send_to(S, e, dest, c, p)}
  BY DEF MgPass, send_transcoder, rtp_data_transcoder

\* A party has sent.
LEMMA SentKeeps ==
    ASSUME MgFine(mg), NEW c \in 1..MgMax, NEW s \in Sides, NEW T, T = MgSent(c, s)
    PROVE  MgFine(T) /\ T.ep = mg.ep /\ \A d \in 1..MgMax : T.call[d].at = mg.call[d].at /\ T.call[d].st = mg.call[d].st
  <1>1. CASE ~mgEnv.audio
    BY <1>1 DEF MgSent
  <1>2. CASE mgEnv.audio
    <2>1. PICK n : n = (mg.call[c].seq[s] + 1) % MgSeq
      OBVIOUS
    <2>2. mg \in MgState /\ mg.call[c] \in Call /\ mg.call[c].seq \in [Sides -> Seqs]
      BY CallFields DEF MgFine
    <2>3. n \in Seqs
      <3>1. PICK z \in Int : z = mg.call[c].seq[s] + 1
        BY <2>2 DEF Seqs
      <3>2. z % MgSeq \in 0..(MgSeq - 1)
        BY Bounds, ModShift
      <3> QED BY <2>1, <3>1, <3>2 DEF Seqs
    <2>4. PICK C : C = [mg.call[c] EXCEPT !.seq[s] = n]
      OBVIOUS
    <2>5. C \in Call /\ C.at = mg.call[c].at /\ C.st = mg.call[c].st /\ C.ssrc = mg.call[c].ssrc
      BY <2>2, <2>3, <2>4 DEF Call
    <2>6. PICK U : U = WithCall(mg, c, C)
      OBVIOUS
    <2>7. T = U
      BY <1>2, <2>1, <2>4, <2>6 DEF MgSent, WithCall
    <2>8. MgFine(U) /\ U.ep = mg.ep /\ \A d \in 1..MgMax : U.call[d].at = mg.call[d].at /\ U.call[d].st = mg.call[d].st
      BY <2>5, <2>6, PartyKeeps
    <2> QED BY <2>7, <2>8
  <1> QED BY <1>1, <1>2

LEMMA PacketFields ==
    ASSUME MgFine(mg), NEW c \in 1..MgMax, NEW s \in Sides
    PROVE  /\ MgPacket(c, s) \in Packet
           /\ Steady => MgPacket(c, s).ssrc = Meant(IF s = "NET" THEN "BTS" ELSE "NET")
  <1>1. mg.call[c].ssrc \in [Sides -> 1..2] /\ mg.call[c].seq \in [Sides -> Seqs]
    BY CallFields DEF MgFine
  <1>2. mg.call[c].ssrc[s] \in 1..2 /\ mg.call[c].seq[s] \in Seqs
    BY <1>1
  <1>3. Steady => mg.call[c].ssrc[s] = 1
    BY DEF MgFine, Sources
  <1>4. MgPacket(c, s) = [ssrc |-> mg.call[c].ssrc[s] + (IF s = "BTS" THEN 2 ELSE 0), seq |-> mg.call[c].seq[s]]
    BY DEF MgPacket
  <1> QED BY <1>2, <1>3, <1>4 DEF Packet, Meant, Sides

\* Who sends: a party of a call that is up, or was.
LEMMA PartyIs ==
    ASSUME MgFine(mg), NEW c \in 1..MgMax, MgParty(c)
    PROVE  mg.call[c].at \in MgEndp /\ (mg.call[c].st = "UP" \/ (MgHas("late_rtp") /\ mg.call[c].st = "OVER"))
  BY DEF MgParty, MgFine, Agents

LEMMA StepNet ==
    ASSUME MgInv, NetSends PROVE MgFine(mg')
  <1>1. PICK c \in 1..MgMax : MgParty(c) /\ mg' = rtp_data_net(MgSent(c, "NET"), mg.call[c].at, c, MgPacket(c, "NET"))
    BY DEF NetSends
  <1>2. MgFine(mg) /\ "NET" \in Sides /\ "BTS" \in Sides /\ mgEnv.audio_loop \in BOOLEAN
    BY EnvFields DEF MgInv, Sides
  <1>3. PICK e : e = mg.call[c].at
    OBVIOUS
  <1>4. e \in MgEndp /\ (mg.call[c].st = "UP" \/ (MgHas("late_rtp") /\ mg.call[c].st = "OVER"))
    BY <1>1, <1>2, <1>3, PartyIs
  <1>5. PICK S, p : S = MgSent(c, "NET") /\ p = MgPacket(c, "NET")
    OBVIOUS
  <1>6. MgFine(S) /\ S.call[c].at = e /\ S.call[c].st = mg.call[c].st
    BY <1>2, <1>3, <1>5, SentKeeps
  <1>7. p \in Packet /\ (Steady => p.ssrc = Meant("BTS"))
    BY <1>2, <1>5, PacketFields
  <1>8. CASE ~receive_from(S, e) \/ S.ep[e].end["net_end"].peer # c
    BY <1>1, <1>3, <1>5, <1>6, <1>8 DEF rtp_data_net
  <1>9. CASE receive_from(S, e) /\ S.ep[e].end["net_end"].peer = c
    <2>1. mg' \in {S, send_to(S, e, "BTS", c, p)}
      BY <1>1, <1>3, <1>5, <1>9, PassIs DEF rtp_data_net
    <2>2. S.ep[e].allocated /\ Sender(S, e, "BTS", c)
      BY <1>9 DEF receive_from, Sender
    <2>3. MgFine(send_to(S, e, "BTS", c, p))
      BY <1>2, <1>4, <1>6, <1>7, <1>9, <2>2, SendKeeps
    <2> QED BY <1>6, <2>1, <2>3
  <1> QED BY <1>8, <1>9

LEMMA StepBts ==
    ASSUME MgInv, BtsSends PROVE MgFine(mg')
  <1>1. PICK c \in 1..MgMax : MgParty(c) /\ mg' = rtp_data_bts(MgSent(c, "BTS"), mg.call[c].at, c, MgPacket(c, "BTS"))
    BY DEF BtsSends
  <1>2. MgFine(mg) /\ "NET" \in Sides /\ "BTS" \in Sides /\ mgEnv.audio_loop \in BOOLEAN
    BY EnvFields DEF MgInv, Sides
  <1>3. PICK e : e = mg.call[c].at
    OBVIOUS
  <1>4. e \in MgEndp /\ (mg.call[c].st = "UP" \/ (MgHas("late_rtp") /\ mg.call[c].st = "OVER"))
    BY <1>1, <1>2, <1>3, PartyIs
  <1>5. PICK S, p : S = MgSent(c, "BTS") /\ p = MgPacket(c, "BTS")
    OBVIOUS
  <1>6. MgFine(S) /\ S.call[c].at = e /\ S.call[c].st = mg.call[c].st
    BY <1>2, <1>3, <1>5, SentKeeps
  <1>7. p \in Packet /\ (Steady => p.ssrc = Meant("NET"))
    BY <1>2, <1>5, PacketFields
  <1>8. PICK T : T = discover_bts(S, e, c)
    OBVIOUS
  <1>9. mg' = IF ~receive_from(S, e) THEN S ELSE IF T.ep[e].end["bts_end"].peer # c THEN T ELSE MgPass(T, e, "NET", c, p)
    BY <1>1, <1>3, <1>5, <1>8 DEF rtp_data_bts
  <1>10. CASE ~receive_from(S, e)
    BY <1>6, <1>9, <1>10
  <1>11. CASE receive_from(S, e)
    <2>1. S.ep[e].allocated
      BY <1>11 DEF receive_from
    <2>2. MgFine(T) /\ T.call = S.call /\ T.ep[e].allocated
      BY <1>4, <1>6, <1>8, <2>1, DiscoverKeeps
    <2>3. CASE T.ep[e].end["bts_end"].peer # c
      BY <1>9, <1>11, <2>2, <2>3
    <2>4. CASE T.ep[e].end["bts_end"].peer = c
      <3>1. mg' \in {T, send_to(T, e, "NET", c, p)}
        BY <1>9, <1>11, <2>4, PassIs
      <3>2. T.call[c].at = e /\ (T.call[c].st = "UP" \/ (MgHas("late_rtp") /\ T.call[c].st = "OVER")) /\ Sender(T, e, "NET", c)
        BY <1>4, <1>6, <2>2, <2>4 DEF Sender
      <3>3. MgFine(send_to(T, e, "NET", c, p))
        BY <1>2, <1>4, <1>7, <2>2, <2>4, <3>2, SendKeeps
      <3> QED BY <2>2, <3>1, <3>3
    <2> QED BY <2>3, <2>4
  <1> QED BY <1>10, <1>11

LEMMA StepTranscoder ==
    ASSUME MgInv, TranscoderSends PROVE MgFine(mg')
  <1>1. PICK c \in MgCalls({"OVER"}), s \in Sides :
          /\ MgHas("late_rtp") /\ mgEnv.transcoder
          /\ mg' = rtp_data_transcoder(mg, mg.call[c].at, IF s = "NET" THEN "BTS" ELSE "NET", c, MgPacket(c, s))
    BY DEF TranscoderSends, Sides
  <1>2. /\ MgFine(mg) /\ c \in 1..MgMax /\ mg.call[c].st = "OVER" /\ mg.call[c].at \in MgEndp
        /\ mgEnv.audio_loop \in BOOLEAN /\ ~Steady
    BY <1>1, EnvFields DEF MgInv, MgFine, MgCalls, Agents, Steady
  <1>3. PICK dest, p, e : dest = (IF s = "NET" THEN "BTS" ELSE "NET") /\ p = MgPacket(c, s) /\ e = mg.call[c].at
    OBVIOUS
  <1>4. dest \in Sides /\ p \in Packet /\ e \in MgEndp
    BY <1>2, <1>3, PacketFields DEF Sides
  <1>5. mg' = IF receive_from(mg, e) /\ mg.ep[e].is_transcoded THEN send_to(mg, e, dest, c, p) ELSE mg
    BY <1>1, <1>3 DEF rtp_data_transcoder
  <1>6. CASE mg' = mg
    BY <1>2, <1>6
  <1>7. CASE receive_from(mg, e) /\ mg' = send_to(mg, e, dest, c, p)
    <2>1. mg.ep[e].allocated
      BY <1>7 DEF receive_from
    <2>2. MgFine(send_to(mg, e, dest, c, p))
      BY <1>1, <1>2, <1>3, <1>4, <2>1, SendKeeps
    <2> QED BY <1>7, <2>2
  <1> QED BY <1>5, <1>6, <1>7

-----------------------------------------------------------------------------
(* The theorems *)

LEMMA StartFine ==
    ASSUME MgInit PROVE MgInv
  <1>1. mgEnv \in MgEnvs /\ mg = mgcp_config_alloc(mgEnv)
    BY DEF MgInit
  <1>2. PICK ep : ep = mgcp_endpoints_allocate(mgEnv)
    OBVIOUS
  <1>3. ASSUME NEW e \in MgEndp PROVE Freed(ep[e])
    <2>1. PICK w : w = IF mgEnv.static THEN [n \in MgEnds |-> [MgEndFree EXCEPT !.fd = e]] ELSE [n \in MgEnds |-> MgEndFree]
      OBVIOUS
    <2>2. [MgEndFree EXCEPT !.fd = e] \in End /\ [MgEndFree EXCEPT !.fd = e].peer = 0 /\ MgEndFree \in End /\ MgEndFree.peer = 0
      BY InitialEndp DEF MgEndFree, End, Fd
    <2>3. w \in [MgEnds -> End] /\ \A n \in MgEnds : w[n].peer = 0 /\ (~mgEnv.static => w[n] = MgEndFree)
      BY <2>1, <2>2
    <2>4. ep[e] = WithEnds(MgEndpoint, w)
      <3>1. WithEnds(MgEndpoint, [n \in MgEnds |-> MgEndFree]) = MgEndpoint
        <4>1. MgEndpoint \in Endp /\ MgEndpoint.end = [n \in MgEnds |-> MgEndFree]
          BY InitialEndp DEF MgEndpoint
        <4>2. \A D \in Endp : WithEnds(D, D.end) = D
          BY DEF WithEnds, Endp
        <4> QED BY <4>1, <4>2
      <3> QED BY <1>2, <2>1, <3>1 DEF mgcp_endpoints_allocate, WithEnds
    <2>5. /\ ep[e] \in Endp /\ ep[e].end = w /\ ep[e].allocated = MgEndpoint.allocated /\ ep[e].ci = MgEndpoint.ci
          /\ ep[e].callid = MgEndpoint.callid /\ ep[e].conn_mode = MgEndpoint.conn_mode
          /\ ep[e].is_transcoded = MgEndpoint.is_transcoded /\ ep[e].allow_patch = MgEndpoint.allow_patch
          /\ ep[e].state = MgEndpoint.state
      BY <2>3, <2>4, InitialEndp, WithEndsFields
    <2>6. /\ ~ep[e].allocated /\ ep[e].ci = 0 /\ ep[e].callid = 0 /\ ep[e].conn_mode = "NONE" /\ ~ep[e].is_transcoded
          /\ ~ep[e].allow_patch /\ \A to \in Sides : ep[e].state[to] = MgRtp
      BY <2>5 DEF MgEndpoint, Sides
    <2>7. Unused(ep[e])
      BY <2>3, <2>5, <2>6 DEF Unused
    <2>8. Ports(ep[e])
      <3>1. MgEndFree.fd = -1 /\ MgEndFree.local_alloc = "NONE"
        BY DEF MgEndFree
      <3> QED BY <2>3, <2>5, <2>6, <3>1 DEF Ports, Bound, Held, Wanted
    <2> QED BY <2>5, <2>6, <2>7, <2>8 DEF Freed
  <1>4. ep \in [MgEndp -> Endp]
    BY <1>2, <1>3 DEF mgcp_endpoints_allocate, Freed
  <1>5. MgCall \in Call /\ MgCall.st = "NONE" /\ \A s \in Sides : MgCall.ssrc[s] = 1
    BY Bounds DEF MgCall, Call, Sides, Seqs
  <1>6. PICK call, out, ports : /\ call = [c \in 1..MgMax |-> MgCall] /\ ports = [r \in {"net_end", "bts_end", "transcoder"} |-> 0]
                                /\ out = [c \in 1..MgMax |-> [to \in {"NET", "BTS"} |-> MgQuiet]]
    OBVIOUS
  <1>7. call \in [1..MgMax -> Call] /\ ports \in [Ranges -> Nat] /\ out \in [1..MgMax -> [Sides -> Packet]]
    BY <1>5, <1>6, InitialEndp DEF Ranges, Sides
  <1>8. mg = [ep |-> ep, last_call_id |-> 0, last_port |-> ports, trans |-> {}, call |-> call, heard |-> {}, out |-> out, jump |-> FALSE]
    BY <1>1, <1>2, <1>6 DEF mgcp_config_alloc
  <1>9. mg \in MgState /\ mg.ep = ep /\ mg.call = call /\ mg.heard = {} /\ ~mg.jump /\ mg.out = out
    BY <1>4, <1>7, <1>8, Bounds DEF MgState
  <1>10. \A e \in MgEndp : EndpGood(mg, e) /\ mg.ep[e].ci = 0
    BY <1>3, <1>9, FreedGood
  <1>11. \A c \in 1..MgMax : mg.call[c] = MgCall
    BY <1>6, <1>9
  <1>12. Agents(mg) /\ Hears(mg) /\ Distinct(mg)
    BY <1>5, <1>9, <1>10, <1>11 DEF Agents, Busy, Hears, Distinct
  <1>13. Sources(mg)
    <2>1. \A c \in 1..MgMax, s \in Sides : mg.out[c][s].ssrc = 0
      BY <1>6, <1>9 DEF MgQuiet, Sides
    <2> QED BY <1>5, <1>9, <1>11, <2>1 DEF Sources
  <1> QED BY <1>1, <1>9, <1>10, <1>12, <1>13 DEF MgInv, MgFine

LEMMA StepFine ==
    ASSUME MgInv, MgNext PROVE MgFine(mg') /\ mgEnv' = mgEnv
  <1>0. MgFine(mg) /\ mgEnv' = mgEnv /\ mgEnv \in MgEnvs
    BY DEF MgInv, MgNext
  <1>1. CASE AgentAsks
    BY <1>0, <1>1 DEF AgentAsks, handle_noti_req, handle_audit_endpoint, create_ok_response, MgAnswer
  <1>2. CASE free_endp
    <2>1. PICK e \in mgEnv.endp : mg' = mgcp_free_endp(mg, e)
      BY <1>2 DEF free_endp
    <2>2. e \in MgEndp
      BY <1>0, EnvFields
    <2> QED BY <1>0, <2>1, <2>2, FreeKeeps
  <1>3. CASE TranscoderRestarts
    <2>1. mg' = WithTrans(mg, {}) /\ {} \in SUBSET MgEndp
      BY <1>3 DEF TranscoderRestarts, mgcp_reset_transcoder, WithTrans
    <2> QED BY <1>0, <2>1, TransKeeps
  <1> QED BY <1>0, <1>1, <1>2, <1>3, StepCreates, StepModifies, StepDeletes, StepRestarts, StepRepeats, StepNet, StepBts,
             StepTranscoder, StepChanges, StepLoops DEF MgNext

\* The invariant speaks of the surroundings, which stay.
LEMMA FinePrimed ==
    ASSUME MgFine(mg'), mgEnv' = mgEnv PROVE MgFine(mg)'
  <1>1. \A f : MgHas(f)' <=> MgHas(f)
    BY DEF MgHas
  <1>2. Steady' <=> Steady
    BY <1>1 DEF Steady
  <1>3. ASSUME NEW e \in MgEndp PROVE EndpGood(mg, e)'
    <2>1. EpFine(mg.ep[e])'
      BY DEF MgFine, EndpGood, EpFine, Ports, Bound
    <2>2. (TakenLate(mg', e) => TakenLate(mg, e)') /\ \A c : Kept(mg', e, c) => Kept(mg, e, c)'
      BY <1>1 DEF TakenLate, Kept
    <2>3. AgentAt(mg, e)' /\ GivenAt(mg, e)'
      BY <2>2 DEF MgFine, EndpGood, AgentAt, GivenAt
    <2>4. PeersAt(mg, e)'
      BY <1>1, <2>2 DEF MgFine, EndpGood, PeersAt
    <2>5. (Steady => StreamAt(mg, e))'
      <3>1. ASSUME Steady PROVE StreamAt(mg', e)
        BY <3>1 DEF MgFine, EndpGood
      <3>2. StreamAt(mg', e) => StreamAt(mg, e)'
        <4>1. ASSUME NEW to PROVE Source(to)' = Source(to)
          BY DEF Source
        <4>2. ASSUME NEW to PROVE Patched(mg'.ep[e], to) => Patched(mg.ep[e], to)'
          BY <4>1 DEF Patched
        <4>3. ASSUME NEW to PROVE (Follows(mg', e, to) => Follows(mg, e, to)') /\ (Known(mg', e, to) => Known(mg, e, to)')
          BY DEF Follows, Known, Peer
        <4> QED BY <4>2, <4>3 DEF StreamAt
      <3> QED BY <1>2, <3>1, <3>2
    <2> QED BY <2>1, <2>3, <2>4, <2>5 DEF EndpGood
  <1>4. Hears(mg)'
    BY <1>1 DEF MgFine, Hears, HearsOwn
  <1>5. (mg \in MgState /\ Agents(mg) /\ Distinct(mg) /\ (~mgEnv.audio => ~mg.jump))'
    BY DEF MgFine, Agents, Busy, Distinct
  <1>6. (Steady => Sources(mg))'
    BY <1>2 DEF MgFine, Sources
  <1> QED BY <1>3, <1>4, <1>5, <1>6 DEF MgFine

\* However commands and audio cross, are lost or late: endpoints, the agent's calls and the streams agree.
THEOREM MgInvariant == MgSpec => []MgInv
  <1>1. MgInit => MgInv
    BY StartFine
  <1>2. MgInv /\ [MgNext]_mgVars => MgInv'
    <2> SUFFICES ASSUME MgInv, [MgNext]_mgVars PROVE MgInv'
      OBVIOUS
    <2>1. CASE MgNext
      BY <2>1, StepFine, FinePrimed DEF MgInv
    <2>2. CASE UNCHANGED mgVars
      <3>1. mg' = mg /\ mgEnv' = mgEnv
        BY <2>2 DEF mgVars
      <3> QED BY <3>1, FinePrimed DEF MgInv
    <2> QED BY <2>1, <2>2
  <1> QED BY <1>1, <1>2, PTL DEF MgSpec

\* A party hears its own call only (rtp_data_net, discover_bts).
THEOREM OwnPeerHolds == MgSpec => []OwnPeer
  <1>1. MgInv => OwnPeer
    BY DEF MgInv, MgFine, Hears, HearsOwn, OwnPeer
  <1> QED BY <1>1, MgInvariant, PTL

\* After the operator's loop a party hears one stream, its numbers going on (patch_and_count).
THEOREM StreamContinuesHolds == MgSpec => []StreamContinues
  <1>1. MgInv => StreamContinues
    <2> SUFFICES ASSUME MgInv, mgEnv.faults \cap {"changes", "late_dup", "late_rtp"} = {} PROVE ~mg.jump
      BY DEF StreamContinues
    <2>1. CASE mgEnv.audio
      BY <2>1 DEF MgInv, MgFine, Steady, Sources, MgHas
    <2>2. CASE ~mgEnv.audio
      BY <2>2 DEF MgInv, MgFine
    <2> QED BY <2>1, <2>2
  <1> QED BY <1>1, MgInvariant, PTL

\* An endpoint has ports, an identifier and peers exactly while it has a call (allocate_ports, mgcp_free_endp).
THEOREM EndpointsSoundHolds == MgSpec => []EndpointsSound
  <1>1. MgInv => EndpointsSound
    <2> SUFFICES ASSUME MgInv, NEW e \in MgEndp
                 PROVE  LET E == mg.ep[e]
                            held == {n \in MgEnds : E.end[n].fd # -1}
                        IN  /\ ~mgEnv.static => held = (IF ~E.allocated THEN {} ELSE IF E.is_transcoded THEN MgEnds ELSE {"net_end", "bts_end"})
                            /\ E.allocated = (E.ci # 0) /\ E.allocated = (E.callid # 0)
                            /\ \A f \in MgEndp \ {e} : E.ci # 0 => mg.ep[f].ci # E.ci
                            /\ ~E.allocated => \A n \in MgEnds : E.end[n].peer = 0
      BY DEF EndpointsSound
    <2>1. EpFine(mg.ep[e]) /\ Distinct(mg)
      BY DEF MgInv, MgFine, EndpGood
    <2>2. ~mgEnv.static => Held(mg.ep[e]) = Wanted(mg.ep[e])
      BY <2>1 DEF EpFine, Ports
    <2>3. Used(mg.ep[e])
      BY <2>1 DEF EpFine
    <2>4. \A f \in MgEndp \ {e} : mg.ep[e].ci # 0 => mg.ep[f].ci # mg.ep[e].ci
      BY <2>1 DEF Distinct
    <2> QED BY <2>2, <2>3, <2>4 DEF Held, Wanted, Used, Unused
  <1> QED BY <1>1, MgInvariant, PTL
=============================================================================
