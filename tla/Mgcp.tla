---------------------------------- MODULE Mgcp ----------------------------------
(***************************************************************************)
(* The media gateway (libmgcp, osmo-bsc_mgcp): a call agent creates,       *)
(* modifies and deletes connections on endpoints by datagrams that may be  *)
(* lost and repeated (mgcp_protocol.c); an endpoint binds a pair of ports  *)
(* for each of its sides and passes audio between the network and the base *)
(* station, or through a transcoder (mgcp_network.c).                      *)
(*                                                                         *)
(* Calls are numbered; the two parties of call c, and the addresses they   *)
(* send from, are known by c.  `heard' and `out' are for the properties.   *)
(***************************************************************************)
EXTENDS Integers, FiniteSets, FiniteSetsExt

CONSTANTS
    MgEndp,         \* endpoints of the trunk
    MgMax,          \* calls in a run
    MgPairs,        \* pairs of ports in a range: 0..MgPairs-1
    MgIds,          \* connection identifiers: 1..MgIds; 0 is CI_UNUSED
    MgSeq,          \* sequence numbers: 0..MgSeq-1
    MgEnvs          \* the surroundings to consider

MgFaults == {
    "lossy",        \* commands and answers are lost
    "late_dup",     \* a command is repeated after its call is over
    "late_rtp",     \* what a party sent arrives after its call is over
    "changes",      \* the network's party changes its SSRC, the agent asks for a loop
    "busy"}         \* another program has ports of the ranges
MgEnv == [faults : SUBSET MgFaults,
          static : BOOLEAN, transcoder : BOOLEAN, realloc : BOOLEAN,   \* the configuration
          policy : SUBSET {"REJECT", "DEFER", "CONT"},                 \* what policy_cb may return
          extends : SUBSET ((1..MgMax) \X (1..MgMax)),                 \* <<b, c>>: the identifier of call c begins with that of b
          audio_loop : BOOLEAN,                                        \* the trunk sends audio back
          foreign : BOOLEAN,                                           \* bts_ip is set and is not the base stations' address
          endp : SUBSET MgEndp, calls : 0..MgMax,                      \* endpoints used, calls tried
          audio : BOOLEAN]                                             \* audio is looked at

ASSUME MgBounds == /\ {MgMax, MgPairs, MgIds} \subseteq Nat /\ MgSeq \in Nat \ {0, 1}
                   /\ IsFiniteSet(MgEndp) /\ Cardinality(MgEndp) < MgIds
ASSUME MgEnvAssumption == MgEnvs \subseteq MgEnv

VARIABLES mg, mgEnv
mgVars == <<mg, mgEnv>>
MgHas(f) == f \in mgEnv.faults

MgEnds == {"net_end", "bts_end", "trans_net", "trans_bts"}
\* The range an end takes its ports from.
MgRange(n) == IF n \in {"net_end", "bts_end"} THEN n ELSE "transcoder"
\* mgcp_rtp_end.  fd: the pair bound (-1: none); peer: whose address and port it has (0: none).
MgEndFree == [fd |-> -1, local_alloc |-> "NONE", peer |-> 0]
MgRtp == [initialized |-> FALSE, ssrc |-> 0, orig_ssrc |-> 0, seq_no |-> 0, seq_offset |-> 0, patch |-> FALSE]
MgQuiet == [ssrc |-> 0, seq |-> 0]
MgEndpoint == [allocated |-> FALSE, ci |-> 0, callid |-> 0, conn_mode |-> "NONE", orig_mode |-> "NONE",
               is_transcoded |-> FALSE, allow_patch |-> FALSE,
               end |-> [n \in MgEnds |-> MgEndFree],
               state |-> [to \in {"NET", "BTS"} |-> MgRtp]]     \* bts_state, net_state
\* In static mode the ports are bound when the program starts.
mgcp_endpoints_allocate(env) ==
    [e \in MgEndp |-> IF ~env.static THEN MgEndpoint
                      ELSE [MgEndpoint EXCEPT !.end = [n \in MgEnds |-> [MgEndFree EXCEPT !.fd = e]]]]
MgCall == [at |-> 0, st |-> "NONE", ssrc |-> [s \in {"NET", "BTS"} |-> 1], seq |-> [s \in {"NET", "BTS"} |-> 0]]
mgcp_config_alloc(env) ==
    [ep |-> mgcp_endpoints_allocate(env), last_call_id |-> 0,
     last_port |-> [r \in {"net_end", "bts_end", "transcoder"} |-> 0], trans |-> {},
     call |-> [c \in 1..MgMax |-> MgCall],                    \* the agent and the parties
     heard |-> {}, out |-> [c \in 1..MgMax |-> [to \in {"NET", "BTS"} |-> MgQuiet]], jump |-> FALSE]
MgInit == mgEnv \in MgEnvs /\ mg = mgcp_config_alloc(mgEnv)

-----------------------------------------------------------------------------
(* Ports *)

\* Pairs of range r that cannot be bound.
MgBound(S, r) ==
    {S.ep[e].end[n].fd : e \in MgEndp, n \in {n \in MgEnds : MgRange(n) = r}} \cup (IF MgHas("busy") THEN {0} ELSE {})
mgcp_free_rtp_port(end) == [end EXCEPT !.fd = -1]
mgcp_rtp_end_reset(end) ==
    [(IF end.local_alloc = "DYNAMIC" THEN mgcp_free_rtp_port(end) ELSE end) EXCEPT !.peer = 0, !.local_alloc = "NONE"]
int_bind(S, e, n, pair) == [S EXCEPT !.ep[e].end[n] = [mgcp_free_rtp_port(@) EXCEPT !.fd = pair, !.local_alloc = "DYNAMIC"]]
MgFail(S) == [ok |-> FALSE, S |-> S]
\* From last_port on, round the range, until bind succeeds; the 200 attempts are taken to be whole rounds.
MgPair(S, r, i) == (S.last_port[r] + i) % MgPairs
MgUnbound(S, r) == {i \in 0..(MgPairs - 1) : MgPair(S, r, i) \notin MgBound(S, r)}
MgStatic(S, e, n) == [S EXCEPT !.ep[e].end[n].local_alloc = "STATIC"]
MgDynamic(S, e, n, i) ==
    LET r == MgRange(n)
        pair == MgPair(S, r, i)
    IN  int_bind([S EXCEPT !.last_port[r] = (pair + 1) % MgPairs], e, n, pair)
allocate_port(S, e, n) ==
    LET free == MgUnbound(S, MgRange(n))
    IN  IF mgEnv.static THEN [ok |-> TRUE, S |-> MgStatic(S, e, n)]
        ELSE IF free = {} THEN MgFail(S)
        ELSE [ok |-> TRUE, S |-> MgDynamic(S, e, n, Min(free))]
MgReset(S, e, N) ==
    [S EXCEPT !.ep[e].end = [n \in MgEnds |-> IF n \in N THEN mgcp_rtp_end_reset(@[n]) ELSE @[n]]]
\* The ends one after the other; a failure undoes the earlier ones.
allocate_ports(S, e) ==
    LET a == allocate_port(S, e, "net_end")
        b == allocate_port(a.S, e, "bts_end")
        c == allocate_port(b.S, e, "trans_net")
        d == allocate_port(c.S, e, "trans_bts")
    IN  IF ~a.ok THEN a
        ELSE IF ~b.ok THEN MgFail(MgReset(b.S, e, {"net_end"}))
        ELSE IF ~mgEnv.transcoder THEN b
        ELSE IF ~c.ok THEN MgFail(MgReset(c.S, e, {"net_end", "bts_end"}))
        ELSE IF ~d.ok THEN MgFail(MgReset(d.S, e, {"net_end", "bts_end", "trans_net"}))
        ELSE [ok |-> TRUE, S |-> [d.S EXCEPT !.ep[e].is_transcoded = TRUE]]

-----------------------------------------------------------------------------
(* Commands *)

\* The next identifier that no endpoint has; 0 is left out when the counter wraps.
MgId(S, i) == ((S.last_call_id + i) % MgIds) + 1
generate_call_id(S) == MgId(S, Min({i \in 0..(MgIds - 1) : \A e \in MgEndp : S.ep[e].ci # MgId(S, i)}))
mgcp_free_endp(S, e) ==
    LET T == MgReset(S, e, MgEnds) IN [T EXCEPT !.ep[e] = [MgEndpoint EXCEPT !.end = T.ep[e].end]]
\* The transcoder is told of the endpoint, and that it is gone.
create_transcoder(S, e) ==
    IF ~S.ep[e].is_transcoded THEN S
    ELSE [S EXCEPT !.trans = @ \cup {e},
                   !.ep[e].end = [n \in MgEnds |-> IF MgRange(n) = "transcoder" THEN [@[n] EXCEPT !.peer = S.ep[e].callid] ELSE @[n]]]
delete_transcoder(S, e) == IF S.ep[e].is_transcoded THEN [S EXCEPT !.trans = @ \ {e}] ELSE S
mgcp_reset_transcoder(S) == [S EXCEPT !.trans = {}]

MgAnswer(S, ok) == [ok |-> ok, S |-> S]
create_ok_response(S) == MgAnswer(S, TRUE)
create_err_response(S) == MgAnswer(S, FALSE)
create_response_with_sdp(S) == create_ok_response(S)
parse_conn_mode(m) == m \in {"sendrecv", "recvonly", "sendonly", "loopback"}
verify_call_id(S, e, c) == S.ep[e].callid = c
\* The identifiers are compared as far as the endpoint's goes.
MgBegins(b, c) == b = c \/ <<b, c>> \in mgEnv.extends
\* What looks like the call the endpoint has: a retransmission.  Another one: refused, or the endpoint is taken from it.
MgCleared(S, e) == IF S.ep[e].allocated THEN mgcp_free_endp(S, e) ELSE S
MgGive(U, e, mode, policy) ==
    LET p == allocate_ports(U, e)
        id == generate_call_id(p.S)
        V == [p.S EXCEPT !.last_call_id = id, !.ep[e].ci = id, !.ep[e].allocated = TRUE]
    IN  IF ~parse_conn_mode(mode) \/ ~p.ok THEN create_err_response(mgcp_free_endp(p.S, e))
        ELSE IF policy = "REJECT" THEN create_err_response(mgcp_free_endp(V, e))
        ELSE create_response_with_sdp(create_transcoder(V, e))
MgTaken(S, e, c, mode, policy) ==
    MgGive([MgCleared(S, e) EXCEPT !.ep[e].callid = c, !.ep[e].conn_mode = mode], e, mode, policy)
handle_create_con(S, e, c, mode, policy) ==
    IF S.ep[e].allocated /\ MgBegins(S.ep[e].callid, c) THEN create_response_with_sdp(S)
    ELSE IF S.ep[e].allocated /\ ~mgEnv.realloc THEN create_err_response(S)
    ELSE MgTaken(S, e, c, mode, policy)
\* Line by line: what came before a line that is refused stays changed.  The party of the call, in the SDP part, comes last.
handle_modify_con(S, e, c, mode, policy) ==
    LET T == IF parse_conn_mode(mode) THEN [S EXCEPT !.ep[e].conn_mode = mode, !.ep[e].orig_mode = mode] ELSE S
        U == [T EXCEPT !.ep[e].end["net_end"].peer = c]
    IN  IF S.ep[e].ci = 0 \/ ~verify_call_id(S, e, c) THEN create_err_response(S)
        ELSE IF ~parse_conn_mode(mode) THEN create_err_response(T)
        ELSE MgAnswer(U, policy # "REJECT")
\* A deferred DLCX leaves the endpoint to whoever deferred it.
handle_delete_con(S, e, c, policy) ==
    IF ~S.ep[e].allocated \/ ~verify_call_id(S, e, c) \/ policy = "REJECT" THEN create_err_response(S)
    ELSE IF policy = "DEFER" THEN MgAnswer(delete_transcoder(S, e), TRUE)
    ELSE create_ok_response(mgcp_free_endp(delete_transcoder(S, e), e))
handle_noti_req(S, e) == MgAnswer(S, S.ep[e].allocated)
handle_audit_endpoint(S) == create_ok_response(S)
mgcp_rsip_cb(S) == [S EXCEPT !.ep = [e \in MgEndp |-> mgcp_free_endp(S, e).ep[e]]]
handle_rsip(S) == mgcp_rsip_cb(S)

-----------------------------------------------------------------------------
(* Audio *)

\* What leaves, and the state after it.  A change of SSRC is hidden when allowed.
\* Mutant: the offset is taken from the number before.
patch_and_count_off(state, allow, p) ==
    LET s == IF ~state.initialized
             THEN [state EXCEPT !.initialized = TRUE, !.seq_no = (p.seq - 1) % MgSeq, !.ssrc = p.ssrc, !.orig_ssrc = p.ssrc]
             ELSE IF state.ssrc # p.ssrc
             THEN [state EXCEPT !.ssrc = p.ssrc, !.seq_offset = (state.seq_no - p.seq) % MgSeq, !.patch = allow]
             ELSE state
        q == IF s.patch THEN [ssrc |-> s.orig_ssrc, seq |-> (p.seq + s.seq_offset) % MgSeq] ELSE p
    IN  [state |-> [s EXCEPT !.seq_no = q.seq], out |-> q]
patch_and_count(state, allow, p) ==
    LET s == IF ~state.initialized
             THEN [state EXCEPT !.initialized = TRUE, !.seq_no = (p.seq - 1) % MgSeq, !.ssrc = p.ssrc, !.orig_ssrc = p.ssrc]
             ELSE IF state.ssrc # p.ssrc
             THEN [state EXCEPT !.ssrc = p.ssrc, !.seq_offset = (state.seq_no + 1 - p.seq) % MgSeq, !.patch = allow]
             ELSE state
        q == IF s.patch THEN [ssrc |-> s.orig_ssrc, seq |-> (p.seq + s.seq_offset) % MgSeq] ELSE p
    IN  [state |-> [s EXCEPT !.seq_no = q.seq], out |-> q]
\* What party g of the endpoint hears; ghost only.  A jump: another stream, or, when it comes from another source, not the next number.
udp_send(S, e, to, side, from, q, other) ==
    LET g == S.ep[e].end[IF to = "NET" THEN "net_end" ELSE "bts_end"].peer
        was == S.out[g][to]
    IN  IF g = 0 THEN S
        ELSE [S EXCEPT !.heard = @ \cup {<<side, from, S.ep[e].callid, g>>},
                       !.jump = @ \/ (mgEnv.audio /\ S.ep[e].allow_patch /\ was.ssrc # 0
                                        /\ (q.ssrc # was.ssrc \/ (other /\ (q.seq - was.seq) % MgSeq # 1))),
                       !.out[g][to] = IF mgEnv.audio THEN q ELSE @]
send_to(S, e, dest, from, p) ==
    LET back == IF dest = "NET" THEN "BTS" ELSE "NET"
        to == IF mgEnv.audio_loop = (S.ep[e].conn_mode = "loopback") THEN dest ELSE back
        r == patch_and_count(S.ep[e].state[to], S.ep[e].allow_patch, p)
    IN  udp_send([S EXCEPT !.ep[e].state[to] = r.state], e, to, back, from, r.out, r.state.ssrc # S.ep[e].state[to].ssrc)
receive_from(S, e) == S.ep[e].allocated
\* What the transcoder sends is known by its address and port only, which are those of the endpoint.
rtp_data_transcoder(S, e, dest, from, p) ==
    IF receive_from(S, e) /\ S.ep[e].is_transcoded THEN send_to(S, e, dest, from, p) ELSE S
\* The transcoder sends on what it is sent, at once; for what it still holds when the call is over see TranscoderSends.
send_transcoder(S, e, dest, from, p) == IF e \in S.trans THEN rtp_data_transcoder(S, e, dest, from, p) ELSE S
MgPass(S, e, dest, from, p) ==
    IF S.ep[e].is_transcoded THEN send_transcoder(S, e, dest, from, p) ELSE send_to(S, e, dest, from, p)
\* Mutant: the sender's address is not looked at.
rtp_data_net_any(S, e, from, p) == IF ~receive_from(S, e) THEN S ELSE MgPass(S, e, "BTS", from, p)
rtp_data_net(S, e, from, p) ==
    IF ~receive_from(S, e) \/ S.ep[e].end["net_end"].peer # from THEN S ELSE MgPass(S, e, "BTS", from, p)
\* The first to send is the base station.
discover_bts(S, e, from) == IF S.ep[e].end["bts_end"].peer = 0 /\ ~mgEnv.foreign THEN [S EXCEPT !.ep[e].end["bts_end"].peer = from] ELSE S
rtp_data_bts(S, e, from, p) ==
    LET T == discover_bts(S, e, from)
    IN  IF ~receive_from(S, e) THEN S
        ELSE IF T.ep[e].end["bts_end"].peer # from THEN T
        ELSE MgPass(T, e, "NET", from, p)

-----------------------------------------------------------------------------
(* The call agent, the parties and the operator *)

MgCalls(st) == {c \in 1..MgMax : mg.call[c].st \in st}
\* The command arrives and is answered, is lost, or its answer is.  yes, no: the agent then knows.
MgExchange(r, c, yes, no) ==
    \/ mg' = [r.S EXCEPT !.call[c].st = IF r.ok THEN yes ELSE no]
    \/ MgHas("lossy") /\ mg' \in {mg, r.S}
MgPolicies == mgEnv.policy
\* The agent takes an endpoint that it has given to no other call, or asks again.
AgentCreates == \E c \in 1..mgEnv.calls, e \in mgEnv.endp, mode \in {"recvonly", "unknown"}, policy \in MgPolicies :
    LET S == [mg EXCEPT !.call[c] = [@ EXCEPT !.at = e, !.st = "ASKED"]]
        r == handle_create_con(S, e, c, mode, policy)
    IN  /\ \/ /\ mg.call[c].st = "NONE"
              /\ \A d \in 1..(c - 1) : mg.call[d].st # "NONE"
              /\ \A b \in MgCalls({"ASKED", "UP"}) : mg.call[b].at # e
           \/ mg.call[c].st = "ASKED" /\ mg.call[c].at = e
        /\ \/ mg' = [r.S EXCEPT !.call[c].st = IF r.ok THEN "UP" ELSE "OVER"]
           \/ MgHas("lossy") /\ mg' \in {S, r.S}
AgentModifies == \E c \in MgCalls({"UP"}), mode \in {"sendrecv", "loopback", "unknown"}, policy \in MgPolicies :
    /\ mode = "loopback" => MgHas("changes")
    /\ MgExchange(handle_modify_con(mg, mg.call[c].at, c, mode, policy), c, "UP", "UP")
\* The agent is done with the call whatever it is answered.
AgentDeletes == \E c \in MgCalls({"ASKED", "UP"}), policy \in MgPolicies :
    LET S == [mg EXCEPT !.call[c].st = "OVER"]
        r == handle_delete_con(S, mg.call[c].at, c, policy)
    IN  mg' = r.S \/ (MgHas("lossy") /\ mg' = S)
AgentAsks == \E e \in MgEndp : mg' = handle_noti_req(handle_audit_endpoint(mg).S, e).S
AgentRestarts == mg' = [handle_rsip(mg) EXCEPT !.call = [c \in 1..MgMax |->
                          IF mg.call[c].st = "NONE" THEN mg.call[c] ELSE [mg.call[c] EXCEPT !.st = "OVER"]]]
RepeatedLate == \E c \in MgCalls({"OVER"}) :
    MgHas("late_dup") /\ mg' = handle_create_con(mg, mg.call[c].at, c, "recvonly", "CONT").S
\* A party sends to the port its call was given.
MgParty(c) == mg.call[c].st = "UP" \/ (MgHas("late_rtp") /\ mg.call[c].st = "OVER")
MgPacket(c, s) == [ssrc |-> mg.call[c].ssrc[s] + (IF s = "BTS" THEN 2 ELSE 0), seq |-> mg.call[c].seq[s]]
MgSent(c, s) == IF mgEnv.audio THEN [mg EXCEPT !.call[c].seq[s] = (@ + 1) % MgSeq] ELSE mg
NetSends == \E c \in 1..MgMax :
    MgParty(c) /\ mg' = rtp_data_net(MgSent(c, "NET"), mg.call[c].at, c, MgPacket(c, "NET"))
BtsSends == \E c \in 1..MgMax :
    MgParty(c) /\ mg' = rtp_data_bts(MgSent(c, "BTS"), mg.call[c].at, c, MgPacket(c, "BTS"))
\* Audio of a call that is over leaves the transcoder, for whoever has the endpoint now.
TranscoderSends == \E c \in MgCalls({"OVER"}), s \in {"NET", "BTS"} :
    /\ MgHas("late_rtp") /\ mgEnv.transcoder
    /\ mg' = rtp_data_transcoder(mg, mg.call[c].at, IF s = "NET" THEN "BTS" ELSE "NET", c, MgPacket(c, s))
PartyChanges == \E c \in MgCalls({"UP"}) :
    MgHas("changes") /\ mg.call[c].ssrc["NET"] = 1 /\ mg' = [mg EXCEPT !.call[c].ssrc["NET"] = 2]
\* Vty: an endpoint is freed, or its audio is sent back.
free_endp == \E e \in mgEnv.endp : mg' = mgcp_free_endp(mg, e)
loop_endp == \E e \in mgEnv.endp, loop \in BOOLEAN :
    mgEnv.audio /\ mg' = [mg EXCEPT !.ep[e].conn_mode = IF loop THEN "loopback" ELSE mg.ep[e].orig_mode, !.ep[e].allow_patch = TRUE]
TranscoderRestarts == mgEnv.transcoder /\ mg' = mgcp_reset_transcoder(mg)

MgNext ==
    /\ \/ AgentCreates \/ AgentModifies \/ AgentDeletes \/ AgentAsks \/ AgentRestarts \/ RepeatedLate
       \/ NetSends \/ BtsSends \/ TranscoderSends \/ PartyChanges \/ free_endp \/ loop_endp \/ TranscoderRestarts
    /\ UNCHANGED mgEnv
MgSpec == MgInit /\ [][MgNext]_mgVars

-----------------------------------------------------------------------------
(* An endpoint without a call holds no port (unless its ports are static)  *)
(* and one with a call has both its ports, all four when it is transcoded, *)
(* and an identifier no other endpoint has: nothing is left behind when    *)
(* ports run out half-way, when a call is refused or its endpoint taken by *)
(* another (allocate_ports, mgcp_free_endp, generate_call_id).             *)
EndpointsSound == \A e \in MgEndp :
    LET E == mg.ep[e]
        held == {n \in MgEnds : E.end[n].fd # -1}
    IN  /\ ~mgEnv.static => held = (IF ~E.allocated THEN {} ELSE IF E.is_transcoded THEN MgEnds ELSE {"net_end", "bts_end"})
        /\ E.allocated = (E.ci # 0) /\ E.allocated = (E.callid # 0)
        /\ \A f \in MgEndp \ {e} : E.ci # 0 => mg.ep[f].ci # E.ci
        /\ ~E.allocated => \A n \in MgEnds : E.end[n].peer = 0
(* A party hears its own call only, however often commands arrive: what    *)
(* comes from the network side is always of the call the endpoint has, and *)
(* each hears its own call, which is the endpoint's unless a late command  *)
(* took that (rtp_data_net, discover_bts).  Not so for what arrives after  *)
(* its call is over, and for one thing the code gets wrong: a call whose   *)
(* identifier begins with that of the call before, the deletion of which   *)
(* was lost, is answered as if it were that one (handle_create_con); the   *)
(* network's party of the old call then hears the new one.                 *)
OwnPeer == \A h \in mg.heard :
    /\ h[1] = "NET" => h[2] = h[3] \/ (MgHas("late_rtp") /\ mgEnv.transcoder)
    /\ \/ MgHas("late_rtp")
       \/ h[4] = h[2] /\ (MgHas("late_dup") \/ h[2] = h[3])
       \/ h[1] = "BTS" /\ <<h[3], h[2]>> \in mgEnv.extends /\ h[4] \in {h[2], h[3]}
\* Once the operator has looped an endpoint, what a party hears is one stream: the SSRC stays, and where the source of the audio changes the numbers go on with the next (patch_and_count).
\* Not so when the party itself changes, or what is late comes to an endpoint given to another call, which starts a new stream.
StreamContinues == mgEnv.faults \cap {"changes", "late_dup", "late_rtp"} # {} \/ ~mg.jump
=============================================================================
