----------------------------------- MODULE Nat -----------------------------------
(***************************************************************************)
(* The BSC NAT (osmo-bsc_nat): many BSCs behind one connection to the MSC. *)
(* It rewrites the SCCP references the BSCs choose (bsc_sccp.c), refuses   *)
(* subscribers by IMSI (bsc_nat_utils.c), hands USSD to a provider of its  *)
(* own (bsc_ussd.c), gives the voice circuits of the MSC to endpoints of   *)
(* the BSCs (bsc_mgcp_utils.c), passes control commands on (bsc_nat.c).    *)
(*                                                                         *)
(* What the NAT sends waits in `toMsc' and `toBsc'; what it is sent is     *)
(* handled at once.  Every connection a BSC opens has a number of its own, *)
(* g, that messages carry for the properties only.                         *)
(***************************************************************************)
EXTENDS Integers, Sequences, FiniteSets, SequencesExt

CONSTANTS
    NatBsc,         \* the BSCs
    NatReal,        \* references the BSCs use
    NatMax,         \* connections in a run; references the NAT may give
    NatMsg,         \* messages on the way to one reader
    NatCic,         \* voice circuits of the MSC
    NatEndp,        \* endpoints of a BSC: 1..NatEndp
    NatCmds,        \* control commands in a run
    NatEnvs         \* the surroundings to consider

NatFaults == {
    "lost_bsc", "lost_msc", \* a link breaks
    "unconfirmed",          \* the MSC is slower than SCCP_CLOSE_TIME_TIMEOUT
    "reassigns",            \* "Some commercial BSCs like to reassign there SRC ref"
    "other_cic",            \* the MSC assigns a second circuit to a connection
    "same_refs"}            \* the references of the MSC and of the BSCs start at 0x50000 too
\* A BSC uses more references than one, subscribers give their IMSI; calls, USSD, control commands, the blocking of the NAT, pings, RESET and paging happen.
NatEnv == [faults : SUBSET NatFaults, bscs : SUBSET NatBsc,      \* the BSCs there are; what they, the MSC and the others do:
           parts : SUBSET {"refs", "imsi", "mgcp", "ussd", "ctrl", "block", "ping", "udt"}]

ASSUME NatBounds == {NatMax, NatMsg, NatEndp, NatCmds} \subseteq Nat /\ 0 \notin NatReal \cup NatCic
ASSUME NatEnvAssumption == NatEnvs \subseteq NatEnv

VARIABLES nt, natEnv
natVars == <<nt, natEnv>>
NatHas(x) == x \in natEnv.faults \cup natEnv.parts

\* bsc_connection; endp: _endpoint_status
NatLink == [up |-> FALSE, auth |-> FALSE, pong |-> FALSE, endp |-> {}, last_endpoint |-> 0, last_id |-> 0, cmd_pending |-> {}]
NatTransaction == [id |-> FALSE, state |-> "NONE", bsc |-> 0]     \* bsc_endpoint, by circuit
NoEnd == [g |-> 0, ok |-> FALSE, remote |-> 0]
NatInit ==
    /\ natEnv \in NatEnvs
    /\ nt = [msc_up |-> TRUE, blocked |-> FALSE, last_ref |-> 0,
             bsc |-> [b \in NatBsc |-> NatLink], con |-> <<>>,
             trans |-> [e \in NatCic |-> NatTransaction],
             ussd |-> FALSE, ccon |-> FALSE,                       \* the provider, the control connection
             toMsc |-> <<>>, toBsc |-> [b \in NatBsc |-> <<>>],
             freed |-> {},                                         \* the freed links that were read
             gen |-> 0, cmds |-> 0, owed |-> {},                   \* commands not answered
             at |-> [b \in NatBsc |-> [r \in NatReal |-> NoEnd]],  \* what the BSCs,
             msc |-> {}]                                           \* and the MSC, hold open

-----------------------------------------------------------------------------
(* Sending *)

\* p: the NAT's reference; remote: the MSC's.
queue_for_msc(S, t, p, remote, g) == [S EXCEPT !.toMsc = Append(@, [t |-> t, p |-> p, remote |-> remote, g |-> g])]
bsc_send_data(S, b, t, r, remote, g) ==
    [S EXCEPT !.toBsc[b] = Append(@, [t |-> t, r |-> r, remote |-> remote, g |-> g])]
nat_send_rlsd_msc(S, c) == queue_for_msc(S, "RLSD", c.patched, c.remote, c.g)
nat_send_rlsd_bsc(S, c) == bsc_send_data(S, c.bsc, "RLSD", c.real, c.remote, c.g)
nat_send_clrc_bsc(S, c) == bsc_send_data(S, c.bsc, "DT", c.real, c.remote, c.g)
nat_send_rlc(S, p, remote, g) == queue_for_msc(S, "RLC", p, remote, g)

\* The first connection of the list with a property, or no element of it.
FirstCon(S, P(_)) == SelectInSeq(S.con, P)
NatCons(S, b) == {i \in DOMAIN S.con : S.con[i].bsc = b}

-----------------------------------------------------------------------------
(* Endpoints of the BSCs *)

bsc_mgcp_free_endpoint(S, e) == IF e = -1 THEN S ELSE [S EXCEPT !.trans[e] = NatTransaction]
bsc_mgcp_free_endpoints(S) == [S EXCEPT !.trans = [e \in NatCic |-> NatTransaction]]
bsc_mgcp_clear_endpoints_for(S, b) ==
    [S EXCEPT !.trans = [e \in NatCic |-> IF S.trans[e].bsc = b THEN NatTransaction ELSE S.trans[e]]]
bsc_mgcp_init(S, i) == [S EXCEPT !.con[i].msc_endp = -1, !.con[i].bsc_endp = -1]
\* Mutant: the endpoint of the BSC stays taken.
bsc_mgcp_dlcx_keeps(S, i) == bsc_mgcp_init(bsc_mgcp_free_endpoint(S, S.con[i].msc_endp), i)
bsc_mgcp_dlcx(S, i) ==
    LET c == S.con[i]
        T == [S EXCEPT !.bsc[c.bsc].endp = @ \ {c.bsc_endp}]
    IN  bsc_mgcp_init(IF c.bsc_endp = -1 THEN S ELSE bsc_mgcp_free_endpoint(T, c.msc_endp), i)

\* The endpoint after the last one given that is free; none: -1.
bsc_assign_endpoint(S, b) ==
    LET at(i) == ((S.bsc[b].last_endpoint + i - 1) % NatEndp) + 1
        free == {i \in 1..NatEndp : at(i) \notin S.bsc[b].endp}
    IN  IF free = {} THEN -1 ELSE at(CHOOSE i \in free : \A j \in free : i <= j)
\* The circuit is taken from whoever has it.
bsc_mgcp_assign_patch(S, i, cic) ==
    LET stale == {j \in DOMAIN S.con : S.con[j].msc_endp = cic}
        T == [FoldSet(LAMBDA j, U : bsc_mgcp_dlcx(U, j), S, stale) EXCEPT !.con[i].msc_endp = cic]
        b == S.con[i].bsc
        e == bsc_assign_endpoint(T, b)
    IN  IF e = -1 THEN T
        ELSE [T EXCEPT !.con[i].bsc_endp = e, !.bsc[b].endp = @ \cup {e}, !.bsc[b].last_endpoint = e]

\* The last connection of the list that has the circuit.
bsc_mgcp_find_con(S, cic) == SelectLastInSeq(S.con, LAMBDA c : c.msc_endp = cic)
\* A command of the call agent: the BSC is asked, unless the endpoint is not in use.  (MDCX is as CRCX.)
bsc_mgcp_policy_cb(S, cic, state) ==
    LET i == bsc_mgcp_find_con(S, cic)
        T == [S EXCEPT !.trans[cic] = NatTransaction]
        b == S.con[i].bsc
        U == [T EXCEPT !.trans[cic] = [id |-> TRUE, state |-> state, bsc |-> b]]
    IN  IF i = 0 THEN T
        ELSE IF state = "DLCX" THEN bsc_mgcp_dlcx(U, i)
        ELSE U
free_chan_downstream(S, cic) == bsc_mgcp_free_endpoint(S, cic)
\* ok: the answer names a connection identifier.
bsc_mgcp_forward(S, b, cic, ok) ==
    IF S.trans[cic].bsc # b \/ ~S.trans[cic].id THEN S
    ELSE IF ~ok THEN free_chan_downstream(S, cic)
    ELSE [S EXCEPT !.trans[cic].id = FALSE, !.trans[cic].state = "NONE"]

-----------------------------------------------------------------------------
(* SCCP references *)

sccp_ref_is_free(S, p) == FirstCon(S, LAMBDA c : c.patched = p) = 0
assign_src_local_reference(S) ==
    LET at(i) == (S.last_ref + i) % NatMax
        free == {i \in 0..(NatMax - 1) : sccp_ref_is_free(S, at(i))}
    IN  IF free = {} THEN -1 ELSE at(CHOOSE i \in free : \A j \in free : i <= j)
sccp_connection_destroy(S, i) ==
    LET T == bsc_mgcp_dlcx(S, i) IN [T EXCEPT !.con = RemoveAt(@, i)]
NewCon(b, r, p, g) ==
    [bsc |-> b, real |-> r, patched |-> p, remote |-> 0, has_remote |-> FALSE, local |-> "MSC", type |-> "NONE",
     msc_con |-> FALSE, checked |-> FALSE, authorized |-> FALSE, imsi |-> "NONE", msc_endp |-> -1, bsc_endp |-> -1, g |-> g]
\* Mutant: the reference is looked for with all BSCs.
create_sccp_src_ref_any(S, b, r, g) ==
    LET i == FirstCon(S, LAMBDA c : c.real = r)
        p == assign_src_local_reference(S)
        T == [S EXCEPT !.last_ref = (p + 1) % NatMax]
    IN  IF p = -1 THEN S
        ELSE IF i # 0 THEN bsc_mgcp_dlcx([T EXCEPT !.con[i].remote = 0, !.con[i].patched = p, !.con[i].g = g], i)
        ELSE [T EXCEPT !.con = Append(@, NewCon(b, r, p, g))]
\* A reference the BSC still has in use gets a new one of the NAT and keeps the rest.
create_sccp_src_ref(S, b, r, g) ==
    LET i == FirstCon(S, LAMBDA c : c.bsc = b /\ c.real = r)
        p == assign_src_local_reference(S)
        T == [S EXCEPT !.last_ref = (p + 1) % NatMax]
    IN  IF p = -1 THEN (IF i = 0 THEN S ELSE sccp_connection_destroy(S, i))
        ELSE IF i # 0 THEN bsc_mgcp_dlcx([T EXCEPT !.con[i].remote = 0, !.con[i].patched = p, !.con[i].g = g], i)
        ELSE [T EXCEPT !.con = Append(@, NewCon(b, r, p, g))]
update_sccp_src_ref(S, i, rem) == [S EXCEPT !.con[i].remote = rem, !.con[i].has_remote = TRUE]
patch_sccp_src_ref_to_bsc(S, p) == FirstCon(S, LAMBDA c : c.patched = p)
\* By its own reference, where the message has it, else by the reference of the MSC.
patch_sccp_src_ref_to_msc(S, b, r, rem) ==
    FirstCon(S, LAMBDA c : c.bsc = b /\ IF r # 0 THEN c.real = r ELSE c.remote = rem)
\* p: the reference of the message, which is still the BSC's own where no connection was found.
remove_sccp_src_ref(S, p) ==
    LET i == FirstCon(S, LAMBDA c : c.patched = p) IN IF i = 0 THEN S ELSE sccp_connection_destroy(S, i)
bsc_nat_find_con_by_bsc(S, r) == FirstCon(S, LAMBDA c : c.real = r)

-----------------------------------------------------------------------------
(* Links of the BSCs *)

bsc_del_pending(S, b, cmd) == [S EXCEPT !.bsc[b].cmd_pending = @ \ {cmd}]
ctrl_cmd_send(S, cmd) == [S EXCEPT !.owed = @ \ {cmd.cmd}]
\* The SCCP connections of a link: the other end of a confirmed one is told.
CloseCons(S, b) ==
    LET Close(T, c) ==
            LET U == IF c.bsc_endp # -1 THEN bsc_mgcp_free_endpoint(T, c.msc_endp) ELSE T
            IN  IF c.bsc # b THEN T ELSE IF c.has_remote /\ c.local = "MSC" THEN nat_send_rlsd_msc(U, c) ELSE U
    IN  [FoldLeft(Close, S, S.con) EXCEPT !.con = SelectSeq(@, LAMBDA c : c.bsc # b)]
\* With the link, what the BSC holds open is gone too.
FreeLink(S, b) == [S EXCEPT !.bsc[b] = NatLink, !.toBsc[b] = <<>>, !.at[b] = [r \in NatReal |-> NoEnd]]
\* Mutant: nobody is told of the commands that were not answered.
bsc_close_connection_quiet(S, b) == FreeLink(bsc_mgcp_clear_endpoints_for(CloseCons(S, b), b), b)
bsc_close_connection(S, b) ==
    LET T == FoldSet(LAMBDA cmd, V : bsc_del_pending(ctrl_cmd_send(V, cmd), b, cmd), CloseCons(S, b), S.bsc[b].cmd_pending)
    IN  FreeLink(bsc_mgcp_clear_endpoints_for(T, b), b)
bsc_maybe_close(S, b) ==
    IF S.blocked /\ S.bsc[b].up /\ NatCons(S, b) = {} THEN bsc_close_connection(S, b) ELSE S
bsc_pong_timeout(S, b) == bsc_close_connection(S, b)
ipaccess_close_bsc(S, b) == bsc_close_connection(S, b)
bsc_ping_timeout(S, b) == [S EXCEPT !.bsc[b].pong = TRUE]
ipaccess_auth_bsc(S, b) == bsc_ping_timeout([S EXCEPT !.bsc[b].auth = TRUE], b)
bsc_nat_msc_is_connected(S) == S.msc_up
ipaccess_listen_bsc_cb(S, b) ==
    IF ~bsc_nat_msc_is_connected(S) \/ S.blocked THEN S ELSE [S EXCEPT !.bsc[b] = [NatLink EXCEPT !.up = TRUE]]
msc_connection_was_lost(S) ==
    bsc_mgcp_free_endpoints(FoldSet(LAMBDA b, U : bsc_close_connection(U, b), S, {b \in NatBsc : S.bsc[b].up}))
\* With the socket, what the MSC holds open is gone too.  The queue is emptied first: the RLSDs of the
\* connections that are closed now are the first messages of the next link.
bsc_msc_lost(S) == msc_connection_was_lost([S EXCEPT !.msc_up = FALSE, !.toMsc = <<>>, !.msc = {}])
\* The unconfirmed connections that are old enough go, without a word.
sccp_close_unconfirmed(S, old) ==
    LET Reap(T, c) == IF c.g \notin old \/ c.has_remote THEN T
                      ELSE sccp_connection_destroy(T, FirstCon(T, LAMBDA d : d.g = c.g))
        R == FoldLeft(Reap, S, S.con)
    IN  IF R.con = S.con THEN S ELSE FoldSet(LAMBDA b, U : bsc_maybe_close(U, b), R, NatBsc)

-----------------------------------------------------------------------------
(* The filters: what is known of the subscriber *)

bsc_nat_lst_check_allow(imsi) == imsi = "allowed"
lst_check_deny(imsi) == imsi = "denied"
auth_imsi(imsi) == bsc_nat_lst_check_allow(imsi) \/ ~lst_check_deny(imsi)
\* The subscriber names himself by his IMSI or by something the NAT cannot tell.
cr_check_loc_upd(imsi) == imsi = "NONE" \/ auth_imsi(imsi)
cr_check_cm_serv_req(imsi) == imsi = "NONE" \/ auth_imsi(imsi)
cr_check_pag_resp(imsi) == imsi = "NONE" \/ auth_imsi(imsi)
bsc_nat_filter_sccp_cr(type, imsi) ==
    CASE type = "LU" -> cr_check_loc_upd(imsi)
      [] type = "SSA" -> cr_check_cm_serv_req(imsi)
      [] type = "PAG_RESP" -> cr_check_pag_resp(imsi)
dt_check_id_resp(S, i, imsi) == [S EXCEPT !.con[i].checked = TRUE, !.con[i].imsi = imsi]

\* Mutant: the connection is not kept from the MSC.
bsc_send_con_release_open(S, i) == nat_send_rlsd_bsc(nat_send_clrc_bsc(nat_send_rlsd_msc(S, S.con[i]), S.con[i]), S.con[i])
bsc_send_con_release(S, i) ==
    LET T == [nat_send_rlsd_msc(S, S.con[i]) EXCEPT !.con[i].local = "LOCAL", !.con[i].msc_con = FALSE]
    IN  nat_send_rlsd_bsc(nat_send_clrc_bsc(T, S.con[i]), S.con[i])
\* A connection the MSC never hears of, to carry the reject; or a refusal.
bsc_send_con_refuse(S, b, r, g, type) ==
    LET T == create_sccp_src_ref(S, b, r, g)
        i == FirstCon(T, LAMBDA c : c.g = g)
        p == T.con[i].patched
        U == [T EXCEPT !.con[i].local = "LOCAL", !.con[i].has_remote = TRUE, !.con[i].remote = p]
    IN  IF type = "PAG_RESP" THEN bsc_send_data(S, b, "CREF", r, 0, g)
        ELSE IF i = 0 THEN bsc_send_data(T, b, "CREF", r, 0, g)
        ELSE nat_send_rlsd_bsc(nat_send_clrc_bsc(bsc_send_data(U, b, "CC", r, p, g), U.con[i]), U.con[i])

-----------------------------------------------------------------------------
(* USSD *)

forward_ussd(S) == S.ussd
\* What the BSC sends is of the provider's concern, and he is there.
bsc_check_ussd(S, i, t) ==
    LET c == S.con[i] IN c.type = "SSA" /\ c.imsi = "allowed" /\ c.authorized /\ t = "REGISTER" /\ forward_ussd(S)
bsc_close_ussd_connections(S) ==
    FoldLeft(LAMBDA T, c : IF c.local # "USSD" THEN T ELSE nat_send_rlsd_bsc(nat_send_clrc_bsc(T, c), c), S, S.con)
bsc_nat_ussd_destroy(S) == [bsc_close_ussd_connections(S) EXCEPT !.ussd = FALSE]
ussd_auth_con(S) == [(IF S.ussd THEN bsc_nat_ussd_destroy(S) ELSE S) EXCEPT !.ussd = TRUE]
\* The provider only knows the reference of the BSC.
forward_sccp(S, t, r) ==
    LET i == bsc_nat_find_con_by_bsc(S, r) IN IF i = 0 THEN S ELSE bsc_send_data(S, S.con[i].bsc, t, r, 0, 0)

-----------------------------------------------------------------------------
(* Messages of the BSCs and of the MSC *)

ConnectionRequest(S, b, r, g, type, imsi) ==
    LET T == create_sccp_src_ref(S, b, r, g)
        i == FirstCon(T, LAMBDA c : c.g = g)
    IN  IF ~bsc_nat_filter_sccp_cr(type, imsi) THEN bsc_send_con_refuse(S, b, r, g, type)
        ELSE IF i = 0 THEN T
        ELSE queue_for_msc([T EXCEPT !.con[i].msc_con = TRUE, !.con[i].type = type, !.con[i].checked = imsi # "NONE",
                                     !.con[i].imsi = IF imsi = "NONE" THEN @ ELSE imsi],
                           "CR", T.con[i].patched, 0, g)
\* t: plain data, the subscriber's IMSI, or a USSD request.
DataToMsc(S, b, remote, g, t, imsi) ==
    LET i == patch_sccp_src_ref_to_msc(S, b, 0, remote)
        c == S.con[i]
        looks == t = "ID_RESP" /\ ~c.checked
        T == IF looks THEN dt_check_id_resp(S, i, imsi) ELSE S
    IN  IF i = 0 THEN S
        ELSE IF c.local # "MSC" THEN S
        ELSE IF looks /\ ~auth_imsi(imsi) THEN bsc_send_con_release(T, i)
        ELSE IF bsc_check_ussd(T, i, t) THEN [T EXCEPT !.con[i].local = "USSD"]
        ELSE queue_for_msc(T, "DT", c.patched, remote, g)
\* open: the BSC had the connection.  The RLC of an unknown one may destroy another with that reference,
\* and the log message that it is not forwarded reads the link, which may have been closed here.
ReleaseComplete(S, b, r, remote, g, open) ==
    LET i == patch_sccp_src_ref_to_msc(S, b, r, 0)
        c == S.con[i]
        T == bsc_maybe_close(remove_sccp_src_ref(S, IF i # 0 THEN c.patched ELSE IF NatHas("same_refs") THEN r ELSE -1), b)
    IN  IF i = 0 THEN [T EXCEPT !.freed = IF T.bsc[b].up THEN @ ELSE @ \cup {IF open THEN "open" ELSE "again"}]
        ELSE IF c.local = "MSC" /\ c.msc_con THEN queue_for_msc(T, "RLC", c.patched, remote, g)
        ELSE T

\* Connectionless messages: a BSC's RESET is answered here, paging goes to where the location area is.
bsc_nat_filter_ipa(to, gsm) == <<to, gsm>> \in {<<"MSC", "RESET">>, <<"BSC", "RESET_ACKNOWLEDGE">>}
NatLacs(b) == {b}
bsc_nat_paging_group_num(b) == {0}      \* the areas of the BSC's group
bsc_config_handles_lac(b, lac) == lac \in NatLacs(b) \cup bsc_nat_paging_group_num(b)
ToBscs(S, bscs, gsm) == [S EXCEPT !.toBsc = [b \in NatBsc |->
    IF b \in bscs /\ S.bsc[b].auth THEN Append(S.toBsc[b], [t |-> gsm, r |-> 0, remote |-> 0, g |-> 0]) ELSE S.toBsc[b]]]
bsc_nat_handle_paging(S, lac) == ToBscs(S, {b \in NatBsc : bsc_config_handles_lac(b, lac)}, "PAGING")
send_reset_ack(S, b) == ToBscs(S, {b}, "RESET_ACKNOWLEDGE")
UdtToMsc(S, b, gsm) ==
    IF bsc_nat_filter_ipa("MSC", gsm) THEN send_reset_ack(send_reset_ack(S, b), b) ELSE S
UdtToBsc(S, gsm, lac) ==
    IF bsc_nat_filter_ipa("BSC", gsm) THEN S
    ELSE IF gsm = "PAGING" THEN bsc_nat_handle_paging(S, lac)
    ELSE ToBscs(S, NatBsc, gsm)

\* type: CIPHER (the subscriber is who he says), ASSIGN (a voice circuit), CLEAR_CMD or other data.
forward_sccp_to_bts(S, t, type, m, cic) ==
    LET i == patch_sccp_src_ref_to_bsc(S, m.p)
        c == S.con[i]
        T == IF t = "CC" THEN update_sccp_src_ref(S, i, m.remote)
             ELSE IF type = "ASSIGN" THEN bsc_mgcp_assign_patch(S, i, cic)
             ELSE S
        U == [T EXCEPT !.con[i].authorized = @ \/ type = "CIPHER"]
    IN  IF i = 0 THEN (IF t = "RLSD" THEN nat_send_rlc(S, m.p, m.remote, m.g) ELSE S)
        ELSE IF c.local = "USSD" /\ type = "CLEAR_CMD" THEN S
        ELSE IF ~S.bsc[c.bsc].auth THEN T
        ELSE bsc_send_data(U, c.bsc, t, c.real, m.remote, m.g)

-----------------------------------------------------------------------------
(* Control commands *)

get_next_free_bsc_id(S, b) == S.bsc[b].last_id + 1
\* A command for a location area of the BSC; without the BSC, an error at once.
forward_to_bsc(S, b, cmd) ==
    LET id == get_next_free_bsc_id(S, b)
        pending == [id |-> id, cmd |-> cmd]
    IN  IF ~S.bsc[b].auth THEN ctrl_cmd_send(S, pending)
        ELSE bsc_send_data([S EXCEPT !.bsc[b].last_id = id, !.bsc[b].cmd_pending = @ \cup {pending}], b, "CTRL", id, 0, 0)
bsc_get_pending(S, b, id) == {cmd \in S.bsc[b].cmd_pending : cmd.id = id}
pending_timeout_cb(S, b, cmd) == bsc_del_pending(ctrl_cmd_send(S, cmd), b, cmd)
\* An answer, unless the command is no longer pending.
handle_ctrlif_msg(S, b, id) ==
    FoldSet(LAMBDA cmd, T : bsc_del_pending(ctrl_cmd_send(T, cmd), b, cmd), S, bsc_get_pending(S, b, id))
ctrl_conn_closed_cb(S) ==
    [S EXCEPT !.bsc = [b \in NatBsc |-> [S.bsc[b] EXCEPT !.cmd_pending = {}]], !.ccon = FALSE, !.owed = {}]

-----------------------------------------------------------------------------
(* What happens *)

NatStep(S) == nt' = S /\ natEnv' = natEnv
NatRoom(b) == Len(nt.toBsc[b]) < NatMsg /\ Len(nt.toMsc) < NatMsg

BscConnects(b) == b \in natEnv.bscs /\ ~nt.bsc[b].up /\ NatStep(ipaccess_listen_bsc_cb(nt, b))
BscIdentifies(b) == nt.bsc[b].up /\ ~nt.bsc[b].auth /\ NatStep(ipaccess_auth_bsc(nt, b))
IdTimeout(b) == NatHas("lost_bsc") /\ nt.bsc[b].up /\ ~nt.bsc[b].auth /\ NatStep(ipaccess_close_bsc(nt, b))
BscPongs(b) == NatHas("ping") /\ nt.bsc[b].pong /\ NatStep([nt EXCEPT !.bsc[b].pong = FALSE])
NatPingTimeout(b) == NatHas("ping") /\ nt.bsc[b].auth /\ NatStep(bsc_ping_timeout(nt, b))
NatPongTimeout(b) == NatHas("ping") /\ nt.bsc[b].pong /\ NatStep(bsc_pong_timeout(nt, b))
BscLost(b) == NatHas("lost_bsc") /\ nt.bsc[b].up /\ NatStep(bsc_close_connection(nt, b))

\* A BSC uses a reference again once nothing of its former use is on its way, if it can help it.
BscOpens(b, r, type, imsi) ==
    /\ nt.bsc[b].auth /\ nt.gen < NatMax /\ NatRoom(b) /\ (r = 1 \/ NatHas("refs"))
    /\ NatHas("reassigns") \/ (nt.at[b][r].g = 0 /\ \A m \in ToSet(nt.toBsc[b]) : m.t = "CTRL" \/ m.r # r)
    /\ type = "SSA" => NatHas("ussd")
    /\ type = "PAG_RESP" => imsi = "denied"      \* else as LU
    /\ LET g == nt.gen + 1
       IN  NatStep(ConnectionRequest([nt EXCEPT !.gen = g, !.at[b][r] = [NoEnd EXCEPT !.g = g]], b, r, g, type, imsi))
BscSends(b, r, t, imsi) ==
    LET e == nt.at[b][r]
    IN  /\ e.ok /\ NatRoom(b) /\ (t = "REGISTER" => NatHas("ussd"))
        /\ NatStep(DataToMsc(nt, b, e.remote, e.g, t, imsi))
BscReads(b) ==
    /\ nt.toBsc[b] # <<>>
    /\ LET m == Head(nt.toBsc[b])
           S == [nt EXCEPT !.toBsc[b] = Tail(@)]
           open == nt.at[b][m.r].g # 0 /\ m.g \in {0, nt.at[b][m.r].g}
       IN  \/ m.t = "DT" /\ NatStep(S)
           \/ m.t = "CC" /\ NatStep([S EXCEPT !.at[b][m.r].ok = TRUE, !.at[b][m.r].remote = m.remote])
           \/ m.t = "CREF" /\ NatStep([S EXCEPT !.at[b][m.r] = NoEnd])
           \/ m.t = "RLSD" /\ NatStep(ReleaseComplete([S EXCEPT !.at[b][m.r] = NoEnd], b, m.r, m.remote, m.g, open))
           \/ m.t \in {"PAGING", "RESET", "RESET_ACKNOWLEDGE"} /\ NatStep(S)
           \/ m.t = "CTRL" /\ NatStep(handle_ctrlif_msg(S, b, m.r))
BscSendsUdt(b) == NatHas("udt") /\ nt.bsc[b].auth /\ NatRoom(b) /\ NatStep(UdtToMsc(nt, b, "RESET"))
MscSendsUdt(gsm, lac) == NatHas("udt") /\ nt.msc_up /\ (\A b \in NatBsc : NatRoom(b)) /\ NatStep(UdtToBsc(nt, gsm, lac))

MscReads ==
    /\ nt.msc_up /\ nt.toMsc # <<>>
    /\ LET m == Head(nt.toMsc)
           S == [nt EXCEPT !.toMsc = Tail(@)]
       IN  \/ m.t = "DT" /\ NatStep(S)
           \/ m.t = "CR" /\ NatStep([S EXCEPT !.msc = @ \cup {[p |-> m.p, g |-> m.g, remote |-> 0]}])
           \/ m.t \in {"RLSD", "RLC"} /\ NatStep([S EXCEPT !.msc = {c \in @ : c.remote # m.remote}])
\* 0x50000 and up are the NAT's references; the MSC's come from elsewhere, if it can help it.
MscRefs(g) == IF NatHas("same_refs") THEN {p \in 0..(NatMax - 1) : \A c \in nt.msc : c.remote # p} ELSE {NatMax + g}
MscAnswers(c) ==
    /\ c.remote = 0
    /\ \/ \E remote \in MscRefs(c.g) :
              LET d == [c EXCEPT !.remote = remote]
              IN  NatStep(forward_sccp_to_bts([nt EXCEPT !.msc = (@ \ {c}) \cup {d}], "CC", "NONE", d, 0))
       \/ NatStep(forward_sccp_to_bts([nt EXCEPT !.msc = @ \ {c}], "CREF", "NONE", c, 0))
MscSendsTo(c, type, cic) ==
    /\ c.remote # 0 /\ \A b \in NatBsc : NatRoom(b)
    /\ type = "CIPHER" => NatHas("ussd")
    /\ type = "ASSIGN" => /\ NatHas("mgcp")
                          /\ \/ NatHas("other_cic")
                             \/ \A d \in ToSet(nt.con) : d.g = c.g => d.msc_endp \in {-1, cic}
    /\ NatStep(forward_sccp_to_bts(nt, "DT", type, c, cic))
MscReleases(c) == c.remote # 0 /\ NatStep(forward_sccp_to_bts([nt EXCEPT !.msc = @ \ {c}], "RLSD", "NONE", c, 0))

\* ... or an attempt to connect again runs into its timeout (msc_con_timeout()).
NatMscLost == NatHas("lost_msc") /\ NatStep(bsc_msc_lost(nt))
NatMscBack == ~nt.msc_up /\ NatStep([nt EXCEPT !.msc_up = TRUE])
CloseUnconfirmed(g) == NatHas("unconfirmed") /\ NatStep(sccp_close_unconfirmed(nt, 1..g))
Block == NatHas("block") /\ NatStep([nt EXCEPT !.blocked = ~@])

CallAgent(cic, state) == NatHas("mgcp") /\ NatStep(bsc_mgcp_policy_cb(nt, cic, state))
BscAnswersMgcp(b, cic, ok) ==
    /\ nt.trans[cic].id /\ nt.trans[cic].bsc = b
    /\ NatStep(bsc_mgcp_forward(nt, b, cic, ok))

UssdConnects == NatHas("ussd") /\ (\A b \in NatBsc : NatRoom(b)) /\ NatStep(ussd_auth_con(nt))
UssdLost == nt.ussd /\ (\A b \in NatBsc : NatRoom(b)) /\ NatStep(bsc_nat_ussd_destroy(nt))
UssdSends(r, t) == nt.ussd /\ (\A b \in NatBsc : NatRoom(b)) /\ NatStep(forward_sccp(nt, t, r))

CtrlOpens == NatHas("ctrl") /\ ~nt.ccon /\ NatStep([nt EXCEPT !.ccon = TRUE])
CtrlCommand(b) ==
    /\ nt.ccon /\ nt.cmds < NatCmds
    /\ NatStep(forward_to_bsc([nt EXCEPT !.cmds = @ + 1, !.owed = @ \cup {nt.cmds}], b, nt.cmds))
CtrlTimeout(b, cmd) == NatStep(pending_timeout_cb(nt, b, cmd))
CtrlClosed == nt.ccon /\ NatStep(ctrl_conn_closed_cb(nt))

NatNext ==
    \/ \E b \in NatBsc :
        \/ BscConnects(b) \/ BscIdentifies(b) \/ IdTimeout(b) \/ BscPongs(b) \/ NatPingTimeout(b)
        \/ NatPongTimeout(b) \/ BscLost(b) \/ BscReads(b) \/ CtrlCommand(b) \/ BscSendsUdt(b)
        \/ \E r \in NatReal, imsi \in {"NONE"} \cup IF NatHas("imsi") THEN {"allowed", "denied"} ELSE {} :
                \/ \E type \in {"LU", "PAG_RESP", "SSA"} : BscOpens(b, r, type, imsi)
                \/ \E t \in {"DATA", "ID_RESP", "REGISTER"} : (t = "ID_RESP" <=> imsi # "NONE") /\ BscSends(b, r, t, imsi)
        \/ \E cic \in NatCic, ok \in BOOLEAN : BscAnswersMgcp(b, cic, ok)
        \/ \E cmd \in nt.bsc[b].cmd_pending : CtrlTimeout(b, cmd)
    \/ \E c \in nt.msc :
        \/ MscAnswers(c) \/ MscReleases(c)
        \/ \E type \in {"DATA", "CIPHER", "ASSIGN", "CLEAR_CMD"}, cic \in NatCic : MscSendsTo(c, type, cic)
    \/ MscReads \/ NatMscLost \/ NatMscBack \/ Block \/ UssdConnects \/ UssdLost \/ CtrlOpens \/ CtrlClosed
    \/ \E r \in NatReal, t \in {"DT", "RLSD"} : UssdSends(r, t)
    \/ \E gsm \in {"RESET", "RESET_ACKNOWLEDGE", "PAGING"}, lac \in {0} \cup NatBsc : MscSendsUdt(gsm, lac)
    \/ \E g \in 1..NatMax : CloseUnconfirmed(g)
    \/ \E cic \in NatCic, state \in {"CRCX", "DLCX"} : CallAgent(cic, state)
NatSpec == NatInit /\ [][NatNext]_natVars

-----------------------------------------------------------------------------
(* Properties *)

\* Nothing refers to the link of a BSC that is gone (bsc_close_connection()), no command
\* waits for a control connection that is closed, and a command is pending as long as its
\* answer is owed, no longer.  A freed link is read in one case only: the NAT is blocked, and the BSC
\* answers the release of a connection it had no longer open ("again"), as when a release of the MSC
\* crosses that of the NAT; or one that was destroyed in place of another with the same reference.
NatPointersGood ==
    /\ \A c \in ToSet(nt.con) : nt.bsc[c.bsc].up
    /\ \A e \in NatCic : nt.trans[e].bsc # 0 => nt.bsc[nt.trans[e].bsc].up
    /\ {cmd.cmd : cmd \in UNION {nt.bsc[b].cmd_pending : b \in NatBsc}} = nt.owed
    /\ ~nt.ccon => nt.owed = {}
    /\ "open" \in nt.freed => NatHas("same_refs")

\* The endpoints a BSC has in use are those of its connections, each of one connection
\* (bsc_mgcp_assign_patch(), bsc_mgcp_dlcx()); a circuit of the MSC is of one connection.
\* (A second circuit for a connection overwrites bsc_endp, and the endpoint is never free again.)
EndpointsOwned ==
    LET used(b) == {i \in NatCons(nt, b) : nt.con[i].bsc_endp # -1}
    IN  /\ ~NatHas("other_cic") => \A b \in NatBsc : nt.bsc[b].endp = {nt.con[i].bsc_endp : i \in used(b)}
        /\ \A b \in NatBsc : Cardinality({nt.con[i].bsc_endp : i \in used(b)}) = Cardinality(used(b))
        /\ \A i, j \in DOMAIN nt.con : nt.con[i].msc_endp = nt.con[j].msc_endp => i = j \/ nt.con[i].msc_endp = -1

\* A message of the MSC reaches the BSC, and there the connection, it is meant for; the BSC's
\* messages are filtered as those of the connection they were sent on (bsc_sccp.c).  Not so where
\* the BSC uses a reference anew, or the MSC the references the NAT gives to what it refuses.
RoutedToOwner ==
    natEnv.faults \cap {"reassigns", "same_refs"} = {} =>
        \A b \in NatBsc :
            /\ \A m \in ToSet(nt.toBsc[b]) : m.g # 0 => nt.at[b][m.r].g \in {0, m.g}
            /\ \A r \in NatReal :
                LET e == nt.at[b][r]
                    i == patch_sccp_src_ref_to_msc(nt, b, 0, e.remote)
                IN  e.ok /\ i # 0 => nt.con[i].g = e.g

\* Nothing more goes to the MSC on a connection once its subscriber was found to be refused
\* (bsc_nat_filter_dt(), bsc_send_con_release()), but the end of it.
RefusedStaysOut ==
    [][\A i \in DOMAIN nt.con :
        LET c == nt.con[i]
        IN  c.checked /\ c.imsi = "denied" /\ ~NatHas("reassigns") /\ nt'.toMsc # <<>> /\ Len(nt'.toMsc) > Len(nt.toMsc) =>
                ~(Last(nt'.toMsc).t = "DT" /\ Last(nt'.toMsc).g = c.g)]_natVars
=============================================================================
