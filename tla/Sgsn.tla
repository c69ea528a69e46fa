--------------------------------- MODULE Sgsn ---------------------------------
(***************************************************************************)
(* GPRS mobility and session management in osmo-sgsn: gprs_gmm.c, the MM   *)
(* and PDP contexts of gprs_sgsn.c, the GTP callbacks of sgsn_libgtp.c and *)
(* the LLC management entities (LLME) that gprs_llc.c assigns to TLLIs.    *)
(* One MS with one NSAPI; a message in either direction may be lost.       *)
(*                                                                         *)
(* A TLLI is a kind and a P-TMSI: local, foreign or random.  MM contexts,  *)
(* PDP contexts and LLMEs live in slots; a slot something still points to  *)
(* is not used again, so that a use of freed memory can be seen.           *)
(***************************************************************************)
EXTENDS Naturals, Sequences, FiniteSets, SequencesExt

CONSTANTS
    NumPtmsi,   \* P-TMSIs to allocate from
    NumCtx,     \* slots for MM contexts, and for PDP contexts
    NumLlme,    \* slots for LLMEs
    MaxExp,     \* expirations before a procedure is given up (5 in the code, 4 for T3395)
    SgEnvs      \* the surroundings to consider, a subset of SgEnv

SgFaults == {
    "slow_ggsn",     \* the MS repeats an SM request the GGSN has not answered
    "power_cycle",   \* the MS attaches anew without having detached
    "detach_busy",   \* the MS detaches with a PDP context or a procedure under way
    "ggsn_restart",  \* the GGSN loses its contexts
    "came_back",     \* the MS attaches with a P-TMSI of another SGSN
    "rau_repeat",    \* a ROUTING AREA UPDATE REQUEST is repeated
    "gtp_full"}      \* libgtp is out of PDP contexts
SgEnv == [faults : SUBSET SgFaults, ras : SUBSET {1, 2}]     \* and the routing areas the MS moves in

ASSUME SgBounds == {NumPtmsi, NumCtx, NumLlme, MaxExp} \subseteq Nat \ {0}
ASSUME SgEnvAssumption == SgEnvs \subseteq SgEnv

VARIABLES sg, sgEnv
sgVars == <<sg, sgEnv>>
SgHas(fault) == fault \in sgEnv.faults

Ras == {1, 2}
Ptmsis == 1..NumPtmsi
Alien == NumPtmsi + 1                       \* a P-TMSI of another SGSN
None == [kind |-> "none", p |-> 0]          \* 0xffffffff
Local(p) == [kind |-> "local", p |-> p]
Foreign(p) == [kind |-> "foreign", p |-> p]
Random(k) == [kind |-> "random", p |-> k]
Tllis == {None, Random(0), Random(1)} \cup [kind : {"local", "foreign"}, p : 0..Alien]

Timer == [on : BOOLEAN, T : {0, 3350, 3370, 3395}, n : 0..MaxExp]
NoTimer == [on |-> FALSE, T |-> 0, n |-> 0]
Started(T) == [on |-> TRUE, T |-> T, n |-> 0]
MmStates == {"DEREGISTERED", "COMMON_PROC_INIT", "NORMAL", "SUSPENDED"}
MmCtx == [used : BOOLEAN, imsi : BOOLEAN, imei : BOOLEAN, state : MmStates,
          ptmsi : 0..Alien, old : 0..Alien, ra : Ras, tlli : Tllis, new : Tllis,
          llme : 0..NumLlme, timer : Timer, mode : {"ATT", "RAU"}, id : {"NONE", "IMSI", "IMEI"}]
NoCtx == [used |-> FALSE, imsi |-> FALSE, imei |-> FALSE, state |-> "DEREGISTERED",
          ptmsi |-> 0, old |-> 0, ra |-> 1, tlli |-> None, new |-> None, llme |-> 0,
          timer |-> NoTimer, mode |-> "ATT", id |-> "NONE"]
Llme == [used : BOOLEAN, tlli : Tllis, old : Tllis, sne : BOOLEAN]   \* sne: an SNDCP entity
NoLlme == [used |-> FALSE, tlli |-> None, old |-> None, sne |-> FALSE]
\* creating, dels: requests the GGSN has not answered; up: the GGSN has confirmed it.
PdpCtx == [used : BOOLEAN, mm : 0..NumCtx, lib : BOOLEAN, v1 : BOOLEAN, ti : BOOLEAN,
           up : BOOLEAN, creating : BOOLEAN, dels : 0..2, timer : Timer]
NoPdp == [used |-> FALSE, mm |-> 0, lib |-> FALSE, v1 |-> TRUE, ti |-> FALSE, up |-> FALSE,
          creating |-> FALSE, dels |-> 0, timer |-> NoTimer]
SgMsgs == {"ATT_ACK", "ATT_REJ", "ID_REQ", "DET_ACK", "RAU_ACK", "RAU_REJ", "GMM_STATUS",
           "SM_STATUS", "ACT_ACC", "ACT_REJ", "DEACT_REQ", "DEACT_ACC", "DATA", "PAGING"}
Ms == [st : {"off", "attaching", "on", "updating", "detaching"}, ptmsi : 0..Alien, ra : Ras, was : Ras,
       tlli : Tllis, pdp : {"none", "act", "up", "deact"},
       owes : SUBSET {"IMSI", "IMEI", "ATT_COMPL", "RAU_COMPL", "DEACT_ACK"}]

SgTypeOK ==
    /\ sg.ctx \in [1..NumCtx -> MmCtx] /\ sg.list \in BoundedSeq(1..NumCtx, NumCtx)
    /\ sg.llme \in [1..NumLlme -> Llme] /\ sg.pdp \in [1..NumCtx -> PdpCtx]
    /\ sg.ms \in Ms /\ sg.by = 0 /\ sg.out \subseteq {"ACT_ACC"} /\ sg.bad \in BOOLEAN /\ sg.full \in BOOLEAN
    /\ sgEnv \in SgEnvs

SgInit ==
    /\ sgEnv \in SgEnvs
    /\ sg = [ctx |-> [c \in 1..NumCtx |-> NoCtx], list |-> <<>>,
             llme |-> [l \in 1..NumLlme |-> NoLlme], pdp |-> [p \in 1..NumCtx |-> NoPdp],
             ms |-> [st |-> "off", ptmsi |-> 0, ra |-> 1, was |-> 1, tlli |-> None,
                     pdp |-> "none", owes |-> {}],
             by |-> 0, out |-> {}, bad |-> FALSE, full |-> FALSE]

-----------------------------------------------------------------------------
(* LLC: the entities of a TLLI *)

tlli_foreign2local(t) == IF t.kind = "foreign" THEN Local(t.p) ELSE t

\* 0: none.  An entity made on the fly keeps a foreign TLLI as it is and is never found.
lle_by_tlli(S, t) ==
    LET l == {k \in 1..NumLlme : S.llme[k].used
                /\ tlli_foreign2local(t) \in {S.llme[k].tlli, S.llme[k].old}}
    IN  IF l = {} THEN 0 ELSE CHOOSE k \in l : TRUE

Pointed(S) == {S.ctx[c].llme : c \in {d \in 1..NumCtx : S.ctx[d].used}}
FreeLlmes(S) == {l \in 1..NumLlme : ~S.llme[l].used /\ l \notin Pointed(S)}
\* Entities nobody points to and no look-up finds: lost memory, left out of the state.
Lost(S, l) == /\ S.llme[l].used /\ l \notin Pointed(S) /\ ~S.llme[l].sne
              /\ \A t \in {S.llme[l].tlli, S.llme[l].old} : t.kind \in {"foreign", "none"}
Collect(S) == [S EXCEPT !.llme = [l \in 1..NumLlme |-> IF Lost(S, l) THEN NoLlme ELSE S.llme[l]]]

NewLlme(S) == Min(FreeLlmes(S))
llme_alloc(S, t) ==
    IF FreeLlmes(S) = {} THEN [S EXCEPT !.full = TRUE]
    ELSE [S EXCEPT !.llme[NewLlme(S)] = [NoLlme EXCEPT !.used = TRUE, !.tlli = t]]

\* gprs_llc_tx_ui(): an entity is made where there is none (at once lost for a foreign TLLI).
TxUi(S, t, msg) ==
    LET T == [S EXCEPT !.out = @ \cup {msg}]
    IN  IF lle_by_tlli(S, t) # 0 \/ t.kind = "foreign" THEN T ELSE Collect(llme_alloc(T, t))

gprs_llgmm_assign(S, l, old, new) ==
    IF l = 0 \/ ~S.llme[l].used THEN [S EXCEPT !.bad = TRUE]
    ELSE CASE old = None /\ new # None -> [S EXCEPT !.llme[l].old = None, !.llme[l].tlli = new]
           [] old # None /\ new # None ->
                 [S EXCEPT !.llme[l].old = S.llme[l].tlli, !.llme[l].tlli = new]
           [] old # None /\ new = None -> [S EXCEPT !.llme[l] = NoLlme]
           [] old = None /\ new = None -> S

\* gprs_llgmm_reset_state(): the counters of the entity, which has to be there.
gprs_llgmm_reset_state(S, l) == [S EXCEPT !.bad = @ \/ (l # 0 /\ ~S.llme[l].used)]

-----------------------------------------------------------------------------
(* Contexts *)

\* The first context of the list with the quality Q, 0 if there is none.
FirstCtx(S, Q(_)) ==
    LET found == {i \in DOMAIN S.list : Q(S.ctx[S.list[i]])}
    IN  IF found = {} THEN 0 ELSE S.list[Min(found)]

\* The context of a TLLI; one found by its P-TMSI takes the TLLI over.
sgsn_mm_ctx_by_tlli(S, t, ra) ==
    LET exact   == FirstCtx(S, LAMBDA x : x.tlli = t /\ x.ra = ra)
        local   == FirstCtx(S, LAMBDA x : x.ptmsi = t.p \/ (x.old # 0 /\ x.old = t.p))
        foreign == FirstCtx(S, LAMBDA x : x.tlli.kind \in {"local", "foreign"}
                                            /\ x.tlli.p = t.p /\ x.ra = ra)
    IN  CASE exact # 0 -> exact
          [] exact = 0 /\ t.kind = "local" -> local
          [] exact = 0 /\ t.kind = "foreign" -> foreign
          [] exact = 0 /\ t.kind \notin {"local", "foreign"} -> 0
TakesTlli(S, c, t) == IF c # 0 /\ t.kind = "local" THEN [S EXCEPT !.ctx[c].tlli = t] ELSE S
sgsn_mm_ctx_by_ptmsi(S, p) == FirstCtx(S, LAMBDA x : x.ptmsi = p \/ (x.old # 0 /\ x.old = p))
sgsn_mm_ctx_by_imsi(S) == FirstCtx(S, LAMBDA x : x.imsi)

FreeCtxs(S) == {c \in 1..NumCtx : ~S.ctx[c].used /\ ~S.ctx[c].timer.on
                                     /\ \A p \in 1..NumCtx : S.pdp[p].used => S.pdp[p].mm # c}
NewCtx(S) == Min(FreeCtxs(S))
sgsn_mm_ctx_alloc(S, t, ra) ==
    IF FreeCtxs(S) = {} THEN [S EXCEPT !.full = TRUE]
    ELSE [S EXCEPT !.ctx[NewCtx(S)] = [NoCtx EXCEPT !.used = TRUE, !.tlli = t, !.ra = ra],
                   !.list = <<NewCtx(S)>> \o @]

\* What the GGSN has still to answer, and a running timer, outlive the context.
sgsn_pdp_ctx_free(S, p) ==
    [S EXCEPT !.pdp[p] = [NoPdp EXCEPT !.creating = S.pdp[p].creating, !.dels = S.pdp[p].dels,
                                       !.timer = S.pdp[p].timer]]
PdpsOf(S, c) == {p \in 1..NumCtx : S.pdp[p].used /\ S.pdp[p].mm = c}
FreePdps(S) == {p \in 1..NumCtx : S.pdp[p] = NoPdp}

sgsn_mm_ctx_free(S, c) ==
    LET T == IF PdpsOf(S, c) = {} THEN S ELSE sgsn_pdp_ctx_free(S, CHOOSE p \in PdpsOf(S, c) : TRUE)
    IN  [T EXCEPT !.ctx[c] = [NoCtx EXCEPT !.timer = S.ctx[c].timer],
                  !.list = RemoveAt(@, CHOOSE i \in DOMAIN @ : @[i] = c)]

\* rand() until no context has the number; numbers still in someone's memory do not
\* come up again.
KnownPtmsis(S) == {S.ms.ptmsi} \cup UNION {{x.ptmsi, x.old, x.tlli.p} : x \in Range(S.ctx)}
                     \cup UNION {{x.tlli.p, x.old.p} : x \in Range(S.llme)}
sgsn_alloc_ptmsi(S) == Ptmsis \ KnownPtmsis(S)
FreshRandom(S) == {k \in {0, 1} : \A t \in {x.tlli : x \in Range(S.ctx)}
                      \cup UNION {{x.tlli, x.old} : x \in Range(S.llme)} : t # Random(k)}

mmctx_timer_start(S, c, T) == [S EXCEPT !.ctx[c].timer = Started(T)]
mmctx_timer_stop(S, c) == [S EXCEPT !.ctx[c].timer = NoTimer]
pdpctx_timer_start(S, p) == [S EXCEPT !.pdp[p].timer = Started(3395)]

-----------------------------------------------------------------------------
(* Messages to the MS *)

gsm48_gmm_sendmsg(S, c, msg) == TxUi([S EXCEPT !.by = c], S.ctx[c].tlli, msg)
gsm48_tx_gmm_att_ack(S, c) == gsm48_gmm_sendmsg(S, c, "ATT_ACK")
gsm48_tx_gmm_att_rej(S, c) == gsm48_gmm_sendmsg(S, c, "ATT_REJ")
gsm48_tx_gmm_det_ack(S, c) == gsm48_gmm_sendmsg(S, c, "DET_ACK")
gsm48_tx_gmm_id_req(S, c) == gsm48_gmm_sendmsg(S, c, "ID_REQ")
gsm48_tx_gmm_ra_upd_ack(S, c) == gsm48_gmm_sendmsg(S, c, "RAU_ACK")
gsm48_tx_gmm_ra_upd_rej(S, t) == TxUi(S, t, "RAU_REJ")
gsm48_tx_gmm_status_oldmsg(S, t) == TxUi(S, t, "GMM_STATUS")
gsm48_tx_sm_status_oldmsg(S, t) == TxUi(S, t, "SM_STATUS")
gsm48_tx_gsm_act_pdp_acc(S, p) == gsm48_gmm_sendmsg(S, S.pdp[p].mm, "ACT_ACC")
gsm48_tx_gsm_act_pdp_rej(S, c) == gsm48_gmm_sendmsg(S, c, "ACT_REJ")
gsm48_tx_gsm_deact_pdp_req(S, p) ==
    gsm48_gmm_sendmsg(pdpctx_timer_start(S, p), S.pdp[p].mm, "DEACT_REQ")
gsm48_tx_gsm_deact_pdp_acc(S, c) == gsm48_gmm_sendmsg(S, c, "DEACT_ACC")

-----------------------------------------------------------------------------
(* GPRS mobility management *)

\* Mutant: the identity request is not supervised.
gsm48_gmm_authorize_unwatched(S, c, mode) ==
    IF S.ctx[c].imei /\ S.ctx[c].imsi
    THEN gsm48_tx_gmm_att_ack(mmctx_timer_start(
            [S EXCEPT !.ctx[c] = [@ EXCEPT !.mode = mode, !.state = "NORMAL"]], c, 3350), c)
    ELSE gsm48_tx_gmm_id_req([S EXCEPT !.ctx[c] = [@ EXCEPT !.state = "COMMON_PROC_INIT",
            !.id = IF S.ctx[c].imei THEN "IMSI" ELSE "IMEI"]], c)

gsm48_gmm_authorize(S, c, mode) ==
    IF S.ctx[c].imei /\ S.ctx[c].imsi
    THEN gsm48_tx_gmm_att_ack(mmctx_timer_start(
            [S EXCEPT !.ctx[c] = [@ EXCEPT !.mode = mode, !.state = "NORMAL"]], c, 3350), c)
    ELSE gsm48_tx_gmm_id_req(mmctx_timer_start(
            [S EXCEPT !.ctx[c] = [@ EXCEPT !.state = "COMMON_PROC_INIT",
                      !.id = IF S.ctx[c].imei THEN "IMSI" ELSE "IMEI"]], c, 3370), c)

Identified(x, type) == [x EXCEPT !.imsi = @ \/ type = "IMSI", !.imei = @ \/ type = "IMEI"]
Notes(S, c, type) == [S EXCEPT !.ctx[c] = Identified(@, type)]
\* Mutant: the context another P-TMSI of this IMSI has is kept.
gsm48_rx_gmm_id_resp_keeps(S, c, type) ==
    LET T == IF type = S.ctx[c].id THEN mmctx_timer_stop(S, c) ELSE S
    IN  gsm48_gmm_authorize(Notes(T, c, type), c, T.ctx[c].mode)

gsm48_rx_gmm_id_resp(S, c, type) ==
    LET T    == IF type = S.ctx[c].id THEN mmctx_timer_stop(S, c) ELSE S
        ictx == IF type = "IMSI" /\ ~S.ctx[c].imsi THEN sgsn_mm_ctx_by_imsi(T) ELSE 0
        U    == IF ictx = 0 THEN T
                ELSE sgsn_mm_ctx_free(gprs_llgmm_assign(T, T.ctx[ictx].llme, T.ctx[ictx].tlli, None), ictx)
    IN  gsm48_gmm_authorize(Notes(U, c, type), c, U.ctx[c].mode)

\* q: the new P-TMSI.
Attached(x, known, by, t, ra, llme, q) ==
    [x EXCEPT !.imsi = @ \/ (~known /\ by = "IMSI"), !.tlli = t, !.llme = llme, !.ra = ra,
              !.old = IF known THEN x.ptmsi ELSE IF by = "IMSI" THEN 0 ELSE t.p,
              !.ptmsi = q, !.new = Local(q)]
gsm48_rx_gmm_att_req(S, ctx, by, t, ra, llme, q) ==
    LET c0 == IF ctx # 0 THEN ctx
              ELSE IF by = "IMSI" THEN sgsn_mm_ctx_by_imsi(S) ELSE sgsn_mm_ctx_by_ptmsi(S, t.p)
        T  == IF c0 # 0 THEN S
              ELSE IF by = "IMSI" THEN sgsn_mm_ctx_alloc(S, None, ra) ELSE sgsn_mm_ctx_alloc(S, t, ra)
        c  == IF c0 # 0 THEN c0 ELSE NewCtx(S)
        U  == [T EXCEPT !.ctx[c] = Attached(@, c0 # 0, by, t, ra, llme, q)]
    IN  IF T.full THEN T
        ELSE gsm48_gmm_authorize(gprs_llgmm_assign(U, llme, t, Local(q)), c, "ATT")

sgsn_delete_pdp_ctx(S, p) == [S EXCEPT !.pdp[p].dels = @ + 1, !.bad = @ \/ ~S.pdp[p].lib]
DeleteAll(S, c) ==
    IF PdpsOf(S, c) = {} THEN S ELSE sgsn_delete_pdp_ctx(S, CHOOSE p \in PdpsOf(S, c) : TRUE)

gsm48_rx_gmm_det_req(S, c) ==
    LET T == gsm48_tx_gmm_det_ack(DeleteAll([S EXCEPT !.ctx[c].state = "DEREGISTERED"], c), c)
    IN  gprs_llgmm_assign(T, T.ctx[c].llme, T.ctx[c].tlli, None)

\* active: the PDP context status of the MS mentions the context.
process_ms_ctx_status(S, c, active) == IF active THEN S ELSE DeleteAll(S, c)

gsm48_rx_gmm_ra_upd_req(S, t, oldra, ra, q, mentions, active) ==
    LET c == sgsn_mm_ctx_by_tlli(S, t, oldra)
        T == [S EXCEPT !.ctx[c] = [@ EXCEPT !.ra = ra, !.tlli = t, !.old = S.ctx[c].ptmsi,
                                            !.ptmsi = q, !.new = Local(q), !.mode = "RAU"]]
        U == gprs_llgmm_assign(mmctx_timer_start(T, c, 3350), T.ctx[c].llme, t, Local(q))
    IN  IF c = 0 THEN gsm48_tx_gmm_ra_upd_rej(S, t)
        ELSE IF S.ctx[c].state = "DEREGISTERED" THEN gsm48_tx_gmm_ra_upd_rej(TakesTlli(S, c, t), t)
        ELSE gsm48_tx_gmm_ra_upd_ack(IF mentions THEN process_ms_ctx_status(U, c, active) ELSE U, c)

\* ATTACH COMPLETE and ROUTING AREA UPDATE COMPLETE.
RxComplete(S, c) ==
    LET T == [mmctx_timer_stop(S, c) EXCEPT !.ctx[c] = [@ EXCEPT !.old = 0, !.tlli = S.ctx[c].new]]
    IN  gprs_llgmm_assign(T, T.ctx[c].llme, None, T.ctx[c].new)

mmctx_timer_cb(S, c) ==
    LET n == S.ctx[c].timer.n + 1
        T == [S EXCEPT !.ctx[c].timer.n = n]
        gone == [T EXCEPT !.ctx[c] = [@ EXCEPT !.state = "DEREGISTERED", !.timer = NoTimer]]
        m == S.ctx[c].mode
    IN  CASE ~S.ctx[c].used -> [S EXCEPT !.bad = TRUE, !.ctx[c].timer = NoTimer]
          [] S.ctx[c].used /\ n >= MaxExp /\ S.ctx[c].timer.T = 3350 ->
                gprs_llgmm_reset_state(gone, S.ctx[c].llme)
          [] S.ctx[c].used /\ n >= MaxExp /\ S.ctx[c].timer.T = 3370 -> gsm48_tx_gmm_att_rej(gone, c)
          [] S.ctx[c].used /\ n < MaxExp /\ S.ctx[c].timer.T = 3350 /\ m = "ATT" -> gsm48_tx_gmm_att_ack(T, c)
          [] S.ctx[c].used /\ n < MaxExp /\ S.ctx[c].timer.T = 3350 /\ m = "RAU" -> gsm48_tx_gmm_ra_upd_ack(T, c)
          [] S.ctx[c].used /\ n < MaxExp /\ S.ctx[c].timer.T = 3370 -> gsm48_tx_gmm_id_req(T, c)

gprs_gmm_rx_suspend(S, c) ==
    IF c # 0 /\ S.ctx[c].state = "NORMAL" THEN [S EXCEPT !.ctx[c].state = "SUSPENDED"] ELSE S
gprs_gmm_rx_resume(S, c) ==
    IF c # 0 /\ S.ctx[c].state = "SUSPENDED" THEN [S EXCEPT !.ctx[c].state = "NORMAL"] ELSE S

-----------------------------------------------------------------------------
(* Session management and GTP *)

\* ok: libgtp has a context left; else the context stays behind without one.
sgsn_create_pdp_ctx(S, c, ok) ==
    IF FreePdps(S) = {} THEN [S EXCEPT !.full = TRUE]
    ELSE [S EXCEPT !.pdp[Min(FreePdps(S))] = [NoPdp EXCEPT !.used = TRUE, !.mm = c, !.lib = ok,
                                                           !.creating = ok, !.ti = ok]]

\* Mutant: the GGSN is asked later, the MS answered at once.
gsm48_rx_gsm_act_pdp_req_early(S, c, ok) ==
    IF PdpsOf(S, c) # {} THEN gsm48_tx_gsm_act_pdp_acc(S, CHOOSE p \in PdpsOf(S, c) : TRUE)
    ELSE gsm48_gmm_sendmsg(sgsn_create_pdp_ctx(S, c, ok), c, "ACT_ACC")

\* A request that seems to be repeated is answered as if the first had been.
gsm48_rx_gsm_act_pdp_req(S, c, ok) ==
    LET p == CHOOSE k \in PdpsOf(S, c) : TRUE
    IN  IF PdpsOf(S, c) = {} THEN sgsn_create_pdp_ctx(S, c, ok)
        ELSE IF S.pdp[p].ti THEN gsm48_tx_gsm_act_pdp_acc(S, p)
        ELSE gsm48_tx_gsm_act_pdp_rej(S, c)

TiPdps(S, c) == {p \in PdpsOf(S, c) : S.pdp[p].ti}
\* Mutant: the context is freed with the request, not with the confirmation.
gsm48_rx_gsm_deact_pdp_req_frees(S, c) ==
    IF TiPdps(S, c) = {} THEN gsm48_tx_gsm_deact_pdp_acc(S, c)
    ELSE LET p == CHOOSE k \in TiPdps(S, c) : TRUE
         IN  sgsn_pdp_ctx_free(gsm48_tx_gsm_deact_pdp_acc(sgsn_delete_pdp_ctx(S, p), c), p)

gsm48_rx_gsm_deact_pdp_req(S, c) ==
    IF TiPdps(S, c) = {} THEN gsm48_tx_gsm_deact_pdp_acc(S, c)
    ELSE sgsn_delete_pdp_ctx(S, CHOOSE p \in TiPdps(S, c) : TRUE)
gsm48_rx_gsm_deact_pdp_ack(S, c) ==
    IF TiPdps(S, c) = {} THEN S ELSE sgsn_delete_pdp_ctx(S, CHOOSE p \in TiPdps(S, c) : TRUE)

pdpctx_timer_cb(S, p) ==
    LET T == [S EXCEPT !.pdp[p].timer.n = @ + 1]
    IN  IF ~S.pdp[p].used THEN [S EXCEPT !.bad = TRUE, !.pdp[p].timer = NoTimer]
        ELSE IF S.pdp[p].timer.n + 1 >= MaxExp
        THEN sgsn_delete_pdp_ctx([T EXCEPT !.pdp[p].timer = NoTimer], p)
        ELSE gsm48_tx_gsm_deact_pdp_req(T, p)

LlmeOf(S, p) == S.ctx[S.pdp[p].mm].llme
LlmeThere(S, p) == LlmeOf(S, p) # 0 /\ S.llme[LlmeOf(S, p)].used
sndcp_sm_activate_ind(S, p) ==
    IF LlmeThere(S, p) THEN [S EXCEPT !.llme[LlmeOf(S, p)].sne = TRUE] ELSE [S EXCEPT !.bad = TRUE]
sndcp_sm_deactivate_ind(S, p) ==
    IF LlmeThere(S, p) THEN [S EXCEPT !.llme[LlmeOf(S, p)].sne = FALSE] ELSE [S EXCEPT !.bad = TRUE]

\* cause: "accepted", "refused", or "timeout" (then version 0 is tried, once).
create_pdp_conf(S, p, cause) ==
    LET T == [S EXCEPT !.pdp[p].creating = FALSE]
    IN  CASE ~S.pdp[p].used -> [T EXCEPT !.bad = TRUE]
          [] S.pdp[p].used /\ cause = "timeout" /\ S.pdp[p].v1 -> [S EXCEPT !.pdp[p].v1 = FALSE]
          [] S.pdp[p].used /\ cause = "accepted" ->
                gsm48_tx_gsm_act_pdp_acc(sndcp_sm_activate_ind([T EXCEPT !.pdp[p].up = TRUE], p), p)
          [] S.pdp[p].used /\ (cause = "refused" \/ (cause = "timeout" /\ ~S.pdp[p].v1)) ->
                sgsn_pdp_ctx_free(gsm48_tx_gsm_act_pdp_rej(T, S.pdp[p].mm), p)

delete_pdp_conf(S, p) ==
    LET T == [S EXCEPT !.pdp[p].dels = @ - 1]
    IN  IF ~S.pdp[p].used THEN [T EXCEPT !.bad = TRUE]
        ELSE sgsn_pdp_ctx_free(gsm48_tx_gsm_deact_pdp_acc(sndcp_sm_deactivate_ind(T, p), S.pdp[p].mm), p)

\* drop_one_pdp(), for the contexts of the GGSN.  The walk over the list goes on from a context that was freed.
drop_all_pdp_for_ggsn(S) ==
    LET all == {p \in 1..NumCtx : S.pdp[p].used}
        p   == CHOOSE k \in all : TRUE
    IN  IF all = {} THEN S
        ELSE IF S.ctx[S.pdp[p].mm].state = "NORMAL" THEN gsm48_tx_gsm_deact_pdp_req(S, p)
        ELSE [sgsn_pdp_ctx_free(S, p) EXCEPT !.bad = TRUE]

\* cb_data_ind(): a packet of the GGSN for the MS.
cb_data_ind(S, p) ==
    LET st == S.ctx[S.pdp[p].mm].state
        T  == IF st = "SUSPENDED" THEN [S EXCEPT !.out = @ \cup {"PAGING"}] ELSE S
    IN  IF st \notin {"NORMAL", "SUSPENDED"} THEN S
        ELSE IF ~LlmeThere(S, p) THEN [T EXCEPT !.bad = TRUE]
        ELSE IF S.llme[LlmeOf(S, p)].sne THEN TxUi(T, S.ctx[S.pdp[p].mm].tlli, "DATA") ELSE T

-----------------------------------------------------------------------------
(* The MS, and what reaches the SGSN *)

\* What the MS makes of the message of one step, which the context S.by sent (0: none did).
HearsIdReq(S, m) ==
    IF "ID_REQ" \in S.out /\ m.st # "off" THEN [m EXCEPT !.owes = @ \cup {S.ctx[S.by].id}] ELSE m
Accepted(m, x, owes) ==
    [m EXCEPT !.st = "on", !.ptmsi = x.ptmsi, !.tlli = Local(x.ptmsi), !.was = m.ra, !.owes = owes]
HearsAttAck(S, m) ==
    IF "ATT_ACK" \in S.out /\ m.st \in {"attaching", "on"}
    THEN Accepted(m, S.ctx[S.by], {"ATT_COMPL"} \cup (m.owes \cap {"DEACT_ACK"})) ELSE m
HearsRaUpdAck(S, m) ==
    IF "RAU_ACK" \in S.out /\ m.st \in {"on", "updating"}
    THEN Accepted(m, S.ctx[S.by], (m.owes \ {"ATT_COMPL"}) \cup {"RAU_COMPL"}) ELSE m
HearsSm(S, m) ==
    CASE "ACT_ACC" \in S.out /\ m.pdp = "act" -> [m EXCEPT !.pdp = "up"]
      [] "ACT_REJ" \in S.out /\ m.pdp = "act" -> [m EXCEPT !.pdp = "none"]
      [] "DEACT_ACC" \in S.out -> [m EXCEPT !.pdp = IF @ = "act" THEN @ ELSE "none"]
      [] "DEACT_REQ" \in S.out /\ m.st = "on" -> [m EXCEPT !.pdp = "none", !.owes = @ \cup {"DEACT_ACK"}]
      [] OTHER -> m
HearsEnd(S, m) ==
    IF S.out \cap {"ATT_REJ", "RAU_REJ", "GMM_STATUS", "DET_ACK"} = {} THEN m
    ELSE [m EXCEPT !.st = "off", !.owes = {}, !.pdp = "none"]
Listens(m, x) == m.tlli \in {x.tlli, x.new}
MsHears(S) ==
    IF S.by # 0 /\ ~Listens(S.ms, S.ctx[S.by]) THEN S
    ELSE [S EXCEPT !.ms = HearsEnd(S, HearsSm(S, HearsRaUpdAck(S, HearsAttAck(S, HearsIdReq(S, S.ms)))))]

SgNow == [sg EXCEPT !.out = {}]
\* The answer is heard, or lost; a step that needs more slots than there are is cut off,
\* and nothing is said of what follows a use of freed memory.
SgBecomes(S) ==
    /\ ~S.full /\ ~sg.bad
    /\ \E heard \in BOOLEAN :
          /\ heard \/ S.out # {}
          /\ sg' = [IF heard THEN MsHears(Collect(S)) ELSE Collect(S)
                       EXCEPT !.by = 0, !.out = @ \cap {"ACT_ACC"}]
    /\ UNCHANGED sgEnv

AtLlme(S, c, t, l) == [TakesTlli(S, c, t) EXCEPT !.ctx[c].llme = l]
\* gprs_llc_rcvmsg() and gsm0408_gprs_rcvmsg(): the entity and the context of a message.
RxState(S, t, ra) ==
    LET l0 == lle_by_tlli(S, t)
        T  == IF l0 = 0 THEN llme_alloc(S, t) ELSE S
        l  == IF l0 = 0 THEN NewLlme(S) ELSE l0
        c  == sgsn_mm_ctx_by_tlli(S, t, ra)
    IN  [S |-> IF c = 0 THEN T ELSE AtLlme(T, c, t, l), l |-> l, c |-> c]
CanRx(S) == FreeLlmes(S) # {} /\ sgsn_alloc_ptmsi(S) # {}
NextPtmsi(S) == Min(sgsn_alloc_ptmsi(S))

AttachReq(by) ==
    /\ CanRx(sg)
    /\ sg.ms.st \in {"off", "attaching"} \/ (sg.ms.st = "on" /\ SgHas("power_cycle"))
    /\ by = "PTMSI" => sg.ms.ptmsi # 0
    /\ by = "IMSI" => FreshRandom(sg) # {} \/ sg.ms.st = "attaching"
    /\ LET again == sg.ms.st = "attaching"
           t == IF again THEN sg.ms.tlli
                ELSE IF by = "IMSI" THEN Random(CHOOSE k \in FreshRandom(sg) : TRUE)
                ELSE Foreign(sg.ms.ptmsi)
           S == [SgNow EXCEPT !.ms = [@ EXCEPT !.st = "attaching", !.tlli = t, !.pdp = "none", !.owes = {}]]
           e == RxState(S, t, sg.ms.ra)
       IN  /\ again => (by = "IMSI") = (t.kind = "random")
           /\ SgBecomes(gsm48_rx_gmm_att_req(e.S, e.c, by, t, sg.ms.ra, e.l, NextPtmsi(sg)))

\* A message of a known MS; without a context only a STATUS comes back.
FromMs(Handler(_, _)) ==
    LET e == RxState(SgNow, sg.ms.tlli, sg.ms.ra)
    IN  /\ CanRx(sg)
        /\ SgBecomes(IF e.c = 0 THEN gsm48_tx_gmm_status_oldmsg(e.S, sg.ms.tlli) ELSE Handler(e.S, e.c))

Paid(S, debt) == [S EXCEPT !.ms.owes = @ \ {debt}]
SgIdResp(type) ==
    /\ type \in sg.ms.owes
    /\ FromMs(LAMBDA S, c : gsm48_rx_gmm_id_resp(Paid(S, type), c, type))
Complete(what) ==
    /\ what \in sg.ms.owes
    /\ FromMs(LAMBDA S, c : RxComplete(Paid(S, what), c))
\* An MS with a routing area update under way sends no other request.
Settled == sg.ms.st = "on"
Unanswered == \E p \in 1..NumCtx : sg.pdp[p].creating \/ sg.pdp[p].dels > 0
FewDels == \A p \in 1..NumCtx : sg.pdp[p].dels < 2              \* bound: unanswered requests
Quiet == \A c \in 1..NumCtx : ~sg.pdp[c].used /\ ~sg.ctx[c].timer.on
DetachReq ==
    /\ sg.ms.st = "detaching" \/ Settled
    /\ (Quiet \/ SgHas("detach_busy")) /\ FewDels
    /\ FromMs(LAMBDA S, c : gsm48_rx_gmm_det_req([S EXCEPT !.ms.st = "detaching"], c))
RaUpdReq(ra, mentions) ==
    /\ CanRx(sg) /\ FewDels
    /\ Unanswered => SgHas("slow_ggsn")
    /\ \/ Settled /\ sg.ms.owes = {}
       \/ sg.ms.st = "updating" /\ (SgHas("rau_repeat") \/ \A c \in 1..NumCtx : ~sg.ctx[c].timer.on)
    /\ LET t == IF ra = sg.ms.was THEN sg.ms.tlli ELSE Foreign(sg.ms.ptmsi)
           S == [SgNow EXCEPT !.ms = [@ EXCEPT !.st = "updating", !.ra = ra, !.tlli = t, !.owes = {}]]
           e == RxState(S, t, ra)
       IN  SgBecomes(gsm48_rx_gmm_ra_upd_req(e.S, t, sg.ms.was, ra, NextPtmsi(sg),
                                             mentions, sg.ms.pdp # "none"))

ActPdpReq(ok) ==
    /\ Settled /\ sg.ms.pdp \in {"none", "act"} /\ (Unanswered => SgHas("slow_ggsn"))
    /\ ~ok => SgHas("gtp_full")
    /\ FromMs(LAMBDA S, c : gsm48_rx_gsm_act_pdp_req([S EXCEPT !.ms.pdp = "act"], c, ok))
DeactPdpReq ==
    /\ Settled /\ sg.ms.pdp \in {"up", "deact"} /\ (Unanswered => SgHas("slow_ggsn"))
    /\ FewDels
    /\ FromMs(LAMBDA S, c : gsm48_rx_gsm_deact_pdp_req([S EXCEPT !.ms.pdp = "deact"], c))
DeactPdpAck ==
    /\ Settled /\ "DEACT_ACK" \in sg.ms.owes /\ FewDels
    /\ FromMs(LAMBDA S, c : gsm48_rx_gsm_deact_pdp_ack(Paid(S, "DEACT_ACK"), c))

MmTimer(c) == sg.ctx[c].timer.on /\ SgBecomes(mmctx_timer_cb(SgNow, c))
PdpTimer(p) == sg.pdp[p].timer.on /\ sg.pdp[p].dels < 2 /\ SgBecomes(pdpctx_timer_cb(SgNow, p))
CreateConf(p, cause) == sg.pdp[p].creating /\ SgBecomes(create_pdp_conf(SgNow, p, cause))
DeleteConf(p) == sg.pdp[p].dels > 0 /\ SgBecomes(delete_pdp_conf(SgNow, p))
GgsnRestarts ==
    /\ SgHas("ggsn_restart") /\ sg.ms.st = "on" /\ sg.ms.owes = {}   \* bound: not within a procedure
    /\ \A c \in 1..NumCtx : ~sg.ctx[c].timer.on /\ ~sg.pdp[c].timer.on
    /\ SgBecomes(drop_all_pdp_for_ggsn(SgNow))
GgsnData(p) == sg.pdp[p].used /\ sg.pdp[p].up /\ SgBecomes(cb_data_ind(SgNow, p))
Suspend ==
    /\ Settled
    /\ SgBecomes(gprs_gmm_rx_suspend(SgNow, sgsn_mm_ctx_by_tlli(sg, sg.ms.tlli, sg.ms.ra)))
Resume ==
    /\ Settled
    /\ SgBecomes(gprs_gmm_rx_resume(SgNow, sgsn_mm_ctx_by_tlli(sg, sg.ms.tlli, sg.ms.ra)))

\* The MS is switched off and moves, or was with another SGSN meanwhile.
MsAway(p) ==
    /\ sg.ms.st = "off" /\ (p = Alien => SgHas("came_back"))
    /\ \E ra \in sgEnv.ras : SgBecomes([SgNow EXCEPT !.ms.ptmsi = p, !.ms.ra = ra])

SgNext ==
    \/ \E by \in {"IMSI", "PTMSI"} : AttachReq(by)
    \/ \E type \in {"IMSI", "IMEI"} : SgIdResp(type)
    \/ \E what \in {"ATT_COMPL", "RAU_COMPL"} : Complete(what)
    \/ DetachReq \/ DeactPdpReq \/ DeactPdpAck \/ GgsnRestarts \/ Suspend \/ Resume
    \/ \E ra \in sgEnv.ras, mentions \in BOOLEAN : RaUpdReq(ra, mentions)
    \/ \E ok \in BOOLEAN : ActPdpReq(ok)
    \/ \E c \in 1..NumCtx : MmTimer(c) \/ PdpTimer(c) \/ DeleteConf(c) \/ GgsnData(c)
    \/ \E c \in 1..NumCtx, cause \in {"accepted", "refused", "timeout"} : CreateConf(c, cause)
    \/ \E p \in {0, Alien, sg.ms.ptmsi} : MsAway(p)

SgSpec == SgInit /\ [][SgNext]_sgVars

-----------------------------------------------------------------------------
(* Properties *)

\* The contexts, their timers, the requests the GGSN has still to answer and the LLMEs
\* point to each other without counting references: nothing freed is used, lost messages,
\* repeated requests and attaches without a detach included.  It does not hold
\*  - when a context is freed with an answer of the GGSN (slow_ggsn) or a timer (detach_busy) still to come;
\*  - when the GGSN restarts while the MS is suspended: drop_all_pdp_for_ggsn walks on from what it has freed;
\*  - when an MS comes back with a P-TMSI of another SGSN: a detach has freed the LLME its old context points to;
\*  - when libgtp is full: the PDP context without a GTP context stays in the list and is deleted as if it had one.
SgPointersGood == sg.bad => sgEnv.faults \cap {"slow_ggsn", "detach_busy", "ggsn_restart", "came_back", "gtp_full"} # {}

\* The MS is told that its PDP context is active only when the GGSN has confirmed it.  The
\* answer to a request that seems repeated makes an exception of a GGSN that is slow.
AcceptMeansUp ==
    [][~SgHas("slow_ggsn") /\ "ACT_ACC" \in sg'.out => \E p \in 1..NumCtx : sg'.pdp[p].used /\ sg'.pdp[p].up]_sgVars

\* An IMSI has one MM context, whatever P-TMSIs it has come with.
OneContext == Cardinality({c \in 1..NumCtx : sg.ctx[c].used /\ sg.ctx[c].imsi}) <= 1

\* A procedure that waits for the MS is watched by a timer.
ProcedureWatched ==
    \A c \in 1..NumCtx : sg.ctx[c].used /\ sg.ctx[c].state = "COMMON_PROC_INIT" => sg.ctx[c].timer.on

=============================================================================
