---------------------------------- MODULE Mm ----------------------------------
(***************************************************************************)
(* Mobility management: location updating, identity, authentication and    *)
(* ciphering on one connection of one subscriber; gsm_04_08.c, auth.c,     *)
(* token_auth.c, ussd.c, and what db.c and gsm_subscriber.c keep of the    *)
(* subscriber.  Calls and SMS on the connection are "users" of it.         *)
(*                                                                         *)
(* A key is known by its sequence number; NoKey is "no key available".     *)
(***************************************************************************)
EXTENDS Naturals, FiniteSets

CONSTANTS
    NumSeq,    \* key sequence numbers go round (7 in the code)
    MaxUse,    \* uses of a key before a new authentication (3 in the code)
    MmEnvs     \* the surroundings to consider, a subset of MmEnv

MmFaults == {
    "lost_auth",   \* the answer to an AUTHENTICATION REQUEST, and the MS, are lost
    "slow_ms",     \* the MS answers a challenge or an ACCEPT later than the reject timer
    "repeats",     \* identities are sent unasked, procedures begun while another is under way
    "ss_release"}  \* a supplementary service message is a RELEASE COMPLETE
Policies == {"CLOSED", "TOKEN", "ACCEPT_ALL"}
MmEnv == [policy : Policies, a5 : BOOLEAN, ki : BOOLEAN, faults : SUBSET MmFaults]

ASSUME MmBoundsAssumption == NumSeq \in Nat \ {0, 1} /\ MaxUse \in Nat \ {0}
ASSUME MmEnvAssumption == MmEnvs \subseteq MmEnv

NoKey == NumSeq

VARIABLES
    mm,     \* [conn, sub, ms, out, bad]
    mmEnv   \* the surroundings; they do not change

mmVars == <<mm, mmEnv>>

NoLoc == [on |-> FALSE, imsi |-> FALSE, imei |-> FALSE, timer |-> FALSE, accepted |-> FALSE]
LocOperation == [on : BOOLEAN,
                 imsi : BOOLEAN, imei : BOOLEAN,   \* waiting_for_imsi, waiting_for_imei
                 timer : BOOLEAN,                  \* updating_timer
                 accepted : BOOLEAN]               \* an ACCEPT was sent (history)
NoSec == [on |-> FALSE, cb |-> "none", auth |-> FALSE]
SecOperation == [on : BOOLEAN, cb : {"none", "lu", "serv"},
                 auth : BOOLEAN]                   \* an AUTHENTICATION REQUEST was sent
MmConn == [up : BOOLEAN, subscr : BOOLEAN, anchor : BOOLEAN, loc : LocOperation,
           sec : SecOperation, key : 0..NumSeq,    \* encr.key
           alg : BOOLEAN,                          \* encr.alg_id
           users : BOOLEAN]
NoMmConn == [up |-> FALSE, subscr |-> FALSE, anchor |-> FALSE, loc |-> NoLoc, sec |-> NoSec,
             key |-> NoKey, alg |-> FALSE, users |-> FALSE]

\* The subscriber in the database, with the last tuple; the MS.
MmSub == [known : BOOLEAN, tmsi : BOOLEAN, authorized : BOOLEAN, first : BOOLEAN,
          attached : BOOLEAN, seq : 0..NumSeq, use : 0..MaxUse]
\* proved: it has ciphered on the present connection, or the last one (history).
MmMs == [tmsi : BOOLEAN, key : 0..NumSeq, proved : BOOLEAN]

\* out: what the step sent to the MS; bad: a freed or missing object was read.
MmMsgs == {"LU_ACCEPT", "LU_REJECT", "IDENTITY_REQ", "MM_INFO", "AUTH_REQ", "AUTH_REJ",
           "CM_SERV_ACC", "CM_SERV_REJ", "CIPH_MODE", "USSD"}

MmTypeOK ==
    /\ mm.conn \in MmConn /\ mm.sub \in MmSub /\ mm.ms \in MmMs
    /\ mm.out \subseteq MmMsgs /\ mm.bad \in BOOLEAN
    /\ mmEnv \in MmEnvs

MmInit ==
    /\ mmEnv \in MmEnvs
    /\ mm = [conn |-> NoMmConn, bad |-> FALSE, out |-> {},
             sub |-> [known |-> FALSE, tmsi |-> FALSE, authorized |-> FALSE, first |-> FALSE,
                      attached |-> FALSE, seq |-> NoKey, use |-> 0],
             ms |-> [tmsi |-> FALSE, key |-> NoKey, proved |-> FALSE]]

MmHas(fault) == fault \in mmEnv.faults

-----------------------------------------------------------------------------
(* Messages to the MS *)

MmTx(S, msg) == [S EXCEPT !.out = @ \cup {msg}, !.bad = @ \/ ~S.conn.up]
gsm0408_loc_upd_rej(S) == MmTx(S, "LU_REJECT")
mm_tx_identity_req(S) == MmTx(S, "IDENTITY_REQ")
gsm48_tx_mm_info(S) == MmTx(S, "MM_INFO")
gsm48_tx_mm_auth_req(S) == MmTx(S, "AUTH_REQ")
gsm48_tx_mm_auth_rej(S) == MmTx(S, "AUTH_REJ")
gsm48_tx_mm_serv_ack(S) == MmTx(S, "CM_SERV_ACC")
gsm48_tx_mm_serv_rej(S) == MmTx(S, "CM_SERV_REJ")
gsm0408_loc_upd_acc(S) ==
    MmTx([S EXCEPT !.conn.loc.accepted = @ \/ S.conn.loc.on, !.ms.tmsi = TRUE], "LU_ACCEPT")

-----------------------------------------------------------------------------
(* The connection and what holds it *)

msc_release_connection(S) ==
    LET c == S.conn IN
    IF ~c.up \/ c.loc.on \/ c.sec.on \/ c.anchor \/ c.users THEN S
    ELSE [S EXCEPT !.conn = NoMmConn]

release_anchor(S) == [S EXCEPT !.conn.anchor = FALSE]

allocate_security_operation(S, cb, auth) ==
    [S EXCEPT !.conn.sec = [on |-> TRUE, cb |-> cb, auth |-> auth]]
release_security_operation(S) ==
    IF S.conn.sec.on THEN msc_release_connection([S EXCEPT !.conn.sec = NoSec]) ELSE S

\* Mutant: the connection is not looked at.
release_loc_updating_req_keeps(S) ==
    IF S.conn.loc.on THEN [release_anchor(S) EXCEPT !.conn.loc = NoLoc] ELSE S

release_loc_updating_req(S) ==
    IF S.conn.loc.on THEN msc_release_connection([release_anchor(S) EXCEPT !.conn.loc = NoLoc])
    ELSE S

allocate_loc_updating_req(S) == [release_loc_updating_req(S) EXCEPT !.conn.loc.on = TRUE]
schedule_reject(S) == [S EXCEPT !.conn.loc.timer = TRUE]

-----------------------------------------------------------------------------
(* The database and the subscriber *)

db_create_subscriber(S) ==
    IF S.sub.known THEN S ELSE [S EXCEPT !.sub.known = TRUE, !.sub.first = TRUE]
db_subscriber_alloc_tmsi(S) == [S EXCEPT !.sub.tmsi = TRUE]
db_sync_lastauthtuple_for_subscr(S, seq, use) == [S EXCEPT !.sub.seq = seq, !.sub.use = use]

\* token_subscr_cb(): a subscriber seen for the first time is sent a token and shut out.
token_subscr_cb(S) ==
    IF mmEnv.policy = "TOKEN" /\ S.sub.first THEN [S EXCEPT !.sub.authorized = FALSE] ELSE S

subscr_update(S, attached) ==
    IF attached THEN token_subscr_cb([S EXCEPT !.sub.attached = TRUE])
    ELSE [S EXCEPT !.sub.attached = FALSE]

-----------------------------------------------------------------------------
(* Authentication and ciphering *)

\* auth_get_tuple_for_subscr(): AUTH_DO_CIPH with the last tuple if the MS has a key,
\* no matter which, else a new one, which is stored before the MS has it.
ReuseTuple(S, key_seq) == S.sub.seq # NoKey /\ key_seq # NoKey /\ S.sub.use < MaxUse
NextSeq(S) == IF S.sub.seq = NoKey THEN 0 ELSE (S.sub.seq + 1) % NumSeq
auth_get_tuple_for_subscr(S, key_seq) ==
    IF ReuseTuple(S, key_seq) THEN db_sync_lastauthtuple_for_subscr(S, S.sub.seq, S.sub.use + 1)
    ELSE db_sync_lastauthtuple_for_subscr(S, NextSeq(S), 1)

\* gsm0808_cipher_mode(): the algorithm is noted before the MS has answered.
gsm0808_cipher_mode(S) ==
    MmTx([S EXCEPT !.conn.alg = TRUE, !.conn.key = S.sub.seq], "CIPH_MODE")

\* The callbacks that wait for the end of the security operation.
authorize_sec_cb(S, event) ==
    IF event = "AUTH_FAILED" THEN release_loc_updating_req(S)
    ELSE subscr_update(gsm48_tx_mm_info(gsm0408_loc_upd_acc(db_subscriber_alloc_tmsi(S))), TRUE)
rx_mm_serv_req_sec_cb(S, event) == IF event = "NOAVAIL" THEN gsm48_tx_mm_serv_ack(S) ELSE S
SecCb(S, cb, event) ==
    IF cb = "lu" THEN authorize_sec_cb(S, event) ELSE rx_mm_serv_req_sec_cb(S, event)

\* Mutant: a subscriber whose key is not known is let in as if secured.
CannotSecure_always(S) == TRUE
CannotSecure(S) == ~mmEnv.a5 \/ ~mmEnv.ki

gsm48_secure_channel(S, key_seq, cb) ==
    LET T == auth_get_tuple_for_subscr(S, key_seq) IN
    CASE mmEnv.a5 /\ S.conn.alg -> SecCb(S, cb, "SUCCEEDED")
      [] CannotSecure(S) /\ ~(mmEnv.a5 /\ S.conn.alg) -> SecCb(S, cb, "NOAVAIL")
      [] ~CannotSecure(S) /\ ~S.conn.alg ->
            IF S.conn.sec.on THEN T
            ELSE IF ReuseTuple(S, key_seq)
            THEN gsm0808_cipher_mode(allocate_security_operation(T, cb, FALSE))
            ELSE gsm48_tx_mm_auth_req(allocate_security_operation(T, cb, TRUE))

authorize_subscriber(S) ==
    /\ S.conn.subscr
    /\ ~(S.conn.loc.on /\ (S.conn.loc.imsi \/ S.conn.loc.imei))
    /\ CASE mmEnv.policy = "CLOSED" -> S.sub.authorized
         [] mmEnv.policy = "TOKEN" -> S.sub.authorized \/ S.sub.first
         [] mmEnv.policy = "ACCEPT_ALL" -> TRUE

\* conn->loc_operation->key_seq is read whether there is an operation or not.
gsm0408_authorize(S) ==
    IF ~authorize_subscriber(S) THEN S
    ELSE gsm48_secure_channel([S EXCEPT !.bad = @ \/ ~S.conn.loc.on], S.ms.key, "lu")

-----------------------------------------------------------------------------
(* Messages of the MS *)

\* by: the identity in the request.
mm_rx_loc_upd_req(S, by) ==
    LET T     == allocate_loc_updating_req(S)
        found == by = "IMSI" \/ (by = "TMSI" /\ S.sub.tmsi /\ S.ms.tmsi)
        U     == [(CASE by = "IMSI" -> mm_tx_identity_req(db_create_subscriber(T))
                     [] by = "TMSI" -> mm_tx_identity_req(T)
                     [] by = "IMEI" -> T)
                    EXCEPT !.conn.loc.imei = by # "IMEI",
                           !.conn.loc.imsi = by = "TMSI" /\ ~found]
        V     == schedule_reject(U)
    IN  IF S.conn.loc.on THEN gsm0408_loc_upd_rej(S)   \* one at a time
        ELSE IF found THEN gsm0408_authorize([V EXCEPT !.conn.subscr = TRUE]) ELSE V

mm_rx_id_resp(S, type) ==
    LET T == IF type = "IMSI"
             THEN [db_create_subscriber(S) EXCEPT !.conn.subscr = TRUE, !.conn.loc.imsi = FALSE]
             ELSE [S EXCEPT !.conn.loc.imei = FALSE]
    IN  gsm0408_authorize(T)

\* loc_upd_rej_cb(): a REJECT, whatever was sent before.
loc_upd_rej_cb(S) == release_loc_updating_req(gsm0408_loc_upd_rej(S))

gsm48_rx_mm_serv_req(S) ==
    IF S.sub.tmsi /\ S.ms.tmsi
    THEN gsm48_secure_channel([S EXCEPT !.conn.subscr = TRUE], S.ms.key, "serv")
    ELSE gsm48_tx_mm_serv_rej(S)

gsm48_rx_mm_imsi_detach_ind(S) == IF S.sub.known THEN subscr_update(S, FALSE) ELSE S

gsm48_rx_mm_auth_resp(S, good) ==
    CASE ~S.conn.sec.on -> S
      [] S.conn.sec.on /\ ~good ->
            release_security_operation(gsm48_tx_mm_auth_rej(SecCb(S, S.conn.sec.cb, "AUTH_FAILED")))
      [] S.conn.sec.on /\ good -> gsm0808_cipher_mode(S)

gsm48_rx_rr_ciph_m_compl(S) ==
    IF S.conn.sec.on
    THEN release_security_operation(SecCb([S EXCEPT !.ms.proved = TRUE], S.conn.sec.cb, "SUCCEEDED"))
    ELSE S

gsm48_rx_rr_pag_resp(S) == IF S.sub.known THEN [S EXCEPT !.conn.subscr = TRUE] ELSE S

\* handle_rcv_ussd(), after the anchor was released: a RELEASE COMPLETE ends there.
handle_rcv_ussd(S, release) ==
    IF release THEN release_anchor(S) ELSE msc_release_connection(MmTx(release_anchor(S), "USSD"))

mm_clear_request(S) == [S EXCEPT !.conn = NoMmConn]

-----------------------------------------------------------------------------
(* Actions *)

MmNow == [mm EXCEPT !.out = {}]
MmBecomes(S) == mm' = S /\ UNCHANGED mmEnv

MmConnects ==
    /\ ~mm.conn.up
    /\ MmBecomes([MmNow EXCEPT !.conn.up = TRUE, !.conn.anchor = TRUE, !.ms.proved = FALSE])

LocUpdReq(by) ==
    /\ mm.conn.up /\ (by = "TMSI" => mm.ms.tmsi)
    /\ mm.conn.loc.on \/ mm.conn.sec.on => MmHas("repeats")
    /\ MmBecomes(mm_rx_loc_upd_req(MmNow, by))

IdResp(type) ==
    /\ mm.conn.up
    /\ MmHas("repeats") \/ (type = "IMSI" /\ mm.conn.loc.imsi) \/ (type = "IMEI" /\ mm.conn.loc.imei)
    /\ MmBecomes(mm_rx_id_resp(MmNow, type))

ServReq ==
    /\ mm.conn.up /\ (mm.conn.loc.on \/ mm.conn.sec.on => MmHas("repeats"))
    /\ MmBecomes(gsm48_rx_mm_serv_req(MmNow))
DetachInd == mm.conn.up /\ MmBecomes(gsm48_rx_mm_imsi_detach_ind(MmNow))
PagResp == mm.conn.up /\ MmBecomes(gsm48_rx_rr_pag_resp(MmNow))

\* The MS has computed the key of the challenge when it answers.
AuthResp(good) ==
    /\ mm.conn.up /\ mm.conn.sec.on /\ mm.conn.sec.auth /\ ~mm.conn.alg
    /\ MmBecomes([gsm48_rx_mm_auth_resp(MmNow, good) EXCEPT !.ms.key = IF good THEN mm.sub.seq ELSE @])

\* It can confirm only if the two sides use the same key.
CiphCompl ==
    /\ mm.conn.up /\ mm.conn.sec.on /\ mm.conn.alg /\ mm.conn.key = mm.ms.key
    /\ MmBecomes(gsm48_rx_rr_ciph_m_compl(MmNow))

TmsiReallocCompl ==
    /\ mm.conn.up /\ mm.conn.loc.accepted
    /\ MmBecomes(release_loc_updating_req(MmNow))

RejectTimer ==
    /\ mm.conn.loc.on /\ mm.conn.loc.timer
    /\ mm.conn.loc.accepted \/ mm.conn.sec.on => MmHas("slow_ms")
    /\ MmBecomes(loc_upd_rej_cb(MmNow))

AnchorTimer == mm.conn.anchor /\ MmBecomes(msc_release_connection(release_anchor(MmNow)))

Ussd(release) ==
    /\ mm.conn.up /\ mm.conn.subscr
    /\ release => MmHas("ss_release")
    /\ MmBecomes(handle_rcv_ussd(MmNow, release))

UserStarts ==
    /\ mm.conn.up /\ mm.conn.subscr /\ ~mm.conn.users
    /\ MmBecomes([release_anchor(MmNow) EXCEPT !.conn.users = TRUE])
UserEnds == mm.conn.users /\ MmBecomes(msc_release_connection([MmNow EXCEPT !.conn.users = FALSE]))

\* The radio link fails; with lost_auth also between a challenge and its answer.
MmLost ==
    /\ mm.conn.up /\ (mm.conn.sec.auth => MmHas("lost_auth") \/ mm.conn.alg)
    /\ MmBecomes(mm_clear_request(MmNow))

\* The subscriber is let in by the operator, or with the token on the web page.
Authorized ==
    /\ mm.sub.known /\ ~mm.sub.authorized
    /\ MmBecomes([MmNow EXCEPT !.sub.authorized = TRUE, !.sub.first = FALSE])

\* The MS loses its TMSI and key.
NewSim == ~mm.conn.up /\ MmBecomes([MmNow EXCEPT !.ms.tmsi = FALSE, !.ms.key = NoKey])

MmNext ==
    \/ MmConnects \/ ServReq \/ DetachInd \/ PagResp \/ CiphCompl \/ TmsiReallocCompl
    \/ RejectTimer \/ AnchorTimer \/ UserStarts \/ UserEnds \/ MmLost \/ Authorized \/ NewSim
    \/ \E by \in {"IMSI", "TMSI", "IMEI"} : LocUpdReq(by)
    \/ \E type \in {"IMSI", "IMEI"} : IdResp(type)
    \/ \E b \in BOOLEAN : AuthResp(b) \/ Ussd(b)

MmSpec == MmInit /\ [][MmNext]_mmVars

-----------------------------------------------------------------------------
(* Properties *)

\* msc_release_connection() is reached after whatever lets go of a connection: one that
\* nothing holds any more is not kept open, unless the last thing was a RELEASE COMPLETE of
\* a supplementary service, where handle_rcv_ussd() returns early.
IdleReleased ==
    ~MmHas("ss_release") =>
        (mm.conn.up => mm.conn.anchor \/ mm.conn.loc.on \/ mm.conn.sec.on \/ mm.conn.users)

\* A subscriber becomes attached only by a location update that is still under way, when
\* the policy admits it, its identities were received, and, where the network ciphers and
\* has its key, the MS has proved itself on this connection by ciphering; it is told so and
\* not rejected.  The MS has to be faster than the reject timer, which authentication does
\* not stop, and has to do one thing at a time.
AttachedProperly ==
    [][~mm.sub.attached /\ mm'.sub.attached /\ ~MmHas("slow_ms") /\ ~MmHas("repeats") =>
          /\ mmEnv.policy = "ACCEPT_ALL" \/ mm.sub.authorized
                \/ (mmEnv.policy = "TOKEN" /\ mm'.sub.first)
          /\ mm.conn.loc.on /\ ~mm'.conn.loc.imei /\ ~mm'.conn.loc.imsi
          /\ "LU_ACCEPT" \in mm'.out /\ "LU_REJECT" \notin mm'.out
          /\ mmEnv.a5 /\ mmEnv.ki => mm'.ms.proved]_mmVars

\* The end of one operation may close the connection the handler goes on with: no handler
\* reads a location updating operation that is not there or sends on a freed connection,
\* as long as identities come only when asked for.
MmPointersGood == ~MmHas("repeats") => ~mm.bad

=============================================================================
