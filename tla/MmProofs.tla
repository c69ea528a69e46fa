------------------------------ MODULE MmProofs ------------------------------
(***************************************************************************)
(* Proofs about mobility management (Mm): that a connection nothing holds  *)
(* is released, that a subscriber is attached only when its policy, its    *)
(* identities and its ciphering allow it, and that no handler goes on with *)
(* an object that is gone.                                                 *)
(*                                                                         *)
(* A handler is a composition of operators on the state record; every      *)
(* operator has a lemma on what it changes (...Fields), the larger ones a  *)
(* lemma that they keep the invariant MmFine (...Fine), and every action   *)
(* one that puts these together (...Step).                                 *)
(***************************************************************************)
EXTENDS Mm, TLAPS

\* The states, as records.
MmState == [conn : MmConn, sub : MmSub, ms : MmMs, out : SUBSET MmMsgs, bad : BOOLEAN]

\* The parts of a state have their types.
LEMMA Fields ==
  ASSUME NEW S \in MmState
  PROVE  /\ S.conn \in MmConn /\ S.conn.loc \in LocOperation /\ S.conn.sec \in SecOperation
         /\ S.sub \in MmSub /\ S.ms \in MmMs /\ S.out \subseteq MmMsgs /\ S.bad \in BOOLEAN
  BY DEF MmState, MmConn

\* The initial connection and its empty operations have their types.
LEMMA NothingType ==
  NoMmConn \in MmConn /\ NoLoc \in LocOperation /\ NoSec \in SecOperation
  BY MmBoundsAssumption DEF NoMmConn, MmConn, NoLoc, LocOperation, NoSec, SecOperation, NoKey

\* MmTx(): a message is added; only on a freed connection is anything wrong.
LEMMA TxFields ==
  ASSUME NEW S \in MmState, NEW m \in MmMsgs
  PROVE  /\ MmTx(S, m) \in MmState /\ MmTx(S, m).conn = S.conn /\ MmTx(S, m).sub = S.sub /\ MmTx(S, m).ms = S.ms
         /\ MmTx(S, m).out = S.out \cup {m} /\ (S.conn.up => MmTx(S, m).bad = S.bad)
  BY DEF MmTx, MmState

\* Only the connection differs.
OnlyConn(S, T) == T \in MmState /\ T.sub = S.sub /\ T.ms = S.ms /\ T.out = S.out /\ T.bad = S.bad
\* Something holds a connection that is up.
Held(c) == c.up => c.anchor \/ c.loc.on \/ c.sec.on \/ c.users

\* msc_release_connection(): the connection stays or is gone, and afterwards it is held.
LEMMA ReleaseFields ==
  ASSUME NEW S \in MmState, NEW T, T = msc_release_connection(S)
  PROVE  /\ OnlyConn(S, T) /\ Held(T.conn)
         /\ T.conn = S.conn \/ T.conn = NoMmConn
         /\ S.conn.up /\ (S.conn.loc.on \/ S.conn.sec.on) => T.conn = S.conn
  BY NothingType DEF msc_release_connection, MmState, NoMmConn, OnlyConn, Held

\* A connection after a location update was accepted.
AcceptedConn(c) == [c EXCEPT !.loc.accepted = @ \/ c.loc.on]
\* What an ACCEPT leaves alone of the connection.
LEMMA AcceptedFields ==
  ASSUME NEW c \in MmConn, NEW d, d = AcceptedConn(c)
  PROVE  /\ d \in MmConn /\ d.up = c.up /\ d.anchor = c.anchor /\ d.sec = c.sec /\ d.alg = c.alg /\ d.users = c.users
         /\ d.subscr = c.subscr /\ d.key = c.key
         /\ d.loc.on = c.loc.on /\ d.loc.imsi = c.loc.imsi /\ d.loc.imei = c.loc.imei /\ d.loc.timer = c.loc.timer
         /\ d.loc.accepted => c.loc.accepted \/ c.loc.on
  BY DEF AcceptedConn, MmConn, LocOperation

\* gsm0408_loc_upd_acc(): the ACCEPT is sent, the subscriber is as before.
LEMMA AcceptFields ==
  ASSUME NEW S \in MmState, NEW T, T = gsm0408_loc_upd_acc(S)
  PROVE  /\ T \in MmState /\ T.sub = S.sub /\ T.conn = AcceptedConn(S.conn)
         /\ T.ms.proved = S.ms.proved
         /\ T.out = S.out \cup {"LU_ACCEPT"} /\ (S.conn.up => T.bad = S.bad)
<1>1. PICK A : A = [S EXCEPT !.conn.loc.accepted = @ \/ S.conn.loc.on, !.ms.tmsi = TRUE]  OBVIOUS
<1>2. A \in MmState
  BY <1>1 DEF MmState, MmConn, LocOperation, MmMs
<1>3. A.sub = S.sub /\ A.conn = AcceptedConn(S.conn) /\ A.ms.proved = S.ms.proved /\ A.out = S.out /\ A.bad = S.bad
  BY <1>1 DEF MmState, MmConn, LocOperation, MmMs, AcceptedConn
<1>4. A.conn.up = S.conn.up  BY <1>3, Fields, AcceptedFields
<1>5. T = MmTx(A, "LU_ACCEPT") /\ "LU_ACCEPT" \in MmMsgs  BY <1>1 DEF gsm0408_loc_upd_acc, MmMsgs
<1> HIDE DEF MmMsgs
<1> QED  BY <1>2, <1>3, <1>4, <1>5, TxFields

\* authorize_sec_cb() on success: the subscriber is attached.
LEMMA AttachFields ==
  ASSUME NEW S \in MmState, NEW event, event # "AUTH_FAILED", NEW T, T = authorize_sec_cb(S, event)
  PROVE  /\ T \in MmState /\ T.conn = AcceptedConn(S.conn)
         /\ T.ms.proved = S.ms.proved /\ T.out = S.out \cup {"LU_ACCEPT", "MM_INFO"} /\ (S.conn.up => T.bad = S.bad)
         /\ T.sub.first = S.sub.first
         /\ T.sub.authorized = S.sub.authorized \/ (mmEnv.policy = "TOKEN" /\ S.sub.first)
<1>1. PICK A : A = db_subscriber_alloc_tmsi(S)  OBVIOUS
<1>2. A \in MmState /\ A.conn = S.conn /\ A.ms = S.ms /\ A.out = S.out /\ A.bad = S.bad
      /\ A.sub.first = S.sub.first /\ A.sub.authorized = S.sub.authorized
  BY <1>1 DEF db_subscriber_alloc_tmsi, MmState, MmSub
<1>3. PICK B : B = gsm0408_loc_upd_acc(A)  OBVIOUS
<1>4. /\ B \in MmState /\ B.sub = A.sub /\ B.conn = AcceptedConn(A.conn) /\ B.ms.proved = A.ms.proved
      /\ B.out = A.out \cup {"LU_ACCEPT"} /\ (A.conn.up => B.bad = A.bad)
  BY <1>2, <1>3, AcceptFields
<1>5. B.conn.up = A.conn.up  BY <1>2, <1>4, Fields, AcceptedFields
<1>6. PICK C : C = MmTx(B, "MM_INFO")  OBVIOUS
<1>7. "MM_INFO" \in MmMsgs  BY DEF MmMsgs
<1>8. /\ C \in MmState /\ C.conn = B.conn /\ C.sub = B.sub /\ C.ms = B.ms
      /\ C.out = B.out \cup {"MM_INFO"} /\ (B.conn.up => C.bad = B.bad)
  BY <1>4, <1>6, <1>7, TxFields
<1>9. T = token_subscr_cb([C EXCEPT !.sub.attached = TRUE])
  BY <1>1, <1>3, <1>6 DEF authorize_sec_cb, gsm48_tx_mm_info, subscr_update
<1>10. /\ T \in MmState /\ T.conn = C.conn /\ T.ms = C.ms /\ T.out = C.out /\ T.bad = C.bad
       /\ T.sub.first = C.sub.first
       /\ T.sub.authorized = C.sub.authorized \/ (mmEnv.policy = "TOKEN" /\ C.sub.first)
  <2>1. PICK D : D = [C EXCEPT !.sub.attached = TRUE]  OBVIOUS
  <2>2. /\ D \in MmState /\ D.conn = C.conn /\ D.ms = C.ms /\ D.out = C.out /\ D.bad = C.bad
        /\ D.sub.first = C.sub.first /\ D.sub.authorized = C.sub.authorized
    BY <1>8, <2>1 DEF MmState, MmSub
  <2>3. T = IF mmEnv.policy = "TOKEN" /\ D.sub.first THEN [D EXCEPT !.sub.authorized = FALSE] ELSE D
    BY <1>9, <2>1 DEF token_subscr_cb
  <2>4. CASE mmEnv.policy = "TOKEN" /\ D.sub.first
    <3>1. T = [D EXCEPT !.sub.authorized = FALSE]  BY <2>3, <2>4
    <3>2. T \in MmState /\ T.conn = D.conn /\ T.ms = D.ms /\ T.out = D.out /\ T.bad = D.bad /\ T.sub.first = D.sub.first
      BY <2>2, <3>1, ZenonT(80) DEF MmState, MmSub
    <3> QED  BY <2>2, <2>4, <3>2
  <2>5. CASE ~(mmEnv.policy = "TOKEN" /\ D.sub.first)
    BY <2>2, <2>3, <2>5
  <2> QED  BY <2>4, <2>5
<1> QED  BY <1>2, <1>4, <1>5, <1>8, <1>10

\* release_loc_updating_req(): nothing to do, or the operation is gone and perhaps the connection.
Unlocated(c) == [c EXCEPT !.anchor = FALSE, !.loc = NoLoc]
\* What the end of a location update leaves alone of the connection.
LEMMA UnlocatedFields ==
  ASSUME NEW c \in MmConn, NEW d, d = Unlocated(c)
  PROVE  /\ d \in MmConn /\ d.up = c.up /\ ~d.anchor /\ d.sec = c.sec /\ d.alg = c.alg /\ d.users = c.users
         /\ d.subscr = c.subscr /\ d.key = c.key /\ d.loc = NoLoc
  BY NothingType DEF Unlocated, MmConn

\* release_loc_updating_req(): a connection that secures itself outlives it.
LEMMA ReleaseLocFields ==
  ASSUME NEW S \in MmState, NEW T, T = release_loc_updating_req(S)
  PROVE  /\ OnlyConn(S, T) /\ (Held(S.conn) => Held(T.conn))
         /\ ~S.conn.loc.on => T = S
         /\ S.conn.loc.on => (T.conn = Unlocated(S.conn) \/ T.conn = NoMmConn) /\ Held(T.conn)
         /\ S.conn.loc.on /\ S.conn.up /\ S.conn.sec.on => T.conn = Unlocated(S.conn)
<1>1. CASE ~S.conn.loc.on  BY <1>1 DEF release_loc_updating_req, OnlyConn
<1>2. CASE S.conn.loc.on
  <2>1. PICK A : A = [release_anchor(S) EXCEPT !.conn.loc = NoLoc]  OBVIOUS
  <2>2. A.conn = Unlocated(S.conn) /\ A.sub = S.sub /\ A.ms = S.ms /\ A.out = S.out /\ A.bad = S.bad
    BY <2>1 DEF release_anchor, MmState, MmConn, Unlocated
  <2>3. A \in MmState
    BY <2>1, NothingType DEF release_anchor, MmState, MmConn
  <2>4. T = msc_release_connection(A)  BY <1>2, <2>1 DEF release_loc_updating_req
  <2>5. /\ OnlyConn(A, T) /\ Held(T.conn) /\ (T.conn = A.conn \/ T.conn = NoMmConn)
        /\ A.conn.up /\ (A.conn.loc.on \/ A.conn.sec.on) => T.conn = A.conn
    BY <2>3, <2>4, ReleaseFields
  <2>6. A.conn.up = S.conn.up /\ A.conn.sec = S.conn.sec  BY <2>2, Fields, UnlocatedFields
  <2> QED  BY <1>2, <2>2, <2>5, <2>6 DEF OnlyConn
<1> QED  BY <1>1, <1>2

\* The callbacks of a security operation.
LEMMA ServCbFields ==
  ASSUME NEW S \in MmState, NEW event, NEW T, T = rx_mm_serv_req_sec_cb(S, event)
  PROVE  T \in MmState /\ T.conn = S.conn /\ T.sub = S.sub /\ T.ms = S.ms /\ (S.conn.up => T.bad = S.bad)
<1>1. "CM_SERV_ACC" \in MmMsgs  BY DEF MmMsgs
<1>2. T = S \/ T = MmTx(S, "CM_SERV_ACC")  BY DEF rx_mm_serv_req_sec_cb, gsm48_tx_mm_serv_ack
<1> QED  BY <1>1, <1>2, TxFields

\* The security operation ends, and perhaps the connection.
Unsecured(c) == [c EXCEPT !.sec = NoSec]
\* What the end of a security operation leaves alone of the connection.
LEMMA UnsecuredFields ==
  ASSUME NEW c \in MmConn, NEW d, d = Unsecured(c)
  PROVE  /\ d \in MmConn /\ d.up = c.up /\ d.anchor = c.anchor /\ d.sec = NoSec /\ d.alg = c.alg /\ d.users = c.users
         /\ d.subscr = c.subscr /\ d.key = c.key /\ d.loc = c.loc
  BY NothingType DEF Unsecured, MmConn

\* release_security_operation(): the operation is gone, and perhaps the connection.
LEMMA ReleaseSecFields ==
  ASSUME NEW S \in MmState, NEW T, T = release_security_operation(S)
  PROVE  /\ OnlyConn(S, T) /\ (Held(S.conn) => Held(T.conn))
         /\ ~S.conn.sec.on => T = S
         /\ S.conn.sec.on => (T.conn = Unsecured(S.conn) \/ T.conn = NoMmConn) /\ Held(T.conn)
<1>1. CASE ~S.conn.sec.on  BY <1>1 DEF release_security_operation, OnlyConn
<1>2. CASE S.conn.sec.on
  <2>1. PICK A : A = [S EXCEPT !.conn.sec = NoSec]  OBVIOUS
  <2>2. A.conn = Unsecured(S.conn) /\ A.sub = S.sub /\ A.ms = S.ms /\ A.out = S.out /\ A.bad = S.bad
    BY <2>1 DEF MmState, MmConn, Unsecured
  <2>3. A \in MmState
    BY <2>1, NothingType DEF MmState, MmConn
  <2>4. T = msc_release_connection(A)  BY <1>2, <2>1 DEF release_security_operation
  <2>5. OnlyConn(A, T) /\ Held(T.conn) /\ (T.conn = A.conn \/ T.conn = NoMmConn)
    BY <2>3, <2>4, ReleaseFields
  <2> QED  BY <1>2, <2>2, <2>5 DEF OnlyConn
<1> QED  BY <1>1, <1>2

\* The tuple is stored; nothing else of the subscriber changes.
LEMMA TupleFields ==
  ASSUME NEW S \in MmState, NEW key, NEW T, T = auth_get_tuple_for_subscr(S, key)
  PROVE  /\ T \in MmState /\ T.conn = S.conn /\ T.ms = S.ms /\ T.out = S.out /\ T.bad = S.bad
         /\ T.sub.attached = S.sub.attached /\ T.sub.authorized = S.sub.authorized /\ T.sub.first = S.sub.first
<1>1. PICK seq, use : T = [S EXCEPT !.sub.seq = seq, !.sub.use = use] /\ seq \in 0..NumSeq /\ use \in 0..MaxUse
  <2>1. S.sub.seq \in 0..NumSeq /\ S.sub.use \in 0..MaxUse  BY Fields DEF MmSub
  <2>2. CASE ReuseTuple(S, key)
    <3>1. S.sub.use + 1 \in 0..MaxUse  BY <2>1, <2>2, MmBoundsAssumption DEF ReuseTuple
    <3> QED  BY <2>1, <2>2, <3>1 DEF auth_get_tuple_for_subscr, db_sync_lastauthtuple_for_subscr
  <2>3. CASE ~ReuseTuple(S, key)
    <3>1. NextSeq(S) \in 0..NumSeq  BY <2>1, MmBoundsAssumption DEF NextSeq, NoKey
    <3>2. 1 \in 0..MaxUse  BY MmBoundsAssumption
    <3> QED  BY <2>3, <3>1, <3>2 DEF auth_get_tuple_for_subscr, db_sync_lastauthtuple_for_subscr
  <2> QED  BY <2>2, <2>3
<1> QED  BY <1>1, ZenonT(80) DEF MmState, MmSub

\* A security operation begins, with a challenge or with the cipher mode.
BeginCipher(S, cb) == gsm0808_cipher_mode(allocate_security_operation(S, cb, FALSE))
BeginAuth(S, cb) == gsm48_tx_mm_auth_req(allocate_security_operation(S, cb, TRUE))
\* The new operation waits with its callback, whichever of the two messages was sent.
LEMMA BeginFields ==
  ASSUME NEW S \in MmState, NEW cb \in {"lu", "serv"}, NEW T, T = BeginCipher(S, cb) \/ T = BeginAuth(S, cb)
  PROVE  /\ T \in MmState /\ T.sub = S.sub /\ T.ms = S.ms /\ (S.conn.up => T.bad = S.bad)
         /\ T.conn.up = S.conn.up /\ T.conn.loc = S.conn.loc /\ T.conn.sec.on /\ T.conn.sec.cb = cb
<1>1. ASSUME NEW auth \in BOOLEAN, NEW A, A = allocate_security_operation(S, cb, auth)
      PROVE  /\ A \in MmState /\ A.sub = S.sub /\ A.ms = S.ms /\ A.bad = S.bad
             /\ A.conn.up = S.conn.up /\ A.conn.loc = S.conn.loc /\ A.conn.sec.on /\ A.conn.sec.cb = cb
  <2>1. PICK sec : sec = [on |-> TRUE, cb |-> cb, auth |-> auth]  OBVIOUS
  <2>2. sec \in SecOperation /\ sec.on /\ sec.cb = cb  BY <2>1 DEF SecOperation
  <2>3. A = [S EXCEPT !.conn.sec = sec]  BY <1>1, <2>1 DEF allocate_security_operation
  <2> QED  BY <2>2, <2>3 DEF MmState, MmConn
<1>2. CASE T = BeginAuth(S, cb)
  <2>1. PICK A : A = allocate_security_operation(S, cb, TRUE)  OBVIOUS
  <2>2. T = MmTx(A, "AUTH_REQ") /\ "AUTH_REQ" \in MmMsgs  BY <1>2, <2>1 DEF BeginAuth, gsm48_tx_mm_auth_req, MmMsgs
  <2>3. /\ A \in MmState /\ A.sub = S.sub /\ A.ms = S.ms /\ A.bad = S.bad
        /\ A.conn.up = S.conn.up /\ A.conn.loc = S.conn.loc /\ A.conn.sec.on /\ A.conn.sec.cb = cb
    BY <1>1, <2>1
  <2> QED  BY <2>2, <2>3, TxFields
<1>3. CASE T = BeginCipher(S, cb)
  <2>1. PICK A : A = allocate_security_operation(S, cb, FALSE)  OBVIOUS
  <2>2. /\ A \in MmState /\ A.sub = S.sub /\ A.ms = S.ms /\ A.bad = S.bad
        /\ A.conn.up = S.conn.up /\ A.conn.loc = S.conn.loc /\ A.conn.sec.on /\ A.conn.sec.cb = cb
    BY <1>1, <2>1
  <2>3. PICK B : B = [A EXCEPT !.conn.alg = TRUE, !.conn.key = A.sub.seq]  OBVIOUS
  <2>4. /\ B \in MmState /\ B.sub = A.sub /\ B.ms = A.ms /\ B.bad = A.bad
        /\ B.conn.up = A.conn.up /\ B.conn.loc = A.conn.loc /\ B.conn.sec = A.conn.sec
    BY <2>2, <2>3 DEF MmState, MmConn, MmSub
  <2>5. T = MmTx(B, "CIPH_MODE") /\ "CIPH_MODE" \in MmMsgs  BY <1>3, <2>1, <2>3 DEF BeginCipher, gsm0808_cipher_mode, MmMsgs
  <2> QED  BY <2>2, <2>4, <2>5, TxFields
<1> QED  BY <1>2, <1>3

-----------------------------------------------------------------------------
\* What the subscriber keeps; what an attachment, the begin of an operation, or a step that only stores
\* a tuple or acknowledges a service makes of a state.
SameSub(S, T) ==
    /\ T.sub.attached = S.sub.attached /\ T.sub.authorized = S.sub.authorized /\ T.sub.first = S.sub.first
AttachedSub(S, T) ==
    /\ T \in MmState /\ T.conn = AcceptedConn(S.conn)
    /\ T.ms.proved = S.ms.proved /\ T.out = S.out \cup {"LU_ACCEPT", "MM_INFO"} /\ (S.conn.up => T.bad = S.bad)
    /\ T.sub.first = S.sub.first
    /\ T.sub.authorized = S.sub.authorized \/ (mmEnv.policy = "TOKEN" /\ S.sub.first)
Begun(S, T, cb) ==
    /\ T \in MmState /\ SameSub(S, T) /\ T.ms = S.ms /\ (S.conn.up => T.bad = S.bad)
    /\ T.conn.up = S.conn.up /\ T.conn.loc = S.conn.loc /\ T.conn.sec.on /\ T.conn.sec.cb = cb
Unmoved(S, T) ==
    T \in MmState /\ T.conn = S.conn /\ SameSub(S, T) /\ T.ms = S.ms /\ (S.conn.up => T.bad = S.bad)

\* gsm48_secure_channel(): accepted at once, served at once, only a tuple, or begun.
LEMMA SecureFields ==
  ASSUME NEW S \in MmState, NEW key, NEW cb \in {"lu", "serv"}, NEW T, T = gsm48_secure_channel(S, key, cb)
  PROVE  \/ cb = "lu" /\ AttachedSub(S, T) /\ (S.conn.alg \/ ~mmEnv.a5 \/ ~mmEnv.ki)
         \/ Unmoved(S, T) /\ (cb = "serv" \/ S.conn.sec.on)
         \/ Begun(S, T, cb) /\ ~S.conn.sec.on
<1>1. PICK A : A = auth_get_tuple_for_subscr(S, key)  OBVIOUS
<1>2. /\ A \in MmState /\ A.conn = S.conn /\ A.ms = S.ms /\ A.out = S.out /\ A.bad = S.bad
      /\ A.sub.attached = S.sub.attached /\ A.sub.authorized = S.sub.authorized /\ A.sub.first = S.sub.first
  BY <1>1, TupleFields
<1>3. ASSUME NEW event, event # "AUTH_FAILED", T = SecCb(S, cb, event), S.conn.alg \/ ~mmEnv.a5 \/ ~mmEnv.ki
      PROVE  \/ cb = "lu" /\ AttachedSub(S, T) /\ (S.conn.alg \/ ~mmEnv.a5 \/ ~mmEnv.ki)
             \/ Unmoved(S, T) /\ cb = "serv"
  <2>1. CASE cb = "lu"
    <3>1. T = authorize_sec_cb(S, event)  BY <1>3, <2>1 DEF SecCb
    <3> QED  BY <1>3, <2>1, <3>1, AttachFields DEF AttachedSub
  <2>2. CASE cb = "serv"
    <3>1. T = rx_mm_serv_req_sec_cb(S, event)  BY <1>3, <2>2 DEF SecCb
    <3> QED  BY <2>2, <3>1, ServCbFields DEF Unmoved, SameSub
  <2> QED  BY <2>1, <2>2
<1>4. CASE mmEnv.a5 /\ S.conn.alg
  <2>1. T = SecCb(S, cb, "SUCCEEDED")  BY <1>4 DEF gsm48_secure_channel, CannotSecure
  <2> QED  BY <1>3, <1>4, <2>1
<1>5. CASE CannotSecure(S) /\ ~(mmEnv.a5 /\ S.conn.alg)
  <2>1. T = SecCb(S, cb, "NOAVAIL")  BY <1>5 DEF gsm48_secure_channel
  <2>2. ~mmEnv.a5 \/ ~mmEnv.ki  BY <1>5 DEF CannotSecure
  <2> QED  BY <1>3, <2>1, <2>2
<1>6. CASE ~CannotSecure(S) /\ ~S.conn.alg
  <2>1. T = IF S.conn.sec.on THEN A
            ELSE IF ReuseTuple(S, key)
            THEN gsm0808_cipher_mode(allocate_security_operation(A, cb, FALSE))
            ELSE gsm48_tx_mm_auth_req(allocate_security_operation(A, cb, TRUE))
    BY <1>1, <1>6 DEF gsm48_secure_channel
  <2>2. CASE S.conn.sec.on
    BY <1>2, <2>1, <2>2 DEF Unmoved, SameSub
  <2>3. CASE ~S.conn.sec.on
    <3>1. /\ T \in MmState /\ T.sub = A.sub /\ T.ms = A.ms /\ (A.conn.up => T.bad = A.bad)
          /\ T.conn.up = A.conn.up /\ T.conn.loc = A.conn.loc /\ T.conn.sec.on /\ T.conn.sec.cb = cb
      <4>1. T = BeginCipher(A, cb) \/ T = BeginAuth(A, cb)  BY <2>1, <2>3 DEF BeginCipher, BeginAuth
      <4>2. A \in MmState  BY <1>2
      <4> QED  BY <4>1, <4>2, BeginFields
    <3> QED  BY <1>2, <2>3, <3>1 DEF Begun, SameSub
  <2> QED  BY <2>2, <2>3
<1>7. \/ mmEnv.a5 /\ S.conn.alg
      \/ CannotSecure(S) /\ ~(mmEnv.a5 /\ S.conn.alg)
      \/ ~CannotSecure(S) /\ ~S.conn.alg
  BY DEF CannotSecure
<1> QED  BY <1>4, <1>5, <1>6, <1>7

-----------------------------------------------------------------------------
(* The invariant *)

\* The policy admits the subscriber.
Admitted(S) == mmEnv.policy = "ACCEPT_ALL" \/ S.sub.authorized \/ (mmEnv.policy = "TOKEN" /\ S.sub.first)

\* One thing at a time: nothing is waited for without a location update; it is not accepted while
\* a security operation runs, and that of a service request does not run beside it; a connection
\* that is ciphered and no longer secures itself belongs to an MS that has proved itself.
Orderly(S) ==
    /\ ~S.bad
    /\ S.conn.loc.imsi \/ S.conn.loc.imei \/ S.conn.loc.accepted => S.conn.loc.on
    /\ S.conn.loc.accepted => ~S.conn.loc.imsi /\ ~S.conn.loc.imei
    /\ S.conn.sec.on =>
          ~S.conn.loc.imsi /\ ~S.conn.loc.imei /\ ~S.conn.loc.accepted /\ S.conn.sec.cb # "none"
    /\ S.conn.sec.on /\ S.conn.sec.cb = "serv" => ~S.conn.loc.on
    /\ S.conn.alg /\ ~S.conn.sec.on => S.ms.proved
\* What waits for a security operation is a location update whose identities were received.
Pending(S) ==
    S.conn.sec.on /\ S.conn.sec.cb = "lu" => S.conn.loc.on /\ Admitted(S)
MmFine(S) ==
    /\ S \in MmState
    /\ ~S.conn.up => ~S.conn.alg /\ ~S.conn.loc.on /\ ~S.conn.sec.on
    /\ ~MmHas("ss_release") => Held(S.conn)
    /\ ~MmHas("repeats") => Orderly(S)
    /\ ~MmHas("repeats") /\ ~MmHas("slow_ms") => Pending(S)
\* The action of AttachedProperly.
Proper(S, T) ==
    ~S.sub.attached /\ T.sub.attached /\ ~MmHas("slow_ms") /\ ~MmHas("repeats") =>
          /\ mmEnv.policy = "ACCEPT_ALL" \/ S.sub.authorized \/ (mmEnv.policy = "TOKEN" /\ T.sub.first)
          /\ S.conn.loc.on /\ ~T.conn.loc.imei /\ ~T.conn.loc.imsi
          /\ "LU_ACCEPT" \in T.out /\ "LU_REJECT" \notin T.out
          /\ mmEnv.a5 /\ mmEnv.ki => T.ms.proved
MmInv == MmFine(mm) /\ mmEnv \in MmEnvs

\* A handler begins with the state as it is and nothing sent.
LEMMA NowFields ==
  ASSUME MmInv, NEW S, S = MmNow
  PROVE  MmFine(S) /\ S.out = {} /\ S.conn = mm.conn /\ S.sub = mm.sub /\ S.ms = mm.ms /\ S.bad = mm.bad
<1>1. S \in MmState /\ S.out = {} /\ S.conn = mm.conn /\ S.sub = mm.sub /\ S.ms = mm.ms /\ S.bad = mm.bad
  BY DEF MmNow, MmInv, MmFine, MmState
<1> QED  BY <1>1 DEF MmInv, MmFine, Orderly, Pending, Admitted

\* A step whose result does not touch the subscriber.
LEMMA QuietProper ==
  ASSUME NEW S, NEW T, T.sub.attached = S.sub.attached PROVE Proper(S, T)
  BY DEF Proper

\* The end of a location update.
LEMMA EndLocFine ==
  ASSUME NEW S, MmFine(S), ~MmHas("repeats") /\ ~MmHas("slow_ms") => ~S.conn.sec.on,
         NEW T, T = release_loc_updating_req(S)
  PROVE  MmFine(T) /\ T.sub = S.sub
<1>1. S \in MmState  BY DEF MmFine
<1>2. /\ OnlyConn(S, T) /\ (Held(S.conn) => Held(T.conn))
      /\ ~S.conn.loc.on => T = S
      /\ S.conn.loc.on => (T.conn = Unlocated(S.conn) \/ T.conn = NoMmConn) /\ Held(T.conn)
      /\ S.conn.loc.on /\ S.conn.up /\ S.conn.sec.on => T.conn = Unlocated(S.conn)
  BY <1>1, ReleaseLocFields
<1>3. CASE ~S.conn.loc.on  BY <1>2, <1>3
<1>4. CASE T.conn = NoMmConn
  BY <1>2, <1>4 DEF MmFine, OnlyConn, Held, Orderly, Pending, NoMmConn, NoLoc, NoSec
<1>5. CASE S.conn.loc.on /\ T.conn = Unlocated(S.conn)
  <2>1. /\ T.conn.up = S.conn.up /\ T.conn.sec = S.conn.sec /\ T.conn.alg = S.conn.alg /\ T.conn.loc = NoLoc
    BY <1>1, <1>5, Fields, UnlocatedFields
  <2> QED  BY <1>2, <1>5, <2>1 DEF MmFine, OnlyConn, Orderly, Pending, NoLoc
<1> QED  BY <1>2, <1>3, <1>4, <1>5 DEF OnlyConn

\* gsm48_secure_channel() keeps the invariant when nothing else is under way.
LEMMA SecureFine ==
  ASSUME NEW S, MmFine(S), S.conn.up, NEW key, NEW cb \in {"lu", "serv"}, NEW T, T = gsm48_secure_channel(S, key, cb),
         "LU_REJECT" \notin S.out,
         ~MmHas("repeats") => ~S.conn.sec.on /\ ~S.conn.loc.accepted,
         cb = "lu" /\ ~MmHas("repeats") => S.conn.loc.on /\ ~S.conn.loc.imsi /\ ~S.conn.loc.imei /\ Admitted(S),
         cb = "serv" /\ ~MmHas("repeats") => ~S.conn.loc.on
  PROVE  MmFine(T) /\ Proper(S, T)
<1>1. S \in MmState  BY DEF MmFine
<1>2. CASE cb = "lu" /\ AttachedSub(S, T) /\ (S.conn.alg \/ ~mmEnv.a5 \/ ~mmEnv.ki)
  <2>1. /\ T.conn.up = S.conn.up /\ T.conn.anchor = S.conn.anchor /\ T.conn.sec = S.conn.sec
        /\ T.conn.alg = S.conn.alg /\ T.conn.users = S.conn.users
        /\ T.conn.loc.on = S.conn.loc.on /\ T.conn.loc.imsi = S.conn.loc.imsi /\ T.conn.loc.imei = S.conn.loc.imei
        /\ T.conn.loc.accepted => S.conn.loc.accepted \/ S.conn.loc.on
    <3>1. T.conn = AcceptedConn(S.conn) /\ S.conn \in MmConn  BY <1>1, <1>2, Fields DEF AttachedSub
    <3> QED  BY <3>1, AcceptedFields, ZenonT(80)
  <2>2. T \in MmState /\ T.ms.proved = S.ms.proved /\ T.bad = S.bad /\ T.sub.first = S.sub.first
        /\ T.out = S.out \cup {"LU_ACCEPT", "MM_INFO"}
    BY <1>2 DEF AttachedSub
  <2>3. Held(S.conn) => Held(T.conn)  BY <2>1 DEF Held
  <2>4. ~MmHas("repeats") => Orderly(T)
    BY <1>2, <2>1, <2>2 DEF MmFine, Orderly
  <2>5. ~MmHas("repeats") => Pending(T)
    BY <2>1 DEF Pending
  <2>6. MmFine(T)  BY <2>1, <2>2, <2>3, <2>4, <2>5 DEF MmFine
  <2>7. Proper(S, T)
    BY <1>2, <2>1, <2>2 DEF Proper, Admitted, MmFine, Orderly
  <2> QED  BY <2>6, <2>7
<1>3. CASE Unmoved(S, T) /\ (cb = "serv" \/ S.conn.sec.on)
  <2>1. T \in MmState /\ T.conn = S.conn /\ SameSub(S, T) /\ T.ms = S.ms /\ T.bad = S.bad
    BY <1>3 DEF Unmoved
  <2>2. MmFine(T)  BY <2>1 DEF MmFine, Held, Orderly, Pending, Admitted, SameSub
  <2> QED  BY <2>1, <2>2, QuietProper DEF SameSub
<1>4. CASE Begun(S, T, cb) /\ ~S.conn.sec.on
  <2>1. /\ T \in MmState /\ SameSub(S, T) /\ T.ms = S.ms /\ T.bad = S.bad
        /\ T.conn.up /\ T.conn.loc = S.conn.loc /\ T.conn.sec.on /\ T.conn.sec.cb = cb
    BY <1>4 DEF Begun
  <2>2. Held(T.conn)  BY <2>1 DEF Held
  <2>3. ~MmHas("repeats") => Orderly(T)
    BY <2>1 DEF MmFine, Orderly
  <2>4. ~MmHas("repeats") => Pending(T)  BY <2>1 DEF Pending, Admitted, SameSub
  <2>5. MmFine(T)  BY <2>1, <2>2, <2>3, <2>4 DEF MmFine
  <2> QED  BY <2>1, <2>5, QuietProper DEF SameSub
<1>5. \/ cb = "lu" /\ AttachedSub(S, T) /\ (S.conn.alg \/ ~mmEnv.a5 \/ ~mmEnv.ki)
      \/ Unmoved(S, T) /\ (cb = "serv" \/ S.conn.sec.on)
      \/ Begun(S, T, cb) /\ ~S.conn.sec.on
  BY <1>1, SecureFields
<1> QED  BY <1>2, <1>3, <1>4, <1>5

\* authorize_subscriber() says yes only to a subscriber the policy admits.
LEMMA PolicyAdmits ==
  ASSUME MmInv, NEW S, authorize_subscriber(S)
  PROVE  Admitted(S) /\ S.conn.subscr /\ (S.conn.loc.on => ~S.conn.loc.imsi /\ ~S.conn.loc.imei)
<1>1. mmEnv.policy \in Policies  BY MmEnvAssumption DEF MmInv, MmEnv
<1> QED  BY <1>1 DEF authorize_subscriber, Admitted, Policies

\* gsm0408_authorize(), of a location update nothing else runs beside.
LEMMA AuthorizeFine ==
  ASSUME MmInv, NEW S, MmFine(S), S.conn.up, "LU_REJECT" \notin S.out, NEW T, T = gsm0408_authorize(S),
         ~MmHas("repeats") => ~S.conn.sec.on /\ ~S.conn.loc.accepted /\ S.conn.loc.on
  PROVE  MmFine(T) /\ Proper(S, T)
<1>1. S \in MmState  BY DEF MmFine
<1>2. CASE ~authorize_subscriber(S)
  BY <1>2, QuietProper DEF gsm0408_authorize
<1>3. CASE authorize_subscriber(S)
  <2>1. PICK A : A = [S EXCEPT !.bad = @ \/ ~S.conn.loc.on]  OBVIOUS
  <2>2. T = gsm48_secure_channel(A, S.ms.key, "lu")  BY <1>3, <2>1 DEF gsm0408_authorize
  <2>3. A \in MmState /\ A.conn = S.conn /\ A.sub = S.sub /\ A.ms = S.ms /\ A.out = S.out /\ (S.conn.loc.on => A.bad = S.bad)
    BY <1>1, <2>1 DEF MmState
  <2>4. MmFine(A)  BY <2>3 DEF MmFine, Orderly, Pending, Admitted
  <2>5. Admitted(A) /\ (S.conn.loc.on => ~S.conn.loc.imsi /\ ~S.conn.loc.imei)
    BY <1>3, <2>3, PolicyAdmits DEF Admitted
  <2>6. /\ A.conn.up /\ "LU_REJECT" \notin A.out /\ (~MmHas("repeats") => ~A.conn.sec.on /\ ~A.conn.loc.accepted)
        /\ ~MmHas("repeats") => A.conn.loc.on /\ ~A.conn.loc.imsi /\ ~A.conn.loc.imei /\ Admitted(A)
    BY <2>3, <2>5
  <2>7. MmFine(T) /\ Proper(A, T)  BY <2>2, <2>4, <2>6, SecureFine
  <2>8. Proper(S, T)  BY <2>3, <2>7 DEF Proper
  <2> QED  BY <2>7, <2>8
<1> QED  BY <1>2, <1>3

-----------------------------------------------------------------------------
(* The actions *)

\* An IDENTITY RESPONSE, which may be the last thing gsm0408_authorize() waited for.
LEMMA IdRespStep ==
  ASSUME MmInv, NEW type \in {"IMSI", "IMEI"}, IdResp(type) PROVE MmFine(mm') /\ Proper(mm, mm') /\ mmEnv' = mmEnv
<1>1. PICK S : S = MmNow  OBVIOUS
<1>2. MmFine(S) /\ S.out = {} /\ S.conn = mm.conn /\ S.sub = mm.sub /\ S.ms = mm.ms /\ S.bad = mm.bad
  BY <1>1, NowFields
<1>3. S \in MmState  BY <1>2 DEF MmFine
<1>4. mm.conn.up /\ mmEnv' = mmEnv /\ mm' = mm_rx_id_resp(S, type)
      /\ (~MmHas("repeats") => mm.conn.loc.imsi \/ mm.conn.loc.imei)
  BY <1>1 DEF IdResp, MmBecomes
<1>5. PICK A : mm' = gsm0408_authorize(A) /\ A \in MmState
               /\ A.conn.up = S.conn.up /\ A.conn.anchor = S.conn.anchor /\ A.conn.sec = S.conn.sec
               /\ A.conn.alg = S.conn.alg /\ A.conn.users = S.conn.users
               /\ A.conn.loc.on = S.conn.loc.on /\ A.conn.loc.accepted = S.conn.loc.accepted
               /\ (A.conn.loc.imsi => S.conn.loc.imsi) /\ (A.conn.loc.imei => S.conn.loc.imei)
               /\ A.sub.attached = S.sub.attached /\ A.sub.authorized = S.sub.authorized
               /\ (S.sub.first => A.sub.first) /\ A.ms = S.ms /\ A.out = S.out /\ A.bad = S.bad
  <2>1. CASE type = "IMSI"
    <3>1. PICK B : B = db_create_subscriber(S)  OBVIOUS
    <3>2. B \in MmState /\ B.conn = S.conn /\ B.ms = S.ms /\ B.out = S.out /\ B.bad = S.bad
          /\ B.sub.attached = S.sub.attached /\ B.sub.authorized = S.sub.authorized /\ (S.sub.first => B.sub.first)
      <4>1. CASE S.sub.known  BY <1>3, <3>1, <4>1 DEF db_create_subscriber
      <4>2. CASE ~S.sub.known
        <5>1. B = [S EXCEPT !.sub.known = TRUE, !.sub.first = TRUE]  BY <3>1, <4>2 DEF db_create_subscriber
        <5> QED  BY <1>3, <5>1 DEF MmState, MmSub
      <4> QED  BY <4>1, <4>2
    <3>3. PICK A : A = [B EXCEPT !.conn.subscr = TRUE, !.conn.loc.imsi = FALSE]  OBVIOUS
    <3>4. A \in MmState  BY <3>2, <3>3 DEF MmState, MmConn, LocOperation
    <3>5. A.sub = B.sub /\ A.ms = B.ms /\ A.out = B.out /\ A.bad = B.bad  BY <3>2, <3>3 DEF MmState
    <3>6. /\ A.conn.up = B.conn.up /\ A.conn.anchor = B.conn.anchor /\ A.conn.sec = B.conn.sec
          /\ A.conn.alg = B.conn.alg /\ A.conn.users = B.conn.users
          /\ A.conn.loc.on = B.conn.loc.on /\ A.conn.loc.accepted = B.conn.loc.accepted
          /\ ~A.conn.loc.imsi /\ A.conn.loc.imei = B.conn.loc.imei
      BY <3>2, <3>3 DEF MmState, MmConn, LocOperation
    <3>7. mm' = gsm0408_authorize(A)  BY <1>4, <2>1, <3>1, <3>3 DEF mm_rx_id_resp
    <3> QED  BY <3>2, <3>4, <3>5, <3>6, <3>7
  <2>2. CASE type = "IMEI"
    <3>1. PICK A : A = [S EXCEPT !.conn.loc.imei = FALSE]  OBVIOUS
    <3>2. A \in MmState  BY <1>3, <3>1 DEF MmState, MmConn, LocOperation
    <3>3. A.sub = S.sub /\ A.ms = S.ms /\ A.out = S.out /\ A.bad = S.bad  BY <1>3, <3>1 DEF MmState
    <3>4. /\ A.conn.up = S.conn.up /\ A.conn.anchor = S.conn.anchor /\ A.conn.sec = S.conn.sec
          /\ A.conn.alg = S.conn.alg /\ A.conn.users = S.conn.users
          /\ A.conn.loc.on = S.conn.loc.on /\ A.conn.loc.accepted = S.conn.loc.accepted
          /\ A.conn.loc.imsi = S.conn.loc.imsi /\ ~A.conn.loc.imei
      BY <1>3, <3>1 DEF MmState, MmConn, LocOperation
    <3>5. mm' = gsm0408_authorize(A)  BY <1>4, <2>2, <3>1 DEF mm_rx_id_resp
    <3> QED  BY <3>2, <3>3, <3>4, <3>5
  <2> QED  BY <2>1, <2>2
<1>6. MmFine(A)
  BY <1>2, <1>5 DEF MmFine, Held, Orderly, Pending, Admitted
<1>7. ~MmHas("repeats") => ~A.conn.sec.on /\ ~A.conn.loc.accepted /\ A.conn.loc.on
  BY <1>2, <1>4, <1>5 DEF MmFine, Orderly
<1>8. A.conn.up /\ "LU_REJECT" \notin A.out  BY <1>2, <1>4, <1>5
<1>9. MmFine(mm') /\ Proper(A, mm')  BY <1>5, <1>6, <1>7, <1>8, AuthorizeFine
<1>10. Proper(mm, mm')  BY <1>2, <1>5, <1>9 DEF Proper
<1> QED  BY <1>4, <1>9, <1>10

\* db_create_subscriber(): a subscriber that was not known is seen for the first time.
LEMMA CreateFields ==
  ASSUME NEW S \in MmState, NEW B, B = db_create_subscriber(S)
  PROVE  /\ B \in MmState /\ B.conn = S.conn /\ B.ms = S.ms /\ B.out = S.out /\ B.bad = S.bad
         /\ B.sub.attached = S.sub.attached /\ B.sub.authorized = S.sub.authorized /\ (S.sub.first => B.sub.first)
<1>1. CASE S.sub.known  BY <1>1 DEF db_create_subscriber
<1>2. CASE ~S.sub.known
  <2>1. B = [S EXCEPT !.sub.known = TRUE, !.sub.first = TRUE]  BY <1>2 DEF db_create_subscriber
  <2>2. B \in MmState  BY <2>1, ZenonT(80) DEF MmState, MmSub
  <2>3. B.conn = S.conn /\ B.ms = S.ms /\ B.out = S.out /\ B.bad = S.bad  BY <2>1 DEF MmState
  <2>4. B.sub.attached = S.sub.attached /\ B.sub.authorized = S.sub.authorized /\ B.sub.first
    BY <2>1 DEF MmState, MmSub
  <2> QED  BY <2>2, <2>3, <2>4
<1> QED  BY <1>1, <1>2

\* Of the connection only the subscriber and the location update differ.
LocOnly(S, T) ==
    /\ T \in MmState /\ T.ms = S.ms /\ (S.conn.up => T.bad = S.bad)
    /\ T.sub.attached = S.sub.attached /\ T.sub.authorized = S.sub.authorized /\ (S.sub.first => T.sub.first)
    /\ T.conn.up = S.conn.up /\ T.conn.sec = S.conn.sec /\ T.conn.alg = S.conn.alg

\* The steps of mm_rx_loc_upd_req(): the identity may be asked for, what is waited for is noted.
Found(S, by) == by = "IMSI" \/ (by = "TMSI" /\ S.sub.tmsi /\ S.ms.tmsi)
Asked(T, by) == CASE by = "IMSI" -> mm_tx_identity_req(db_create_subscriber(T))
                  [] by = "TMSI" -> mm_tx_identity_req(T)
                  [] by = "IMEI" -> T
Noted(X, by, found) == [X EXCEPT !.conn.loc.imei = by # "IMEI", !.conn.loc.imsi = by = "TMSI" /\ ~found]
WaitingFor(S, by) == schedule_reject(Noted(Asked(allocate_loc_updating_req(S), by), by, Found(S, by)))
\* mm_rx_loc_upd_req() is those steps in that order.
LEMMA LocUpdReqForm ==
  ASSUME NEW S, NEW by
  PROVE  mm_rx_loc_upd_req(S, by) =
           IF S.conn.loc.on THEN gsm0408_loc_upd_rej(S)
           ELSE IF Found(S, by) THEN gsm0408_authorize([WaitingFor(S, by) EXCEPT !.conn.subscr = TRUE])
                ELSE WaitingFor(S, by)
  BY DEF mm_rx_loc_upd_req, Found, Asked, Noted, WaitingFor

\* A LOCATION UPDATING REQUEST: nothing is accepted yet, an identity is always missing.
LEMMA LocUpdReqStep ==
  ASSUME MmInv, NEW by \in {"IMSI", "TMSI", "IMEI"}, LocUpdReq(by)
  PROVE  MmFine(mm') /\ Proper(mm, mm') /\ mmEnv' = mmEnv
<1>1. PICK S : S = MmNow  OBVIOUS
<1>2. MmFine(S) /\ S.out = {} /\ S.conn = mm.conn /\ S.sub = mm.sub /\ S.ms = mm.ms /\ S.bad = mm.bad
  BY <1>1, NowFields
<1>3. S \in MmState  BY <1>2 DEF MmFine
<1>4. mm.conn.up /\ mmEnv' = mmEnv /\ mm' = mm_rx_loc_upd_req(S, by)
      /\ (~MmHas("repeats") => ~S.conn.loc.on /\ ~S.conn.sec.on)
  BY <1>1, <1>2 DEF LocUpdReq, MmBecomes
<1>5. CASE S.conn.loc.on
  <2>1. mm' = MmTx(S, "LU_REJECT")  BY <1>4, <1>5 DEF mm_rx_loc_upd_req, gsm0408_loc_upd_rej
  <2>2. "LU_REJECT" \in MmMsgs  BY DEF MmMsgs
  <2>3. mm' \in MmState /\ mm'.conn = S.conn /\ mm'.sub = S.sub /\ mm'.ms = S.ms
    BY <1>3, <2>1, <2>2, TxFields
  <2>4. MmFine(mm')  BY <1>2, <1>4, <1>5, <2>3 DEF MmFine
  <2> QED  BY <1>2, <1>4, <2>3, <2>4, QuietProper
<1>6. CASE ~S.conn.loc.on
  <2>1. PICK A : A = [S EXCEPT !.conn.loc.on = TRUE]  OBVIOUS
  <2>2. LocOnly(S, A) /\ A.conn.loc.on /\ A.conn.loc.accepted = S.conn.loc.accepted
    BY <1>3, <2>1 DEF MmState, MmConn, LocOperation, LocOnly
  <2>3. A = allocate_loc_updating_req(S)
    BY <1>6, <2>1 DEF allocate_loc_updating_req, release_loc_updating_req
  <2>5. PICK X : X = Asked(A, by)  OBVIOUS
  <2>6. LocOnly(S, X) /\ X.conn = A.conn
    <3>1. "IDENTITY_REQ" \in MmMsgs  BY DEF MmMsgs
    <3>2. A \in MmState /\ A.conn.up  BY <1>2, <1>4, <2>2 DEF LocOnly
    <3>3. CASE by = "IMSI"
      <4>1. PICK B : B = db_create_subscriber(A)  OBVIOUS
      <4>2. /\ B \in MmState /\ B.conn = A.conn /\ B.ms = A.ms /\ B.out = A.out /\ B.bad = A.bad
            /\ B.sub.attached = A.sub.attached /\ B.sub.authorized = A.sub.authorized /\ (A.sub.first => B.sub.first)
        BY <3>2, <4>1, CreateFields
      <4>3. X = MmTx(B, "IDENTITY_REQ")  BY <2>5, <3>3, <4>1 DEF Asked, mm_tx_identity_req
      <4>4. X \in MmState /\ X.conn = B.conn /\ X.sub = B.sub /\ X.ms = B.ms /\ X.bad = B.bad
        BY <3>1, <3>2, <4>2, <4>3, TxFields
      <4> QED  BY <2>2, <4>2, <4>4 DEF LocOnly
    <3>4. CASE by = "TMSI"
      <4>1. X = MmTx(A, "IDENTITY_REQ")  BY <2>5, <3>4 DEF Asked, mm_tx_identity_req
      <4>2. X \in MmState /\ X.conn = A.conn /\ X.sub = A.sub /\ X.ms = A.ms /\ X.bad = A.bad
        BY <3>1, <3>2, <4>1, TxFields
      <4> QED  BY <2>2, <4>2 DEF LocOnly
    <3>5. CASE by = "IMEI"  BY <2>2, <2>5, <3>5 DEF Asked
    <3> QED  BY <3>3, <3>4, <3>5
  <2>7. PICK V : V = WaitingFor(S, by)  OBVIOUS
  <2>8. /\ LocOnly(S, V) /\ V.conn.loc.on /\ V.conn.loc.accepted = S.conn.loc.accepted
        /\ by # "IMEI" => V.conn.loc.imei
    <3>1. PICK U : U = Noted(X, by, Found(S, by))  OBVIOUS
    <3>2. X \in MmState  BY <2>6 DEF LocOnly
    <3>3. U \in MmState  BY <3>1, <3>2 DEF MmState, MmConn, LocOperation, Noted
    <3>4. U.sub = X.sub /\ U.ms = X.ms /\ U.bad = X.bad  BY <3>1, <3>2 DEF MmState, Noted
    <3>5. /\ U.conn.up = X.conn.up /\ U.conn.sec = X.conn.sec /\ U.conn.alg = X.conn.alg
          /\ U.conn.loc.on = X.conn.loc.on /\ U.conn.loc.accepted = X.conn.loc.accepted
          /\ by # "IMEI" => U.conn.loc.imei
      BY <3>1, <3>2 DEF MmState, MmConn, LocOperation, Noted
    <3>6. V = [U EXCEPT !.conn.loc.timer = TRUE]  BY <2>3, <2>5, <2>7, <3>1 DEF schedule_reject, WaitingFor
    <3>7. V \in MmState  BY <3>3, <3>6 DEF MmState, MmConn, LocOperation
    <3>8. V.sub = U.sub /\ V.ms = U.ms /\ V.bad = U.bad  BY <3>3, <3>6 DEF MmState
    <3>9. /\ V.conn.up = U.conn.up /\ V.conn.sec = U.conn.sec /\ V.conn.alg = U.conn.alg
          /\ V.conn.loc.on = U.conn.loc.on /\ V.conn.loc.accepted = U.conn.loc.accepted
          /\ V.conn.loc.imei = U.conn.loc.imei
      BY <3>3, <3>6 DEF MmState, MmConn, LocOperation
    <3> QED  BY <2>2, <2>6, <3>4, <3>5, <3>7, <3>8, <3>9 DEF LocOnly
  <2>9. PICK W : W = [V EXCEPT !.conn.subscr = TRUE]  OBVIOUS
  <2>10. /\ LocOnly(S, W) /\ W.conn.loc.on /\ W.conn.loc.accepted = S.conn.loc.accepted
         /\ by # "IMEI" => W.conn.loc.imei
    <3>1. V \in MmState  BY <2>8 DEF LocOnly
    <3>2. W \in MmState /\ W.sub = V.sub /\ W.ms = V.ms /\ W.bad = V.bad  BY <2>9, <3>1 DEF MmState, MmConn
    <3>3. /\ W.conn.up = V.conn.up /\ W.conn.sec = V.conn.sec /\ W.conn.alg = V.conn.alg /\ W.conn.loc = V.conn.loc
      BY <2>9, <3>1 DEF MmState, MmConn
    <3> QED  BY <2>8, <3>2, <3>3 DEF LocOnly
  <2>11. mm' = IF Found(S, by) THEN gsm0408_authorize(W) ELSE V
    BY <1>4, <1>6, <2>7, <2>9, LocUpdReqForm
  <2>12. Found(S, by) => gsm0408_authorize(W) = W
    <3>1. Found(S, by) => by # "IMEI"  BY DEF Found
    <3> QED  BY <2>10, <3>1 DEF gsm0408_authorize, authorize_subscriber
  <2>13. LocOnly(S, mm') /\ mm'.conn.loc.on /\ mm'.conn.loc.accepted = S.conn.loc.accepted
    BY <2>8, <2>10, <2>11, <2>12
  <2>14. Held(mm'.conn)  BY <2>13 DEF Held
  <2>15. ~MmHas("repeats") => Orderly(mm') /\ Pending(mm')
    BY <1>2, <1>4, <1>6, <2>13 DEF MmFine, Orderly, Pending, LocOnly
  <2>16. MmFine(mm')  BY <1>2, <1>4, <2>13, <2>14, <2>15 DEF MmFine, LocOnly
  <2> QED  BY <1>2, <1>4, <2>13, <2>16, QuietProper DEF LocOnly
<1> QED  BY <1>5, <1>6

\* A CM SERVICE REQUEST.
LEMMA ServReqStep ==
  ASSUME MmInv, ServReq PROVE MmFine(mm') /\ Proper(mm, mm') /\ mmEnv' = mmEnv
<1>1. PICK S : S = MmNow  OBVIOUS
<1>2. MmFine(S) /\ S.out = {} /\ S.conn = mm.conn /\ S.sub = mm.sub /\ S.ms = mm.ms /\ S.bad = mm.bad
  BY <1>1, NowFields
<1>3. S \in MmState  BY <1>2 DEF MmFine
<1>4. mm.conn.up /\ mmEnv' = mmEnv /\ mm' = gsm48_rx_mm_serv_req(S)
      /\ (~MmHas("repeats") => ~S.conn.loc.on /\ ~S.conn.sec.on)
  BY <1>1, <1>2 DEF ServReq, MmBecomes
<1>5. CASE S.sub.tmsi /\ S.ms.tmsi
  <2>1. PICK A : A = [S EXCEPT !.conn.subscr = TRUE]  OBVIOUS
  <2>2. A \in MmState /\ A.sub = S.sub /\ A.ms = S.ms /\ A.bad = S.bad /\ A.out = S.out
    BY <1>3, <2>1 DEF MmState, MmConn
  <2>3. /\ A.conn.up = S.conn.up /\ A.conn.sec = S.conn.sec /\ A.conn.alg = S.conn.alg /\ A.conn.loc = S.conn.loc
        /\ A.conn.anchor = S.conn.anchor /\ A.conn.users = S.conn.users
    BY <1>3, <2>1 DEF MmState, MmConn
  <2>4. MmFine(A)  BY <1>2, <2>2, <2>3 DEF MmFine, Held, Orderly, Pending, Admitted
  <2>5. mm' = gsm48_secure_channel(A, S.ms.key, "serv")  BY <1>4, <1>5, <2>1 DEF gsm48_rx_mm_serv_req
  <2>6. /\ A.conn.up /\ "LU_REJECT" \notin A.out /\ (~MmHas("repeats") => ~A.conn.sec.on /\ ~A.conn.loc.accepted)
        /\ ~MmHas("repeats") => ~A.conn.loc.on
    BY <1>2, <1>4, <2>2, <2>3 DEF MmFine, Orderly
  <2>7. MmFine(mm') /\ Proper(A, mm')  BY <2>4, <2>5, <2>6, SecureFine
  <2>8. Proper(mm, mm')  BY <1>2, <2>2, <2>3, <2>7 DEF Proper
  <2> QED  BY <1>4, <2>7, <2>8
<1>6. CASE ~(S.sub.tmsi /\ S.ms.tmsi)
  <2>1. mm' = MmTx(S, "CM_SERV_REJ") /\ "CM_SERV_REJ" \in MmMsgs
    BY <1>4, <1>6 DEF gsm48_rx_mm_serv_req, gsm48_tx_mm_serv_rej, MmMsgs
  <2>2. mm' \in MmState /\ mm'.conn = S.conn /\ mm'.sub = S.sub /\ mm'.ms = S.ms /\ mm'.bad = S.bad
    BY <1>2, <1>3, <1>4, <2>1, TxFields
  <2>3. MmFine(mm')  BY <1>2, <2>2 DEF MmFine, Orderly, Pending, Admitted
  <2> QED  BY <1>2, <1>4, <2>2, <2>3, QuietProper
<1> QED  BY <1>5, <1>6

\* The end of a connection and of everything on it.
LEMMA GoneFine ==
  ASSUME NEW S, MmFine(S), NEW T, OnlyConn(S, T), T.conn = NoMmConn PROVE MmFine(T)
  BY DEF MmFine, OnlyConn, Held, Orderly, Pending, NoMmConn, NoLoc, NoSec

\* What holds a connection lets go of it, and msc_release_connection() looks at it.
LEMMA LetGoFine ==
  ASSUME NEW S, MmFine(S), NEW A \in MmState, NEW T, T = msc_release_connection(A),
         A.sub = S.sub, A.ms = S.ms, A.bad = S.bad,
         A.conn.up = S.conn.up, A.conn.loc = S.conn.loc, A.conn.sec = S.conn.sec, A.conn.alg = S.conn.alg
  PROVE  MmFine(T) /\ T.sub = S.sub
<1>1. OnlyConn(A, T) /\ Held(T.conn) /\ (T.conn = A.conn \/ T.conn = NoMmConn)
  BY ReleaseFields
<1>2. T \in MmState /\ T.sub = S.sub /\ T.ms = S.ms /\ T.bad = S.bad  BY <1>1 DEF OnlyConn
<1>3. CASE T.conn = A.conn
  BY <1>1, <1>2, <1>3 DEF MmFine, Orderly, Pending, Admitted
<1>4. CASE T.conn = NoMmConn
  BY <1>1, <1>2, <1>4 DEF MmFine, Orderly, Pending, NoMmConn, NoLoc, NoSec
<1> QED  BY <1>1, <1>2, <1>3, <1>4

\* The anchor timer.
LEMMA AnchorTimerStep ==
  ASSUME MmInv, AnchorTimer PROVE MmFine(mm') /\ Proper(mm, mm') /\ mmEnv' = mmEnv
<1>1. PICK S : S = MmNow  OBVIOUS
<1>2. MmFine(S) /\ S.out = {} /\ S.conn = mm.conn /\ S.sub = mm.sub /\ S.ms = mm.ms /\ S.bad = mm.bad
  BY <1>1, NowFields
<1>3. S \in MmState  BY <1>2 DEF MmFine
<1>4. PICK A : A = release_anchor(S)  OBVIOUS
<1>5. A \in MmState  BY <1>3, <1>4 DEF release_anchor, MmState, MmConn
<1>6. A.sub = S.sub /\ A.ms = S.ms /\ A.bad = S.bad  BY <1>3, <1>4 DEF release_anchor, MmState
<1>7. A.conn.up = S.conn.up /\ A.conn.loc = S.conn.loc /\ A.conn.sec = S.conn.sec /\ A.conn.alg = S.conn.alg
  BY <1>3, <1>4 DEF release_anchor, MmState, MmConn
<1>8. mm' = msc_release_connection(A) /\ mmEnv' = mmEnv  BY <1>1, <1>4 DEF AnchorTimer, MmBecomes
<1>9. MmFine(mm') /\ mm'.sub = S.sub  BY <1>2, <1>5, <1>6, <1>7, <1>8, LetGoFine
<1> QED  BY <1>2, <1>8, <1>9, QuietProper

\* The last call or SMS ends.
LEMMA UserEndsStep ==
  ASSUME MmInv, UserEnds PROVE MmFine(mm') /\ Proper(mm, mm') /\ mmEnv' = mmEnv
<1>1. PICK S : S = MmNow  OBVIOUS
<1>2. MmFine(S) /\ S.out = {} /\ S.conn = mm.conn /\ S.sub = mm.sub /\ S.ms = mm.ms /\ S.bad = mm.bad
  BY <1>1, NowFields
<1>3. S \in MmState  BY <1>2 DEF MmFine
<1>4. PICK A : A = [S EXCEPT !.conn.users = FALSE]  OBVIOUS
<1>5. A \in MmState  BY <1>3, <1>4 DEF MmState, MmConn
<1>6. A.sub = S.sub /\ A.ms = S.ms /\ A.bad = S.bad  BY <1>3, <1>4 DEF MmState
<1>7. A.conn.up = S.conn.up /\ A.conn.loc = S.conn.loc /\ A.conn.sec = S.conn.sec /\ A.conn.alg = S.conn.alg
  BY <1>3, <1>4 DEF MmState, MmConn
<1>8. mm' = msc_release_connection(A) /\ mmEnv' = mmEnv  BY <1>1, <1>4 DEF UserEnds, MmBecomes
<1>9. MmFine(mm') /\ mm'.sub = S.sub  BY <1>2, <1>5, <1>6, <1>7, <1>8, LetGoFine
<1> QED  BY <1>2, <1>8, <1>9, QuietProper

\* A supplementary service message: with a RELEASE COMPLETE the connection is not looked at.
LEMMA UssdStep ==
  ASSUME MmInv, NEW release \in BOOLEAN, Ussd(release) PROVE MmFine(mm') /\ Proper(mm, mm') /\ mmEnv' = mmEnv
<1>1. PICK S : S = MmNow  OBVIOUS
<1>2. MmFine(S) /\ S.out = {} /\ S.conn = mm.conn /\ S.sub = mm.sub /\ S.ms = mm.ms /\ S.bad = mm.bad
  BY <1>1, NowFields
<1>3. S \in MmState  BY <1>2 DEF MmFine
<1>4. PICK A : A = release_anchor(S)  OBVIOUS
<1>5. A \in MmState  BY <1>3, <1>4 DEF release_anchor, MmState, MmConn
<1>6. A.sub = S.sub /\ A.ms = S.ms /\ A.bad = S.bad /\ A.out = S.out  BY <1>3, <1>4 DEF release_anchor, MmState
<1>7. A.conn.up = S.conn.up /\ A.conn.loc = S.conn.loc /\ A.conn.sec = S.conn.sec /\ A.conn.alg = S.conn.alg
  BY <1>3, <1>4 DEF release_anchor, MmState, MmConn
<1>8. S.conn.up /\ mmEnv' = mmEnv /\ (release => MmHas("ss_release")) /\ mm' = handle_rcv_ussd(S, release)
  BY <1>1, <1>2 DEF Ussd, MmBecomes
<1>9. CASE release
  <2>1. mm' = A  BY <1>4, <1>8, <1>9 DEF handle_rcv_ussd
  <2>2. MmFine(A)
    BY <1>2, <1>5, <1>6, <1>7, <1>8, <1>9 DEF MmFine, Orderly, Pending, Admitted
  <2> QED  BY <1>2, <1>6, <1>8, <2>1, <2>2, QuietProper
<1>10. CASE ~release
  <2>1. PICK B : B = MmTx(A, "USSD")  OBVIOUS
  <2>2. "USSD" \in MmMsgs  BY DEF MmMsgs
  <2>3. B \in MmState /\ B.conn = A.conn /\ B.sub = A.sub /\ B.ms = A.ms /\ (A.conn.up => B.bad = A.bad)
    BY <1>5, <2>1, <2>2, TxFields
  <2>4. B.sub = S.sub /\ B.ms = S.ms /\ B.bad = S.bad
        /\ B.conn.up = S.conn.up /\ B.conn.loc = S.conn.loc /\ B.conn.sec = S.conn.sec /\ B.conn.alg = S.conn.alg
    BY <1>6, <1>7, <1>8, <2>3
  <2>5. mm' = msc_release_connection(B)  BY <1>4, <1>8, <1>10, <2>1 DEF handle_rcv_ussd
  <2>6. MmFine(mm') /\ mm'.sub = S.sub  BY <1>2, <2>3, <2>4, <2>5, LetGoFine
  <2> QED  BY <1>2, <1>8, <2>6, QuietProper
<1> QED  BY <1>9, <1>10

\* A call or SMS begins.
LEMMA UserStartsStep ==
  ASSUME MmInv, UserStarts PROVE MmFine(mm') /\ Proper(mm, mm') /\ mmEnv' = mmEnv
<1>1. PICK S : S = MmNow  OBVIOUS
<1>2. MmFine(S) /\ S.out = {} /\ S.conn = mm.conn /\ S.sub = mm.sub /\ S.ms = mm.ms /\ S.bad = mm.bad
  BY <1>1, NowFields
<1>3. S \in MmState  BY <1>2 DEF MmFine
<1>4. PICK A : A = release_anchor(S)  OBVIOUS
<1>5. A \in MmState  BY <1>3, <1>4 DEF release_anchor, MmState, MmConn
<1>6. A.sub = S.sub /\ A.ms = S.ms /\ A.bad = S.bad  BY <1>3, <1>4 DEF release_anchor, MmState
<1>7. A.conn.up = S.conn.up /\ A.conn.loc = S.conn.loc /\ A.conn.sec = S.conn.sec /\ A.conn.alg = S.conn.alg
  BY <1>3, <1>4 DEF release_anchor, MmState, MmConn
<1>8. mm' = [A EXCEPT !.conn.users = TRUE] /\ mmEnv' = mmEnv  BY <1>1, <1>4 DEF UserStarts, MmBecomes
<1>9. mm' \in MmState  BY <1>5, <1>8 DEF MmState, MmConn
<1>10. mm'.sub = A.sub /\ mm'.ms = A.ms /\ mm'.bad = A.bad  BY <1>5, <1>8 DEF MmState
<1>11. mm'.conn.up = A.conn.up /\ mm'.conn.loc = A.conn.loc /\ mm'.conn.sec = A.conn.sec
       /\ mm'.conn.alg = A.conn.alg /\ mm'.conn.users
  BY <1>5, <1>8 DEF MmState, MmConn
<1>12. MmFine(mm')
  BY <1>2, <1>6, <1>7, <1>9, <1>10, <1>11 DEF MmFine, Held, Orderly, Pending, Admitted
<1> QED  BY <1>2, <1>6, <1>8, <1>10, <1>12, QuietProper, ZenonT(80)

\* The radio link fails.
LEMMA MmLostStep ==
  ASSUME MmInv, MmLost PROVE MmFine(mm') /\ Proper(mm, mm') /\ mmEnv' = mmEnv
<1>1. PICK S : S = MmNow  OBVIOUS
<1>2. MmFine(S) /\ S.out = {} /\ S.conn = mm.conn /\ S.sub = mm.sub /\ S.ms = mm.ms /\ S.bad = mm.bad
  BY <1>1, NowFields
<1>3. S \in MmState  BY <1>2 DEF MmFine
<1>4. mm' = [S EXCEPT !.conn = NoMmConn] /\ mmEnv' = mmEnv  BY <1>1 DEF MmLost, MmBecomes, mm_clear_request
<1>5. OnlyConn(S, mm') /\ mm'.conn = NoMmConn  BY <1>3, <1>4, NothingType DEF OnlyConn, MmState
<1>6. MmFine(mm')  BY <1>2, <1>5, GoneFine
<1> QED  BY <1>2, <1>4, <1>5, <1>6, QuietProper DEF OnlyConn

\* The subscriber is let in.
LEMMA AuthorizedStep ==
  ASSUME MmInv, Authorized PROVE MmFine(mm') /\ Proper(mm, mm') /\ mmEnv' = mmEnv
<1>1. PICK S : S = MmNow  OBVIOUS
<1>2. MmFine(S) /\ S.out = {} /\ S.conn = mm.conn /\ S.sub = mm.sub /\ S.ms = mm.ms /\ S.bad = mm.bad
  BY <1>1, NowFields
<1>3. S \in MmState  BY <1>2 DEF MmFine
<1>4. mm' = [S EXCEPT !.sub.authorized = TRUE, !.sub.first = FALSE] /\ mmEnv' = mmEnv
  BY <1>1 DEF Authorized, MmBecomes
<1>5. mm' \in MmState  BY <1>3, <1>4 DEF MmState, MmSub
<1>6. mm'.conn = S.conn /\ mm'.ms = S.ms /\ mm'.bad = S.bad  BY <1>3, <1>4 DEF MmState
<1>7. mm'.sub.authorized /\ mm'.sub.attached = S.sub.attached  BY <1>3, <1>4 DEF MmState, MmSub
<1>8. MmFine(mm')  BY <1>2, <1>5, <1>6, <1>7 DEF MmFine, Orderly, Pending, Admitted
<1> QED  BY <1>2, <1>4, <1>7, <1>8, QuietProper

\* The MS loses its keys.
LEMMA NewSimStep ==
  ASSUME MmInv, NewSim PROVE MmFine(mm') /\ Proper(mm, mm') /\ mmEnv' = mmEnv
<1>1. PICK S : S = MmNow  OBVIOUS
<1>2. MmFine(S) /\ S.out = {} /\ S.conn = mm.conn /\ S.sub = mm.sub /\ S.ms = mm.ms /\ S.bad = mm.bad
  BY <1>1, NowFields
<1>3. S \in MmState  BY <1>2 DEF MmFine
<1>4. mm' = [S EXCEPT !.ms.tmsi = FALSE, !.ms.key = NoKey] /\ mmEnv' = mmEnv
  BY <1>1 DEF NewSim, MmBecomes
<1>5. NoKey \in 0..NumSeq  BY MmBoundsAssumption DEF NoKey
<1>6. mm' \in MmState  BY <1>3, <1>4, <1>5 DEF MmState, MmMs
<1>7. mm'.conn = S.conn /\ mm'.sub = S.sub /\ mm'.bad = S.bad  BY <1>3, <1>4 DEF MmState
<1>8. mm'.ms.proved = S.ms.proved  BY <1>3, <1>4 DEF MmState, MmMs
<1>9. MmFine(mm')  BY <1>2, <1>6, <1>7, <1>8 DEF MmFine, Orderly, Pending, Admitted
<1> QED  BY <1>2, <1>4, <1>7, <1>9, QuietProper

\* A new connection starts with nothing proved.
LEMMA MmConnectsStep ==
  ASSUME MmInv, MmConnects PROVE MmFine(mm') /\ Proper(mm, mm') /\ mmEnv' = mmEnv
<1>1. PICK S : S = MmNow  OBVIOUS
<1>2. MmFine(S) /\ S.out = {} /\ S.conn = mm.conn /\ S.sub = mm.sub /\ S.ms = mm.ms /\ S.bad = mm.bad
  BY <1>1, NowFields
<1>3. S \in MmState  BY <1>2 DEF MmFine
<1>4. ~S.conn.up /\ mmEnv' = mmEnv
      /\ mm' = [S EXCEPT !.conn.up = TRUE, !.conn.anchor = TRUE, !.ms.proved = FALSE]
  BY <1>1, <1>2 DEF MmConnects, MmBecomes
<1>5. mm' \in MmState  BY <1>3, <1>4 DEF MmState, MmConn, MmMs
<1>6. mm'.sub = S.sub /\ mm'.bad = S.bad  BY <1>3, <1>4 DEF MmState
<1>7. mm'.conn.up /\ mm'.conn.anchor /\ mm'.conn.loc = S.conn.loc /\ mm'.conn.sec = S.conn.sec
      /\ mm'.conn.alg = S.conn.alg
  BY <1>3, <1>4 DEF MmState, MmConn
<1>8. MmFine(mm')  BY <1>2, <1>4, <1>5, <1>6, <1>7 DEF MmFine, Held, Orderly, Pending, Admitted
<1> QED  BY <1>2, <1>4, <1>6, <1>8, QuietProper

\* An IMSI DETACH.
LEMMA DetachIndStep ==
  ASSUME MmInv, DetachInd PROVE MmFine(mm') /\ Proper(mm, mm') /\ mmEnv' = mmEnv
<1>1. PICK S : S = MmNow  OBVIOUS
<1>2. MmFine(S) /\ S.out = {} /\ S.conn = mm.conn /\ S.sub = mm.sub /\ S.ms = mm.ms /\ S.bad = mm.bad
  BY <1>1, NowFields
<1>3. S \in MmState  BY <1>2 DEF MmFine
<1>4. mm' = gsm48_rx_mm_imsi_detach_ind(S) /\ mmEnv' = mmEnv  BY <1>1 DEF DetachInd, MmBecomes
<1>5. CASE S.sub.known
  <2>1. mm' = [S EXCEPT !.sub.attached = FALSE]
    BY <1>4, <1>5 DEF gsm48_rx_mm_imsi_detach_ind, subscr_update
  <2>2. mm' \in MmState  BY <1>3, <2>1 DEF MmState, MmSub
  <2>3. mm'.conn = S.conn /\ mm'.ms = S.ms /\ mm'.bad = S.bad  BY <1>3, <2>1 DEF MmState
  <2>4. mm'.sub.authorized = S.sub.authorized /\ mm'.sub.first = S.sub.first /\ ~mm'.sub.attached
    BY <1>3, <2>1 DEF MmState, MmSub
  <2>5. MmFine(mm')  BY <1>2, <2>2, <2>3, <2>4 DEF MmFine, Orderly, Pending, Admitted
  <2>6. Proper(mm, mm')  BY <2>4 DEF Proper
  <2> QED  BY <1>4, <2>5, <2>6
<1>6. CASE ~S.sub.known
  <2>1. mm' = S  BY <1>4, <1>6 DEF gsm48_rx_mm_imsi_detach_ind
  <2> QED  BY <1>2, <1>4, <2>1, QuietProper
<1> QED  BY <1>5, <1>6

\* A PAGING RESPONSE.
LEMMA PagRespStep ==
  ASSUME MmInv, PagResp PROVE MmFine(mm') /\ Proper(mm, mm') /\ mmEnv' = mmEnv
<1>1. PICK S : S = MmNow  OBVIOUS
<1>2. MmFine(S) /\ S.out = {} /\ S.conn = mm.conn /\ S.sub = mm.sub /\ S.ms = mm.ms /\ S.bad = mm.bad
  BY <1>1, NowFields
<1>3. S \in MmState  BY <1>2 DEF MmFine
<1>4. mm' = gsm48_rx_rr_pag_resp(S) /\ mmEnv' = mmEnv  BY <1>1 DEF PagResp, MmBecomes
<1>5. CASE S.sub.known
  <2>1. mm' = [S EXCEPT !.conn.subscr = TRUE]  BY <1>4, <1>5 DEF gsm48_rx_rr_pag_resp
  <2>2. mm' \in MmState  BY <1>3, <2>1 DEF MmState, MmConn
  <2>3. mm'.sub = S.sub /\ mm'.ms = S.ms /\ mm'.bad = S.bad  BY <1>3, <2>1 DEF MmState
  <2>4. mm'.conn.up = S.conn.up /\ mm'.conn.loc = S.conn.loc /\ mm'.conn.sec = S.conn.sec
        /\ mm'.conn.alg = S.conn.alg /\ mm'.conn.anchor = S.conn.anchor /\ mm'.conn.users = S.conn.users
    BY <1>3, <2>1 DEF MmState, MmConn
  <2>5. MmFine(mm')  BY <1>2, <2>2, <2>3, <2>4 DEF MmFine, Held, Orderly, Pending, Admitted
  <2> QED  BY <1>2, <1>4, <2>3, <2>5, QuietProper
<1>6. CASE ~S.sub.known
  <2>1. mm' = S  BY <1>4, <1>6 DEF gsm48_rx_rr_pag_resp
  <2> QED  BY <1>2, <1>4, <2>1, QuietProper
<1> QED  BY <1>5, <1>6

\* The answer to an ACCEPT: nothing is being secured then.
LEMMA TmsiReallocComplStep ==
  ASSUME MmInv, TmsiReallocCompl PROVE MmFine(mm') /\ Proper(mm, mm') /\ mmEnv' = mmEnv
<1>1. PICK S : S = MmNow  OBVIOUS
<1>2. MmFine(S) /\ S.out = {} /\ S.conn = mm.conn /\ S.sub = mm.sub /\ S.ms = mm.ms /\ S.bad = mm.bad
  BY <1>1, NowFields
<1>3. S \in MmState  BY <1>2 DEF MmFine
<1>4. S.conn.loc.accepted /\ mmEnv' = mmEnv /\ mm' = release_loc_updating_req(S)
  BY <1>1, <1>2 DEF TmsiReallocCompl, MmBecomes
<1>5. ~MmHas("repeats") => ~S.conn.sec.on  BY <1>2, <1>4 DEF MmFine, Orderly
<1>6. MmFine(mm') /\ mm'.sub = S.sub  BY <1>2, <1>4, <1>5, EndLocFine
<1> QED  BY <1>2, <1>4, <1>6, QuietProper

\* The reject timer: only a slow MS is still securing itself.
LEMMA RejectTimerStep ==
  ASSUME MmInv, RejectTimer PROVE MmFine(mm') /\ Proper(mm, mm') /\ mmEnv' = mmEnv
<1>1. PICK S : S = MmNow  OBVIOUS
<1>2. MmFine(S) /\ S.out = {} /\ S.conn = mm.conn /\ S.sub = mm.sub /\ S.ms = mm.ms /\ S.bad = mm.bad
  BY <1>1, NowFields
<1>3. S \in MmState  BY <1>2 DEF MmFine
<1>4. /\ S.conn.loc.on /\ mmEnv' = mmEnv /\ mm' = loc_upd_rej_cb(S)
      /\ ~MmHas("slow_ms") => ~S.conn.sec.on
  BY <1>1, <1>2 DEF RejectTimer, MmBecomes
<1>5. PICK A : A = MmTx(S, "LU_REJECT")  OBVIOUS
<1>6. "LU_REJECT" \in MmMsgs  BY DEF MmMsgs
<1>7. A \in MmState /\ A.conn = S.conn /\ A.sub = S.sub /\ A.ms = S.ms /\ (S.conn.up => A.bad = S.bad)
  BY <1>3, <1>5, <1>6, TxFields
<1>8. S.conn.up  BY <1>2, <1>4 DEF MmFine
<1>9. MmFine(A)  BY <1>2, <1>7, <1>8 DEF MmFine, Orderly, Pending, Admitted
<1>10. mm' = release_loc_updating_req(A)  BY <1>4, <1>5 DEF loc_upd_rej_cb, gsm0408_loc_upd_rej
<1>11. ~MmHas("repeats") /\ ~MmHas("slow_ms") => ~A.conn.sec.on  BY <1>4, <1>7
<1>12. MmFine(mm') /\ mm'.sub = A.sub  BY <1>9, <1>10, <1>11, EndLocFine
<1> QED  BY <1>2, <1>4, <1>7, <1>12, QuietProper

\* The end of the security operation of a connection that was allowed to go on.
LEMMA EndSecFine ==
  ASSUME NEW S, S \in MmState, S.conn.up, NEW T, T = release_security_operation(S), S.conn.sec.on,
         ~MmHas("repeats") =>
            /\ ~S.bad /\ (S.conn.alg => S.ms.proved)
            /\ S.conn.loc.imsi \/ S.conn.loc.imei \/ S.conn.loc.accepted => S.conn.loc.on
            /\ S.conn.loc.accepted => ~S.conn.loc.imsi /\ ~S.conn.loc.imei
  PROVE  MmFine(T) /\ T.sub = S.sub /\ T.ms = S.ms /\ T.out = S.out
         /\ (~S.conn.loc.imsi => ~T.conn.loc.imsi) /\ (~S.conn.loc.imei => ~T.conn.loc.imei)
<1>1. OnlyConn(S, T) /\ Held(T.conn) /\ (T.conn = Unsecured(S.conn) \/ T.conn = NoMmConn)
  BY ReleaseSecFields
<1>2. T \in MmState /\ T.sub = S.sub /\ T.ms = S.ms /\ T.out = S.out /\ T.bad = S.bad  BY <1>1 DEF OnlyConn
<1>3. CASE T.conn = Unsecured(S.conn)
  <2>1. S.conn \in MmConn  BY Fields
  <2>2. T.conn.up = S.conn.up /\ T.conn.sec = NoSec /\ T.conn.alg = S.conn.alg /\ T.conn.loc = S.conn.loc
    BY <1>3, <2>1, UnsecuredFields
  <2> QED  BY <1>1, <1>2, <2>2 DEF MmFine, Orderly, Pending, NoSec
<1>4. CASE T.conn = NoMmConn
  BY <1>1, <1>2, <1>4 DEF MmFine, Orderly, Pending, NoMmConn, NoLoc, NoSec
<1> QED  BY <1>1, <1>2, <1>3, <1>4

\* A wrong answer: what waited is told, the MS is rejected, the operation ends.
LEMMA AuthFailedFine ==
  ASSUME NEW S, MmFine(S), S.conn.up, S.conn.sec.on, ~S.conn.alg, NEW T, T = gsm48_rx_mm_auth_resp(S, FALSE)
  PROVE  MmFine(T) /\ T.sub = S.sub
<1>1. S \in MmState  BY DEF MmFine
<1>2. PICK B : B = SecCb(S, S.conn.sec.cb, "AUTH_FAILED")  OBVIOUS
<1>3. /\ OnlyConn(S, B) /\ B.conn.up /\ B.conn.sec = S.conn.sec /\ B.conn.alg = S.conn.alg
      /\ B.conn.loc = S.conn.loc \/ B.conn.loc = NoLoc
  <2>1. CASE S.conn.sec.cb = "lu"
    <3>1. B = release_loc_updating_req(S)  BY <1>2, <2>1 DEF SecCb, authorize_sec_cb
    <3>2. OnlyConn(S, B) /\ (~S.conn.loc.on => B = S) /\ (S.conn.loc.on => B.conn = Unlocated(S.conn))
      BY <1>1, <3>1, ReleaseLocFields
    <3>3. CASE ~S.conn.loc.on  BY <3>2, <3>3
    <3>4. CASE S.conn.loc.on
      <4>1. B.conn = Unlocated(S.conn) /\ S.conn \in MmConn  BY <1>1, <3>2, <3>4, Fields
      <4>2. B.conn.up = S.conn.up /\ B.conn.sec = S.conn.sec /\ B.conn.alg = S.conn.alg /\ B.conn.loc = NoLoc
        BY <4>1, UnlocatedFields
      <4> QED  BY <3>2, <4>2
    <3> QED  BY <3>3, <3>4
  <2>2. CASE S.conn.sec.cb # "lu"
    <3>1. B = S  BY <1>2, <2>2 DEF SecCb, rx_mm_serv_req_sec_cb
    <3> QED  BY <1>1, <3>1 DEF OnlyConn
  <2> QED  BY <2>1, <2>2
<1>4. PICK C : C = MmTx(B, "AUTH_REJ")  OBVIOUS
<1>5. "AUTH_REJ" \in MmMsgs  BY DEF MmMsgs
<1>6. C \in MmState /\ C.conn = B.conn /\ C.sub = B.sub /\ C.ms = B.ms /\ C.bad = B.bad
  <2>1. B \in MmState /\ B.conn.up  BY <1>3 DEF OnlyConn
  <2> QED  BY <1>4, <1>5, <2>1, TxFields
<1>7. T = release_security_operation(C)
  BY <1>2, <1>4 DEF gsm48_rx_mm_auth_resp, gsm48_tx_mm_auth_rej
<1>8. ~MmHas("repeats") =>
         /\ ~C.bad /\ ~C.conn.alg
         /\ C.conn.loc.imsi \/ C.conn.loc.imei \/ C.conn.loc.accepted => C.conn.loc.on
         /\ C.conn.loc.accepted => ~C.conn.loc.imsi /\ ~C.conn.loc.imei
  BY <1>3, <1>6 DEF MmFine, Orderly, OnlyConn, NoLoc
<1>9. C.conn.up /\ C.conn.sec.on  BY <1>3, <1>6
<1>10. MmFine(T) /\ T.sub = C.sub  BY <1>6, <1>7, <1>8, <1>9, EndSecFine
<1> QED  BY <1>3, <1>6, <1>10 DEF OnlyConn

\* A right answer: ciphering begins, and the operation goes on.
LEMMA AuthGoodFine ==
  ASSUME NEW S, MmFine(S), S.conn.up, S.conn.sec.on, NEW T, T = gsm48_rx_mm_auth_resp(S, TRUE)
  PROVE  MmFine(T) /\ T.sub = S.sub
<1>1. S \in MmState  BY DEF MmFine
<1>2. PICK B : B = [S EXCEPT !.conn.alg = TRUE, !.conn.key = S.sub.seq]  OBVIOUS
<1>3. B \in MmState  BY <1>1, <1>2 DEF MmState, MmConn, MmSub
<1>4. B.sub = S.sub /\ B.ms = S.ms /\ B.bad = S.bad  BY <1>1, <1>2 DEF MmState
<1>5. B.conn.up = S.conn.up /\ B.conn.loc = S.conn.loc /\ B.conn.sec = S.conn.sec
  BY <1>1, <1>2 DEF MmState, MmConn
<1>6. T = MmTx(B, "CIPH_MODE") /\ "CIPH_MODE" \in MmMsgs
  BY <1>2 DEF gsm48_rx_mm_auth_resp, gsm0808_cipher_mode, MmMsgs
<1>7. T \in MmState /\ T.conn = B.conn /\ T.sub = B.sub /\ T.ms = B.ms /\ (B.conn.up => T.bad = B.bad)
  BY <1>3, <1>6, TxFields, ZenonT(80)
<1>8. Held(T.conn)  BY <1>5, <1>7 DEF Held
<1>9. ~MmHas("repeats") => Orderly(T)  BY <1>4, <1>5, <1>7 DEF MmFine, Orderly
<1>10. ~MmHas("repeats") /\ ~MmHas("slow_ms") => Pending(T)
  BY <1>4, <1>5, <1>7 DEF MmFine, Pending, Admitted
<1>11. MmFine(T)  BY <1>5, <1>7, <1>8, <1>9, <1>10 DEF MmFine
<1> QED  BY <1>4, <1>7, <1>11

\* The MS keeps a key or takes another.
LEMMA KeyFine ==
  ASSUME NEW S, MmFine(S), NEW key \in 0..NumSeq, NEW T, T = [S EXCEPT !.ms.key = key]
  PROVE  MmFine(T) /\ T.sub = S.sub
<1>1. S \in MmState  BY DEF MmFine
<1>2. T \in MmState  BY <1>1 DEF MmState, MmMs
<1>3. T.conn = S.conn /\ T.sub = S.sub /\ T.bad = S.bad  BY <1>1 DEF MmState
<1>4. T.ms.proved = S.ms.proved  BY <1>1 DEF MmState, MmMs
<1> QED  BY <1>2, <1>3, <1>4 DEF MmFine, Orderly, Pending, Admitted

\* An AUTHENTICATION RESPONSE.
LEMMA AuthRespStep ==
  ASSUME MmInv, NEW good \in BOOLEAN, AuthResp(good) PROVE MmFine(mm') /\ Proper(mm, mm') /\ mmEnv' = mmEnv
<1>1. PICK S : S = MmNow  OBVIOUS
<1>2. MmFine(S) /\ S.out = {} /\ S.conn = mm.conn /\ S.sub = mm.sub /\ S.ms = mm.ms /\ S.bad = mm.bad
  BY <1>1, NowFields
<1>3. S \in MmState  BY <1>2 DEF MmFine
<1>4. /\ S.conn.up /\ S.conn.sec.on /\ ~S.conn.alg /\ mmEnv' = mmEnv
  BY <1>2 DEF AuthResp, MmBecomes
<1>5. PICK R : R = gsm48_rx_mm_auth_resp(S, good)  OBVIOUS
<1>6. MmFine(R) /\ R.sub = S.sub
  <2>1. CASE good = TRUE  BY <1>2, <1>4, <1>5, <2>1, AuthGoodFine
  <2>2. CASE good = FALSE  BY <1>2, <1>4, <1>5, <2>2, AuthFailedFine
  <2> QED  BY <2>1, <2>2
<1>7. PICK key : key = IF good THEN mm.sub.seq ELSE R.ms.key  OBVIOUS
<1>8. mm' = [R EXCEPT !.ms.key = key]  BY <1>1, <1>5, <1>7 DEF AuthResp, MmBecomes
<1>9. key \in 0..NumSeq
  <2>1. R \in MmState  BY <1>6 DEF MmFine
  <2>2. mm.sub.seq \in 0..NumSeq  BY <1>2, <1>3 DEF MmState, MmSub
  <2>3. R.ms.key \in 0..NumSeq  BY <2>1 DEF MmState, MmMs
  <2> QED  BY <1>7, <2>2, <2>3
<1>10. MmFine(mm') /\ mm'.sub = R.sub  BY <1>6, <1>8, <1>9, KeyFine
<1> QED  BY <1>2, <1>4, <1>6, <1>10, QuietProper

\* A CIPHERING MODE COMPLETE: the one place where a ciphering network attaches a subscriber.
LEMMA CiphComplStep ==
  ASSUME MmInv, CiphCompl PROVE MmFine(mm') /\ Proper(mm, mm') /\ mmEnv' = mmEnv
<1>1. PICK S : S = MmNow  OBVIOUS
<1>2. MmFine(S) /\ S.out = {} /\ S.conn = mm.conn /\ S.sub = mm.sub /\ S.ms = mm.ms /\ S.bad = mm.bad
  BY <1>1, NowFields
<1>3. S \in MmState  BY <1>2 DEF MmFine
<1>4. S.conn.up /\ S.conn.sec.on /\ mmEnv' = mmEnv /\ mm' = gsm48_rx_rr_ciph_m_compl(S)
  BY <1>1, <1>2 DEF CiphCompl, MmBecomes
<1>5. PICK P : P = [S EXCEPT !.ms.proved = TRUE]  OBVIOUS
<1>6. P \in MmState  BY <1>3, <1>5 DEF MmState, MmMs
<1>7. P.conn = S.conn /\ P.sub = S.sub /\ P.bad = S.bad /\ P.out = S.out  BY <1>3, <1>5 DEF MmState
<1>8. P.ms.proved  BY <1>3, <1>5 DEF MmState, MmMs
<1>9. PICK Q : Q = SecCb(P, S.conn.sec.cb, "SUCCEEDED")  OBVIOUS
<1>10. mm' = release_security_operation(Q)  BY <1>4, <1>5, <1>9 DEF gsm48_rx_rr_ciph_m_compl
<1>11. CASE S.conn.sec.cb = "lu"
  <2>1. Q = authorize_sec_cb(P, "SUCCEEDED")  BY <1>9, <1>11 DEF SecCb
  <2>2. /\ Q \in MmState /\ Q.conn = AcceptedConn(P.conn) /\ Q.ms.proved = P.ms.proved
        /\ Q.out = P.out \cup {"LU_ACCEPT", "MM_INFO"} /\ (P.conn.up => Q.bad = P.bad) /\ Q.sub.first = P.sub.first
    BY <1>6, <2>1, AttachFields
  <2>3. P.conn \in MmConn  BY <1>6, Fields
  <2>4. /\ Q.conn.up = P.conn.up /\ Q.conn.sec = P.conn.sec /\ Q.conn.alg = P.conn.alg
        /\ Q.conn.loc.on = P.conn.loc.on /\ Q.conn.loc.imsi = P.conn.loc.imsi /\ Q.conn.loc.imei = P.conn.loc.imei
        /\ Q.conn.loc.accepted => P.conn.loc.accepted \/ P.conn.loc.on
    BY <2>2, <2>3, AcceptedFields
  <2>5. Q.conn.up /\ Q.conn.sec.on /\ Q.bad = S.bad /\ Q.ms.proved /\ Q.sub.first = S.sub.first
        /\ "LU_ACCEPT" \in Q.out /\ "LU_REJECT" \notin Q.out
    BY <1>2, <1>4, <1>7, <1>8, <2>2, <2>4
  <2>6. ~MmHas("repeats") => ~Q.bad /\ ~Q.conn.loc.imsi /\ ~Q.conn.loc.imei /\ (Q.conn.loc.accepted => Q.conn.loc.on)
    BY <1>2, <1>4, <1>7, <2>4, <2>5 DEF MmFine, Orderly
  <2>7. /\ MmFine(mm') /\ mm'.sub = Q.sub /\ mm'.ms = Q.ms /\ mm'.out = Q.out
        /\ (~Q.conn.loc.imsi => ~mm'.conn.loc.imsi) /\ (~Q.conn.loc.imei => ~mm'.conn.loc.imei)
    BY <1>10, <2>2, <2>5, <2>6, EndSecFine
  <2>8. ~MmHas("slow_ms") /\ ~MmHas("repeats") => S.conn.loc.on /\ Admitted(S)
    BY <1>2, <1>4, <1>11 DEF MmFine, Pending
  <2>9. Proper(mm, mm')
    BY <1>2, <2>5, <2>6, <2>7, <2>8 DEF Proper, Admitted
  <2> QED  BY <1>4, <2>7, <2>9
<1>12. CASE S.conn.sec.cb # "lu"
  <2>1. Q = P  BY <1>9, <1>12 DEF SecCb, rx_mm_serv_req_sec_cb
  <2>2. P.conn.up /\ P.conn.sec.on  BY <1>4, <1>7
  <2>3. ~MmHas("repeats") =>
           /\ ~P.bad
           /\ P.conn.loc.imsi \/ P.conn.loc.imei \/ P.conn.loc.accepted => P.conn.loc.on
           /\ P.conn.loc.accepted => ~P.conn.loc.imsi /\ ~P.conn.loc.imei
    BY <1>2, <1>7 DEF MmFine, Orderly
  <2>4. MmFine(mm') /\ mm'.sub = P.sub  BY <1>6, <1>8, <1>10, <2>1, <2>2, <2>3, EndSecFine
  <2> QED  BY <1>2, <1>4, <1>7, <2>4, QuietProper
<1> QED  BY <1>11, <1>12

-----------------------------------------------------------------------------
(* The theorems *)

\* Every step keeps the invariant and attaches properly.
LEMMA MmStep ==
  ASSUME MmInv, MmNext PROVE MmFine(mm') /\ Proper(mm, mm') /\ mmEnv' = mmEnv
  BY MmConnectsStep, ServReqStep, DetachIndStep, PagRespStep, CiphComplStep, TmsiReallocComplStep,
     RejectTimerStep, AnchorTimerStep, UserStartsStep, UserEndsStep, MmLostStep, AuthorizedStep,
     NewSimStep, LocUpdReqStep, IdRespStep, AuthRespStep, UssdStep
  DEF MmNext

\* The invariant holds at the start.
LEMMA MmInitFine ==
  ASSUME MmInit PROVE MmInv
<1>1. mm \in MmState
  BY MmBoundsAssumption, NothingType DEF MmInit, MmState, MmSub, MmMs, NoKey
<1>2. mm.conn = NoMmConn /\ ~mm.bad  BY DEF MmInit
<1> QED
  BY <1>1, <1>2 DEF MmInit, MmInv, MmFine, Held, Orderly, Pending, NoMmConn, NoLoc, NoSec

\* Of every reachable state: the types; a connection that is gone carries no operation and is not
\* ciphered; one that is up is held by something; the operations on it are in order.
THEOREM MmInvariant == MmSpec => []MmInv
<1>1. MmInit => MmInv  BY MmInitFine
<1>2. MmInv /\ [MmNext]_mmVars => MmInv'
  <2> SUFFICES ASSUME MmInv, [MmNext]_mmVars PROVE MmInv'  OBVIOUS
  <2>1. CASE MmNext
    <3>1. MmFine(mm') /\ mmEnv' = mmEnv  BY <2>1, MmStep
    <3>2. mmEnv' \in MmEnvs  BY <3>1 DEF MmInv
    <3> QED  BY <3>1, <3>2 DEF MmInv, MmFine, MmHas, Orderly, Pending, Admitted
  <2>2. CASE UNCHANGED mmVars
    BY <2>2 DEF mmVars, MmInv, MmFine, MmHas, Held, Orderly, Pending, Admitted
  <2> QED  BY <2>1, <2>2
<1> QED  BY <1>1, <1>2, PTL DEF MmSpec

\* IdleReleased: msc_release_connection() is reached by whatever lets go of the connection last.
THEOREM IdleReleasedHolds == MmSpec => []IdleReleased
<1>1. MmInv => IdleReleased  BY DEF MmInv, MmFine, Held, IdleReleased
<1> QED  BY <1>1, MmInvariant, PTL

\* MmPointersGood: no handler reads an operation or sends on a connection that is gone.
THEOREM MmPointersGoodHolds == MmSpec => []MmPointersGood
<1>1. MmInv => MmPointersGood  BY DEF MmInv, MmFine, Orderly, MmPointersGood
<1> QED  BY <1>1, MmInvariant, PTL

\* MmTypeOK.
THEOREM MmTypeCorrect == MmSpec => []MmTypeOK
<1>1. MmInv => MmTypeOK  BY DEF MmInv, MmFine, MmState, MmTypeOK
<1> QED  BY <1>1, MmInvariant, PTL

\* AttachedProperly: the policy, the identities and the ciphering come before the attachment.
THEOREM AttachedProperlyHolds == MmSpec => AttachedProperly
<1>1. MmInv /\ [MmNext]_mmVars => [Proper(mm, mm')]_mmVars  BY MmStep
<1> QED  BY <1>1, MmInvariant, PTL DEF MmSpec, AttachedProperly, Proper

=============================================================================
