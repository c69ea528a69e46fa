---------------------------------- MODULE Oml ----------------------------------
(***************************************************************************)
(* Operation and maintenance of a base station (abis_nm.c): commands wait  *)
(* in a queue for the answer to the one before; the state of the managed   *)
(* objects is kept as it is reported, and the reports drive the bring-up   *)
(* of a nanoBTS (bts_ipaccess_nanobts.c), whose signalling links come and  *)
(* go (bsc_init.c).  A BS-11 is set up by one list of commands             *)
(* (bts_siemens_bs11.c), or worked on by a tool (bs11_config.c) that also  *)
(* loads software.                                                         *)
(*                                                                         *)
(* A program state is a record and a function of the code an operator on   *)
(* it.  A message has a kind k, a type, an object, a value, whether the    *)
(* sender waits for an answer (w) and the link it is for (dst).            *)
(***************************************************************************)
EXTENDS Integers, Sequences, FiniteSets, SequencesExt

CONSTANTS
    OmMaxLink,      \* OML links in a run
    OmMaxQueue,     \* waiting commands beyond which the operator gives no more
    OmFiles,        \* software files: the number of segments of each
    OmEnvs          \* the surroundings to consider

OmFaults == {
    "lossy",        \* the links are lost
    "nack",         \* the base station refuses commands
    "rsl_again",    \* it opens its RSL link anew and keeps the OML link
    "any_order",    \* its timeslots report in any order
    "locks",        \* the operator locks and unlocks the carrier
    "hasty",        \* and does not wait for the answer
    "load",         \* software is loaded into a nanoBTS
    "second_load",  \* twice
    "abort",        \* the base station aborts a load
    "closes"}       \* the program ends in an orderly way, or is interrupted
OmObj == {"SITE_MANAGER", "BTS", "BASEB_TRANSC", "RADIO_CARRIER", "TS0", "TS1", "NSE", "CELL", "NSVC"}
OmEnv == [kind : {"nano", "bs11", "tool"}, obj : SUBSET OmObj, faults : SUBSET OmFaults,
          ts1 : {"SDCCH", "SDCCH_CBCH", "TCHFull"},                   \* how TS1 is configured
          cell : SUBSET Nat, hop : SUBSET Nat,                       \* cell allocation, hopping of a timeslot
          win : Nat \ {0},                                           \* win_size of a software load
          command : STRING, disc : BOOLEAN, restart : BOOLEAN, forced : BOOLEAN, phase : STRING]  \* the tool

ASSUME OmBounds == {OmMaxLink, OmMaxQueue} \subseteq Nat \ {0} /\ OmFiles \in Seq(Nat \ {0})
ASSUME OmEnvAssumption == OmEnvs \subseteq OmEnv

VARIABLES om, omEnv
omVars == <<om, omEnv>>
OmHas(f) == f \in omEnv.faults
OmNano == omEnv.kind = "nano"

(* The state of a program that has just been started. *)
gsm_abis_mo_reset(n) == [n EXCEPT !.op = "NULL", !.av = "POWER_OFF"]
gsm_bts_trx_alloc == [o \in OmObj |-> [op |-> "NULL", av |-> "POWER_OFF", adm |-> IF o = "RADIO_CARRIER" THEN "UNLOCKED" ELSE "NONE"]]
abis_nm_sw == [state |-> "NONE", file |-> 1, pos |-> 0, seg_in_window |-> 0, last_seg |-> FALSE, cb |-> "NONE"]
OmNew == [adm |-> "LOCKED", st |-> "NEW", attr |-> FALSE]             \* an object in the base station
bsc_bootstrap_network(env) ==
    [oml |-> 0, gens |-> 0, flags |-> {}, rsl |-> FALSE, queue |-> <<>>, pend |-> FALSE,
     nm |-> gsm_bts_trx_alloc, comb |-> [o \in {"TS0", "TS1"} |-> "NONE"], ma |-> {},
     sw |-> abis_nm_sw, file_list |-> <<>>,
     state |-> "NONE", command |-> env.command, disc |-> env.disc, restart |-> env.restart, timer |-> FALSE, sigint |-> 0,
     dead |-> FALSE,                                                   \* the program has ended
     \* the base station, the links and the operator
     toBts |-> <<>>, toBsc |-> <<>>, b |-> [o \in OmObj |-> OmNew], rslReq |-> FALSE, talked |-> FALSE, si |-> FALSE,
     ld |-> [file |-> 1, got |-> 0, inwin |-> 0], loads |-> 0, phase |-> env.phase, wish |-> "UNLOCKED",
     \* for the properties: a freed link was used, a load ended too early, the RSL links on this OML link
     uaf |-> FALSE, short |-> FALSE, rsls |-> 0]

(* Messages and the queue. *)
fill_om_fom_hdr(mt, o, v) == [k |-> "CMD", mt |-> mt, o |-> o, v |-> v, w |-> TRUE, dst |-> 0]
OmAnswer(k, m) == [m EXCEPT !.k = k]
OmReport(mt, o, v) == [fill_om_fom_hdr(mt, o, v) EXCEPT !.k = "REP"]
\* _abis_nm_sendmsg: without a link the message goes nowhere.
transmit(s, ms) == [s EXCEPT !.toBts = @ \o SelectSeq(ms, LAMBDA m : m.dst # 0), !.uaf = @ \/ \E i \in DOMAIN ms : ms[i].dst \notin {0, s.oml}]
abis_nm_queue_msg(s, m) ==
    LET n == [m EXCEPT !.dst = s.oml] IN
    IF s.queue = <<>> /\ ~s.pend THEN transmit([s EXCEPT !.pend = n.w], <<n>>)
    ELSE [s EXCEPT !.queue = Append(@, n)]
abis_nm_sendmsg(s, m) == abis_nm_queue_msg(s, m)
abis_nm_sendmsg_direct(s, m) == abis_nm_queue_msg(s, [m EXCEPT !.w = FALSE])
\* abis_nm_sendmsg one after the other: each wants an answer, so all but the first are queued.
OmSend(s, ms) ==
    LET t == abis_nm_sendmsg(s, Head(ms)) IN [t EXCEPT !.queue = @ \o [i \in 1..Len(ms) - 1 |-> [ms[i + 1] EXCEPT !.dst = s.oml]]]
\* What is sent now: up to the first message that wants an answer.
OmBurst(q) == LET W == {i \in DOMAIN q : q[i].w} IN IF W = {} THEN Len(q) ELSE CHOOSE i \in W : \A j \in W : i <= j
abis_nm_queue_send_next(s) ==
    LET n == OmBurst(s.queue) IN
    transmit([s EXCEPT !.queue = SubSeq(@, n + 1, Len(@)), !.pend = n > 0 /\ s.queue[n].w], SubSeq(s.queue, 1, n))
\* Mutant: the program still waits for the answer of the lost link.
abis_nm_clear_queue_keeps(s) == [s EXCEPT !.queue = <<>>]
abis_nm_clear_queue(s) == [s EXCEPT !.queue = <<>>, !.pend = FALSE]

abis_nm_opstart(o) == fill_om_fom_hdr("OPSTART", o, "")
abis_nm_chg_adm_state(o, v) == fill_om_fom_hdr("CHG_ADM_STATE", o, v)
abis_nm_set_bts_attr == fill_om_fom_hdr("SET_BTS_ATTR", "BTS", "")
abis_nm_set_radio_attr == fill_om_fom_hdr("SET_RADIO_ATTR", "RADIO_CARRIER", "")
abis_nm_sw_act_req_ack(o) == OmAnswer("ACK", fill_om_fom_hdr("SW_ACT_REQ", o, ""))
ipacc_sw_activate(o) == fill_om_fom_hdr("ACTIVATE_SW", o, "")
abis_nm_ipaccess_msg(mt, o) == fill_om_fom_hdr(mt, o, "")
abis_nm_ipaccess_set_attr(o) == abis_nm_ipaccess_msg("IPACC_SET_ATTR", o)
abis_nm_ipaccess_rsl_connect == abis_nm_ipaccess_msg("IPACC_RSL_CONNECT", "BASEB_TRANSC")
\* How a timeslot is configured; a nanoBTS wants a CBCH in TS1 only next to an uncombined BCCH already set.
OmComb(o) == IF o = "TS0" THEN "mainBCCH" ELSE omEnv.ts1
verify_chan_comb(s, o) ==
    CASE OmComb(o) = "SDCCH_CBCH" /\ OmNano -> s.comb["TS0"] = "mainBCCH"
      [] OmComb(o) = "SDCCH" /\ ~OmNano -> \A p \in {"TS0", "TS1"} \ {o} : s.comb[p] # "SDCCH"
      [] OTHER -> TRUE
abis_nm_set_channel_attr(s, o) ==
    IF verify_chan_comb(s, o) THEN abis_nm_sendmsg([s EXCEPT !.comb[o] = OmComb(o)], fill_om_fom_hdr("SET_CHAN_ATTR", o, "")) ELSE s

(* Bring-up of a nanoBTS: what a changed state, and activated software, set off. *)
nm_statechg_event(s, o, n) ==
    CASE ~OmNano -> s
      [] o = "SITE_MANAGER" /\ <<n.op, n.av>> \in {<<"ENABLED", "OK">>, <<"DISABLED", "OFF_LINE">>} -> abis_nm_sendmsg(s, abis_nm_opstart(o))
      [] o = "BTS" /\ n.av = "DEPENDENCY" -> OmSend(s, <<abis_nm_set_bts_attr, abis_nm_chg_adm_state(o, "UNLOCKED"), abis_nm_opstart(o)>>)
      [] o \in {"TS0", "TS1"} /\ n.op = "DISABLED" /\ n.av = "DEPENDENCY" ->
            OmSend(abis_nm_set_channel_attr(s, o), <<abis_nm_chg_adm_state(o, "UNLOCKED"), abis_nm_opstart(o)>>)
      [] o = "RADIO_CARRIER" /\ n.op = "DISABLED" /\ n.av = "OK" -> abis_nm_sendmsg(s, abis_nm_opstart(o))
      [] o = "NSE" /\ n.av = "DEPENDENCY" -> OmSend(s, <<abis_nm_ipaccess_set_attr(o), abis_nm_opstart(o)>>)
      [] o = "CELL" /\ n.av = "DEPENDENCY" -> OmSend(s, <<abis_nm_ipaccess_set_attr(o), abis_nm_opstart(o),
                                                abis_nm_chg_adm_state(o, "UNLOCKED"), abis_nm_chg_adm_state("NSE", "UNLOCKED")>>)
      [] o = "NSVC" /\ n.av = "OFF_LINE" -> OmSend(s, <<abis_nm_ipaccess_set_attr(o), abis_nm_opstart(o), abis_nm_chg_adm_state(o, "UNLOCKED")>>)
      [] OTHER -> s
\* The carrier is given the administrative state the program remembers for it.
sw_activ_rep(s, o) ==
    CASE OmNano /\ o = "BASEB_TRANSC" -> OmSend(s, <<abis_nm_chg_adm_state(o, "UNLOCKED"), abis_nm_opstart(o), abis_nm_ipaccess_rsl_connect>>)
      [] OmNano /\ o = "RADIO_CARRIER" -> OmSend(s, <<abis_nm_set_radio_attr, abis_nm_chg_adm_state(o, s.nm[o].adm), abis_nm_opstart(o)>>)
      [] OTHER -> s
update_admstate(s, o, v) == [s EXCEPT !.nm[o].adm = v]
nm_is_running(n) == n.op = "ENABLED" /\ n.av \in {"OK", "NONE"}
\* A report of what is known already sets nothing off.  (Reports carry no administrative state here.)
abis_nm_rx_statechg_rep(s, o, v) ==
    LET n == [s.nm[o] EXCEPT !.op = v[1], !.av = v[2]] IN
    IF n = s.nm[o] THEN s ELSE [nm_statechg_event(s, o, n) EXCEPT !.nm[o] = n]
abis_nm_rx_sw_act_req(s, o) == abis_nm_sendmsg(abis_nm_sendmsg_direct(s, abis_nm_sw_act_req_ack(o)), ipacc_sw_activate(o))
gsm_trx_lock_rf(s, v) ==
    LET t == [s EXCEPT !.nm["RADIO_CARRIER"].adm = v] IN
    IF s.oml = 0 THEN t ELSE abis_nm_sendmsg(t, abis_nm_chg_adm_state("RADIO_CARRIER", v))

(* Links of a nanoBTS. *)
\* The mobile allocation of a timeslot as a set of bit positions: the bits run backwards, ARFCN 0 comes last.
generate_ma_for_ts(cell, hop) ==
    LET nz == cell \ {0}
        len == (Cardinality(nz) + 7) \div 8
        rank(i) == Cardinality({j \in nz : j < i})
    IN {len * 8 - 1 - rank(i) : i \in hop \cap nz} \cup (IF 0 \in cell \cap hop THEN {len * 8 - 2 - Cardinality(nz)} ELSE {})
\* generate_and_rsl_si for every type: the base station has what it broadcasts.
set_system_infos(s) == [s EXCEPT !.si = TRUE]
\* S_L_INP_TEI_UP of an OML link computes the allocations, that of an RSL link does so again.
OmMa(s) == [s EXCEPT !.ma = generate_ma_for_ts(omEnv.cell, omEnv.hop)]
bootstrap_rsl(s) == OmMa(set_system_infos(s))
\* Mutant: the states of the objects stay as they were.
gsm_bts_mo_reset_none(s) == s
gsm_bts_mo_reset(s) == [s EXCEPT !.nm = [o \in OmObj |-> gsm_abis_mo_reset(s.nm[o])]]
\* S_L_INP_TEI_DN, of either link.
inp_sig_cb(s) == abis_nm_clear_queue(gsm_bts_mo_reset(s))
\* Destroying a link closes its connection and reports it down.  RSL_UP stays set when only the RSL link goes.
ipaccess_drop_rsl(s) == IF s.rsl THEN [inp_sig_cb(s) EXCEPT !.rsl = FALSE, !.si = FALSE, !.talked = FALSE] ELSE s
e1inp_sign_link_destroy(s) == [inp_sig_cb(s) EXCEPT !.toBts = <<>>, !.toBsc = <<>>]
\* Mutant: the flags of the RSL set-up stay.
ipaccess_drop_oml_flags(s) == IF s.oml = 0 THEN s ELSE ipaccess_drop_rsl([e1inp_sign_link_destroy(s) EXCEPT !.oml = 0])
ipaccess_drop_oml(s) ==
    IF s.oml = 0 THEN s
    ELSE [ipaccess_drop_rsl([e1inp_sign_link_destroy(s) EXCEPT !.oml = 0]) EXCEPT !.flags = {}]
ipaccess_sign_link_up(s, type) ==
    CASE type = "OML" -> [ipaccess_drop_oml(s) EXCEPT !.oml = s.gens + 1, !.gens = s.gens + 1]
      [] type = "RSL" /\ s.oml # 0 -> [ipaccess_drop_rsl(s) EXCEPT !.rsl = TRUE]
      [] OTHER -> s
ipaccess_sign_link_down(s) == ipaccess_drop_oml(s)
\* The first message of a link tells that it is up.
ipaccess_sign_link(s, type) ==
    IF type \in s.flags THEN s
    ELSE [(IF type = "RSL" THEN bootstrap_rsl(s) ELSE OmMa(s)) EXCEPT !.flags = @ \cup {type}]
\* (The links of the other nanoBTSs go as well; there is one here.)
oml_msg_nack(s, m) == IF m.mt = "SET_BTS_ATTR" THEN [s EXCEPT !.dead = TRUE]
                      ELSE IF OmNano THEN ipaccess_drop_oml(s) ELSE s

(* Software load.  g_sw is one for the whole program. *)
sw_load_init(s) == abis_nm_sendmsg(s, fill_om_fom_hdr("LOAD_INIT", "SITE_MANAGER", s.sw.file))
\* Mutant: the line before the last one is taken for it.
is_last_line_early(s) == s.sw.pos + 2 >= OmFiles[s.sw.file]
is_last_line(s) == s.sw.pos + 1 = OmFiles[s.sw.file]
\* last_seg is computed for each line of a BS-11 file; for a nanoBTS it is only ever set.
sw_load_segment(s) ==
    LET short == is_last_line(s)
        last == IF OmNano THEN s.sw.last_seg \/ short ELSE short
    IN abis_nm_sendmsg_direct([s EXCEPT !.sw.pos = @ + 1, !.sw.last_seg = last,
                                        !.sw.seg_in_window = IF last /\ ~OmNano THEN @ ELSE @ + 1],
                              fill_om_fom_hdr("LOAD_SEG", "SITE_MANAGER", short))
sw_fill_window(s) ==
    FoldLeft(LAMBDA t, i : IF t.sw.seg_in_window < omEnv.win /\ t.sw.pos < OmFiles[t.sw.file] /\ (i = 1 \/ ~t.sw.last_seg)
                           THEN sw_load_segment(t) ELSE t, s, [i \in 1..omEnv.win |-> i])
sw_load_end(s) == abis_nm_sendmsg(s, fill_om_fom_hdr("LOAD_END", "SITE_MANAGER", s.sw.file))
sw_activate(s) == abis_nm_sendmsg(s, fill_om_fom_hdr("ACTIVATE_SW", "SITE_MANAGER", s.sw.file))
abis_nm_software_load(s, f, cb) ==
    IF s.sw.state # "NONE" THEN s
    ELSE sw_load_init([s EXCEPT !.sw.state = "WAIT_INITACK", !.sw.file = f, !.sw.pos = 0, !.sw.cb = cb])
abis_nm_software_activate(s, f, cb) ==
    IF s.sw.state # "NONE" THEN s
    ELSE sw_activate([s EXCEPT !.sw.state = "WAIT_ACTACK", !.sw.file = f, !.sw.cb = cb])
\* The tool's callback; a safety load is activated when it has ended, a refusal ends the tool.
swload_cbfn(s, ev, safety) ==
    CASE ev \in {<<"LOAD_INIT", "NACK">>, <<"LOAD_END", "NACK">>, <<"ACTIVATE_SW", "NACK">>} -> [s EXCEPT !.dead = TRUE]
      [] ev = <<"LOAD_END", "ACK">> /\ safety -> abis_nm_software_activate(s, s.sw.file, "SAFETY")
      [] ev = <<"ACTIVATE_SW", "ACK">> -> [s EXCEPT !.state = "NONE"]
      [] OTHER -> s
\* The files of a list, one after the other, then the list itself is activated.
bs11_swload_cbfn(s, ev) ==
    CASE ev = <<"LOAD_END", "ACK">> /\ s.file_list # <<>> -> abis_nm_software_load([s EXCEPT !.file_list = Tail(@)], Head(s.file_list), "SWL")
      [] ev = <<"LOAD_END", "ACK">> /\ s.file_list = <<>> -> abis_nm_software_activate(s, 1, "SWL")
      [] OTHER -> swload_cbfn(s, ev, FALSE)
cbfn(s, ev) == CASE s.sw.cb = "SWL" -> bs11_swload_cbfn(s, ev)
                 [] s.sw.cb = "SAFETY" -> swload_cbfn(s, ev, TRUE)
                 [] OTHER -> s
bs11_read_swl_file(s) == [s EXCEPT !.file_list = [i \in DOMAIN OmFiles |-> i]]
abis_nm_bs11_load_swl(s) ==
    LET t == bs11_read_swl_file(s) IN abis_nm_software_load([t EXCEPT !.file_list = Tail(@)], Head(t.file_list), "SWL")
abis_nm_rcvmsg_sw(s, m) ==
    LET ev == <<m.mt, m.k>>
        st(t, v) == [t EXCEPT !.sw.state = v]
        next(t) == abis_nm_queue_send_next(t)
        at(v, e) == s.sw.state \in v /\ ev = e
    IN CASE at({"WAIT_INITACK"}, <<"LOAD_INIT", "ACK">>) \/ (at({"WAIT_INITACK"}, <<"LOAD_INIT", "NACK">>) /\ omEnv.forced) ->
                next(st(sw_fill_window(cbfn(s, <<"LOAD_INIT", "ACK">>)), "WAIT_SEGACK"))
         [] at({"WAIT_INITACK"}, <<"LOAD_INIT", "NACK">>) /\ ~omEnv.forced -> next(st(cbfn(s, ev), "ERROR"))
         [] at({"WAIT_SEGACK"}, <<"LOAD_SEG", "ACK">>) /\ ~s.sw.last_seg -> next(sw_fill_window([cbfn(s, ev) EXCEPT !.sw.seg_in_window = 0]))
         [] at({"WAIT_SEGACK"}, <<"LOAD_SEG", "ACK">>) /\ s.sw.last_seg ->
                next(sw_load_end(st([cbfn(s, ev) EXCEPT !.sw.seg_in_window = 0], "WAIT_ENDACK")))
         [] at({"WAIT_SEGACK"}, <<"LOAD_ABORT", "REP">>) -> cbfn(s, ev)
         [] at({"WAIT_ENDACK"}, <<"LOAD_END", "ACK">>) \/ (at({"WAIT_ENDACK"}, <<"LOAD_END", "NACK">>) /\ omEnv.forced) -> next(cbfn(st(s, "NONE"), <<"LOAD_END", "ACK">>))
         [] at({"WAIT_ENDACK"}, <<"LOAD_END", "NACK">>) /\ ~omEnv.forced -> next(cbfn(st(s, "ERROR"), ev))
         [] at({"WAIT_ENDACK", "WAIT_ACTACK"}, <<"ACTIVATE_SW", "ACK">>) -> next(cbfn(st(s, "NONE"), ev))
         [] at({"WAIT_ENDACK", "WAIT_ACTACK"}, <<"ACTIVATE_SW", "NACK">>) -> next(cbfn(st(s, "ERROR"), ev))
         [] OTHER -> s

(* Messages from the base station. *)
abis_nm_rcvmsg_report(s, m) ==
    CASE m.mt = "STATECHG_EVENT" -> abis_nm_rx_statechg_rep(s, m.o, m.v)
      [] m.mt = "SW_ACTIVATED" -> sw_activ_rep(s, m.o)
      [] OTHER -> s
abis_nm_ipacc_msgs == {"IPACC_SET_ATTR", "IPACC_RSL_CONNECT"}
abis_nm_sw_load_msgs == {"LOAD_INIT", "LOAD_SEG", "LOAD_END", "LOAD_ABORT", "ACTIVATE_SW"}
\* After a refusal the link is gone, and is used once more to find the queue.
abis_nm_rcvmsg_fom(s, m) ==
    CASE m.mt \in abis_nm_sw_load_msgs -> abis_nm_rcvmsg_sw(s, m)
      [] m.k = "REP" /\ m.mt # "LOAD_ABORT" -> abis_nm_rcvmsg_report(s, m)
      [] m.k = "NACK" /\ m.mt \notin abis_nm_ipacc_msgs ->
            LET t == oml_msg_nack(s, m) IN
            IF t.dead THEN t ELSE abis_nm_queue_send_next([t EXCEPT !.uaf = @ \/ t.oml = 0])
      [] m.k = "ACK" /\ m.mt = "CHG_ADM_STATE" /\ m.o \in OmObj -> abis_nm_queue_send_next(update_admstate(s, m.o, m.v))
      [] m.k = "CMD" /\ m.mt = "SW_ACT_REQ" -> abis_nm_queue_send_next(abis_nm_rx_sw_act_req(s, m.o))
      [] OTHER -> abis_nm_queue_send_next(s)     \* also abis_nm_rcvmsg_manuf, whose answers change nothing
abis_nm_rcvmsg(s, m) == abis_nm_rcvmsg_fom(IF OmNano THEN ipaccess_sign_link(s, "OML") ELSE s, m)

(* A BS-11 is set up, and shut down, by a list of commands. *)
simple_cmd(mt) == fill_om_fom_hdr(mt, "SITE_MANAGER", "")
abis_nm_raw_msg(mt) == simple_cmd(mt)
abis_nm_event_reports(on) == simple_cmd(IF on THEN "REST_EVENT_REP" ELSE "STOP_EVENT_REP")
abis_nm_bs11_db_transmission(begin) == simple_cmd(IF begin THEN "BEGIN_DB_TX" ELSE "END_DB_TX")
abis_nm_bs11_reset_resource == simple_cmd("RESET_RESOURCE")
abis_nm_conn_terr_sign == fill_om_fom_hdr("CONN_TERR_SIGN", "RADIO_CARRIER", "")
abis_nm_establish_tei == fill_om_fom_hdr("ESTABLISH_TEI", "RADIO_CARRIER", "")
abis_nm_conn_terr_traf(o) == fill_om_fom_hdr("CONN_TERR_TRAF", o, "")
nm_reconfig_ts(s, o) ==
    LET t == abis_nm_set_channel_attr(s, o) IN IF OmComb(o) = "TCHFull" THEN abis_nm_sendmsg(t, abis_nm_conn_terr_traf(o)) ELSE t
nm_reconfig_trx(s) ==
    FoldLeft(nm_reconfig_ts, OmSend(s, <<abis_nm_conn_terr_sign, abis_nm_establish_tei, abis_nm_set_radio_attr>>), <<"TS0", "TS1">>)
nm_reconfig_bts(s) ==
    nm_reconfig_trx(OmSend(s, <<abis_nm_raw_msg("SITE_MGR_ATTR"), abis_nm_set_bts_attr, abis_nm_raw_msg("HANDOVER_ATTR"), abis_nm_raw_msg("POWER_ATTR")>>))
shutdown_om(s) == OmSend(s, <<abis_nm_event_reports(FALSE), abis_nm_bs11_db_transmission(TRUE), abis_nm_bs11_db_transmission(FALSE), abis_nm_bs11_reset_resource>>)
bootstrap_om_bs11(s) ==
    OmSend(nm_reconfig_bts(abis_nm_sendmsg(shutdown_om(s), abis_nm_bs11_db_transmission(TRUE))),
           <<abis_nm_bs11_db_transmission(FALSE), abis_nm_bs11_reset_resource, abis_nm_event_reports(TRUE)>>)

(* The BS-11 configuration tool: logs on, asks for the state of the base station and acts on it. *)
abis_nm_bs11_logon(on) == fill_om_fom_hdr(IF on THEN "LMT_LOGON" ELSE "LMT_LOGOFF", "BS11", "")
abis_nm_bs11_factory_logon(on) == abis_nm_bs11_logon(on)
abis_nm_bs11_infield_logon(on) == abis_nm_bs11_logon(on)
abis_nm_bs11_get_state == simple_cmd("GET_STATE")
abis_nm_bs11_bsc_disconnect(reconnect) == simple_cmd(IF reconnect THEN "RECONNECT" ELSE "DISCONNECT")
abis_nm_bs11_restart == simple_cmd("RESTART")
abis_nm_bs11_create_object(o) == fill_om_fom_hdr("CREATE_OBJ", "BS11", o)
abis_nm_bs11_create_envaBTSE(i) == fill_om_fom_hdr("CREATE_OBJ", "BS11", i)
abis_nm_bs11_create_bport(i) == fill_om_fom_hdr("CREATE_OBJ", "BPORT", i)
abis_nm_bs11_delete_object(o) == fill_om_fom_hdr("DELETE_OBJ", "BS11", o)
abis_nm_bs11_delete_bport(i) == fill_om_fom_hdr("DELETE_OBJ", "BPORT", i)
bs11_set(a) == fill_om_fom_hdr("SET_ATTR", "BS11", a)
bs11_get(a) == fill_om_fom_hdr("GET_ATTR", "BS11", a)
abis_nm_bs11_conn_oml_tei == bs11_set("OML_TEI")
abis_nm_bs11_set_trx_power == bs11_set("TRX_POWER")
abis_nm_bs11_set_trx1_pw == bs11_set("PASSWORD")
abis_nm_bs11_set_pll_locked == bs11_set("PLL_MODE")
abis_nm_bs11_set_pll == bs11_set("PLL")
abis_nm_bs11_set_bport_line_cfg(i) == bs11_set("LINE_CFG")
abis_nm_bs11_get_serno == bs11_get("SERNO")
abis_nm_bs11_get_oml_tei_ts == bs11_get("OML_TEI")
abis_nm_bs11_get_pll_mode == bs11_get("PLL_MODE")
abis_nm_bs11_get_cclk == bs11_get("CCLK")
abis_nm_bs11_get_trx_power == bs11_get("TRX_POWER")
abis_nm_bs11_get_bport_line_cfg(i) == bs11_get("LINE_CFG")
create_objects(s) ==
    OmSend(s, <<abis_nm_bs11_create_object("LI"), abis_nm_bs11_create_object("GPSU"), abis_nm_bs11_create_object("ALCO"),
                abis_nm_bs11_create_object("CCLK"), abis_nm_bs11_create_object("BBSIG"), abis_nm_bs11_create_object("PA"),
                abis_nm_bs11_create_envaBTSE(0), abis_nm_bs11_create_envaBTSE(1), abis_nm_bs11_create_envaBTSE(2), abis_nm_bs11_create_envaBTSE(3),
                abis_nm_bs11_conn_oml_tei, abis_nm_bs11_set_trx_power, abis_nm_bs11_set_trx1_pw>>)
create_trx1 == <<abis_nm_bs11_set_trx1_pw, abis_nm_bs11_create_object("BBSIG"), abis_nm_bs11_create_object("PA"), abis_nm_bs11_set_trx_power>>
cmd_query(s) ==
    OmSend([s EXCEPT !.state = "QUERY", !.command = ""],
           <<abis_nm_bs11_get_serno, abis_nm_bs11_get_oml_tei_ts, abis_nm_bs11_get_pll_mode, abis_nm_bs11_get_cclk, abis_nm_bs11_get_trx_power,
             abis_nm_bs11_get_bport_line_cfg(0), abis_nm_bs11_get_bport_line_cfg(1), abis_nm_bs11_factory_logon(FALSE)>>)
\* What the tool sends for a command, and whether it then logs off.
ToolCmd(c) ==
    CASE c = "delete-trx1" -> <<abis_nm_chg_adm_state("BBSIG", "LOCKED"), abis_nm_chg_adm_state("PA", "LOCKED"),
                                abis_nm_bs11_delete_object("BBSIG"), abis_nm_bs11_delete_object("PA")>>
      [] c = "create-trx1" -> create_trx1
      [] c \in {"pll-e1-locked", "pll-standalone"} -> <<abis_nm_bs11_set_pll_locked>>
      [] c = "pll-setvalue" -> <<abis_nm_bs11_set_pll>>
      [] c = "create-bport1" -> <<abis_nm_bs11_create_bport(1)>>
      [] c = "delete-bport1" -> <<abis_nm_chg_adm_state("BPORT", "LOCKED"), abis_nm_bs11_delete_bport(1)>>
      [] c \in {"bport0-star", "bport0-multidrop", "bport1-multidrop"} -> <<abis_nm_bs11_set_bport_line_cfg(0)>>
ToolLogsOff == {"delete-trx1", "create-trx1", "pll-e1-locked", "pll-standalone", "pll-setvalue", "create-bport1", "delete-bport1",
                "bport0-star", "bport0-multidrop", "bport1-multidrop"}
InMaintenance(s, c) ==
    LET done == [s EXCEPT !.command = ""] IN
    CASE c = "disconnect" -> abis_nm_sendmsg(s, abis_nm_bs11_factory_logon(FALSE))
      [] c = "reconnect" -> abis_nm_sendmsg(s, abis_nm_bs11_bsc_disconnect(TRUE))
      [] c = "software" /\ s.state # "SWLOAD" -> abis_nm_bs11_load_swl([s EXCEPT !.state = "SWLOAD"])
      [] c \in ToolLogsOff -> OmSend(done, ToolCmd(c) \o <<abis_nm_bs11_factory_logon(FALSE)>>)
      [] c = "pll-workvalue" -> OmSend(done, <<abis_nm_bs11_factory_logon(FALSE), abis_nm_bs11_infield_logon(TRUE), abis_nm_bs11_set_pll, abis_nm_bs11_infield_logon(FALSE)>>)
      [] c = "oml-tei" -> abis_nm_sendmsg(done, abis_nm_bs11_conn_oml_tei)
      [] c = "restart" -> abis_nm_sendmsg(done, abis_nm_bs11_restart)
      [] c = "query" -> cmd_query(s)
      [] OTHER -> s
InNormal(s, c) ==
    CASE c = "reconnect" -> abis_nm_sendmsg(s, abis_nm_bs11_factory_logon(FALSE))
      [] c = "disconnect" -> abis_nm_sendmsg(s, abis_nm_bs11_bsc_disconnect(FALSE))
      [] c = "query" -> cmd_query(s)
      [] c = "" /\ s.disc -> OmSend([s EXCEPT !.disc = FALSE, !.restart = FALSE],
                                    <<abis_nm_bs11_bsc_disconnect(FALSE)>> \o (IF s.restart THEN <<abis_nm_bs11_restart>> ELSE <<>>))
      [] OTHER -> s
handle_state_resp(s, phase) ==
    CASE phase = "SOFTWARE_RQD" -> abis_nm_software_load([s EXCEPT !.state = "SWLOAD"], Len(OmFiles), "SAFETY")
      [] phase = "WAIT_MIN_CFG" -> create_objects([s EXCEPT !.state = "SWLOAD"])
      [] phase = "MAINTENANCE" -> InMaintenance(s, s.command)
      [] phase = "NORMAL" -> InNormal(s, s.command)
      [] OTHER -> s
tool_msgs == {"LMT_LOGON", "LMT_LOGOFF", "GET_STATE", "GET_ATTR", "SET_ATTR", "CREATE_OBJ", "DELETE_OBJ"}
abis_nm_bs11cfg_rcvmsg(s, m) ==
    LET t == CASE m.mt = "LMT_LOGON" -> abis_nm_sendmsg([s EXCEPT !.state = IF @ = "NONE" THEN "LOGON_ACK" ELSE @], abis_nm_bs11_get_state)
               [] m.mt = "LMT_LOGOFF" -> [s EXCEPT !.dead = TRUE]
               [] m.mt = "GET_STATE" -> handle_state_resp(s, m.v)
               [] m.mt \in tool_msgs \ {"LMT_LOGON", "LMT_LOGOFF", "GET_STATE"} -> s
               [] OTHER -> abis_nm_rcvmsg(s, m)
        u == abis_nm_queue_send_next(t)
    IN CASE t.dead -> t
         [] u.state = "NONE" -> abis_nm_sendmsg(u, abis_nm_bs11_factory_logon(TRUE))
         [] u.state = "LOGON_ACK" -> [u EXCEPT !.timer = TRUE]
         [] OTHER -> u
status_timer_cb(s) == abis_nm_sendmsg([s EXCEPT !.timer = FALSE], abis_nm_bs11_get_state)
\* The program sends the shutdown list of a BS-11, sleeps and exits: nothing is received any more.
bsc_shutdown_net(s) == [shutdown_om(s) EXCEPT !.dead = TRUE]
signal_handler(s) == [abis_nm_sendmsg(s, abis_nm_bs11_factory_logon(FALSE)) EXCEPT !.sigint = @ + 1, !.dead = s.sigint >= 2]

(* The base station, as the program sees it. *)
OmOk(s, o) == IF o = "RADIO_CARRIER" /\ s.b[o].adm = "LOCKED" THEN <<"DISABLED", "OFF_LINE">> ELSE <<"ENABLED", "OK">>
OmStart(s, o) == OmReport("STATECHG_EVENT", o, OmOk(s, o))
\* Its answer to a command: the state it goes to and what it sends.
BtsDoes(s, m) ==
    LET b1(o, f, v) == [s EXCEPT !.b[o] = [@ EXCEPT ![f] = v]]
        ack == <<OmAnswer("ACK", m)>>
    IN CASE m.k = "ACK" -> <<s, <<>>>>
         [] m.mt = "OPSTART" -> IF m.o \notin {"SITE_MANAGER", "BASEB_TRANSC"} /\ ~s.b[m.o].attr THEN <<s, <<OmAnswer("NACK", m)>>>>
                                ELSE <<b1(m.o, "st", "UP"), ack \o (IF s.b[m.o].st = "UP" THEN <<>> ELSE <<OmStart(s, m.o)>>)>>
         [] m.mt = "CHG_ADM_STATE" /\ m.o \in OmObj ->
                LET t == b1(m.o, "adm", m.v) IN
                <<t, ack \o (IF m.o = "RADIO_CARRIER" /\ s.b[m.o].st = "UP" THEN <<OmStart(t, m.o)>> ELSE <<>>)>>
         [] m.mt \in {"SET_BTS_ATTR", "SET_RADIO_ATTR", "SET_CHAN_ATTR", "IPACC_SET_ATTR"} -> <<b1(m.o, "attr", TRUE), ack>>
         [] m.mt = "IPACC_RSL_CONNECT" -> <<[s EXCEPT !.rslReq = TRUE], ack>>
         [] m.mt = "ACTIVATE_SW" /\ OmNano -> <<b1(m.o, "st", "LOADED"), ack \o <<OmReport("SW_ACTIVATED", m.o, "")>>>>
         [] m.mt = "ACTIVATE_SW" /\ ~OmNano -> <<[s EXCEPT !.phase = IF @ = "SOFTWARE_RQD" THEN "WAIT_MIN_CFG" ELSE @], ack>>
         [] m.mt = "LOAD_INIT" -> <<[s EXCEPT !.ld = [file |-> m.v, got |-> 0, inwin |-> 0]], ack>>
         [] m.mt = "LOAD_SEG" /\ s.ld.file = 0 -> <<s, <<>>>>
         [] m.mt = "LOAD_SEG" /\ s.ld.file # 0 -> LET full == s.ld.inwin + 1 = omEnv.win \/ m.v IN
                <<[s EXCEPT !.ld.got = @ + 1, !.ld.inwin = IF full THEN 0 ELSE @ + 1], IF full THEN ack ELSE <<>>>>
         [] m.mt = "LOAD_END" -> <<[s EXCEPT !.short = @ \/ s.ld.got # OmFiles[m.v]], ack>>
         [] m.mt = "GET_STATE" -> <<s, <<OmAnswer("ACK", [m EXCEPT !.v = s.phase])>>>>
         [] m.mt = "DISCONNECT" -> <<[s EXCEPT !.phase = "MAINTENANCE"], ack>>
         [] m.mt = "RECONNECT" -> <<[s EXCEPT !.phase = "NORMAL"], ack>>
         [] m.mt = "RESTART" -> <<[s EXCEPT !.phase = "WARM_UP"], ack>>
         [] OTHER -> <<s, ack>>
\* The first thing an object does.
BtsFirst(o) ==
    CASE o \in {"BASEB_TRANSC", "RADIO_CARRIER"} -> {fill_om_fom_hdr("SW_ACT_REQ", o, "")}
      [] o = "SITE_MANAGER" -> {OmReport("STATECHG_EVENT", o, v) : v \in {<<"ENABLED", "OK">>, <<"DISABLED", "OFF_LINE">>}}
      [] o = "NSVC" -> {OmReport("STATECHG_EVENT", o, <<"DISABLED", "OFF_LINE">>)}
      [] OTHER -> {OmReport("STATECHG_EVENT", o, <<"DISABLED", "DEPENDENCY">>)}

OmInit == /\ omEnv \in OmEnvs
          /\ om = IF omEnv.kind = "tool"
                  THEN abis_nm_sendmsg([bsc_bootstrap_network(omEnv) EXCEPT !.oml = 1, !.gens = 1], abis_nm_bs11_factory_logon(TRUE))
                  ELSE bsc_bootstrap_network(omEnv)
OmDo(g, s) == g /\ om' = s /\ ~om.dead /\ UNCHANGED omEnv
OmMore == om.gens < OmMaxLink

OmlUp == OmDo(OmNano /\ om.oml = 0 /\ OmMore, [ipaccess_sign_link_up(om, "OML") EXCEPT !.b = [o \in OmObj |-> OmNew], !.rslReq = FALSE, !.rsls = 0])
\* The base station starts anew before its old link is found to be dead.
OmlUpAgain == OmDo(OmNano /\ OmHas("lossy") /\ om.oml # 0 /\ OmMore,
                   [ipaccess_sign_link_up(om, "OML") EXCEPT !.b = [o \in OmObj |-> OmNew], !.rslReq = FALSE, !.rsls = 0])
LinkLost == OmDo(OmNano /\ OmHas("lossy") /\ om.oml # 0 /\ OmMore, ipaccess_sign_link_down(om))
RslUp == OmDo(om.rslReq /\ om.oml # 0 /\ ~om.rsl, [ipaccess_sign_link_up(om, "RSL") EXCEPT !.rsls = @ + 1])
RslUpAgain == OmDo(OmHas("rsl_again") /\ om.rsl /\ om.talked, [ipaccess_sign_link_up(om, "RSL") EXCEPT !.rsls = 2])
RslTalks == OmDo(om.rsl /\ ~om.talked, [ipaccess_sign_link(om, "RSL") EXCEPT !.talked = TRUE])
TeiUp == OmDo(omEnv.kind = "bs11" /\ om.oml = 0, bootstrap_om_bs11([om EXCEPT !.oml = 1, !.gens = 1]))
BtsStarts(o) ==
    \E m \in BtsFirst(o) :
        OmDo(OmNano /\ o \in omEnv.obj /\ om.oml # 0 /\ om.b[o].st = "NEW" /\ (o = "TS1" /\ ~OmHas("any_order") => om.b["TS0"].st # "NEW"),
             [om EXCEPT !.toBsc = Append(@, m), !.b[o].st = "ASKED"])
BtsHandles ==
    OmDo(om.toBts # <<>>,
         LET r == BtsDoes([om EXCEPT !.toBts = Tail(@)], Head(om.toBts)) IN [r[1] EXCEPT !.toBsc = @ \o r[2]])
\* (A refused ip.access command, or activation of a nanoBTS, is logged and nothing else: the object stays down.)
BtsRefuses ==
    LET m == Head(om.toBts) IN
    OmDo(OmHas("nack") /\ OmMore /\ om.toBts # <<>> /\ m.w /\ m.k = "CMD" /\ m.mt \notin abis_nm_ipacc_msgs \cup (IF OmNano THEN {"ACTIVATE_SW"} ELSE {}),
         [om EXCEPT !.toBts = Tail(@), !.toBsc = Append(@, OmAnswer("NACK", m)), !.ld = IF m.mt = "LOAD_INIT" THEN [file |-> m.v, got |-> 0, inwin |-> 0] ELSE @])
BtsAborts == OmDo(OmHas("abort") /\ om.sw.state = "WAIT_SEGACK" /\ om.toBts # <<>> /\ Head(om.toBts).mt = "LOAD_SEG",
                  [om EXCEPT !.toBts = Tail(@), !.toBsc = Append(@, OmReport("LOAD_ABORT", "SITE_MANAGER", "")), !.ld.file = 0])
BtsWarm == OmDo(om.phase = "WARM_UP", [om EXCEPT !.phase = "NORMAL"])
Receive ==
    OmDo(om.toBsc # <<>>,
         LET s == [om EXCEPT !.toBsc = Tail(@)] m == Head(om.toBsc) IN
         IF omEnv.kind = "tool" THEN abis_nm_bs11cfg_rcvmsg(s, m) ELSE abis_nm_rcvmsg(s, m))
\* Whether a change of the carrier's state is still to be answered.
Changing == \E q \in {om.queue, om.toBts, om.toBsc} : \E i \in DOMAIN q : q[i].mt = "CHG_ADM_STATE" /\ q[i].o = "RADIO_CARRIER"
Locks == \E v \in {"LOCKED", "UNLOCKED"} \ {om.wish} :
            OmDo(OmHas("locks") /\ (OmHas("hasty") \/ ~Changing) /\ Len(om.queue) < OmMaxQueue, [gsm_trx_lock_rf(om, v) EXCEPT !.wish = v])
Loads == OmDo(OmHas("load") /\ om.b["BASEB_TRANSC"].st = "UP" /\ om.queue = <<>> /\ om.loads < (IF OmHas("second_load") THEN 2 ELSE 1),
              [abis_nm_software_load(om, 1, "NONE") EXCEPT !.loads = @ + 1])
StatusTimer == OmDo(om.timer, status_timer_cb(om))
Closes == OmDo(OmHas("closes") /\ omEnv.kind = "bs11" /\ om.oml # 0, bsc_shutdown_net(om))
Interrupts == OmDo(OmHas("closes") /\ omEnv.kind = "tool", signal_handler(om))
OmNext ==
    \/ OmlUp \/ OmlUpAgain \/ LinkLost \/ RslUp \/ RslUpAgain \/ RslTalks \/ TeiUp
    \/ \E o \in OmObj : BtsStarts(o)
    \/ BtsHandles \/ BtsRefuses \/ BtsAborts \/ BtsWarm \/ Receive \/ Locks \/ Loads \/ StatusTimer \/ Closes \/ Interrupts
\* The programs serve what has arrived and what has expired; a base station connects, starts its objects and answers.
\* (Receive and TeiUp: weak fairness, with the condition under which they can happen spelled out.)
OmFairness == /\ []<>(om.toBsc = <<>> \/ om.dead) \/ []<><<Receive>>_omVars
              /\ []<>(omEnv.kind # "bs11" \/ om.oml # 0 \/ om.dead) \/ []<><<TeiUp>>_omVars
              /\ WF_omVars(BtsHandles) /\ WF_omVars(StatusTimer) /\ WF_omVars(BtsWarm)
              /\ WF_omVars(OmlUp) /\ WF_omVars(RslUp) /\ WF_omVars(RslTalks)
              /\ \A o \in OmObj : WF_omVars(BtsStarts(o))
OmSpec == OmInit /\ [][OmNext]_omVars /\ OmFairness

----------------------------------------------------------------------------
\* The answers under way that let the queue go on.  The answer to a software activation of a nanoBTS does not.
Counts(m) == m.w /\ m.k # "REP" /\ m.mt # "SW_ACT_REQ" /\ ~(m.mt = "ACTIVATE_SW" /\ OmNano)
Awaited == Cardinality({i \in DOMAIN om.toBts : Counts(om.toBts[i])}) + Cardinality({i \in DOMAIN om.toBsc : Counts(om.toBsc[i])})
\* The queue never waits for nothing: while commands wait an answer is under way that sends the next one, and
\* commands wait only behind an unanswered one.  On a nanoBTS this balance is exact: a request for activation
\* releases the queue once and adds one command whose answer does not (abis_nm_queue_msg, abis_nm_queue_send_next,
\* abis_nm_rx_sw_act_req).  No queued command outlives its link.
QueueServed ==
    om.dead \/
    /\ om.pend => Awaited >= 1
    /\ om.queue # <<>> => om.pend
    /\ \A i \in DOMAIN om.queue : om.queue[i].dst = om.oml
    /\ ~(OmHas("nack") \/ OmHas("any_order")) => ~om.uaf
    /\ OmNano /\ omEnv.faults \cap {"rsl_again", "load"} = {} =>
         Awaited = (IF om.pend THEN 1 ELSE 0) + Cardinality({i \in DOMAIN om.queue : om.queue[i].mt = "ACTIVATE_SW"})
\* When everything is answered, a started carrier is locked or unlocked as the operator said last, also when the
\* base station was away at that moment (gsm_trx_lock_rf, sw_activ_rep).  Except for an operator who did not wait for
\* the answer to the command before (hasty): it overwrites the state that update_admstate shares with the wish.
OmQuiet == om.oml # 0 /\ om.queue = <<>> /\ om.toBts = <<>> /\ om.toBsc = <<>>
RfAsWished ==
    OmQuiet /\ ~om.dead /\ om.b["RADIO_CARRIER"].st = "UP" /\ ~OmHas("hasty") => om.b["RADIO_CARRIER"].adm = om.wish
\* A base station whose RSL link talks to the program has been given its system information on this link, and the
\* mobile allocation computed for it names the hopping frequencies (ipaccess_sign_link, bootstrap_rsl, generate_ma_for_ts).
\* This is so for the first RSL link of an OML link only: ipaccess_drop_rsl leaves RSL_UP set, so a second one is
\* taken for up already and is given nothing.  And not for ARFCN 0, whose bit is computed one place too far.
MaNames(ma, cell) ==
    LET nz == cell \ {0}
        n(i) == IF i = 0 THEN Cardinality(nz) ELSE Cardinality({j \in nz : j < i})
    IN {i \in cell : 8 * ((Cardinality(nz) + 7) \div 8) - 1 - n(i) \in ma}
AirReady ==
    /\ om.rsl /\ om.talked /\ om.rsls = 1 => om.si
    /\ om.si /\ 0 \notin omEnv.cell => MaNames(om.ma, omEnv.cell) = omEnv.hop
\* Both: what is on the air is what the operator asked for and what the program has computed for this link.
OnAirAsTold == RfAsWished /\ AirReady
\* A load is ended only when the base station has every segment of the file (sw_load_segment, abis_nm_rcvmsg_sw);
\* not so the second load of a nanoBTS, where last_seg is left over from the first and ends it at the first answer.
SwWhole == om.short => om.loads > 1
\* A nanoBTS that answers comes up, for good once its links stay and the operator leaves the carrier alone: every
\* object runs in the program's eyes (a locked carrier does not) and a load has ended; and the tool that has logged on for a command logs off
\* again (nm_statechg_event, handle_state_resp).  The program itself stands in the way of that in three cases (Stuck):
\*  - a new RSL link while the OML link stays: inp_sig_cb forgets the state of all objects, which nobody reports again;
\*  - a timeslot with the CBCH that reports before the one with the BCCH: verify_chan_comb refuses to configure it,
\*    its OPSTART is then refused by the base station and the OML link dropped, each time;
\*  - a second software load, which waits for the answer to a window it does not fill.
Stuck == \/ om.rsls > 1
         \/ OmHas("any_order") /\ omEnv.ts1 = "SDCCH_CBCH" /\ om.oml = 0
         \/ om.loads > 1
OmUp == /\ \A o \in omEnv.obj : nm_is_running(om.nm[o]) \/ (o = "RADIO_CARRIER" /\ om.b[o].adm = "LOCKED")
        /\ om.sw.state = "NONE" /\ om.queue = <<>>
ToolCan == \/ omEnv.command \in ToolLogsOff \cup {"query", "pll-workvalue"} /\ omEnv.phase = "MAINTENANCE"
           \/ omEnv.command \in {"disconnect", "reconnect", "query"} /\ omEnv.phase \in {"NORMAL", "MAINTENANCE"}
Settles ==
    /\ OmNano => <>[](om.dead \/ OmUp \/ Stuck) \/ []<><<Locks>>_omVars
    /\ omEnv.kind = "tool" /\ ToolCan => <>om.dead
=============================================================================
