---------------------------------- MODULE Llc ----------------------------------
(***************************************************************************)
(* User data of one MS in osmo-sgsn: a logical link entity of gprs_llc.c   *)
(* in unacknowledged operation and the SNDCP entity (gprs_sndcp.c) above   *)
(* it that cuts N-PDUs into segments and puts them together again.         *)
(*                                                                         *)
(* Uplink frames wait in a queue (`air'); the fault model loses frames and *)
(* overtakes or doubles them.      A segment carries, for the properties   *)
(* only, the number `id' of its N-PDU and the number `abs' of its frame.   *)
(***************************************************************************)
EXTENDS Naturals, Sequences, FiniteSets, SequencesExt

CONSTANTS
    MaxNpdu,    \* N-PDUs the MS sends
    MaxSeg,     \* segments of an N-PDU
    NpduMod,    \* N-PDU numbers (0xfff in the code)
    LlcEnvs     \* the surroundings to consider

LlcFaults == {
    "lose",         \* a segment is lost, but not the first of its N-PDU
    "lose_first",   \* any segment may be lost
    "twice",        \* a frame comes again before the next
    "overtake",     \* a frame overtakes others
    "refuse"}       \* BSSGP refuses a downlink frame
\* mod: the 512 numbers of UI frames, scaled: fewer than the frames sent, or more.
LlcEnv == [faults : SUBSET LlcFaults, mod : Nat \ {0}]

ASSUME LlcBounds == {MaxNpdu, MaxSeg, NpduMod} \subseteq Nat \ {0}
ASSUME LlcEnvAssumption == LlcEnvs \subseteq LlcEnv

VARIABLES ll, llEnv
llVars == <<ll, llEnv>>
LlHas(fault) == fault \in llEnv.faults

LleStates == {"UNASSIGNED", "ASSIGNED_ADM", "LOCAL_EST", "ABM"}
Seg == [abs : Nat, nu : Nat, npdu : Nat, seg : 0..MaxSeg, first : BOOLEAN, more : BOOLEAN, id : 1..MaxNpdu]
Defrag == [npdu : Nat, no_more : BOOLEAN, high : 0..MaxSeg, have : SUBSET (0..MaxSeg), frags : Seq(Seg)]
NoDefrag == [npdu |-> 0, no_more |-> FALSE, high |-> 0, have |-> {}, frags |-> <<>>]

LlInit ==
    /\ llEnv \in LlcEnvs
    /\ ll = [state |-> "ASSIGNED_ADM", vu_recv |-> 0, vu_send |-> 0, sne |-> NoDefrag,
             frames |-> 0, sizes |-> <<>>, air |-> <<>>,          \* the MS and the air
             up |-> 0, dropped |-> FALSE, bad |-> FALSE,          \* frames and N-PDUs handed up
             tx_npdu_nr |-> 0]

-----------------------------------------------------------------------------
(* SNDCP *)

defrag_enqueue(d, s) ==
    [d EXCEPT !.frags = <<s>> \o @, !.have = @ \cup {s.seg}, !.high = IF s.seg > @ THEN s.seg ELSE @]
defrag_have_all_segments(d) == d.have = 0..d.high
defrag_get_seg(d, n) == SelectInSeq(d.frags, LAMBDA s : s.seg = n)

\* The segments 0, 1, ... up to the first that is missing leave the queue.
Present(d) == {n \in 0..d.high : \A m \in 0..n : defrag_get_seg(d, m) # 0}
Taken(d) == {defrag_get_seg(d, n) : n \in Present(d)}
Rest(d) == [d EXCEPT !.frags = [i \in 1..Cardinality((1..Len(d.frags)) \ Taken(d)) |->
               d.frags[CHOOSE k \in (1..Len(d.frags)) \ Taken(d) :
                          Cardinality({j \in 1..k : j \notin Taken(d)}) = i]]]

\* What is handed up is an N-PDU the MS sent: all its segments, of one N-PDU, and no octets
\* beyond them (tot_len counts every segment that was put in the queue).
Intact(L, segs, n) ==
    /\ \A s, t \in segs : s.id = t.id
    /\ \A s \in segs : L.sizes[s.id] = Cardinality(segs) /\ n = Cardinality(segs)

sgsn_rx_sndcp_ud_ind(L, segs, n) == [L EXCEPT !.bad = @ \/ ~Intact(L, segs, n)]

defrag_segments(L) ==
    LET d == L.sne
        T == [L EXCEPT !.sne = Rest(d)]
    IN  IF Present(d) # 0..d.high THEN T
        ELSE sgsn_rx_sndcp_ud_ind(T, {d.frags[i] : i \in Taken(d)}, Len(d.frags))

\* Mutant: what is left of the N-PDU before is kept.
defrag_input_keeps(L, s) ==
    LET d == IF s.first THEN [L.sne EXCEPT !.npdu = s.npdu] ELSE L.sne
        e == [defrag_enqueue(d, s) EXCEPT !.no_more = @ \/ ~s.more]
        T == [L EXCEPT !.sne = e]
    IN  IF e.no_more /\ defrag_have_all_segments(e) THEN defrag_segments(T) ELSE T

\* A segment of another N-PDU than the one under way is taken as one of it.
defrag_input(L, s) ==
    LET d == IF s.first THEN [NoDefrag EXCEPT !.npdu = s.npdu] ELSE L.sne
        e == [defrag_enqueue(d, s) EXCEPT !.no_more = @ \/ ~s.more]
        T == [L EXCEPT !.sne = e]
    IN  IF e.no_more /\ defrag_have_all_segments(e) THEN defrag_segments(T) ELSE T

sndcp_llunitdata_ind(L, s) ==
    IF ~s.first \/ s.more THEN defrag_input(L, s) ELSE sgsn_rx_sndcp_ud_ind(L, {s}, 1)

\* An N-PDU of n segments to the MS, of which `sent' go out; a frame that is refused has used up a V(U) as well.
\* The number of an N-PDU that was cut short is used again, unless it was not cut at all (it is counted before it goes).
sndcp_unitdata_req(L, n, sent) ==
    [L EXCEPT !.vu_send = (@ + (IF sent < n THEN sent + 1 ELSE sent)) % llEnv.mod,
              !.tx_npdu_nr = IF sent < n /\ n > 1 THEN @ ELSE (@ + 1) % NpduMod]

-----------------------------------------------------------------------------
(* LLC *)

\* Mutant: the number expected next is not taken modulo 512.
hdr_rx_ui_runs_on(L, f) ==
    IF f.nu < L.vu_recv THEN [L EXCEPT !.dropped = @ \/ f.abs > L.up]
    ELSE sndcp_llunitdata_ind([L EXCEPT !.vu_recv = f.nu + 1, !.up = f.abs], f)

\* gprs_llc_hdr_rx() for UI: a frame with a number below V(UR) is dropped, others are handed up.
hdr_rx_ui(L, f) ==
    IF f.nu < L.vu_recv THEN [L EXCEPT !.dropped = @ \/ f.abs > L.up]
    ELSE sndcp_llunitdata_ind([L EXCEPT !.vu_recv = (f.nu + 1) % llEnv.mod, !.up = f.abs], f)

\* The other commands; XID is answered with itself and changes nothing.
gprs_llc_hdr_rx(L, cmd) ==
    CASE cmd = "SABM" -> [L EXCEPT !.state = "ABM"]
      [] cmd = "DISC" -> [L EXCEPT !.state = "ASSIGNED_ADM"]
      [] cmd = "UA" -> [L EXCEPT !.state = IF @ = "LOCAL_EST" THEN "ABM" ELSE @]
      [] cmd = "DM" -> [L EXCEPT !.state = IF @ = "LOCAL_EST" THEN "ASSIGNED_ADM" ELSE @]
      [] cmd \in {"FRMR", "XID", "NULL"} -> L

\* gprs_llgmm_reset_state(), with DIRTY_HACK, when T3350 has expired for good: only what is expected from the MS begins again from 0.
ResetReceive(L) == [L EXCEPT !.vu_recv = 0, !.state = "ASSIGNED_ADM"]
\* gprs_llgmm_assign() of a new TLLI: both directions do.
ResetCounters(L) == [ResetReceive(L) EXCEPT !.vu_send = 0]

-----------------------------------------------------------------------------
LlBecomes(L) == ll' = L /\ UNCHANGED llEnv

\* The MS sends an N-PDU of n segments.
MsSends(n) ==
    LET id == Len(ll.sizes) + 1
    IN  /\ id <= MaxNpdu
        /\ LlBecomes([ll EXCEPT !.sizes = Append(@, n), !.frames = @ + n,
               !.air = @ \o [i \in 1..n |-> [abs |-> ll.frames + i, nu |-> (ll.frames + i - 1) % llEnv.mod,
                                             npdu |-> id % NpduMod, seg |-> i - 1, first |-> i = 1,
                                             more |-> i < n, id |-> id]]])
Lose ==
    /\ ll.air # <<>>
    /\ LlHas("lose_first") \/ (LlHas("lose") /\ ~Head(ll.air).first)
    /\ LlBecomes([ll EXCEPT !.air = Tail(@)])

\* gprs_llc_rcvmsg(): a UI frame; i > 1 overtakes others, twice: it comes again.
Receive(i, twice) ==
    /\ i \in DOMAIN ll.air /\ (i > 1 => LlHas("overtake")) /\ (twice => LlHas("twice"))
    /\ LlBecomes(hdr_rx_ui(IF twice THEN ll ELSE [ll EXCEPT !.air = RemoveAt(@, i)], ll.air[i]))
Control(cmd) == ll.state # gprs_llc_hdr_rx(ll, cmd).state /\ LlBecomes(gprs_llc_hdr_rx(ll, cmd))
Reassign == ll.air = <<>> /\ ll.frames % llEnv.mod = 0 /\ \E L \in {ResetCounters(ll), ResetReceive(ll)} : LlBecomes(L)
Downlink(n, sent) == /\ sent <= n /\ (sent < n => LlHas("refuse"))
                     /\ LlBecomes(sndcp_unitdata_req(ll, n, sent))

LlNext ==
    \/ \E n \in 1..MaxSeg : MsSends(n)
    \/ Lose \/ Reassign
    \/ \E i \in 1..(MaxNpdu * MaxSeg), twice \in BOOLEAN : Receive(i, twice)
    \/ \E cmd \in {"SABM", "DISC"} : Control(cmd)
    \/ \E n \in {1, MaxSeg}, sent \in 0..MaxSeg : Downlink(n, sent)
LlSpec == LlInit /\ [][LlNext]_llVars

-----------------------------------------------------------------------------
(* Properties *)

\* An N-PDU handed to the GGSN is one the MS sent, whatever segments are lost or doubled.
\* Exceptions: the first segment of an N-PDU is lost or overtaken; and frames are lost or come
\* twice when their numbers begin again from 0: then LLC itself may drop first segments.
NpduIntact ==
    ll.bad => \/ LlHas("lose_first") \/ LlHas("overtake")
              \/ (LlHas("lose") \/ LlHas("twice")) /\ ll.frames >= llEnv.mod

\* A frame newer than every frame taken so far is taken, also after the numbers have begun
\* again from 0.  Exception: the frame before the beginning was lost or overtaken; then the
\* SGSN drops what follows until that number comes again.
NewFrameTaken == ll.dropped => llEnv.faults # {} /\ ll.frames >= llEnv.mod
=============================================================================
