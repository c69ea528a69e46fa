------------------------------- MODULE MCNat -------------------------------
(***************************************************************************)
(* The BSC NAT and the media gateway for TLC.  The NAT links the gateway's *)
(* code in; in the models they share no state (Nat.tla has its own view of *)
(* the endpoints it hands on), and a behaviour is one of one of them.      *)
(***************************************************************************)
EXTENDS Nat, Mgcp

VARIABLE part

NatPlain == [faults |-> {}, bscs |-> {1, 2}, parts |-> {}]
NatSome == {[NatPlain EXCEPT !.faults = {"lost_bsc", "lost_msc", "unconfirmed"}, !.parts = {"refs", "imsi"}],
            [NatPlain EXCEPT !.faults = {"reassigns", "same_refs"}, !.parts = {"refs", "imsi"}],
            [NatPlain EXCEPT !.faults = {"reassigns"}, !.bscs = {1}, !.parts = {"refs", "imsi", "block"}],
            [NatPlain EXCEPT !.bscs = {1}, !.parts = {"imsi", "ussd"}],
            [NatPlain EXCEPT !.faults = {"lost_bsc"}, !.parts = {"mgcp"}],
            [NatPlain EXCEPT !.faults = {"lost_bsc"}, !.bscs = {1}, !.parts = {"ctrl"}],
            [NatPlain EXCEPT !.parts = {"ping"}],
            [NatPlain EXCEPT !.faults = {"lost_msc"}, !.parts = {"udt"}]}
MgPlain == [faults |-> {}, static |-> FALSE, transcoder |-> FALSE, realloc |-> FALSE, policy |-> {"CONT"}, extends |-> {},
            audio_loop |-> FALSE, foreign |-> FALSE, endp |-> {1, 2}, calls |-> 3, audio |-> FALSE]
MgSome == {[MgPlain EXCEPT !.faults = {"lossy", "late_dup"}, !.realloc = TRUE, !.calls = 2],
           [MgPlain EXCEPT !.faults = {"busy", "lossy"}, !.transcoder = TRUE, !.endp = {1}],
           [MgPlain EXCEPT !.static = TRUE, !.faults = {"late_rtp"}, !.policy = {"CONT", "REJECT", "DEFER"}],
           [MgPlain EXCEPT !.audio = TRUE, !.endp = {1}, !.calls = 1],
           [MgPlain EXCEPT !.faults = {"changes"}, !.calls = 1],
           [MgPlain EXCEPT !.faults = {"changes"}, !.audio_loop = TRUE, !.foreign = TRUE, !.calls = 1],
           [MgPlain EXCEPT !.faults = {"lossy"}, !.extends = {<<1, 2>>}, !.realloc = TRUE, !.calls = 2],
           [MgPlain EXCEPT !.faults = {"late_rtp"}, !.static = TRUE, !.transcoder = TRUE, !.endp = {1}, !.calls = 2]}

NmInit == /\ part \in {"nat", "mgcp"}
          /\ NatInit /\ (part = "nat" \/ natEnv = CHOOSE e \in NatEnvs : TRUE)
          /\ MgInit /\ (part = "mgcp" \/ mgEnv = CHOOSE e \in MgEnvs : TRUE)
NmNext == \/ part = "nat" /\ NatNext /\ UNCHANGED <<mgVars, part>>
          \/ part = "mgcp" /\ MgNext /\ UNCHANGED <<natVars, part>>
NmSpec == NmInit /\ [][NmNext]_<<natVars, mgVars, part>>

\* An endpoint in use belongs to exactly one call, in the NAT's table and in the gateway: its ports, call identifier
\* and peer are that call's, and a free endpoint keeps nothing.
EndpointsGood == EndpointsOwned /\ EndpointsSound
=============================================================================
