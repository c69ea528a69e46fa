------------------------------- MODULE MCGprs -------------------------------
(***************************************************************************)
(* The packet side for TLC: the SGSN's mobility and session management,    *)
(* LLC and SNDCP, and BSSGP with the Gb proxy.  They share no state in the *)
(* models; a behaviour is one of one of them.                              *)
(***************************************************************************)
EXTENDS Sgsn, Llc, Gb

VARIABLE part

SgSome == {[faults |-> {"power_cycle"}, ras |-> {1, 2}], [faults |-> {"came_back"}, ras |-> {2}],
           [faults |-> {"ggsn_restart"}, ras |-> {1}]}
LlSome == {[faults |-> {"lose", "twice"}, mod |-> 16], [faults |-> {}, mod |-> 4], [faults |-> {"lose"}, mod |-> 3],
           [faults |-> {"refuse"}, mod |-> 4]}
GbSome == {[faults |-> {"burst"}, sign |-> TRUE, flow |-> TRUE],
           [faults |-> {"loss"}, sign |-> TRUE, flow |-> FALSE],
           [faults |-> {}, sign |-> TRUE, flow |-> FALSE],
           [faults |-> {"early_data", "reset_blocked"}, sign |-> TRUE, flow |-> FALSE],
           [faults |-> {}, sign |-> FALSE, flow |-> FALSE]}

GprsInit == /\ part \in {"sgsn", "llc", "gb"}
            /\ SgInit /\ (part = "sgsn" \/ sgEnv = CHOOSE e \in SgEnvs : TRUE)
            /\ LlInit /\ (part = "llc" \/ llEnv = CHOOSE e \in LlcEnvs : TRUE)
            /\ GbInit /\ (part = "gb" \/ gbEnv = CHOOSE e \in GbEnvs : TRUE)
GprsNext == \/ part = "sgsn" /\ SgNext /\ UNCHANGED <<llVars, gbVars, part>>
            \/ part = "llc" /\ LlNext /\ UNCHANGED <<sgVars, gbVars, part>>
            \/ part = "gb" /\ GbNext /\ UNCHANGED <<sgVars, llVars, part>>
GprsSpec == GprsInit /\ [][GprsNext]_<<sgVars, llVars, gbVars, part>>
=============================================================================
