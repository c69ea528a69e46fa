------------------------------- MODULE MCMsc -------------------------------
(***************************************************************************)
(* The MSC side for TLC: call control and mobility management.  They share *)
(* no state in the models; a behaviour is one of one of them, and the      *)
(* other stays as it was created.                                          *)
(***************************************************************************)
EXTENDS Calls, Mm

VARIABLE part

CarefulCalls == {[handover |-> FALSE, faults |-> {"radio"}], [handover |-> TRUE, faults |-> {}],
                 [handover |-> FALSE, faults |-> {"radio", "loss_while_paging"}],
                 [handover |-> FALSE, faults |-> {"early_connect"}],
                 [handover |-> FALSE, faults |-> {"crossing"}],
                 [handover |-> FALSE, faults |-> {"stray"}]}
MmCareful == [policy : Policies, a5 : BOOLEAN, ki : BOOLEAN,
              faults : {{"lost_auth", "ss_release"}, {"lost_auth", "slow_ms"}, {"repeats"}}]
Alike == Permutations(Subs)

MscInit == /\ part \in {"calls", "mm"}
           /\ CallsInit /\ (part = "calls" \/ callEnv = CHOOSE e \in CallEnvs : TRUE)
           /\ MmInit /\ (part = "mm" \/ mmEnv = CHOOSE e \in MmEnvs : TRUE)
MscNext == \/ part = "calls" /\ CallsNext /\ UNCHANGED <<mmVars, part>>
           \/ part = "mm" /\ MmNext /\ UNCHANGED <<callVars, part>>
MscSpec == MscInit /\ [][MscNext]_<<callVars, mmVars, part>>

\* What the program points to is alive and points back: transactions, MNCC calls and connections, and the operations
\* a connection is in the middle of.
MscPointersGood == CallPointersGood /\ MmPointersGood
=============================================================================
