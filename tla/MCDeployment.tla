---------------------------- MODULE MCDeployment ----------------------------
(***************************************************************************)
(* Deployment with two values for the agent's token and one for the other  *)
(* secrets.                                                                *)
(***************************************************************************)
EXTENDS Deployment

CONSTANTS t1, t2

MCTokens == {t1, t2}
MCHolds == [s \in Secret |-> IF s = "agent_token" THEN Content
                             ELSE {"absent", "blank", t1}]

=============================================================================
