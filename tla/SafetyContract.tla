--------------------------- MODULE SafetyContract ---------------------------
(***************************************************************************)
(* What the agent's safety policy promises, with no file, no memory, no    *)
(* lock and no crash: one incident flag that only evidence moves, one      *)
(* order that only an accepted request or its own expiry moves, and        *)
(* verdicts reached from exactly these two.                                *)
(* (README.md "Safety behavior"; truefan_control/policy.py.)               *)
(***************************************************************************)
EXTENDS PolicyRules

CONSTANTS Statuses, Requests, NoVerdict

VARIABLES
    incident,   \* a hot incident has begun and has not recovered
    order,      \* the override in force, or None
    clock,
    verdict     \* the decision being answered, NoVerdict when there is none

contractVars == <<incident, order, clock, verdict>>

ContractInit ==
    /\ incident = FALSE
    /\ order = None
    /\ clock = 0
    /\ verdict = NoVerdict

(* A status is judged: for the policy loop (requested = None) or for a     *)
(* request.                                                                *)
Witness(s, requested) ==
    /\ verdict = NoVerdict
    /\ verdict' = Decision([previous_hot |-> incident, override |-> order],
                           s, requested)
    /\ incident' = IncidentAfter(incident, s)
    /\ UNCHANGED <<order, clock>>

(* A request made no later than now replaces the order, unless the verdict *)
(* locked it.                                                              *)
Accept(duty, ttl, at) ==
    /\ verdict # NoVerdict /\ ~verdict.locked
    /\ ValidRequest(duty, ttl)
    /\ order' = [duty |-> duty, expires |-> at + ttl]
    /\ verdict' = [verdict EXCEPT !.expires = at + ttl]
    /\ UNCHANGED <<incident, clock>>

Lapse ==
    /\ order # None /\ order.expires <= clock
    /\ order' = None
    /\ UNCHANGED <<incident, clock, verdict>>

(* The verdict has been answered, or its caller is gone. *)
Conclude ==
    /\ verdict # NoVerdict
    /\ verdict' = NoVerdict
    /\ UNCHANGED <<incident, order, clock>>

PassTime ==
    /\ clock' > clock
    /\ UNCHANGED <<incident, order, verdict>>

ContractNext ==
    \/ \E s \in Statuses : \E requested \in {None} \cup {r.duty : r \in Requests} :
          Witness(s, requested)
    \/ \E r \in Requests, at \in 0..clock : Accept(r.duty, r.ttl, at)
    \/ Lapse \/ Conclude \/ PassTime

ContractSpec == ContractInit /\ [][ContractNext]_contractVars

=============================================================================
