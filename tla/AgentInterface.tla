--------------------------- MODULE AgentInterface ---------------------------
(***************************************************************************)
(* What the control agent is to those who call it over HTTP: a status that *)
(* is what the last tick or accepted request published, and, of each       *)
(* control request, whether it still waits, was applied, refused, failed   *)
(* or was lost with the process.  Every call is one step.                  *)
(*                                                                         *)
(* AnsweringAgent shows that ControlAgent keeps to this, with all its      *)
(* threads, commands and failures; CoreProxy builds on it.                 *)
(***************************************************************************)
EXTENDS PolicyRules

CONSTANTS
    Callers,    \* those who send control requests, one at a time
    Orders      \* what they ask for: a duty and a time to live

ASSUME InterfaceConstants == Orders \subseteq [duty : Int, ttl : Int]

VARIABLES
    safety,     \* the state the policy finds in a status read now
    published,  \* the status /status answers with, or None: it fails
    request     \* each caller's latest request: its order and its fate

interfaceVars == <<safety, published, request>>

SafetyStates == {"hot", "sensor-failure", "cooling", "normal"}

NotSent == [fate |-> "none", order |-> None]

InterfaceInit ==
    /\ safety \in SafetyStates
    /\ published = None
    /\ request = [c \in Callers |-> NotSent]

-----------------------------------------------------------------------------

(* Temperatures and sensors change what the policy finds. *)
Sense ==
    /\ safety' \in SafetyStates \ {safety}
    /\ UNCHANGED <<published, request>>

(* A tick publishes the state, and a lock while that state has one.        *)
TickPage == [state |-> safety, locked |-> safety \in {"hot", "sensor-failure"}]

Tick ==
    /\ published' = TickPage
    /\ UNCHANGED <<safety, request>>

TickFails ==
    /\ published' = None
    /\ UNCHANGED <<safety, request>>

Send(c, order) ==
    /\ request[c].fate # "queued"
    /\ request' = [request EXCEPT ![c] = [fate |-> "queued", order |-> order]]
    /\ UNCHANGED <<safety, published>>

Queued(c) == request[c].fate = "queued"

Decided(c, fate) == request' = [request EXCEPT ![c].fate = fate]

Valid(order) == ValidRequest(order.duty, order.ttl)

(* In a sensor failure both can happen to less than full speed: it depends *)
(* on the duty the BMC has.  Full speed is never refused.                  *)
MayAccept(order) == Valid(order) /\ (safety = "hot" => order.duty = FullDuty)

MayRefuse(order) ==
    \/ ~Valid(order)
    \/ safety \in {"hot", "sensor-failure"} /\ order.duty < FullDuty

(* An accepted request publishes a status that is not locked, also during  *)
(* an incident; the next tick publishes the lock again.                    *)
Apply(c) ==
    /\ Queued(c) /\ MayAccept(request[c].order)
    /\ Decided(c, "applied")
    /\ published' = [state |-> safety, locked |-> FALSE]
    /\ UNCHANGED safety

Refuse(c) ==
    /\ Queued(c) /\ MayRefuse(request[c].order)
    /\ Decided(c, "refused")
    /\ UNCHANGED <<safety, published>>

(* A save or a command fails: the fans may have been commanded or not.     *)
Fail(c) ==
    /\ Queued(c)
    /\ Decided(c, "failed")
    /\ UNCHANGED <<safety, published>>

(* The process ends and forgets the requests that waited for its lock.     *)
Crash ==
    /\ published' = None
    /\ request' = [c \in Callers |->
                     IF Queued(c) THEN [request[c] EXCEPT !.fate = "lost"]
                                  ELSE request[c]]
    /\ UNCHANGED safety

CallerStep(c) ==
    \/ \E order \in Orders : Send(c, order)
    \/ Apply(c) \/ Refuse(c) \/ Fail(c)

InterfaceNext ==
    \/ Sense \/ Tick \/ TickFails \/ Crash
    \/ \E c \in Callers : CallerStep(c)

InterfaceSpec == InterfaceInit /\ [][InterfaceNext]_interfaceVars

-----------------------------------------------------------------------------

Fates == {"none", "queued", "applied", "refused", "failed", "lost"}

InterfaceTypeOK ==
    /\ safety \in SafetyStates
    /\ published \in [state : SafetyStates, locked : BOOLEAN] \cup {None}
    /\ request \in [Callers -> [fate : Fates, order : Orders \cup {None}]]

=============================================================================
