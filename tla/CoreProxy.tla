------------------------------ MODULE CoreProxy ------------------------------
(***************************************************************************)
(* The core web service between the dashboard and the control agent        *)
(* (app/server.py, app/control_client.py).  It keeps no state of its own:  *)
(* what matters is that it waits two seconds for an agent whose work can   *)
(* take longer, so that a request has two fates, what the core answers and *)
(* what the agent does with it.                                            *)
(*                                                                         *)
(* The agent is AgentInterface, each of the core's requests a caller of    *)
(* its own; here it can also stay down for a while.                        *)
(***************************************************************************)
EXTENDS AgentInterface

CONSTANTS
    MaxFailures,    \* bound on the calls of agent and network that fail
    MaxWeather      \* bound on the changes of the safety state

ASSUME ProxyConstants == {MaxFailures, MaxWeather} \subseteq Nat

VARIABLES
    up,         \* the agent's process runs
    answer,     \* what the core says of each request
    failures,   \* failures still to come
    weather     \* changes of the safety state still to come

budgets == <<failures, weather>>
proxyVars == <<interfaceVars, up, answer, budgets>>

ProxyInit ==
    /\ InterfaceInit
    /\ up = TRUE
    /\ answer = [c \in Callers |-> "unsent"]
    /\ failures = MaxFailures
    /\ weather = MaxWeather

Failure == failures > 0 /\ failures' = failures - 1

-----------------------------------------------------------------------------
(* The agent.                                                              *)

AgentTicks == up /\ Tick /\ UNCHANGED <<up, answer, budgets>>

AgentDecides ==
    /\ up
    /\ \E c \in Callers : Apply(c) \/ Refuse(c)
    /\ UNCHANGED <<up, answer, budgets>>

AgentFails ==
    /\ up /\ Failure
    /\ TickFails \/ \E c \in Callers : Fail(c)
    /\ UNCHANGED <<up, answer, weather>>

Change ==
    /\ weather > 0 /\ weather' = weather - 1
    /\ Sense
    /\ UNCHANGED <<up, answer, failures>>

Stop ==
    /\ up /\ Failure
    /\ up' = FALSE
    /\ Crash
    /\ UNCHANGED <<answer, weather>>

(* An agent that starts answers /status with a tick, or with an error.     *)
Restart ==
    /\ ~up
    /\ up' = TRUE
    /\ UNCHANGED <<interfaceVars, answer, budgets>>

AgentStep ==
    AgentTicks \/ AgentDecides \/ AgentFails \/ Change \/ Stop \/ Restart

-----------------------------------------------------------------------------
(* /api/control and /api/profile/<profile>.                                *)

Answered(c, says) == answer' = [answer EXCEPT ![c] = says]

(* The request is forwarded, or the agent's port refuses the connection.   *)
Forward(c, order) ==
    /\ answer[c] = "unsent"
    /\ IF up THEN Send(c, order) /\ Answered(c, "awaited")
             ELSE UNCHANGED interfaceVars /\ Answered(c, "unavailable")

(* Missing or wrong token, or a body that is not valid: the agent is never *)
(* asked.                                                                  *)
Reject(c) ==
    /\ answer[c] = "unsent"
    /\ Answered(c, "refused")
    /\ UNCHANGED interfaceVars

Waits(c) == answer[c] = "awaited"

ProxyAnswerRaw(fate) == fate

ProxyAnswerByStatus(fate) == IF fate = "refused" THEN "refused" ELSE "success"

ProxyAnswer(fate) ==
    CASE fate = "applied" -> "success"
      [] fate = "refused" -> "refused"
      [] fate = "failed"  -> "failed"
      [] fate = "lost"    -> "unavailable"

Relay(c) ==
    /\ Waits(c) /\ ~Queued(c)
    /\ Answered(c, ProxyAnswer(request[c].fate))

(* TIMEOUT_SECONDS have passed.  The agent is not told.                    *)
GiveUp(c) == Waits(c) /\ Answered(c, "unavailable")

AnswerCall(c) ==
    /\ Relay(c) \/ GiveUp(c)
    /\ UNCHANGED <<interfaceVars, up, budgets>>

CoreStep == \E c \in Callers : AnswerCall(c)

-----------------------------------------------------------------------------
(* /status.                                                                *)

Page(state, enabled) == [state |-> state, enabled |-> enabled]

UnavailableEnabled == Page("unknown", TRUE)

Unavailable == Page("unknown", FALSE)

StatusPayload ==
    IF ~up \/ published = None THEN Unavailable
    ELSE Page(published.state, ~published.locked)

-----------------------------------------------------------------------------

Says == {"unsent", "awaited", "success", "refused", "failed", "unavailable"}

ProxyTypeOK ==
    /\ InterfaceTypeOK
    /\ up \in BOOLEAN
    /\ answer \in [Callers -> Says]
    /\ failures \in 0..MaxFailures
    /\ weather \in 0..MaxWeather

=============================================================================
