----------------------------- MODULE Deployment -----------------------------
(***************************************************************************)
(* The two containers, from docker-compose.yaml and entrypoint.sh on: how  *)
(* they start from their secret files (truefan_control/config.py and       *)
(* main.py), how the health check lets the core start, and how a browser's *)
(* write is let through, first by the core with the token for users, then  *)
(* by the agent with its own.                                              *)
(*                                                                         *)
(* Every file is read by itself and anybody who runs the machine may       *)
(* replace a file between any two reads: the agent keeps what it read when *)
(* it started, the core and the health check read again each time.         *)
(***************************************************************************)
EXTENDS Naturals, Sequences, FiniteSets

CONSTANTS
    Backend,        \* TRUEFAN_BACKEND
    Tokens,         \* what a good secret file can hold
    Holds,          \* Holds[s]: what the file of secret s can hold
    None,
    Retries,        \* HEALTHCHECK --retries
    MaxEdits,       \* bound on how often each file is replaced
    MaxCrashes      \* bound on the crashes of the agent

(* "bmc" stands for the four files only the AST2600 backend needs.         *)
AgentSecrets ==
    IF Backend = "ast2600_ipmi" THEN <<"agent_token", "bmc">> ELSE <<"agent_token">>

CoreSecrets == <<"agent_token", "ui_write_token">>
Secret == {"agent_token", "bmc", "ui_write_token"}

(* A file is absent, unreadable or empty; or it holds spaces; or a secret. *)
Content == Tokens \cup {"absent", "blank"}

ASSUME DeploymentAssumption ==
    /\ Backend \in {"ast2600_ipmi", "hwmon_pwm"}
    /\ Tokens # {} /\ None \notin Tokens
    /\ {"absent", "blank"} \cap Tokens = {}
    /\ Holds \in [Secret -> SUBSET Content]
    /\ Retries \in Nat \ {0} /\ MaxEdits \in Nat /\ MaxCrashes \in Nat

VARIABLES
    file,       \* the content of each secret file
    edits,      \* history: how often each file was replaced
    agent,      \* the agent's container: what it does, which files it has
                \* still to read, and the secrets it keeps
    health,     \* what Docker says of it (of a start period it says
                \* "starting", too), and the failed probes in a row
    probe,      \* the health check's token while it waits for an answer
    core,       \* the core's container
    call,       \* a browser's write on its way
    crashes     \* crashes so far

vars == <<file, edits, agent, health, probe, core, call, crashes>>

Down == [pc |-> "down", left |-> <<>>, token |-> None, bmc |-> None, read |-> 0]
NoProbe == [on |-> FALSE, token |-> None]
NoCall == [step |-> "none", presented |-> None, ui |-> None, token |-> None,
           read |-> 0]

DeploymentInit ==
    /\ file \in [Secret -> Content] /\ \A s \in Secret : file[s] \in Holds[s]
    /\ edits = [s \in Secret |-> 0]
    /\ agent = Down
    /\ health = [state |-> "none", failed |-> 0]
    /\ probe = NoProbe
    /\ core = [pc |-> "waiting", left |-> <<>>]
    /\ call = NoCall
    /\ crashes = 0

(* entrypoint.sh: -r and -s, a file of spaces will do.                     *)
Available(s) == file[s] # "absent"

ValueUnstripped(s) == IF Available(s) THEN file[s] ELSE None

(* read_secret_file, and what the core and the health check make of a      *)
(* file: the stripped text, None when there is nothing.                    *)
Value(s) == IF file[s] \in Tokens THEN file[s] ELSE None

Edit ==
    /\ \E s \in Secret :
          /\ edits[s] < MaxEdits
          /\ \E c \in Holds[s] \ {file[s]} : file' = [file EXCEPT ![s] = c]
          /\ edits' = [edits EXCEPT ![s] = @ + 1]
    /\ UNCHANGED <<agent, health, probe, core, call, crashes>>

-----------------------------------------------------------------------------
(* The agent's container.                                                  *)

AgentMoves(state) ==
    /\ agent' = state
    /\ UNCHANGED <<file, edits, core, call, crashes>>

RestartsUnlessCrashed == agent.pc = "down" /\ crashes = 0

(* restart: unless-stopped; the health of a container starts anew.         *)
Restarts == agent.pc = "down"

StartAgent ==
    /\ Restarts
    /\ AgentMoves([Down EXCEPT !.pc = "entrypoint", !.left = AgentSecrets])
    /\ health' = [state |-> "start period", failed |-> 0]
    /\ probe' = NoProbe

CheckAgentSecret ==
    /\ agent.pc = "entrypoint"
    /\ AgentMoves(
         IF agent.left = <<>>
         THEN [agent EXCEPT !.pc = "from_env", !.left = AgentSecrets]
         ELSE IF Available(Head(agent.left))
         THEN [agent EXCEPT !.left = Tail(@)]
         ELSE Down)
    /\ UNCHANGED <<health, probe>>

(* Settings.from_env, or the ConfigError that ends the process.            *)
LoadAgentSecret ==
    /\ agent.pc = "from_env" /\ agent.left # <<>>
    /\ LET s == Head(agent.left)
       IN  AgentMoves(
             IF Value(s) = None THEN Down
             ELSE IF s = "agent_token"
             THEN [agent EXCEPT !.left = Tail(@), !.token = Value(s),
                                !.read = edits[s]]
             ELSE [agent EXCEPT !.left = Tail(@), !.bmc = Value(s)])
    /\ UNCHANGED <<health, probe>>

(* build_service, and the server answers.                                  *)
Serve ==
    /\ agent.pc = "from_env" /\ agent.left = <<>>
    /\ AgentMoves([agent EXCEPT !.pc = "serving"])
    /\ UNCHANGED <<health, probe>>

Crash ==
    /\ agent.pc # "down" /\ crashes < MaxCrashes
    /\ crashes' = crashes + 1
    /\ agent' = Down
    /\ UNCHANGED <<file, edits, health, probe, core, call>>

AdmitsOtherSecret(token) == agent.pc = "serving" /\ token = agent.bmc

(* require_token.                                                          *)
Admits(token) == agent.pc = "serving" /\ token # None /\ token = agent.token

-----------------------------------------------------------------------------
(* healthcheck.py in the agent's container, and what Docker counts.        *)

StartProbe ==
    /\ agent.pc # "down" /\ ~probe.on
    /\ probe' = [on |-> TRUE, token |-> Value("agent_token")]
    /\ UNCHANGED <<file, edits, agent, health, core, call, crashes>>

ProbeSucceeds ==
    /\ probe.on /\ Admits(probe.token)
    /\ probe' = NoProbe
    /\ health' = [state |-> "healthy", failed |-> 0]
    /\ UNCHANGED <<file, edits, agent, core, call, crashes>>

FailedAgainUncounted(h) ==
    [state |-> IF h.failed + 1 >= Retries THEN "unhealthy" ELSE h.state,
     failed |-> h.failed + 1]

FailedAgain(h) ==
    IF h.failed + 1 >= Retries THEN [state |-> "unhealthy", failed |-> Retries]
    ELSE [h EXCEPT !.failed = @ + 1]

(* Refused, not answered in time, for /status waits for the service's lock,*)
(* or answered with 500, as /status does while the BMC cannot be reached.  *)
ProbeFails ==
    /\ probe.on
    /\ probe' = NoProbe
    /\ health' = IF health.state = "start period" THEN health ELSE FailedAgain(health)
    /\ UNCHANGED <<file, edits, agent, core, call, crashes>>

(* --start-period: failures before its end do not count.                   *)
EndStartPeriod ==
    /\ agent.pc # "down" /\ health.state = "start period"
    /\ health' = [health EXCEPT !.state = "starting"]
    /\ UNCHANGED <<file, edits, agent, probe, core, call, crashes>>

-----------------------------------------------------------------------------
(* The core's container: the condition service_healthy holds back its      *)
(* first start only.                                                       *)

CoreMoves(state) ==
    /\ core' = state
    /\ UNCHANGED <<file, edits, agent, health, probe, call, crashes>>

CoreMayStartOnce == core.pc = "waiting" /\ health.state = "healthy"

CoreMayStart ==
    \/ core.pc = "waiting" /\ health.state = "healthy"
    \/ core.pc = "down"

StartCore ==
    /\ CoreMayStart
    /\ CoreMoves([pc |-> "entrypoint", left |-> CoreSecrets])

(* compose fails the start of a core whose dependency is unhealthy or has  *)
(* exited; no restart policy starts what never ran.                        *)
ComposeGivesUp ==
    /\ core.pc = "waiting"
    /\ \/ health.state = "unhealthy"
       \/ agent.pc = "down" /\ health.state # "none"
    /\ CoreMoves([core EXCEPT !.pc = "not started"])

CheckCoreSecret ==
    /\ core.pc = "entrypoint"
    /\ CoreMoves(
         IF core.left = <<>> THEN [core EXCEPT !.pc = "serving"]
         ELSE IF Available(Head(core.left)) THEN [core EXCEPT !.left = Tail(@)]
         ELSE [pc |-> "down", left |-> <<>>])

-----------------------------------------------------------------------------
(* A browser's write.                                                      *)

CallMoves(state) ==
    /\ call' = state
    /\ UNCHANGED <<file, edits, agent, health, probe, core, crashes>>

MayWriteAsConfigured(presented, ui) == presented = ui

(* _require_write_access.                                                  *)
MayWrite(presented, ui) == ui # None /\ presented = ui

Authorise ==
    /\ core.pc = "serving" /\ call.step = "none"
    /\ \E presented \in Tokens \cup {None} :
          LET ui == Value("ui_write_token")
          IN  CallMoves([NoCall EXCEPT
                !.presented = presented, !.ui = ui,
                !.step = IF MayWrite(presented, ui) THEN "headers"
                         ELSE "refused by core"])

(* _build_headers: no header when there is no token.                       *)
BuildHeaders ==
    /\ call.step = "headers"
    /\ CallMoves([call EXCEPT !.step = "sent", !.token = Value("agent_token"),
                              !.read = edits["agent_token"]])

Deliver ==
    /\ call.step = "sent"
    /\ CallMoves([call EXCEPT !.step =
         IF agent.pc # "serving" THEN "unavailable"
         ELSE IF Admits(call.token) THEN "admitted"
         ELSE "refused by agent"])

EndCall ==
    /\ call.step \in {"refused by core", "refused by agent", "admitted",
                      "unavailable"}
    /\ CallMoves(NoCall)

AgentStep == StartAgent \/ CheckAgentSecret \/ LoadAgentSecret \/ Serve

Next ==
    \/ Edit \/ Crash
    \/ StartAgent \/ CheckAgentSecret \/ LoadAgentSecret \/ Serve
    \/ StartProbe \/ ProbeSucceeds \/ ProbeFails \/ EndStartPeriod
    \/ StartCore \/ ComposeGivesUp \/ CheckCoreSecret
    \/ Authorise \/ BuildHeaders \/ Deliver \/ EndCall

(* Docker restarts what ends, lets the start period pass, probes again and *)
(* ends a probe in time; compose looks at the agent's state until it has   *)
(* started the core or given up.  No probe has to succeed.                 *)
DeploymentSpec ==
    /\ DeploymentInit /\ [][Next]_vars
    /\ WF_vars(AgentStep) /\ WF_vars(CheckCoreSecret)
    /\ WF_vars(StartCore \/ ComposeGivesUp)
    /\ WF_vars(StartProbe) /\ WF_vars(ProbeSucceeds \/ ProbeFails)
    /\ WF_vars(EndStartPeriod)

-----------------------------------------------------------------------------
(* Properties.                                                             *)

Steps == {"none", "headers", "sent", "refused by core", "refused by agent",
          "admitted", "unavailable"}

HealthStates == {"none", "start period", "starting", "healthy", "unhealthy"}
CoreStates == {"waiting", "not started", "down", "entrypoint", "serving"}

DeploymentTypeOK ==
    /\ file \in [Secret -> Content]
    /\ edits \in [Secret -> 0..MaxEdits]
    /\ agent \in [pc : {"down", "entrypoint", "from_env", "serving"},
                  left : {<<>>, <<"bmc">>, AgentSecrets},
                  token : Tokens \cup {None}, bmc : Tokens \cup {None},
                  read : 0..MaxEdits]
    /\ health \in [state : HealthStates, failed : 0..Retries]
    /\ probe \in [on : BOOLEAN, token : Tokens \cup {None}]
    /\ core \in [pc : CoreStates,
                 left : {<<>>, <<"ui_write_token">>, CoreSecrets}]
    /\ call \in [step : Steps, presented : Tokens \cup {None},
                 ui : Tokens \cup {None}, token : Tokens \cup {None},
                 read : 0..MaxEdits]
    /\ crashes \in 0..MaxCrashes

(* Missing required secrets fail closed at startup, also when a file goes  *)
(* away or turns blank between the entrypoint's look and the agent's: an   *)
(* agent that serves keeps a token and the backend's secrets.              *)
FailsClosed ==
    agent.pc = "serving" =>
        /\ agent.token \in Tokens
        /\ Backend = "ast2600_ipmi" => agent.bmc \in Tokens

(* No write reaches the agent without the users' token and none reaches    *)
(* the policy without the agent's as well, whatever the files held at each *)
(* of the reads.                                                           *)
WritesAreAuthorised ==
    /\ call.step \in {"sent", "admitted", "refused by agent", "unavailable"} =>
         call.presented \in Tokens /\ call.presented = call.ui
    /\ call.step = "admitted" => call.token \in Tokens

(* An agent that refuses the token the core sent means that the file was   *)
(* replaced after one of the two had read it, and nothing else.            *)
RefusalMeansReplaced ==
    [][call.step = "sent" /\ call'.step = "refused by agent" /\ call.token # None
         => call.read # agent.read]_vars

(* Once the files are good for ever, the agent serves for ever.            *)
AllGood == \A s \in Secret : file[s] \in Tokens

GoodSecretsServe == <>[]AllGood => <>[](agent.pc = "serving")

(* And the core's start is decided: it serves for ever, or compose gave it *)
(* up because the agent was unhealthy or had exited at a time compose      *)
(* looked.  It never waits for ever, not even for an agent whose token was *)
(* replaced under it so that every probe is refused, and never goes on     *)
(* restarting.                                                             *)
CoreStarts ==
    <>[]AllGood => <>[](core.pc = "serving") \/ <>[](core.pc = "not started")

=============================================================================
