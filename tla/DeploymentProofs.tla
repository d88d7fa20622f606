-------------------------- MODULE DeploymentProofs --------------------------
(***************************************************************************)
(* What holds of the two containers for both backends, all secrets, and    *)
(* however often the files are replaced between any two reads.             *)
(***************************************************************************)
EXTENDS Deployment, TLAPS

(* What is left to read of the agent's secrets, and of the core's.         *)
LEMMA AgentLeft ==
  ASSUME NEW left \in {<<>>, <<"bmc">>, AgentSecrets}, left # <<>>
  PROVE  /\ Head(left) \in {"agent_token", "bmc"}
         /\ Tail(left) \in {<<>>, <<"bmc">>, AgentSecrets}
         /\ Head(left) = "bmc" => left = <<"bmc">> /\ Tail(left) = <<>>
         /\ Head(left) = "agent_token" =>
              left = AgentSecrets
              /\ Tail(left) = IF Backend = "ast2600_ipmi" THEN <<"bmc">> ELSE <<>>
<1>1. CASE left = <<"bmc">>
  <2>1. Head(left) = "bmc" /\ Tail(left) = <<>>
    BY <1>1
  <2>2. QED
    BY <1>1, <2>1
<1>2. CASE left = AgentSecrets /\ Backend = "ast2600_ipmi"
  <2>1. left = <<"agent_token", "bmc">>
    BY <1>2 DEF AgentSecrets
  <2>2. Head(left) = "agent_token" /\ Tail(left) = <<"bmc">>
    BY <2>1
  <2>3. QED
    BY <1>2, <2>2
<1>3. CASE left = AgentSecrets /\ Backend # "ast2600_ipmi"
  <2>1. left = <<"agent_token">>
    BY <1>3 DEF AgentSecrets
  <2>2. Head(left) = "agent_token" /\ Tail(left) = <<>>
    BY <2>1
  <2>3. QED
    BY <1>3, <2>2
<1>4. QED
  BY <1>1, <1>2, <1>3

LEMMA CoreLeft ==
  ASSUME NEW left \in {<<>>, <<"ui_write_token">>, CoreSecrets}, left # <<>>
  PROVE  /\ Head(left) \in {"agent_token", "ui_write_token"}
         /\ Tail(left) \in {<<>>, <<"ui_write_token">>, CoreSecrets}
<1>1. CASE left = <<"ui_write_token">>
  <2>1. Head(left) = "ui_write_token" /\ Tail(left) = <<>>
    BY <1>1
  <2>2. QED
    BY <2>1
<1>2. CASE left = CoreSecrets
  <2>1. left = <<"agent_token", "ui_write_token">>
    BY <1>2 DEF CoreSecrets
  <2>2. Head(left) = "agent_token" /\ Tail(left) = <<"ui_write_token">>
    BY <2>1
  <2>3. QED
    BY <2>2
<1>3. QED
  BY <1>1, <1>2

LEMMA Zeros == 0 \in 0..MaxEdits /\ 0 \in 0..Retries /\ 0 \in 0..MaxCrashes
BY DeploymentAssumption

LEMMA ValueTyped == ASSUME NEW s PROVE Value(s) \in Tokens \cup {None}
BY DEF Value

-----------------------------------------------------------------------------
(* Types.                                                                  *)

Agents == [pc : {"down", "entrypoint", "from_env", "serving"},
           left : {<<>>, <<"bmc">>, AgentSecrets},
           token : Tokens \cup {None}, bmc : Tokens \cup {None},
           read : 0..MaxEdits]

Calls == [step : Steps, presented : Tokens \cup {None}, ui : Tokens \cup {None},
          token : Tokens \cup {None}, read : 0..MaxEdits]

Healths == [state : HealthStates, failed : 0..Retries]

LEMMA StatesNamed ==
  /\ {"none", "start period", "starting", "healthy", "unhealthy"} \subseteq HealthStates
  /\ {"waiting", "not started", "down", "entrypoint", "serving"} \subseteq CoreStates
BY DEF HealthStates, CoreStates

LEMMA DownTyped == Down \in Agents
BY Zeros DEF Down, Agents

LEMMA AgentStepTyped ==
  ASSUME DeploymentTypeOK, AgentStep PROVE agent' \in Agents
<1> USE DEF DeploymentTypeOK
<1>0. agent \in Agents
  BY DEF Agents
<1>1. CASE StartAgent
  BY <1>1, DownTyped DEF StartAgent, AgentMoves, Agents
<1>2. CASE CheckAgentSecret
  <2>1. CASE agent.left = <<>>
    BY <1>0, <1>2, <2>1 DEF CheckAgentSecret, AgentMoves, Agents
  <2>2. CASE agent.left # <<>>
    <3>1. Tail(agent.left) \in {<<>>, <<"bmc">>, AgentSecrets}
      BY <2>2, AgentLeft
    <3>2. agent' = [agent EXCEPT !.left = Tail(agent.left)] \/ agent' = Down
      BY <1>2, <2>2 DEF CheckAgentSecret, AgentMoves
    <3>3. QED
      BY <1>0, <3>1, <3>2, DownTyped DEF Agents
  <2>3. QED
    BY <2>1, <2>2
<1>3. CASE LoadAgentSecret
  <2> DEFINE s == Head(agent.left)
  <2>1. Tail(agent.left) \in {<<>>, <<"bmc">>, AgentSecrets} /\ s \in Secret
    BY <1>3, AgentLeft DEF LoadAgentSecret, Secret
  <2>2. Value(s) \in Tokens \cup {None} /\ edits[s] \in 0..MaxEdits
    BY <2>1, ValueTyped
  <2>3. \/ agent' = Down
        \/ agent' = [agent EXCEPT !.left = Tail(agent.left), !.token = Value(s),
                                  !.read = edits[s]]
        \/ agent' = [agent EXCEPT !.left = Tail(agent.left), !.bmc = Value(s)]
    BY <1>3 DEF LoadAgentSecret, AgentMoves
  <2> HIDE DEF s
  <2>4. QED
    BY <1>0, <2>1, <2>2, <2>3, DownTyped DEF Agents
<1>4. CASE Serve
  BY <1>0, <1>4 DEF Serve, AgentMoves, Agents
<1>5. QED
  BY <1>1, <1>2, <1>3, <1>4 DEF AgentStep

LEMMA DeploymentTypeInductive ==
  ASSUME DeploymentTypeOK, [Next]_vars PROVE DeploymentTypeOK'
<1> USE DEF DeploymentTypeOK
<1>1. CASE Edit
  <2>1. PICK s \in Secret, c \in Content :
          /\ edits[s] < MaxEdits
          /\ file' = [file EXCEPT ![s] = c] /\ edits' = [edits EXCEPT ![s] = @ + 1]
    BY <1>1, DeploymentAssumption DEF Edit
  <2>2. edits[s] + 1 \in 0..MaxEdits
    BY <2>1, DeploymentAssumption
  <2>3. QED
    BY <1>1, <2>1, <2>2 DEF Edit
<1>2. CASE AgentStep
  <2>1. agent' \in Agents
    BY <1>2, AgentStepTyped
  <2>2. UNCHANGED <<file, edits, core, call, crashes>>
    BY <1>2 DEF AgentStep, StartAgent, CheckAgentSecret, LoadAgentSecret, Serve, AgentMoves
  <2>3. health' \in Healths
        /\ probe' \in [on : BOOLEAN, token : Tokens \cup {None}]
    <3>1. CASE StartAgent
      BY <3>1, Zeros, StatesNamed DEF StartAgent, NoProbe, Healths
    <3>2. CASE ~StartAgent
      BY <1>2, <3>2 DEF AgentStep, CheckAgentSecret, LoadAgentSecret, Serve, Healths
    <3>3. QED
      BY <3>1, <3>2
  <2>4. QED
    BY <2>1, <2>2, <2>3 DEF Agents, Healths
<1>3. CASE Crash
  <2>1. agent' \in Agents /\ crashes' \in 0..MaxCrashes
    BY <1>3, DownTyped, DeploymentAssumption DEF Crash
  <2>2. QED
    BY <1>3, <2>1 DEF Crash, Agents
<1>4. CASE StartProbe
  BY <1>4, ValueTyped DEF StartProbe
<1>5. CASE ProbeSucceeds
  BY <1>5, Zeros, StatesNamed DEF ProbeSucceeds, NoProbe
<1>6. CASE ProbeFails
  <2>1. FailedAgain(health) \in Healths
    <3>1. CASE health.failed + 1 >= Retries
      <4>1. FailedAgain(health) = [state |-> "unhealthy", failed |-> Retries]
        BY <3>1 DEF FailedAgain
      <4>2. "unhealthy" \in HealthStates
        BY StatesNamed
      <4>3. Retries \in 0..Retries
        BY DeploymentAssumption
      <4>4. QED
        BY <4>1, <4>2, <4>3 DEF Healths
    <3>2. CASE ~(health.failed + 1 >= Retries)
      <4>1. health.failed + 1 \in 0..Retries
        BY <3>2, DeploymentAssumption
      <4>2. FailedAgain(health) = [health EXCEPT !.failed = health.failed + 1]
        BY <3>2 DEF FailedAgain
      <4>3. QED
        BY <4>1, <4>2 DEF Healths
    <3>3. QED
      BY <3>1, <3>2
  <2>2. health' \in Healths
    BY <1>6, <2>1 DEF ProbeFails, Healths
  <2>3. QED
    BY <1>6, <2>2 DEF ProbeFails, NoProbe, Healths
<1>7. CASE StartCore \/ ComposeGivesUp
  <2> DEFINE Cores == [pc : CoreStates, left : {<<>>, <<"ui_write_token">>, CoreSecrets}]
  <2>1. core' \in Cores
    <3>1. core \in Cores /\ "entrypoint" \in CoreStates /\ "not started" \in CoreStates
      BY StatesNamed
    <3>2. \/ core' = [pc |-> "entrypoint", left |-> CoreSecrets]
          \/ core' = [core EXCEPT !.pc = "not started"]
      BY <1>7 DEF StartCore, ComposeGivesUp, CoreMoves
    <3> HIDE DEF CoreSecrets
    <3>3. CASE core' = [pc |-> "entrypoint", left |-> CoreSecrets]
      BY <3>1, <3>3
    <3>4. CASE core' = [core EXCEPT !.pc = "not started"]
      BY <3>1, <3>4
    <3>5. QED
      BY <3>2, <3>3, <3>4
  <2>2. UNCHANGED <<file, edits, agent, health, probe, call, crashes>>
    BY <1>7 DEF StartCore, ComposeGivesUp, CoreMoves
  <2>3. QED
    BY <2>1, <2>2
<1>8. CASE CheckCoreSecret
  <2> DEFINE Cores == [pc : CoreStates,
                       left : {<<>>, <<"ui_write_token">>, CoreSecrets}]
  <2>1. core.left # <<>> => Tail(core.left) \in {<<>>, <<"ui_write_token">>, CoreSecrets}
    BY CoreLeft
  <2>2. \/ core' = [core EXCEPT !.pc = "serving"]
        \/ core.left # <<>> /\ core' = [core EXCEPT !.left = Tail(core.left)]
        \/ core' = [pc |-> "down", left |-> <<>>]
    BY <1>8 DEF CheckCoreSecret, CoreMoves
  <2>3. UNCHANGED <<file, edits, agent, health, probe, call, crashes>>
    BY <1>8 DEF CheckCoreSecret, CoreMoves
  <2>4. core \in Cores
    OBVIOUS
  <2>5. core' \in Cores
    <3> HIDE DEF CoreSecrets
    <3>1. CASE core' = [core EXCEPT !.pc = "serving"]
      BY <2>4, <3>1, StatesNamed
    <3>2. CASE core.left # <<>> /\ core' = [core EXCEPT !.left = Tail(core.left)]
      BY <2>1, <2>4, <3>2
    <3>3. CASE core' = [pc |-> "down", left |-> <<>>]
      BY <3>3, StatesNamed
    <3>4. QED
      BY <2>2, <3>1, <3>2, <3>3
  <2>6. QED
    BY <2>3, <2>5
<1>9. NoCall \in Calls
  BY Zeros DEF NoCall, Calls, Steps
<1>10. ASSUME NEW state \in Calls, CallMoves(state) PROVE DeploymentTypeOK'
  BY <1>10 DEF CallMoves, Calls
<1>11. call \in Calls
  BY DEF Calls
<1>12. CASE Authorise \/ EndCall
  <2>1. ASSUME NEW presented \in Tokens \cup {None}, NEW step \in Steps
        PROVE  [NoCall EXCEPT !.presented = presented, !.ui = Value("ui_write_token"),
                              !.step = step] \in Calls
    BY <1>9, ValueTyped DEF Calls
  <2>2. \A presented, ui : (IF MayWrite(presented, ui) THEN "headers"
                            ELSE "refused by core") \in Steps
    BY DEF Steps
  <2>3. QED
    BY <1>9, <1>10, <1>12, <2>1, <2>2 DEF Authorise, EndCall
<1>13. CASE BuildHeaders
  <2>1. edits["agent_token"] \in 0..MaxEdits /\ "sent" \in Steps
    BY DEF Secret, Steps
  <2>2. [call EXCEPT !.step = "sent", !.token = Value("agent_token"),
                     !.read = edits["agent_token"]] \in Calls
    BY <1>11, <2>1, ValueTyped DEF Calls
  <2>3. QED
    BY <1>10, <1>13, <2>2 DEF BuildHeaders
<1>14. CASE Deliver
  <2>1. PICK step \in Steps : CallMoves([call EXCEPT !.step = step])
    BY <1>14 DEF Deliver, Steps
  <2>2. [call EXCEPT !.step = step] \in Calls
    BY <1>11 DEF Calls
  <2>3. QED
    BY <1>10, <2>1, <2>2
<1>15. CASE UNCHANGED vars
  BY <1>15 DEF vars
<1>16. CASE EndStartPeriod
  <2>1. health \in Healths /\ "starting" \in HealthStates
    BY StatesNamed DEF Healths
  <2>2. [health EXCEPT !.state = "starting"] \in Healths
    BY <2>1 DEF Healths
  <2>3. health' = [health EXCEPT !.state = "starting"]
        /\ UNCHANGED <<file, edits, agent, probe, core, call, crashes>>
    BY <1>16 DEF EndStartPeriod
  <2>4. health' \in Healths
    BY <2>2, <2>3
  <2>5. QED
    BY <2>3, <2>4 DEF Healths
<1>17. QED
  BY <1>1, <1>2, <1>3, <1>4, <1>5, <1>6, <1>7, <1>8, <1>12, <1>13, <1>14, <1>15, <1>16
     DEF Next, AgentStep

LEMMA DeploymentTypeInit == DeploymentInit => DeploymentTypeOK
<1> SUFFICES ASSUME DeploymentInit PROVE DeploymentTypeOK
  OBVIOUS
<1>1. agent \in Agents
  BY DownTyped DEF DeploymentInit
<1>2. edits \in [Secret -> 0..MaxEdits] /\ crashes \in 0..MaxCrashes
  BY DeploymentAssumption DEF DeploymentInit
<1>3. health \in Healths /\ core.pc \in CoreStates
  BY Zeros, StatesNamed DEF DeploymentInit, Healths
<1>4. call \in Calls
  BY Zeros DEF DeploymentInit, NoCall, Calls, Steps
<1>5. file \in [Secret -> Content] /\ probe \in [on : BOOLEAN, token : Tokens \cup {None}]
  BY DEF DeploymentInit, NoProbe
<1>6. core \in [pc : CoreStates, left : {<<>>, <<"ui_write_token">>, CoreSecrets}]
  BY <1>3 DEF DeploymentInit
<1>7. QED
  BY <1>1, <1>2, <1>3, <1>4, <1>5, <1>6 DEF DeploymentTypeOK, Agents, Calls, Healths

(* Every variable keeps its type, and the count of failed probes its limit.*)
THEOREM DeploymentTypeCorrect == DeploymentSpec => []DeploymentTypeOK
BY DeploymentTypeInit, DeploymentTypeInductive, PTL DEF DeploymentSpec

-----------------------------------------------------------------------------
(* Failing closed.                                                         *)

Kept(left) ==
    /\ left # AgentSecrets => agent.token \in Tokens
    /\ left = <<>> /\ Backend = "ast2600_ipmi" => agent.bmc \in Tokens

(* What makes FailsClosed inductive: what an agent that starts has read.   *)
Reading ==
    /\ agent.pc = "from_env" => Kept(agent.left)
    /\ agent.pc = "serving" => Kept(<<>>)

LEMMA ReadingInductive ==
  ASSUME DeploymentTypeOK, Reading, [Next]_vars PROVE Reading'
<1> USE DEF Reading, Kept
<1>0. agent \in Agents /\ AgentSecrets # <<>> /\ <<"bmc">> # <<>>
      /\ <<"bmc">> # AgentSecrets
  BY DEF DeploymentTypeOK, Agents, AgentSecrets
<1>1. CASE StartAgent \/ Crash
  <2>1. agent' \in {Down, [Down EXCEPT !.pc = "entrypoint", !.left = AgentSecrets]}
    BY <1>1 DEF StartAgent, AgentMoves, Crash
  <2>2. /\ Down.pc = "down"
        /\ [Down EXCEPT !.pc = "entrypoint", !.left = AgentSecrets].pc = "entrypoint"
    BY DEF Down
  <2>3. agent'.pc \in {"down", "entrypoint"}
    BY <2>1, <2>2
  <2>4. QED
    BY <2>3
<1>2. CASE CheckAgentSecret
  <2>1. \/ agent' = [agent EXCEPT !.pc = "from_env", !.left = AgentSecrets]
        \/ agent.pc = "entrypoint" /\ agent' = [agent EXCEPT !.left = Tail(agent.left)]
        \/ agent' = Down
    BY <1>2 DEF CheckAgentSecret, AgentMoves
  <2>2. CASE agent' = [agent EXCEPT !.pc = "from_env", !.left = AgentSecrets]
    <3>1. agent'.pc = "from_env" /\ agent'.left = AgentSecrets
      BY <1>0, <2>2 DEF Agents
    <3>2. QED
      BY <1>0, <3>1
  <2>3. CASE agent.pc = "entrypoint" /\ agent' = [agent EXCEPT !.left = Tail(agent.left)]
    BY <1>0, <2>3 DEF Agents
  <2>4. CASE agent' = Down
    BY <2>4 DEF Down
  <2>5. QED
    BY <2>1, <2>2, <2>3, <2>4
<1>3. CASE LoadAgentSecret
  <2> DEFINE s == Head(agent.left)
  <2>1. agent.pc = "from_env" /\ agent.left # <<>>
    BY <1>3 DEF LoadAgentSecret
  <2>2. CASE Value(s) = None
    BY <1>3, <2>2 DEF LoadAgentSecret, AgentMoves, Down
  <2>3. CASE Value(s) # None /\ s = "agent_token"
    <3>1. Value(s) \in Tokens
      BY <2>3, ValueTyped
    <3>2. agent' = [agent EXCEPT !.left = Tail(agent.left), !.token = Value(s),
                                 !.read = edits[s]]
      BY <1>3, <2>3 DEF LoadAgentSecret, AgentMoves
    <3>3. Tail(agent.left) = IF Backend = "ast2600_ipmi" THEN <<"bmc">> ELSE <<>>
      BY <1>0, <2>1, <2>3, AgentLeft DEF Agents
    <3>4. /\ agent'.pc = "from_env" /\ agent'.token = Value(s)
          /\ agent'.left = Tail(agent.left)
      BY <1>0, <2>1, <3>2 DEF Agents
    <3> HIDE DEF s
    <3>5. QED
      BY <1>0, <3>1, <3>3, <3>4
  <2>4. CASE Value(s) # None /\ s # "agent_token"
    <3>1. Value(s) \in Tokens
      BY <2>4, ValueTyped
    <3>2. agent' = [agent EXCEPT !.left = Tail(agent.left), !.bmc = Value(s)]
      BY <1>3, <2>4 DEF LoadAgentSecret, AgentMoves
    <3>3. agent.left = <<"bmc">> /\ Tail(agent.left) = <<>>
      BY <1>0, <2>1, <2>4, AgentLeft DEF Agents
    <3>4. /\ agent'.pc = "from_env" /\ agent'.bmc = Value(s)
          /\ agent'.token = agent.token /\ agent'.left = <<>>
      BY <1>0, <2>1, <3>2, <3>3 DEF Agents
    <3> HIDE DEF s
    <3>5. QED
      BY <1>0, <2>1, <3>1, <3>3, <3>4
  <2>5. QED
    BY <2>2, <2>3, <2>4
<1>4. CASE Serve
  <2>1. agent.pc = "from_env" /\ agent.left = <<>>
    BY <1>4 DEF Serve
  <2>2. agent'.pc = "serving" /\ agent'.token = agent.token /\ agent'.bmc = agent.bmc
    BY <1>0, <1>4 DEF Serve, AgentMoves, Agents
  <2>3. QED
    BY <1>0, <2>1, <2>2
<1>5. CASE UNCHANGED agent
  BY <1>5 DEF AgentSecrets
<1>6. QED
  BY <1>1, <1>2, <1>3, <1>4, <1>5
     DEF Next, vars, Edit, StartProbe, ProbeSucceeds, ProbeFails, EndStartPeriod,
         StartCore, ComposeGivesUp, CheckCoreSecret, CoreMoves, Authorise, BuildHeaders,
         Deliver, EndCall, CallMoves

(* An agent that answers has a token, and the secrets of its backend,      *)
(* whatever became of the files while it read them.                        *)
THEOREM AgentFailsClosed == DeploymentSpec => []FailsClosed
<1>1. DeploymentInit => Reading
  BY DEF DeploymentInit, Reading, Down
<1>2. DeploymentTypeOK /\ Reading /\ [Next]_vars => Reading'
  BY ReadingInductive
<1>3. Reading => FailsClosed
  BY DEF Reading, Kept, FailsClosed, AgentSecrets
<1>4. QED
  BY <1>1, <1>2, <1>3, DeploymentTypeCorrect, PTL DEF DeploymentSpec

-----------------------------------------------------------------------------
(* Writes.                                                                 *)

OnItsWay == {"headers", "sent", "admitted", "refused by agent", "unavailable"}

(* A call that has passed the core goes on being authorised.               *)
Authorised ==
    /\ call.step \in OnItsWay => call.presented \in Tokens /\ call.presented = call.ui
    /\ call.step = "admitted" => call.token \in Tokens

LEMMA AuthorisedInductive ==
  ASSUME DeploymentTypeOK, Authorised, [Next]_vars PROVE Authorised'
<1> USE DEF Authorised, OnItsWay
<1>0. call \in Calls
  BY DEF DeploymentTypeOK, Calls
<1>1. CASE Authorise
  <2>1. PICK presented \in Tokens \cup {None} :
          call' = [NoCall EXCEPT !.presented = presented, !.ui = Value("ui_write_token"),
                     !.step = IF MayWrite(presented, Value("ui_write_token"))
                              THEN "headers" ELSE "refused by core"]
    BY <1>1 DEF Authorise, CallMoves
  <2>2. /\ call'.presented = presented /\ call'.ui = Value("ui_write_token")
        /\ call'.step \in {"headers", "refused by core"}
        /\ call'.step = "headers" => MayWrite(presented, Value("ui_write_token"))
    BY <2>1 DEF NoCall
  <2>3. QED
    BY <2>2, ValueTyped DEF MayWrite
<1>2. CASE BuildHeaders
  BY <1>0, <1>2 DEF BuildHeaders, CallMoves, Calls
<1>3. CASE Deliver
  <2>1. call.step = "sent"
    BY <1>3 DEF Deliver
  <2>2. /\ call'.presented = call.presented /\ call'.ui = call.ui
        /\ call'.token = call.token
        /\ call'.step = "admitted" => Admits(call.token)
    BY <1>0, <1>3 DEF Deliver, CallMoves, Calls
  <2>3. QED
    BY <1>0, <2>1, <2>2 DEF Admits, Calls
<1>4. CASE EndCall
  BY <1>4 DEF EndCall, CallMoves, NoCall
<1>5. CASE UNCHANGED call
  BY <1>5
<1>6. QED
  BY <1>1, <1>2, <1>3, <1>4, <1>5
     DEF Next, vars, Edit, Crash, StartAgent, CheckAgentSecret, LoadAgentSecret, Serve,
         AgentMoves, StartProbe, ProbeSucceeds, ProbeFails, EndStartPeriod,
         StartCore, ComposeGivesUp, CheckCoreSecret,
         CoreMoves

(* No order of reads and replacements lets a write through without the     *)
(* users' token and, at the agent, without the agent's.                    *)
THEOREM EveryWriteIsAuthorised == DeploymentSpec => []WritesAreAuthorised
<1>1. DeploymentInit => Authorised
  BY DEF DeploymentInit, Authorised, OnItsWay, NoCall
<1>2. DeploymentTypeOK /\ Authorised /\ [Next]_vars => Authorised'
  BY AuthorisedInductive
<1>3. Authorised => WritesAreAuthorised
  BY DEF Authorised, OnItsWay, WritesAreAuthorised
<1>4. QED
  BY <1>1, <1>2, <1>3, DeploymentTypeCorrect, PTL DEF DeploymentSpec

-----------------------------------------------------------------------------
(* Refusals.                                                               *)

(* A token read at the n-th replacement of its file, and not replaced      *)
(* since, is the one in the file.                                          *)
Current(token, n) ==
    /\ n <= edits["agent_token"]
    /\ token # None /\ n = edits["agent_token"] => token = file["agent_token"]

(* What makes RefusalMeansReplaced hold: two tokens read from one content  *)
(* of the file are the same.                                               *)
SameReadSameToken ==
    /\ Current(agent.token, agent.read)
    /\ Current(call.token, call.read)
    /\ agent.token # None /\ call.token # None /\ agent.read = call.read =>
         agent.token = call.token

LEMMA ValueIsCurrent ==
  ASSUME DeploymentTypeOK
  PROVE  Current(Value("agent_token"), edits["agent_token"])
<1>1. edits["agent_token"] \in Nat
  BY DeploymentAssumption DEF DeploymentTypeOK, Secret
<1>2. QED
  BY <1>1 DEF Current, Value

LEMMA SameReadInductive ==
  ASSUME DeploymentTypeOK, DeploymentTypeOK', SameReadSameToken, [Next]_vars
  PROVE  SameReadSameToken'
<1> DEFINE n == edits["agent_token"]
<1>0. /\ agent \in Agents /\ call \in Calls /\ n \in Nat
      /\ agent.read \in Nat /\ call.read \in Nat
  BY DeploymentAssumption DEF DeploymentTypeOK, Agents, Calls, Secret
<1>1. CASE UNCHANGED <<file, edits, agent, call>>
  BY <1>1 DEF SameReadSameToken, Current
<1>2. CASE Edit
  <2>1. UNCHANGED <<agent, call>>
    BY <1>2 DEF Edit
  <2>2. \/ UNCHANGED <<file["agent_token"], n>>
        \/ n' = n + 1
    <3>1. PICK s \in Secret, c \in Content :
            /\ file' = [file EXCEPT ![s] = c]
            /\ edits' = [edits EXCEPT ![s] = @ + 1]
      BY <1>2, DeploymentAssumption DEF Edit
    <3>2. QED
      BY <3>1 DEF DeploymentTypeOK, Secret
  <2>3. QED
    BY <1>0, <2>1, <2>2 DEF SameReadSameToken, Current
<1>3. CASE agent' = Down /\ UNCHANGED <<file, edits, call>>
  BY <1>0, <1>3 DEF SameReadSameToken, Current, Down
<1>4. CASE /\ agent'.token = agent.token /\ agent'.read = agent.read
           /\ UNCHANGED <<file, edits, call>>
  BY <1>4 DEF SameReadSameToken, Current
<1>5. CASE /\ agent'.token = Value("agent_token") /\ agent'.read = n
           /\ UNCHANGED <<file, edits, call>>
  BY <1>0, <1>5, ValueIsCurrent DEF SameReadSameToken, Current
<1>6. CASE /\ call'.token = call.token /\ call'.read = call.read
           /\ UNCHANGED <<file, edits, agent>>
  BY <1>6 DEF SameReadSameToken, Current
<1>7. CASE /\ call'.token = None /\ call'.read = 0
           /\ UNCHANGED <<file, edits, agent>>
  BY <1>0, <1>7 DEF SameReadSameToken, Current
<1>8. CASE /\ call'.token = Value("agent_token") /\ call'.read = n
           /\ UNCHANGED <<file, edits, agent>>
  BY <1>0, <1>8, ValueIsCurrent DEF SameReadSameToken, Current
<1>9. CASE AgentStep
  <2>1. UNCHANGED <<file, edits, call>>
    BY <1>9 DEF AgentStep, StartAgent, CheckAgentSecret, LoadAgentSecret, Serve, AgentMoves
  <2>2. CASE StartAgent
    <3>1. agent' = [Down EXCEPT !.pc = "entrypoint", !.left = AgentSecrets]
      BY <2>2 DEF StartAgent, AgentMoves
    <3>2. agent'.token = None /\ agent'.read = 0
      BY <3>1 DEF Down
    <3>3. QED
      BY <1>0, <2>1, <3>2 DEF SameReadSameToken, Current
  <2>3. CASE CheckAgentSecret
    <3>1. \/ agent' = [agent EXCEPT !.pc = "from_env", !.left = AgentSecrets]
          \/ agent' = [agent EXCEPT !.left = Tail(agent.left)]
          \/ agent' = Down
      BY <2>3 DEF CheckAgentSecret, AgentMoves
    <3>2. agent' = Down \/ (agent'.token = agent.token /\ agent'.read = agent.read)
      BY <1>0, <3>1 DEF Agents
    <3>3. QED
      BY <1>3, <1>4, <2>1, <3>2
  <2>4. CASE LoadAgentSecret
    <3> DEFINE s == Head(agent.left)
    <3>1. \/ agent' = Down
          \/ s = "agent_token" /\
             agent' = [agent EXCEPT !.left = Tail(agent.left), !.token = Value(s),
                                    !.read = edits[s]]
          \/ agent' = [agent EXCEPT !.left = Tail(agent.left), !.bmc = Value(s)]
      BY <2>4 DEF LoadAgentSecret, AgentMoves
    <3>2. \/ agent' = Down
          \/ agent'.token = Value("agent_token") /\ agent'.read = n
          \/ agent'.token = agent.token /\ agent'.read = agent.read
      BY <1>0, <3>1 DEF Agents
    <3>3. QED
      BY <1>3, <1>4, <1>5, <2>1, <3>2
  <2>5. CASE Serve
    <3>1. agent'.token = agent.token /\ agent'.read = agent.read
      BY <1>0, <2>5 DEF Serve, AgentMoves, Agents
    <3>2. QED
      BY <1>4, <2>1, <3>1
  <2>6. QED
    BY <1>9, <2>2, <2>3, <2>4, <2>5 DEF AgentStep
<1>10. CASE Crash
  BY <1>3, <1>10 DEF Crash
<1>11. CASE Authorise
  <2>1. call'.token = None /\ call'.read = 0 /\ UNCHANGED <<file, edits, agent>>
    BY <1>11 DEF Authorise, CallMoves, NoCall
  <2>2. QED
    BY <1>7, <2>1
<1>12. CASE BuildHeaders
  <2>1. call'.token = Value("agent_token") /\ call'.read = n
        /\ UNCHANGED <<file, edits, agent>>
    BY <1>0, <1>12 DEF BuildHeaders, CallMoves, Calls
  <2>2. QED
    BY <1>8, <2>1
<1>13. CASE Deliver
  <2>1. call'.token = call.token /\ call'.read = call.read
        /\ UNCHANGED <<file, edits, agent>>
    BY <1>0, <1>13 DEF Deliver, CallMoves, Calls
  <2>2. QED
    BY <1>6, <2>1
<1>14. CASE EndCall
  BY <1>7, <1>14 DEF EndCall, CallMoves, NoCall
<1>15. QED
  BY <1>1, <1>2, <1>9, <1>10, <1>11, <1>12, <1>13, <1>14
     DEF Next, AgentStep, vars, StartProbe, ProbeSucceeds, ProbeFails, EndStartPeriod,
         StartCore, ComposeGivesUp, CheckCoreSecret, CoreMoves

(* A 401 between core and agent has one cause: agent-token was replaced    *)
(* between the agent's start and the core's read, or the other way round.  *)
THEOREM RefusedTokenWasReplaced == DeploymentSpec => RefusalMeansReplaced
<1> DEFINE Refusal == call.step = "sent" /\ call'.step = "refused by agent"
                      /\ call.token # None
<1>1. DeploymentInit => SameReadSameToken
  BY DEF DeploymentInit, SameReadSameToken, Current, Down, NoCall, Secret
<1>2. DeploymentTypeOK /\ DeploymentTypeOK' /\ SameReadSameToken /\ [Next]_vars
        => SameReadSameToken'
  BY SameReadInductive
<1>3. ASSUME DeploymentTypeOK, Reading, SameReadSameToken, [Next]_vars, Refusal
      PROVE  call.read # agent.read
  <2>1. Deliver
    <3>1. call' # call
      BY <1>3
    <3>2. call' # NoCall
      <4>1. NoCall.step = "none"
        BY DEF NoCall
      <4>2. QED
        BY <1>3, <4>1
    <3>3. ~Authorise /\ ~BuildHeaders
      BY <1>3 DEF Authorise, BuildHeaders
    <3>4. QED
      BY <1>3, <3>1, <3>2, <3>3
         DEF Next, vars, Edit, Crash, StartAgent, CheckAgentSecret, LoadAgentSecret, Serve,
             AgentMoves, StartProbe, ProbeSucceeds, ProbeFails, EndStartPeriod, StartCore,
             ComposeGivesUp, CheckCoreSecret, CoreMoves, EndCall, CallMoves
  <2>2. call \in Calls
    BY <1>3 DEF DeploymentTypeOK, Calls
  <2>3. agent.pc = "serving" /\ ~Admits(call.token)
    BY <1>3, <2>1, <2>2 DEF Deliver, CallMoves, Calls
  <2>4. agent.token \in Tokens /\ agent.token # call.token
    BY <1>3, <2>3 DEF Admits, Reading, Kept, AgentSecrets
  <2>5. QED
    BY <1>3, <2>4, DeploymentAssumption DEF SameReadSameToken
<1>4. DeploymentTypeOK /\ Reading /\ SameReadSameToken /\ [Next]_vars
        => [Refusal => call.read # agent.read]_vars
  BY <1>3
<1>5. DeploymentInit => Reading
  BY DEF DeploymentInit, Reading, Down
<1>6. DeploymentTypeOK /\ Reading /\ [Next]_vars => Reading'
  BY ReadingInductive
<1>7. QED
  BY <1>1, <1>2, <1>4, <1>5, <1>6, DeploymentTypeCorrect, PTL
     DEF DeploymentSpec, RefusalMeansReplaced

=============================================================================
