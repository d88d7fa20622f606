--------------------------- MODULE AnsweringAgent ---------------------------
(***************************************************************************)
(* ControlAgent with what its callers learn of it kept as history: the     *)
(* state the policy last judged, and how each handler's request has ended. *)
(* The history takes no part in what the agent does; with it the agent     *)
(* implements AgentInterface.                                              *)
(***************************************************************************)
EXTENDS ControlAgent

VARIABLES
    safety,     \* history: the state of the last judgement
    request     \* history: each handler's latest request and its fate

answerVars == <<safety, request>>
answeringVars == <<vars, answerVars>>

(* What GET /status answers with: the cache, unless it holds an error.     *)
Shown ==
    IF snapshot = None \/ snapError THEN None
    ELSE [state |-> snapshot.state, locked |-> snapshot.locked]

Interface ==
    INSTANCE AgentInterface WITH
        Callers <- Handlers, Orders <- Requests, published <- Shown

AnsweringInit ==
    /\ AgentInit
    /\ safety \in Interface!SafetyStates
    /\ request = [h \in Handlers |-> Interface!NotSent]

-----------------------------------------------------------------------------

Asks(h) ==
    LET order == [duty |-> job'[h].duty, ttl |-> job'[h].ttl]
    IN  request' = [request EXCEPT ![h] = [fate |-> "queued", order |-> order]]

(* The thread answers its request; a tick answers nobody.                  *)
Ends(t, fate) ==
    request' = IF job[t].kind = "control"
               THEN [request EXCEPT ![t].fate = fate] ELSE request

(* What each step of a thread means to those who wait for an answer.       *)
Answers(t) ==
    \/ Publish(t) /\ Ends(t, "applied")
    \/ PolicyRaises(t) /\ Ends(t, IF call.phase = "failed" THEN "failed" ELSE "refused")
    \/ (WriteFails(t) \/ ReadBackFails(t)) /\ Ends(t, "failed")
    \/ /\ ReadBackDuty(t)
       /\ IF pc'[t] = "publish" THEN UNCHANGED request ELSE Ends(t, "failed")
    \/ /\ \/ ReadMode(t) \/ ReadDuty(t) \/ ReadSensors(t) \/ ReadFails(t)
          \/ AskPolicy(t) \/ TakeDecision(t) \/ SetManual(t) \/ SetDuty(t)
          \/ ReadBackMode(t) \/ PublishError(t)
       /\ UNCHANGED request

(* A judgement of which the save failed is no judgement: it is not used.   *)
Judges ==
    /\ PolicyStep
    /\ safety' = IF call.phase = "judge" /\ call'.phase # "failed"
                 THEN call'.decision.state ELSE safety
    /\ UNCHANGED request

Dies ==
    /\ Crash
    /\ request' = [h \in Handlers |->
                     IF job[h].kind = "control"
                     THEN [request[h] EXCEPT !.fate = "lost"] ELSE request[h]]
    /\ UNCHANGED safety

AnsweringNext ==
    \/ Judges \/ Dies
    \/ \E h \in Handlers : ReceiveControl(h) /\ Asks(h) /\ UNCHANGED safety
    \/ \E t \in Threads : Answers(t) /\ UNCHANGED safety
    \/ /\ \/ Wake \/ Meddle \/ ChangeTemps
          \/ \E h \in Handlers : ReceiveStatus(h)
          \/ \E t \in Threads : Acquire(t)
          \/ (AdvanceClock \/ StepClockBack \/ DamageFile) /\ UNCHANGED agentVars
       /\ UNCHANGED answerVars

AnsweringSpec == AnsweringInit /\ [][AnsweringNext]_answeringVars

FairAnsweringSpec == AnsweringSpec /\ AgentFairness

-----------------------------------------------------------------------------

(***************************************************************************)
(* Properties.                                                             *)
(***************************************************************************)

(* Seen from outside the agent does one thing at a time: whatever threads, *)
(* failing commands, watchdog and restarts do, each request is applied,    *)
(* refused, failed or lost as a whole, is refused only for a reason the    *)
(* policy has at that moment (dashboard.js: "the policy still accepts      *)
(* 100%"), and what /status answers with is the state last judged.         *)
KeepsInterface == Interface!InterfaceSpec

(* The status comes back: once nothing fails any more, /status shows again *)
(* and again the state of the last judgement with its lock, as a tick      *)
(* publishes it, whatever requests come in between.  It is the fairness    *)
(* that Dashboard assumes of the agent's ticks.                            *)
StatusComesBack == []<>(Shown = Interface!TickPage)

=============================================================================
