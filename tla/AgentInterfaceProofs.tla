------------------------ MODULE AgentInterfaceProofs ------------------------
(***************************************************************************)
(* The agent, seen by its callers, is AgentInterface: for any number of    *)
(* handlers, requests and failures, and whatever threads, watchdog and     *)
(* restarts do in between.                                                 *)
(*                                                                         *)
(* The interface decides a request in one step; the agent takes a dozen.   *)
(* So the invariant says that what the policy found when it judged is what *)
(* it would find still, until the thread has published or given up.        *)
(***************************************************************************)
EXTENDS AnsweringAgent, ControlAgentProofs

(* What a decision says of the state last judged, and what it locks.       *)
Shows(decision, requested) ==
    /\ decision.state = safety
    /\ decision.locked = (requested = None /\ safety \in {"hot", "sensor-failure"})

CallOrder == [duty |-> call.requested, ttl |-> call.ttl]

OrderOf(work) == [duty |-> work.duty, ttl |-> work.ttl]

(* The same of the call under way: what it will answer can still be said.  *)
CallShows ==
    /\ call.phase \in {"grant", "returned"} =>
         /\ Shows(call.decision, call.requested)
         /\ call.requested # None => Interface!MayAccept(CallOrder)
    /\ call.phase \in {"locked", "rejected"} => Interface!MayRefuse(CallOrder)

(* And of a thread that carries a decision to the BMC.                     *)
WorkShows(t) ==
    pc[t] \in WriteSteps =>
        /\ Shows(job[t].decision, job[t].duty)
        /\ job[t].duty # None => Interface!MayAccept(OrderOf(job[t]))

(* A request is queued exactly while a thread works on it.                 *)
RequestTyped ==
    request \in [Handlers -> [fate : Interface!Fates, order : Requests \cup {None}]]

Pending(t) ==
    job[t].kind = "control" =>
        t \in Handlers /\ request[t].fate = "queued" /\ request[t].order = OrderOf(job[t])

Pendings ==
    /\ RequestTyped
    /\ \A t \in Threads : Pending(t)
    /\ \A h \in Handlers : request[h].fate = "queued" => job[h].kind = "control"

AnsweringInv ==
    /\ PolicyTypeOK /\ AgentInv
    /\ safety \in Interface!SafetyStates
    /\ CallShows
    /\ \A t \in Threads : WorkShows(t)
    /\ Pendings

-----------------------------------------------------------------------------
(* The history leaves the agent alone.                                     *)

LEMMA AnsweringIsAgent ==
  ASSUME [AnsweringNext]_answeringVars
  PROVE  [AgentNext]_vars
<1>1. ASSUME NEW t \in Threads, Answers(t) PROVE Work(t)
  BY <1>1 DEF Answers, Work
<1>2. CASE Judges
  BY <1>2 DEF Judges, AgentNext
<1>3. CASE Dies
  BY <1>3 DEF Dies, AgentNext, World
<1>4. CASE UNCHANGED answeringVars
  BY <1>4 DEF answeringVars
<1>5. QED
  BY <1>1, <1>2, <1>3, <1>4 DEF AnsweringNext, AgentNext, World

-----------------------------------------------------------------------------
(* The call and its judgement.                                             *)

LEMMA Constants ==
  /\ FullDuty = 100 /\ SafeDuty = 22..100
  /\ Interface!FullDuty = FullDuty
  /\ \A duty, ttl : Interface!ValidRequest(duty, ttl) = ValidRequest(duty, ttl)
BY DEF FullDuty, SafeDuty, QuietDuty, Interface!FullDuty, Interface!ValidRequest,
       ValidRequest, Interface!SafeDuty, Interface!QuietDuty

(* Every answer to a judged request is one the interface allows.           *)
LEMMA JudgementShows ==
  ASSUME PolicyTypeOK, Judge, call'.phase # "failed", safety' = call'.decision.state
  PROVE  safety' \in Interface!SafetyStates /\ CallShows'
<1> DEFINE decision == Decision(mem, call.status, call.requested)
           state == SafetyState(mem.previous_hot, call.status)
<1>1. /\ call'.phase = AfterJudging(decision) /\ call'.decision = decision
      /\ call'.status = call.status
      /\ call'.requested = call.requested /\ call'.ttl = call.ttl
  BY CallAfterJudge
<1>2. state \in {"hot", "sensor-failure", "cooling", "normal"}
  BY DEF SafetyState
<1>3. /\ decision.state = state
      /\ decision.locked = /\ state \in {"hot", "sensor-failure"}
                           /\ \/ call.requested = None
                              \/ Refused(state, call.status, call.requested)
  BY DEF Decision
<1>4. call.requested = None \/ ValidRequest(call.requested, call.ttl)
  BY DEF Judge, PolicyTypeOK
<1>5. call.status.duty \in (0..FullDuty) \cup {None}
  BY DEF PolicyTypeOK, CallType, Status
<1> HIDE DEF decision, state
<1>6. safety' = state /\ safety' \in Interface!SafetyStates
  BY <1>1, <1>2, <1>3 DEF Interface!SafetyStates
<1>7. CASE call.requested = None
  <2>1. call'.phase = "returned"
    BY <1>1, <1>7 DEF AfterJudging
  <2>2. QED
    BY <1>1, <1>3, <1>6, <1>7, <2>1 DEF CallShows, Shows
<1>8. CASE call.requested # None /\ Refused(state, call.status, call.requested)
  <2>1. call'.phase = "locked"
    BY <1>1, <1>3, <1>8 DEF AfterJudging
  <2>2. call.requested \in 22..100 /\ call.requested < 100
        /\ state \in {"hot", "sensor-failure"}
    BY <1>4, <1>5, <1>8, Constants DEF Refused, ValidRequest
  <2>3. Interface!MayRefuse(CallOrder)'
    BY <1>1, <1>6, <2>2, Constants DEF Interface!MayRefuse, CallOrder
  <2>4. QED
    BY <1>1, <1>6, <2>1, <2>3 DEF CallShows
<1>9. CASE call.requested # None /\ ~Refused(state, call.status, call.requested)
  <2>1. call'.phase = "grant"
    BY <1>1, <1>3, <1>9 DEF AfterJudging
  <2>2. state = "hot" => call.requested = 100
    BY <1>4, <1>9, Constants DEF Refused, ValidRequest
  <2>3. Interface!MayAccept(CallOrder)'
    BY <1>1, <1>4, <1>6, <1>9, <2>2, Constants
       DEF Interface!MayAccept, Interface!Valid, CallOrder
  <2>4. Shows(call.decision, call.requested)'
    BY <1>1, <1>3, <1>6, <1>9 DEF Shows
  <2>5. QED
    BY <1>6, <2>1, <2>3, <2>4 DEF CallShows
<1>10. QED
  BY <1>6, <1>7, <1>8, <1>9

LEMMA GrantShows ==
  ASSUME PolicyTypeOK, Grant, CallShows, UNCHANGED safety
  PROVE  CallShows'
<1> DEFINE expires == call.at + call.ttl
<1>1. call \in CallType /\ call.decision \in DecisionType
  BY DEF PolicyTypeOK, CallType
<1>2. \/ call' = [call EXCEPT !.phase = "returned", !.decision.expires = expires]
      \/ call' = [call EXCEPT !.phase = "failed"]
  BY DEF Grant, SaveThen
<1> HIDE DEF expires
<1>3. CASE call' = [call EXCEPT !.phase = "failed"]
  BY <1>1, <1>3 DEF CallShows, CallType
<1>4. CASE call' = [call EXCEPT !.phase = "returned", !.decision.expires = expires]
  <2>1. /\ call'.decision = [call.decision EXCEPT !.expires = expires]
        /\ call'.phase = "returned"
        /\ call'.requested = call.requested /\ call'.ttl = call.ttl
    BY <1>1, <1>4 DEF CallType
  <2>2. call'.decision.state = call.decision.state
        /\ call'.decision.locked = call.decision.locked
    BY <1>1, <2>1 DEF DecisionType
  <2>3. /\ Shows(call.decision, call.requested)
        /\ call.requested # None => Interface!MayAccept(CallOrder)
    BY DEF Grant, CallShows
  <2>4. QED
    BY <2>1, <2>2, <2>3 DEF CallShows, Shows, CallOrder, Interface!MayAccept
<1>5. QED
  BY <1>2, <1>3, <1>4

(* What becomes of the call when it does not take a step of its own.       *)
LEMMA CallAround ==
  ASSUME [AnsweringNext]_answeringVars, ~Judges
  PROVE  \/ \E s, requested, ttl : Begin(s, requested, ttl)
         \/ call' = IdleCall
         \/ UNCHANGED call
<1>1. ASSUME NEW t \in Threads, Answers(t)
      PROVE  \/ \E s, requested, ttl : Begin(s, requested, ttl)
             \/ call' = IdleCall
             \/ UNCHANGED call
  BY <1>1 DEF Answers, ReadMode, ReadDuty, ReadSensors, ReadFails, AskPolicy,
              TakeDecision, PolicyRaises, Finish, SetManual, SetDuty, WriteFails,
              ReadBackMode, ReadBackDuty, ReadBackFails, Publish, PublishError, policyVars
<1>2. CASE Dies
  BY <1>2 DEF Dies, Crash, Restart
<1>3. CASE \/ Wake \/ Meddle \/ ChangeTemps
           \/ \E h \in Handlers : ReceiveStatus(h) \/ ReceiveControl(h)
           \/ \E t \in Threads : Acquire(t)
           \/ AdvanceClock \/ StepClockBack \/ DamageFile
           \/ UNCHANGED answeringVars
  BY <1>3 DEF Wake, Meddle, ChangeTemps, ReceiveStatus, ReceiveControl, Start, Acquire,
              AdvanceClock, StepClockBack, DamageFile, answeringVars, vars, policyVars
<1>4. QED
  BY <1>1, <1>2, <1>3 DEF AnsweringNext

(* Only a judgement changes what callers may find, and then the call says  *)
(* the new state.                                                          *)
LEMMA CallShowsInductive ==
  ASSUME AnsweringInv, [AnsweringNext]_answeringVars
  PROVE  CallShows' /\ safety' \in Interface!SafetyStates
<1>0. PolicyTypeOK /\ CallShows /\ safety \in Interface!SafetyStates
  BY DEF AnsweringInv
<1>1. [AgentNext]_vars /\ AgentTypeOK /\ JobDiscipline
  BY AnsweringIsAgent DEF AnsweringInv, AgentInv
<1>2. CASE call'.phase \in {"idle", "expire", "judge", "failed"} /\ UNCHANGED safety
  BY <1>0, <1>2 DEF CallShows
<1>3. CASE Judges
  <2>1. CallStep /\ safety' = IF call.phase = "judge" /\ call'.phase # "failed"
                              THEN call'.decision.state ELSE safety
    BY <1>3 DEF Judges, PolicyStep
  <2>2. CASE Judge
    <3>1. CASE call'.phase # "failed"
      BY <1>0, <2>1, <2>2, <3>1, JudgementShows DEF Judge
    <3>2. CASE call'.phase = "failed"
      BY <1>2, <2>1, <3>2, <1>0
    <3>3. QED
      BY <3>1, <3>2
  <2>3. CASE Expire
    BY <1>0, <1>2, <2>1, <2>3, CallAfterExpire DEF Expire
  <2>4. CASE Grant
    BY <1>0, <2>1, <2>4, GrantShows DEF Grant
  <2>5. QED
    BY <2>1, <2>2, <2>3, <2>4 DEF CallStep
<1>4. CASE ~Judges
  <2>1. UNCHANGED safety
    BY <1>4 DEF AnsweringNext, Dies, answerVars, answeringVars
  <2>2. ASSUME NEW s, NEW requested, NEW ttl, Begin(s, requested, ttl)
        PROVE  CallShows'
    <3>1. /\ call'.phase = IF requested = None \/ ValidRequest(requested, ttl)
                           THEN "expire" ELSE "rejected"
          /\ call'.requested = requested /\ call'.ttl = ttl
      BY <1>0, <2>2 DEF Begin, PolicyTypeOK, CallType
    <3>2. ~ValidRequest(requested, ttl) => Interface!MayRefuse(CallOrder)'
      BY <3>1, Constants DEF Interface!MayRefuse, Interface!Valid, CallOrder
    <3>3. QED
      BY <3>1, <3>2 DEF CallShows
  <2>3. CASE call' = IdleCall
    BY <1>0, <1>2, <2>1, <2>3 DEF IdleCall
  <2>4. CASE UNCHANGED call
    BY <1>0, <2>1, <2>4
       DEF CallShows, Shows, CallOrder, Interface!MayAccept, Interface!MayRefuse
  <2>5. QED
    BY <1>0, <1>4, <2>1, <2>2, <2>3, <2>4, CallAround
<1>5. QED
  BY <1>3, <1>4

-----------------------------------------------------------------------------
(* The writes and the answer.                                              *)

(* While a thread writes, no other one has the policy judge.               *)
LEMMA NoJudgement ==
  ASSUME AnsweringInv, [AnsweringNext]_answeringVars, NEW t \in Threads,
         pc'[t] \in WriteSteps
  PROVE  UNCHANGED safety
<1>1. CASE Judges
  <2>1. CallStep /\ UNCHANGED pc
    BY <1>1 DEF Judges, PolicyStep, agentVars, serviceVars
  <2>2. PICK u \in Threads : pc[u] = "inPolicy"
    BY <2>1, CallStepKeepsCaller DEF AnsweringInv, AgentInv, CallDiscipline
  <2>3. pc[t] \in WorkSteps /\ pc[u] \in WorkSteps /\ pc[t] # pc[u]
    BY <2>1, <2>2 DEF WorkSteps, WriteSteps
  <2>4. QED
    BY <2>3 DEF AnsweringInv, AgentInv, LockDiscipline
<1>2. CASE ~Judges
  BY <1>2 DEF AnsweringNext, Dies, answerVars, answeringVars
<1>3. QED
  BY <1>1, <1>2

LEMMA WorkShowsInductive ==
  ASSUME AnsweringInv, [AnsweringNext]_answeringVars, NEW t \in Threads
  PROVE  WorkShows(t)'
<1> SUFFICES ASSUME pc'[t] \in WriteSteps
             PROVE  /\ Shows(job[t].decision, job[t].duty)'
                    /\ job'[t].duty # None => Interface!MayAccept(OrderOf(job[t]))'
  BY DEF WorkShows
<1>1. [AgentNext]_vars /\ AgentInv /\ PolicyTypeOK
  BY AnsweringIsAgent DEF AnsweringInv
<1>2. UNCHANGED safety
  BY NoJudgement
<1>3. job'[t].duty = job[t].duty /\ job'[t].ttl = job[t].ttl
  BY <1>1, RequestKept
<1>4. /\ Shows(job'[t].decision, job[t].duty)
      /\ job[t].duty # None => Interface!MayAccept(OrderOf(job[t]))
  <2>1. CASE pc[t] \in WriteSteps /\ job'[t].decision = job[t].decision
    BY <2>1 DEF AnsweringInv, WorkShows
  <2>2. CASE TakeDecision(t) /\ job'[t].decision = call.decision
    <3>1. pc[t] = "inPolicy" /\ call.phase = "returned"
      BY <2>2 DEF TakeDecision
    <3>2. call.requested = job[t].duty /\ call.ttl = job[t].ttl
      BY <1>1, <3>1 DEF AgentInv, CallDiscipline
    <3>3. QED
      BY <2>2, <3>1, <3>2 DEF AnsweringInv, CallShows, CallOrder, OrderOf
  <2>3. QED
    BY <1>1, <2>1, <2>2, DecisionKept
<1>5. QED
  BY <1>2, <1>3, <1>4 DEF Shows, OrderOf, Interface!MayAccept

-----------------------------------------------------------------------------
(* The requests.                                                           *)

(* A step that answers nobody, and one that starts no request.             *)
LEMMA StaysPending ==
  ASSUME Pendings, UNCHANGED request,
         \A t \in Threads :
           IF job[t].kind = "control"
           THEN job'[t].kind = "control" /\ OrderOf(job'[t]) = OrderOf(job[t])
           ELSE job'[t].kind # "control"
  PROVE  Pendings'
<1>1. Handlers \subseteq Threads
  BY DEF Threads
<1>2. QED
  BY <1>1 DEF Pendings, RequestTyped, Pending, OrderOf

LEMMA KeptPending ==
  ASSUME Pendings, UNCHANGED request, KeepsRequests
  PROVE  Pendings'
BY StaysPending DEF KeepsRequests, OrderOf

(* An answered request is no longer queued, and its thread has no other.   *)
LEMMA EndsPending ==
  ASSUME Pendings, JobTyped, NEW t \in Threads,
         NEW fate \in Interface!Fates \ {"queued"}, Ends(t, fate),
         job' = [job EXCEPT ![t] = NoJob]
  PROVE  Pendings'
<1>1. Handlers \subseteq Threads
  BY DEF Threads
<1>2. job'[t].kind = "none" /\ \A u \in Threads : u # t => job'[u] = job[u]
  BY DEF JobTyped, NoJob
<1>3. CASE job[t].kind = "control"
  <2>1. /\ t \in Handlers /\ request' = [request EXCEPT ![t].fate = fate]
        /\ RequestTyped
    BY <1>3 DEF Pendings, Pending, Ends
  <2>2. /\ RequestTyped'
        /\ request'[t].fate = fate
        /\ \A h \in Handlers : h # t => request'[h] = request[h]
    BY <2>1 DEF RequestTyped
  <2>3. ASSUME NEW u \in Threads PROVE Pending(u)'
    BY <1>2, <2>2, <2>3 DEF Pendings, Pending
  <2>4. ASSUME NEW h \in Handlers, request'[h].fate = "queued"
        PROVE  job'[h].kind = "control"
    <3>1. h # t
      BY <2>2, <2>4
    <3>2. QED
      BY <1>1, <1>2, <2>2, <2>4, <3>1 DEF Pendings
  <2>5. QED
    BY <2>2, <2>3, <2>4 DEF Pendings
<1>4. CASE job[t].kind # "control"
  <2>1. UNCHANGED request
    BY <1>4 DEF Ends
  <2>2. QED
    BY <1>2, <1>4, <2>1, StaysPending
<1>5. QED
  BY <1>3, <1>4

LEMMA AsksPending ==
  ASSUME Pendings, JobTyped, NEW h \in Handlers, ReceiveControl(h), Asks(h)
  PROVE  Pendings'
<1>1. h \in Threads /\ Handlers \subseteq Threads
  BY DEF Threads
<1>2. PICK r \in Requests :
         job' = [job EXCEPT ![h] = [NoJob EXCEPT !.kind = "control", !.duty = r.duty,
                                                 !.ttl = r.ttl]]
  BY DEF ReceiveControl, Start
<1>3. /\ job'[h].kind = "control" /\ job'[h].duty = r.duty /\ job'[h].ttl = r.ttl
      /\ \A u \in Threads : u # h => job'[u] = job[u]
  BY <1>1, <1>2 DEF JobTyped, NoJob
<1>4. OrderOf(job'[h]) \in Requests
  BY <1>3, PolicyConstants DEF OrderOf
<1>5. request' = [request EXCEPT ![h] = [fate |-> "queued", order |-> OrderOf(job'[h])]]
  BY DEF Asks, OrderOf
<1>6. RequestTyped
  BY DEF Pendings
<1>7. /\ RequestTyped'
      /\ request'[h].fate = "queued" /\ request'[h].order = OrderOf(job'[h])
      /\ \A g \in Handlers : g # h => request'[g] = request[g]
  BY <1>4, <1>5, <1>6 DEF RequestTyped, Interface!Fates
<1>8. QED
  BY <1>1, <1>3, <1>7 DEF Pendings, Pending, OrderOf

LEMMA DiesPending ==
  ASSUME Pendings, Dies
  PROVE  Pendings'
<1>1. \A t \in Threads : job'[t].kind = "none"
  BY DEF Dies, Crash, NoJob
<1>2. ASSUME NEW h \in Handlers
      PROVE  /\ request'[h] \in [fate : Interface!Fates, order : Requests \cup {None}]
             /\ request'[h].fate # "queued"
  <2>1. request[h] \in [fate : Interface!Fates, order : Requests \cup {None}]
    BY DEF Pendings, RequestTyped
  <2>2. request'[h] = IF job[h].kind = "control"
                      THEN [request[h] EXCEPT !.fate = "lost"] ELSE request[h]
    BY DEF Dies
  <2>3. job[h].kind # "control" => request[h].fate # "queued"
    BY DEF Pendings
  <2>4. QED
    BY <2>1, <2>2, <2>3 DEF Interface!Fates
<1>3. RequestTyped'
  BY <1>2 DEF RequestTyped, Dies
<1>4. QED
  BY <1>1, <1>2, <1>3 DEF Pendings, Pending

(* What a thread's own step means to its request.                          *)
LEMMA AnswersPending ==
  ASSUME AnsweringInv, NEW t \in Threads, Answers(t)
  PROVE  Pendings'
<1>0. Pendings /\ AgentTypeOK /\ PolicyTypeOK /\ JobTyped /\ PcTyped
  BY DEF AnsweringInv, AgentInv, AgentTypeOK, JobTyped, PcTyped
<1>1. {"applied", "refused", "failed"} \subseteq Interface!Fates \ {"queued"}
  BY DEF Interface!Fates
<1>2. ASSUME Raise(t), NEW fate \in {"refused", "failed"}, Ends(t, fate)
      PROVE  Pendings'
  BY <1>0, <1>1, <1>2, EndsPending DEF Raise
<1>3. CASE Publish(t) /\ Ends(t, "applied")
  BY <1>0, <1>1, <1>3, EndsPending DEF Publish
<1>4. CASE PolicyRaises(t) /\ Ends(t, IF call.phase = "failed" THEN "failed" ELSE "refused")
  BY <1>2, <1>4 DEF PolicyRaises
<1>5. CASE (WriteFails(t) \/ ReadBackFails(t)) /\ Ends(t, "failed")
  BY <1>2, <1>5 DEF WriteFails, ReadBackFails
<1>6. CASE /\ ReadBackDuty(t)
           /\ IF pc'[t] = "publish" THEN UNCHANGED request ELSE Ends(t, "failed")
  <2>1. CASE Raise(t)
    <3>1. pc'[t] # "publish"
      BY <1>0, <2>1 DEF Raise, Goto, PcTyped
    <3>2. QED
      BY <1>2, <1>6, <2>1, <3>1
  <2>2. CASE ~Raise(t)
    <3>1. pc'[t] = "publish" /\ job' = [job EXCEPT ![t].readback.duty = bmc.duty]
      BY <1>0, <1>6, <2>2 DEF ReadBackDuty, Goto, PcTyped
    <3>2. QED
      BY <1>0, <1>6, <3>1, ReadBackDutyKeeps, KeptPending
  <2>3. QED
    BY <2>1, <2>2
<1>7. CASE /\ ReadMode(t) \/ ReadDuty(t) \/ ReadSensors(t) \/ ReadFails(t) \/ ReadBackMode(t)
           /\ UNCHANGED request
  BY <1>0, <1>7, ReadingStepsKeep, KeptPending
<1>8. CASE TakeDecision(t) /\ UNCHANGED request
  BY <1>0, <1>8, TakeDecisionKeeps, KeptPending
<1>9. CASE /\ AskPolicy(t) \/ SetManual(t) \/ SetDuty(t) \/ PublishError(t)
           /\ UNCHANGED request
  <2>1. UNCHANGED job
    BY <1>9 DEF AskPolicy, SetManual, SetDuty, PublishError
  <2>2. QED
    BY <1>0, <1>9, <2>1, StaysPending
<1>10. QED
  BY <1>3, <1>4, <1>5, <1>6, <1>7, <1>8, <1>9 DEF Answers

LEMMA PendingsInductive ==
  ASSUME AnsweringInv, [AnsweringNext]_answeringVars
  PROVE  Pendings'
<1>0. Pendings /\ JobTyped /\ JobDiscipline
  BY DEF AnsweringInv, AgentInv, AgentTypeOK, JobTyped
<1>1. CASE UNCHANGED <<job, request>>
  BY <1>0, <1>1, StaysPending
<1>2. ASSUME NEW t \in Threads, Start(t, [NoJob EXCEPT !.kind = "tick"]),
             UNCHANGED request
      PROVE  Pendings'
  <2>1. job[t].kind = "none"
    BY <1>0, <1>2 DEF Start, JobDiscipline
  <2>2. job'[t].kind = "tick" /\ \A u \in Threads : u # t => job'[u] = job[u]
    BY <1>0, <1>2 DEF Start, JobTyped, NoJob
  <2>3. QED
    BY <1>0, <1>2, <2>1, <2>2, StaysPending
<1>3. ASSUME NEW h \in Handlers, ReceiveControl(h), Asks(h) PROVE Pendings'
  BY <1>0, <1>3, AsksPending
<1>4. ASSUME NEW t \in Threads, Answers(t) PROVE Pendings'
  BY <1>4, AnswersPending
<1>5. CASE Dies
  BY <1>0, <1>5, DiesPending
<1>6. \/ UNCHANGED <<job, request>>
      \/ \E t \in Threads :
            Start(t, [NoJob EXCEPT !.kind = "tick"]) /\ UNCHANGED request
      \/ \E h \in Handlers : ReceiveControl(h) /\ Asks(h)
      \/ \E t \in Threads : Answers(t)
      \/ Dies
  BY DEF AnsweringNext, Judges, PolicyStep, Wake, ReceiveStatus, Meddle, ChangeTemps,
         Acquire, agentVars, serviceVars, answeringVars, answerVars, vars, Threads
<1>7. QED
  BY <1>1, <1>2, <1>3, <1>4, <1>5, <1>6

-----------------------------------------------------------------------------
(* The invariant.                                                          *)

LEMMA AnsweringInductive ==
  AnsweringInv /\ [AnsweringNext]_answeringVars => AnsweringInv'
<1> SUFFICES ASSUME AnsweringInv, [AnsweringNext]_answeringVars
             PROVE  AnsweringInv'
  OBVIOUS
<1>1. PolicyTypeOK' /\ AgentInv'
  BY AnsweringIsAgent, AgentInductive DEF AnsweringInv
<1>2. QED
  BY <1>1, CallShowsInductive, WorkShowsInductive, PendingsInductive DEF AnsweringInv

LEMMA AnsweringStarts == AnsweringInit => AnsweringInv
<1> SUFFICES ASSUME AnsweringInit PROVE AnsweringInv
  OBVIOUS
<1>1. PolicyTypeOK /\ AgentInv
  BY AgentStarts DEF AnsweringInit
<1>2. /\ call.phase = "idle"
      /\ \A t \in Threads : pc[t] = "idle" /\ job[t].kind = "none"
      /\ safety \in Interface!SafetyStates
      /\ request = [h \in Handlers |-> Interface!NotSent]
  BY DEF AnsweringInit, AgentInit, PolicyInit, IdleCall, NoJob
<1>3. CallShows /\ \A t \in Threads : WorkShows(t)
  BY <1>2 DEF CallShows, WorkShows, WriteSteps
<1>4. Pendings
  BY <1>2 DEF Pendings, Pending, RequestTyped, Interface!NotSent, Interface!Fates
<1>5. QED
  BY <1>1, <1>2, <1>3, <1>4 DEF AnsweringInv

-----------------------------------------------------------------------------
(* The mapping, step by step.                                              *)

(* Who was asked is a caller whose request the interface has queued.       *)
LEMMA IsQueued ==
  ASSUME Pendings, NEW t \in Threads, job[t].kind = "control",
         NEW fate, Ends(t, fate)
  PROVE  /\ t \in Handlers
         /\ Interface!Queued(t) /\ Interface!Decided(t, fate)
         /\ request[t].order = OrderOf(job[t])
BY DEF Pendings, Pending, Ends, Interface!Queued, Interface!Decided

(* A request that fails, seen from outside; a tick that does is not seen.  *)
LEMMA EndsInFailure ==
  ASSUME Pendings, NEW t \in Threads, Ends(t, "failed"),
         UNCHANGED <<safety, snapshot, snapError>>
  PROVE  [Interface!InterfaceNext]_(Interface!interfaceVars)
<1>1. UNCHANGED <<safety, Shown>>
  BY DEF Shown
<1>2. CASE job[t].kind = "control"
  <2>1. t \in Handlers /\ Interface!Fail(t)
    BY <1>1, <1>2, IsQueued DEF Interface!Fail
  <2>2. QED
    BY <2>1 DEF Interface!InterfaceNext, Interface!CallerStep
<1>3. CASE job[t].kind # "control"
  BY <1>1, <1>3 DEF Ends, Interface!interfaceVars
<1>4. QED
  BY <1>2, <1>3

LEMMA EndsInRefusal ==
  ASSUME AnsweringInv, NEW t \in Threads, pc[t] = "inPolicy",
         call.phase \in {"locked", "rejected"}, Ends(t, "refused"),
         UNCHANGED <<safety, snapshot, snapError>>
  PROVE  [Interface!InterfaceNext]_(Interface!interfaceVars)
<1>1. UNCHANGED <<safety, Shown>>
  BY DEF Shown
<1>2. CASE job[t].kind = "control"
  <2>1. /\ t \in Handlers
        /\ Interface!Queued(t) /\ Interface!Decided(t, "refused")
        /\ request[t].order = OrderOf(job[t])
    BY <1>2, IsQueued DEF AnsweringInv
  <2>2. call.requested = job[t].duty /\ call.ttl = job[t].ttl
    BY DEF AnsweringInv, AgentInv, CallDiscipline
  <2>3. Interface!MayRefuse(request[t].order)
    BY <2>1, <2>2 DEF AnsweringInv, CallShows, CallOrder, OrderOf
  <2>4. Interface!Refuse(t)
    BY <1>1, <2>1, <2>3 DEF Interface!Refuse
  <2>5. QED
    BY <2>1, <2>4 DEF Interface!InterfaceNext, Interface!CallerStep
<1>3. CASE job[t].kind # "control"
  BY <1>1, <1>3 DEF Ends, Interface!interfaceVars
<1>4. QED
  BY <1>2, <1>3

(* A publication is the interface's tick, or its acceptance of a request.  *)
LEMMA PublishShows ==
  ASSUME AnsweringInv, NEW t \in Threads, Publish(t), Ends(t, "applied"),
         UNCHANGED safety
  PROVE  [Interface!InterfaceNext]_(Interface!interfaceVars)
<1>0. pc[t] \in WriteSteps /\ Pendings /\ JobDiscipline
  BY DEF Publish, WriteSteps, AnsweringInv, AgentInv
<1>1. Shows(job[t].decision, job[t].duty)
  BY <1>0 DEF AnsweringInv, WorkShows
<1>2. /\ snapshot' \in Snapshot /\ snapError' = FALSE
      /\ snapshot'.state = job[t].decision.state
      /\ snapshot'.locked = job[t].decision.locked
  <2>1. job[t].decision \in DecisionType /\ job[t].readback \in BackendReading
    BY DEF AnsweringInv, AgentInv, AgentTypeOK, Job
  <2>2. QED
    BY <2>1 DEF Publish, EndError, Snapshot, DecisionType, BackendReading
<1>3. Shown' = [state |-> safety,
                locked |-> job[t].duty = None /\ safety \in {"hot", "sensor-failure"}]
  BY <1>1, <1>2, NoSnapshotIsNone DEF Shown, Shows
<1>4. CASE job[t].kind = "control"
  <2>1. job[t].duty # None
    BY <1>0, <1>4, PolicyConstants, ReadingsDiffer DEF JobDiscipline
  <2>2. /\ t \in Handlers
        /\ Interface!Queued(t) /\ Interface!Decided(t, "applied")
        /\ request[t].order = OrderOf(job[t])
    BY <1>0, <1>4, IsQueued
  <2>3. Interface!MayAccept(request[t].order)
    BY <1>0, <2>1, <2>2 DEF AnsweringInv, WorkShows
  <2>4. Interface!Apply(t)
    BY <1>3, <2>1, <2>2, <2>3 DEF Interface!Apply
  <2>5. QED
    BY <2>2, <2>4 DEF Interface!InterfaceNext, Interface!CallerStep
<1>5. CASE job[t].kind # "control"
  <2>1. job[t].duty = None
    BY <1>0, <1>5 DEF JobDiscipline
  <2>2. UNCHANGED request
    BY <1>5 DEF Ends
  <2>3. Interface!Tick
    BY <1>3, <2>1, <2>2 DEF Interface!Tick, Interface!TickPage
  <2>4. QED
    BY <2>3 DEF Interface!InterfaceNext
<1>6. QED
  BY <1>4, <1>5

LEMMA AnswersShow ==
  ASSUME AnsweringInv, NEW t \in Threads, Answers(t), UNCHANGED safety
  PROVE  [Interface!InterfaceNext]_(Interface!interfaceVars)
<1>0. Pendings
  BY DEF AnsweringInv
<1>1. CASE Publish(t) /\ Ends(t, "applied")
  BY <1>1, PublishShows
<1>2. CASE PolicyRaises(t) /\ Ends(t, IF call.phase = "failed" THEN "failed" ELSE "refused")
  <2>1. /\ pc[t] = "inPolicy" /\ call.phase \in {"locked", "rejected", "failed"}
        /\ UNCHANGED <<snapshot, snapError>>
    BY <1>2 DEF PolicyRaises, Raise
  <2>2. CASE call.phase = "failed"
    BY <1>0, <1>2, <2>1, <2>2, EndsInFailure
  <2>3. CASE call.phase \in {"locked", "rejected"}
    BY <1>2, <2>1, <2>3, EndsInRefusal
  <2>4. QED
    BY <2>1, <2>2, <2>3
<1>3. CASE (WriteFails(t) \/ ReadBackFails(t)) /\ Ends(t, "failed")
  BY <1>0, <1>3, EndsInFailure DEF WriteFails, ReadBackFails, Raise
<1>4. CASE UNCHANGED <<request, snapshot, snapError>>
  BY <1>4 DEF Shown, Interface!interfaceVars
<1>5. CASE /\ ReadBackDuty(t)
           /\ IF pc'[t] = "publish" THEN UNCHANGED request ELSE Ends(t, "failed")
  <2>1. UNCHANGED <<snapshot, snapError>>
    BY <1>5 DEF ReadBackDuty, Raise
  <2>2. QED
    BY <1>0, <1>4, <1>5, <2>1, EndsInFailure
<1>6. CASE PublishError(t) /\ UNCHANGED request
  <2>1. Shown' = None
    BY <1>6 DEF PublishError, Shown
  <2>2. Interface!TickFails
    BY <1>6, <2>1 DEF Interface!TickFails
  <2>3. QED
    BY <2>2 DEF Interface!InterfaceNext
<1>7. CASE /\ \/ ReadMode(t) \/ ReadDuty(t) \/ ReadSensors(t) \/ ReadFails(t)
              \/ AskPolicy(t) \/ TakeDecision(t) \/ SetManual(t) \/ SetDuty(t)
              \/ ReadBackMode(t)
           /\ UNCHANGED request
  BY <1>4, <1>7 DEF ReadMode, ReadDuty, ReadSensors, ReadFails, AskPolicy, TakeDecision,
                    SetManual, SetDuty, ReadBackMode
<1>8. QED
  BY <1>1, <1>2, <1>3, <1>5, <1>6, <1>7 DEF Answers

LEMMA StepsShow ==
  ASSUME AnsweringInv, AnsweringInv', [AnsweringNext]_answeringVars
  PROVE  [Interface!InterfaceNext]_(Interface!interfaceVars)
<1>0. Pendings /\ JobTyped /\ JobDiscipline
  BY DEF AnsweringInv, AgentInv, AgentTypeOK, JobTyped
<1>1. CASE UNCHANGED <<safety, request, snapshot, snapError>>
  BY <1>1 DEF Shown, Interface!interfaceVars
<1>2. CASE Judges
  <2>1. UNCHANGED <<Shown, request>>
    BY <1>2 DEF Judges, PolicyStep, agentVars, serviceVars, Shown
  <2>2. safety' \in Interface!SafetyStates
    BY DEF AnsweringInv
  <2>3. CASE safety' = safety
    BY <2>1, <2>3 DEF Interface!interfaceVars
  <2>4. CASE safety' # safety
    BY <2>1, <2>2, <2>4 DEF Interface!Sense, Interface!InterfaceNext
  <2>5. QED
    BY <2>3, <2>4
<1>3. CASE Dies
  <2>1. Shown' = None /\ UNCHANGED safety
    BY <1>3 DEF Dies, Crash, Shown
  <2>2. \A h \in Handlers : Interface!Queued(h) <=> job[h].kind = "control"
    BY <1>0 DEF Pendings, Pending, Interface!Queued, Threads
  <2>3. request' = [h \in Handlers |->
                      IF Interface!Queued(h) THEN [request[h] EXCEPT !.fate = "lost"]
                                             ELSE request[h]]
    BY <1>3, <2>2 DEF Dies
  <2>4. Interface!Crash
    BY <2>1, <2>3 DEF Interface!Crash
  <2>5. QED
    BY <2>4 DEF Interface!InterfaceNext
<1>4. ASSUME NEW h \in Handlers, ReceiveControl(h), Asks(h), UNCHANGED safety
      PROVE  Interface!InterfaceNext
  <2>1. h \in Threads
    BY DEF Threads
  <2>2. PICK r \in Requests : Start(h, [NoJob EXCEPT !.kind = "control", !.duty = r.duty,
                                                     !.ttl = r.ttl])
    BY <1>4 DEF ReceiveControl
  <2>3. request[h].fate # "queued"
    <3>1. job[h].kind = "none"
      BY <1>0, <2>1, <2>2 DEF Start, JobDiscipline
    <3>2. QED
      BY <1>0, <3>1 DEF Pendings
  <2>4. job'[h].duty = r.duty /\ job'[h].ttl = r.ttl
    BY <1>0, <2>1, <2>2 DEF Start, JobTyped, NoJob
  <2>5. r = [duty |-> job'[h].duty, ttl |-> job'[h].ttl]
    BY <2>4, PolicyConstants
  <2>6. UNCHANGED Shown
    BY <2>2 DEF Start, Shown
  <2>7. Interface!Send(h, r)
    BY <1>4, <2>3, <2>5, <2>6 DEF Asks, Interface!Send
  <2>8. QED
    BY <2>7 DEF Interface!InterfaceNext, Interface!CallerStep
<1>5. ASSUME NEW t \in Threads, Answers(t), UNCHANGED safety
      PROVE  [Interface!InterfaceNext]_(Interface!interfaceVars)
  BY <1>5, AnswersShow
<1>6. \/ UNCHANGED <<safety, request, snapshot, snapError>>
      \/ Judges \/ Dies
      \/ \E h \in Handlers : ReceiveControl(h) /\ Asks(h) /\ UNCHANGED safety
      \/ \E t \in Threads : Answers(t) /\ UNCHANGED safety
  BY DEF AnsweringNext, Wake, ReceiveStatus, Start, Meddle, ChangeTemps, Acquire,
         agentVars, serviceVars, answeringVars, answerVars, vars
<1>7. QED
  BY <1>1, <1>2, <1>3, <1>4, <1>5, <1>6

(* What HTTP callers rely on, for any number of handlers and any requests, *)
(* thresholds and failures: a request is applied, refused, failed or lost  *)
(* as a whole; it is refused only for a reason the policy has while it     *)
(* answers, full speed never; and what a thread publishes is the state of  *)
(* the last judgement, no other thread having judged since its own.        *)
THEOREM AgentKeepsInterface == AnsweringSpec => KeepsInterface
<1>1. AnsweringInit => Interface!InterfaceInit
  BY DEF AnsweringInit, AgentInit, Interface!InterfaceInit, Shown
<1>2. AnsweringInv /\ AnsweringInv' /\ [AnsweringNext]_answeringVars
        => [Interface!InterfaceNext]_(Interface!interfaceVars)
  BY StepsShow
<1>3. QED
  BY <1>1, <1>2, AnsweringStarts, AnsweringInductive, PTL
     DEF AnsweringSpec, KeepsInterface, Interface!InterfaceSpec

=============================================================================
