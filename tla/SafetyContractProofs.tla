------------------------ MODULE SafetyContractProofs ------------------------
(***************************************************************************)
(* What SafetyPolicy promises of its answers, and that without faults it   *)
(* implements SafetyContract, for all thresholds, statuses, requests and   *)
(* bounds.                                                                 *)
(***************************************************************************)
EXTENDS SafetyPolicyProofs

(* What the three steps of a call make of the call.                        *)
LEMMA CallAfterExpire ==
  ASSUME PolicyTypeOK, Expire
  PROVE  /\ call'.phase \in {"judge", "failed"}
         /\ call'.at = call.at /\ call'.status = call.status
         /\ call'.requested = call.requested /\ call'.ttl = call.ttl
         /\ call'.decision = call.decision
BY DEF Expire, SaveThen, PolicyTypeOK, CallType

LEMMA CallAfterJudge ==
  ASSUME PolicyTypeOK, Judge, NEW decision,
         decision = Decision(mem, call.status, call.requested)
  PROVE  /\ \/ call'.phase = AfterJudging(decision) /\ call'.decision = decision
            \/ call'.phase = "failed" /\ call'.decision = call.decision
         /\ call'.at = call.at /\ call'.status = call.status
         /\ call'.requested = call.requested /\ call'.ttl = call.ttl
<1>1. call' = [call EXCEPT !.phase = AfterJudging(decision), !.decision = decision]
      \/ call' = [call EXCEPT !.phase = "failed"]
  BY DEF Judge, SaveThen
<1>2. call \in CallType
  BY DEF PolicyTypeOK
<1>3. QED
  BY <1>1, <1>2 DEF CallType

LEMMA CallAfterGrant ==
  ASSUME PolicyTypeOK, Grant
  PROVE  /\ call'.phase \in {"returned", "failed"}
         /\ call'.at = call.at /\ call'.status = call.status
         /\ call'.requested = call.requested /\ call'.ttl = call.ttl
<1>1. PICK expires :
        \/ call' = [call EXCEPT !.phase = "returned", !.decision.expires = expires]
        \/ call' = [call EXCEPT !.phase = "failed"]
  BY DEF Grant, SaveThen
<1>2. call \in CallType
  BY DEF PolicyTypeOK
<1>3. QED
  BY <1>1, <1>2 DEF CallType

LEMMA CallAfterBegin ==
  ASSUME PolicyTypeOK, NEW s, NEW requested, NEW ttl, Begin(s, requested, ttl)
  PROVE  /\ call'.phase \in {"expire", "rejected"}
         /\ call'.at = now /\ call'.status = s
         /\ call'.requested = requested /\ call'.ttl = ttl
         /\ call'.decision = call.decision
BY DEF Begin, PolicyTypeOK, CallType

-----------------------------------------------------------------------------
(* Answered overrides.                                                     *)

(* Whatever fails, is damaged or restarts: the step that lets              *)
(* request_override answer leaves its override in memory and in the file.  *)
THEOREM AnsweredIsDurable == PolicySpec => AcknowledgedIsDurable
<1> DEFINE Stored ==
      /\ mem'.override = [duty |-> call.requested, expires |-> call.at + call.ttl]
      /\ Load(file').override = mem'.override
<1>1. ASSUME PolicyTypeOK, PolicyTypeOK', [PolicyNext]_policyVars, Acknowledges
      PROVE  Stored
  <2> USE <1>1 DEF Acknowledges
  <2>1. CASE Grant
    <3>1. call'.phase # "failed"
      OBVIOUS
    <3>2. file' = mem'
      <4>1. [call EXCEPT !.phase = "failed"].phase = "failed"
        BY DEF PolicyTypeOK, CallType
      <4>2. QED
        BY <2>1, <3>1, <4>1 DEF Grant, SaveThen
    <3>3. Load(file') = mem'
      BY <3>2, LoadSaved DEF PolicyTypeOK
    <3>4. mem'.override = [duty |-> call.requested, expires |-> call.at + call.ttl]
      BY <2>1 DEF Grant, PolicyTypeOK, Memory
    <3>5. QED
      BY <3>3, <3>4
  <2>2. CASE Expire
    BY <2>2, CallAfterExpire
  <2>3. CASE Judge
    <3> DEFINE decision == Decision(mem, call.status, call.requested)
    <3>1. \/ call'.phase = AfterJudging(decision)
          \/ call'.phase = "failed"
      BY <2>3, CallAfterJudge
    <3>2. AfterJudging(decision) # "returned"
      BY DEF AfterJudging
    <3>3. QED
      BY <3>1, <3>2
  <2>4. ASSUME NEW s, NEW requested, NEW ttl, Begin(s, requested, ttl)
        PROVE  Stored
    BY <2>4, CallAfterBegin
  <2>5. CASE Finish \/ Restart
    BY <2>5 DEF Finish, Restart, IdleCall
  <2>6. CASE AdvanceClock \/ StepClockBack \/ DamageFile \/ UNCHANGED policyVars
    BY <2>6 DEF AdvanceClock, StepClockBack, DamageFile, policyVars
  <2>7. QED
    BY <2>1, <2>2, <2>3, <2>4, <2>5, <2>6
       DEF PolicyNext, Evaluate, RequestOverride, CallStep, Environment
<1>2. PolicyTypeOK /\ PolicyTypeOK' /\ [PolicyNext]_policyVars
        => [Acknowledges => Stored]_policyVars
  BY <1>1
<1>3. QED
  BY <1>2, PolicyTypeCorrect, PTL DEF PolicySpec, AcknowledgedIsDurable

-----------------------------------------------------------------------------
(* Decisions and expiry.                                                   *)

(* What makes DecisionRestsOnLiveOverride inductive: once the step that    *)
(* drops an expired override is over, the one in memory is alive.          *)
LiveFromExpiry ==
    /\ DecisionRestsOnLiveOverride
    /\ call.phase = "judge" /\ mem.override # None => mem.override.expires > call.at

LEMMA LiveInductive ==
  PolicyTypeOK /\ PolicyTypeOK' /\ LiveFromExpiry /\ [PolicyNext]_policyVars
    => LiveFromExpiry'
<1> SUFFICES ASSUME PolicyTypeOK, PolicyTypeOK', LiveFromExpiry,
                    [PolicyNext]_policyVars
             PROVE  LiveFromExpiry'
  OBVIOUS
<1> USE DEF LiveFromExpiry, DecisionRestsOnLiveOverride
<1>1. CASE Expire
  <2>1. CASE Expired(mem.override, call.at)
    <3>1. mem'.override = None
      BY <1>1, <2>1 DEF Expire, PolicyTypeOK, Memory
    <3>2. QED
      BY <1>1, <3>1, CallAfterExpire
  <2>2. CASE ~Expired(mem.override, call.at)
    <3>1. mem' = mem
      BY <1>1, <2>2 DEF Expire
    <3>2. mem.override # None => mem.override.expires > call.at
      BY <2>2 DEF Expired, PolicyTypeOK, Memory, Override, CallType
    <3>3. QED
      BY <1>1, <3>1, <3>2, CallAfterExpire
  <2>3. QED
    BY <2>1, <2>2
<1>2. CASE Judge
  <2> DEFINE decision == Decision(mem, call.status, call.requested)
  <2>1. /\ \/ call'.phase = AfterJudging(decision) /\ call'.decision = decision
           \/ call'.phase = "failed"
        /\ call'.at = call.at /\ call'.requested = call.requested
    BY <1>2, CallAfterJudge
  <2>2. AfterJudging(decision) # "judge"
    BY DEF AfterJudging
  <2>3. decision.expires # None => decision.expires > call.at
    BY <1>2 DEF Judge, Decision
  <2>4. ASSUME call.requested = None, decision.state = "normal", decision.expires = None
        PROVE  decision.effective = QuietDuty
    <3>1. mem.override = None
      <4>1. mem.override \in Override \cup {None}
        BY DEF PolicyTypeOK, Memory
      <4>2. mem.override \in Override => mem.override.expires # None
        BY ReadingsDiffer DEF Override
      <4>3. QED
        BY <2>4, <4>1, <4>2 DEF Decision
    <3>2. Candidate(mem.override, call.requested) = None
      BY <2>4, <3>1 DEF Candidate
    <3>3. SafetyState(mem.previous_hot, call.status) = "normal"
      BY <2>4 DEF Decision
    <3>4. EffectiveDuty("normal", call.status, None) = QuietDuty
      BY DEF EffectiveDuty
    <3>5. QED
      BY <3>2, <3>3, <3>4 DEF Decision
  <2> HIDE DEF decision
  <2>5. QED
    BY <2>1, <2>2, <2>3, <2>4
<1>3. CASE Grant
  <2>1. call.phase = "grant"
    BY <1>3 DEF Grant
  <2>2. ValidRequest(call.requested, call.ttl)
    BY <2>1 DEF PolicyTypeOK
  <2>3. call.requested # None
    BY <2>2, ReadingsDiffer DEF ValidRequest, SafeDuty, QuietDuty, FullDuty
  <2>4. QED
    BY <1>3, <2>3, CallAfterGrant
<1>4. ASSUME NEW s, NEW requested, NEW ttl, Begin(s, requested, ttl)
      PROVE  LiveFromExpiry'
  BY <1>4, CallAfterBegin
<1>5. CASE Finish \/ Restart
  BY <1>5 DEF Finish, Restart, IdleCall
<1>6. CASE AdvanceClock \/ StepClockBack \/ DamageFile \/ UNCHANGED policyVars
  BY <1>6 DEF AdvanceClock, StepClockBack, DamageFile, policyVars
<1>7. QED
  BY <1>1, <1>2, <1>3, <1>4, <1>5, <1>6
     DEF PolicyNext, Evaluate, RequestOverride, CallStep, Environment

(* No decision rests on an override that had expired when the call read    *)
(* the clock, whatever faults there are and however the clock steps.       *)
THEOREM DecisionsAreLive == PolicySpec => []DecisionRestsOnLiveOverride
<1>1. PolicyInit => LiveFromExpiry
  BY DEF PolicyInit, LiveFromExpiry, DecisionRestsOnLiveOverride, IdleCall
<1>2. LiveFromExpiry => DecisionRestsOnLiveOverride
  BY DEF LiveFromExpiry
<1>3. QED
  BY <1>1, <1>2, LiveInductive, PolicyTypeCorrect, PTL DEF PolicySpec

-----------------------------------------------------------------------------
(* The file and the memory.                                                *)

(* When no save fails and nobody else touches the file, a restart loads,   *)
(* between any two steps of a call, exactly what the process remembers.    *)
THEOREM FileFollowsMemory ==
  ASSUME Faults \cap {"save latch", "save override", "delete", "corrupt", "malform"} = {}
  PROVE  PolicySpec => []WriteThrough
<1>1. PolicyInit => WriteThrough
  BY DEF PolicyInit, WriteThrough
<1>2. ASSUME PolicyTypeOK, PolicyTypeOK', WriteThrough, [PolicyNext]_policyVars
      PROVE  WriteThrough'
  <2> USE <1>2 DEF WriteThrough
  <2>1. CASE Expire
    <3>1. file' = mem' \/ UNCHANGED <<mem, file>>
      BY <2>1 DEF Expire, SaveThen
    <3>2. QED
      BY <3>1, LoadSaved DEF PolicyTypeOK
  <2>2. CASE Judge
    <3>1. file' = mem' \/ UNCHANGED <<mem, file>>
      BY <2>2 DEF Judge, SaveThen
    <3>2. QED
      BY <3>1, LoadSaved DEF PolicyTypeOK
  <2>3. CASE Grant
    <3>1. file' = mem'
      BY <2>3 DEF Grant, SaveThen
    <3>2. QED
      BY <3>1, LoadSaved DEF PolicyTypeOK
  <2>4. ASSUME NEW s, NEW requested, NEW ttl, Begin(s, requested, ttl)
        PROVE  WriteThrough'
    BY <2>4 DEF Begin
  <2>5. CASE Restart
    BY <2>5 DEF Restart
  <2>6. CASE Finish \/ AdvanceClock \/ StepClockBack \/ DamageFile
               \/ UNCHANGED policyVars
    BY <2>6 DEF Finish, AdvanceClock, StepClockBack, DamageFile, policyVars
  <2>7. QED
    BY <2>1, <2>2, <2>3, <2>4, <2>5, <2>6
       DEF PolicyNext, Evaluate, RequestOverride, CallStep, Environment
<1>3. QED
  BY <1>1, <1>2, PolicyTypeCorrect, PTL DEF PolicySpec

-----------------------------------------------------------------------------
(* The contract.                                                           *)

Asked(r) == call.requested = r.duty /\ call.ttl = r.ttl

(* What the contract's steps need to know of a call under way.             *)
Traced ==
    /\ call.at \in 0..now
    /\ call.phase # "idle" => call.status \in Statuses
    /\ call.requested # None => \E r \in Requests : Asked(r)
    /\ call.phase \in {"idle", "expire", "judge", "rejected"} =>
         call.decision = NoDecision
    /\ call.phase = "grant" => ~call.decision.locked
    /\ call.phase = "grant" => call.decision # NoDecision

(* request_override() grants only what evaluate() did not lock.            *)
LEMMA GrantedIsUnlocked ==
  ASSUME NEW m \in Memory, NEW s \in Status, NEW requested, requested # None,
         ~Refused(SafetyState(m.previous_hot, s), s, requested)
  PROVE  Decision(m, s, requested).locked = FALSE
BY DEF Decision

(* A decision is never the absence of one.                                 *)
LEMMA DecisionIsSomething ==
  ASSUME NEW m, NEW s, NEW requested
  PROVE  Decision(m, s, requested) # NoDecision
<1>1. SafetyState(m.previous_hot, s) # "none"
  BY DEF SafetyState
<1>2. Decision(m, s, requested).state # "none"
  BY <1>1 DEF Decision
<1>3. QED
  BY <1>2 DEF NoDecision

LEMMA TracedInductive ==
  ASSUME "clock" \notin Faults
  PROVE  PolicyTypeOK /\ PolicyTypeOK' /\ Traced /\ [PolicyNext]_policyVars
           => Traced'
<1> SUFFICES ASSUME PolicyTypeOK, PolicyTypeOK', Traced, [PolicyNext]_policyVars
             PROVE  Traced'
  OBVIOUS
<1> USE DEF Traced, Asked
<1>0. now \in Nat /\ now' \in Nat /\ call \in CallType
  BY DEF PolicyTypeOK
<1>1. CASE Expire
  <2>1. now' = now /\ call.phase = "expire"
    BY <1>1 DEF Expire
  <2>2. QED
    BY <1>1, <2>1, CallAfterExpire
<1>2. CASE Judge
  <2> DEFINE decision == Decision(mem, call.status, call.requested)
  <2>1. /\ \/ call'.phase = AfterJudging(decision) /\ call'.decision = decision
           \/ call'.phase = "failed"
        /\ call'.at = call.at /\ call'.status = call.status
        /\ call'.requested = call.requested /\ call'.ttl = call.ttl
    BY <1>2, CallAfterJudge
  <2>2. now' = now /\ call.phase = "judge"
    BY <1>2 DEF Judge
  <2>3. AfterJudging(decision) \in {"returned", "locked", "grant"}
    BY DEF AfterJudging
  <2>4. decision # NoDecision
    BY DecisionIsSomething
  <2>5. AfterJudging(decision) = "grant" => decision.locked = FALSE
    <3>1. mem \in Memory /\ call.status \in Status
      BY DEF PolicyTypeOK, CallType
    <3>2. decision.state = SafetyState(mem.previous_hot, call.status)
      BY DEF Decision
    <3>3. AfterJudging(decision) = "grant" =>
            call.requested # None
            /\ ~Refused(decision.state, call.status, call.requested)
      BY DEF AfterJudging
    <3>4. QED
      BY <3>1, <3>2, <3>3, GrantedIsUnlocked
  <2> HIDE DEF decision
  <2>6. QED
    BY <2>1, <2>2, <2>3, <2>4, <2>5
<1>3. CASE Grant
  <2>1. now' = now /\ call.phase = "grant"
    BY <1>3 DEF Grant
  <2>2. QED
    BY <1>3, <2>1, CallAfterGrant
<1>4. ASSUME NEW s \in Statuses, NEW requested, NEW ttl, Begin(s, requested, ttl),
             requested # None =>
               \E r \in Requests : requested = r.duty /\ ttl = r.ttl
      PROVE  Traced'
  <2>1. now' = now /\ call.phase = "idle"
    BY <1>4 DEF Begin
  <2>2. QED
    BY <1>0, <1>4, <2>1, CallAfterBegin
<1>5. CASE Finish \/ Restart
  <2>1. call' = IdleCall /\ now' = now
    BY <1>5 DEF Finish, Restart
  <2>2. QED
    BY <1>0, <2>1 DEF IdleCall
<1>6. CASE AdvanceClock
  BY <1>0, <1>6 DEF AdvanceClock
<1>7. CASE StepClockBack \/ DamageFile \/ UNCHANGED policyVars
  BY <1>7 DEF StepClockBack, DamageFile, policyVars
<1>8. CASE Evaluate
  BY <1>8, <1>4 DEF Evaluate
<1>9. CASE RequestOverride
  <2>1. PICK s \in Statuses, r \in Requests : Begin(s, r.duty, r.ttl)
    BY <1>9 DEF RequestOverride
  <2>2. QED
    BY <2>1, <1>4
<1>10. QED
  BY <1>1, <1>2, <1>3, <1>5, <1>6, <1>7, <1>8, <1>9
     DEF PolicyNext, CallStep, Environment

(* The contract reads the same rules as the policy.                        *)
LEMMA SameRules ==
  ASSUME NEW m, NEW s, NEW requested, NEW begun, NEW ttl
  PROVE  /\ Contract!Decision(m, s, requested) = Decision(m, s, requested)
         /\ Contract!IncidentAfter(begun, s) = IncidentAfter(begun, s)
         /\ Contract!ValidRequest(requested, ttl) = ValidRequest(requested, ttl)
<1>1. Contract!Hot(s) = Hot(s)
  BY DEF Contract!Hot, Hot, Contract!IsHot, IsHot
<1>2. Contract!SensorFailure(s) = SensorFailure(s)
  BY DEF Contract!SensorFailure, SensorFailure
<1>3. Contract!Recovered(s) = Recovered(s)
  BY DEF Contract!Recovered, Recovered, Contract!AtMost, AtMost
<1>4. Contract!SafetyState(m.previous_hot, s) = SafetyState(m.previous_hot, s)
  BY <1>1, <1>2, <1>3 DEF Contract!SafetyState, SafetyState, Contract!LatchAfter, LatchAfter
<1>5. ASSUME NEW candidate, NEW state
      PROVE  Contract!EffectiveDuty(state, s, candidate) = EffectiveDuty(state, s, candidate)
  BY DEF Contract!EffectiveDuty, EffectiveDuty, Contract!AtLeast, AtLeast,
         Contract!FullDuty, FullDuty, Contract!CoolingDuty, CoolingDuty,
         Contract!QuietDuty, QuietDuty
<1>6. ASSUME NEW state
      PROVE  Contract!Refused(state, s, requested) = Refused(state, s, requested)
  BY DEF Contract!Refused, Refused, Contract!FullDuty, FullDuty
<1>7. Contract!Candidate(m.override, requested) = Candidate(m.override, requested)
  BY DEF Contract!Candidate, Candidate
<1>8. Contract!Decision(m, s, requested) = Decision(m, s, requested)
  BY <1>4, <1>5, <1>6, <1>7 DEF Contract!Decision, Decision
<1>9. QED
  BY <1>1, <1>3, <1>8
     DEF Contract!IncidentAfter, IncidentAfter, Contract!ValidRequest, ValidRequest,
         Contract!SafeDuty, SafeDuty, Contract!QuietDuty, QuietDuty,
         Contract!FullDuty, FullDuty

(* The latch of a policy whose saves succeed is the contract's incident.   *)
LEMMA LatchIsIncident ==
  ASSUME NEW latch \in BOOLEAN, NEW s
  PROVE  LatchAfter(latch, s) = IncidentAfter(latch, s)
<1>1. ~(Recovered(s) /\ SensorFailure(s))
  BY ReadingsDiffer DEF Recovered, SensorFailure, AtMost
<1>2. Hot(s) \in BOOLEAN
  BY HotTypes
<1>3. QED
  BY <1>1, <1>2 DEF LatchAfter, IncidentAfter

LEMMA ContractStep ==
  ASSUME Faults = {}
  PROVE  /\ PolicyTypeOK /\ PolicyTypeOK'
         /\ Traced /\ WriteThrough /\ WriteThrough'
         /\ [PolicyNext]_policyVars
         => [Contract!ContractNext]_(Contract!contractVars)
<1> SUFFICES ASSUME PolicyTypeOK, PolicyTypeOK', Traced, WriteThrough, WriteThrough',
                    [PolicyNext]_policyVars
             PROVE  Contract!ContractNext \/ UNCHANGED Contract!contractVars
  OBVIOUS
<1> USE DEF Contract!contractVars
<1>0. /\ Load(file) = mem /\ Load(file') = mem'
      /\ mem \in Memory /\ call \in CallType /\ now \in Nat
  BY DEF WriteThrough, PolicyTypeOK
<1>1. CASE Expire
  <2>1. call'.decision = call.decision /\ now' = now
    BY <1>1, CallAfterExpire DEF Expire
  <2>2. CASE Expired(mem.override, call.at)
    <3>1. mem' = [mem EXCEPT !.override = None]
      BY <1>1, <2>2 DEF Expire
    <3>2. mem.override # None /\ mem.override.expires <= now
      BY <1>0, <2>2 DEF Expired, Traced, CallType, Memory, Override
    <3>3. Contract!Lapse
      BY <1>0, <2>1, <3>1, <3>2 DEF Contract!Lapse, Memory
    <3>4. QED
      BY <3>3 DEF Contract!ContractNext
  <2>3. CASE ~Expired(mem.override, call.at)
    BY <1>1, <2>1, <2>3 DEF Expire
  <2>4. QED
    BY <2>2, <2>3
<1>2. CASE Judge
  <2> DEFINE decision == Decision(mem, call.status, call.requested)
             latch == LatchAfter(mem.previous_hot, call.status)
  <2>1. call' = [call EXCEPT !.phase = AfterJudging(decision), !.decision = decision]
    BY <1>2 DEF Judge, SaveThen
  <2>2. call'.decision = decision
    BY <1>0, <2>1 DEF CallType
  <2>3. mem'.previous_hot = latch /\ mem'.override = mem.override /\ now' = now
    BY <1>0, <1>2 DEF Judge, Memory
  <2>4. latch = IncidentAfter(mem.previous_hot, call.status)
    BY <1>0, LatchIsIncident DEF Memory
  <2>5. call.phase = "judge"
    BY <1>2 DEF Judge
  <2>6. /\ call.decision = NoDecision /\ call.status \in Statuses
        /\ call.requested \in {None} \cup {r.duty : r \in Requests}
    BY <2>5 DEF Traced, Asked
  <2>7. Contract!Witness(call.status, call.requested)
    <3> DEFINE known == [previous_hot |-> mem.previous_hot, override |-> mem.override]
    <3>1. known = mem
      BY <1>0 DEF Memory
    <3>2. Contract!Decision(known, call.status, call.requested) = decision
      BY <3>1, SameRules
    <3>3. Contract!IncidentAfter(mem.previous_hot, call.status)
            = IncidentAfter(mem.previous_hot, call.status)
      BY SameRules
    <3> HIDE DEF decision, latch
    <3>4. QED
      BY <1>0, <2>2, <2>3, <2>4, <2>6, <3>2, <3>3 DEF Contract!Witness
  <2>8. QED
    BY <2>6, <2>7 DEF Contract!ContractNext
<1>3. CASE Grant
  <2> DEFINE expires == call.at + call.ttl
  <2>1. PICK r \in Requests : Asked(r)
    <3>1. call.phase = "grant"
      BY <1>3 DEF Grant
    <3>2. ValidRequest(call.requested, call.ttl)
      BY <3>1 DEF PolicyTypeOK
    <3>3. call.requested # None
      BY <3>2, ReadingsDiffer DEF ValidRequest, SafeDuty, QuietDuty, FullDuty
    <3>4. QED
      BY <3>3 DEF Traced
  <2>2. call.phase = "grant" /\ now' = now
    BY <1>3 DEF Grant
  <2>3. mem' = [mem EXCEPT !.override = [duty |-> call.requested, expires |-> expires]]
    BY <1>3 DEF Grant
  <2>4. call' = [call EXCEPT !.phase = "returned", !.decision.expires = expires]
    BY <1>3 DEF Grant, SaveThen
  <2>5. call'.decision = [call.decision EXCEPT !.expires = expires]
    BY <1>0, <2>4 DEF CallType
  <2>6. Contract!ValidRequest(r.duty, r.ttl)
    <3>1. ValidRequest(r.duty, r.ttl)
      BY <2>1, <2>2 DEF PolicyTypeOK, Asked
    <3>2. QED
      BY <3>1, SameRules
  <2>7. Contract!Accept(r.duty, r.ttl, call.at)
    BY <1>0, <2>1, <2>2, <2>3, <2>5, <2>6
       DEF Contract!Accept, Traced, Asked, Memory
  <2>8. call.at \in 0..now
    BY DEF Traced
  <2>9. QED
    BY <2>7, <2>8 DEF Contract!ContractNext
<1>4. ASSUME NEW s, NEW requested, NEW ttl, Begin(s, requested, ttl)
      PROVE  UNCHANGED Contract!contractVars
  BY <1>4, CallAfterBegin DEF Begin
<1>5. CASE Finish \/ Restart
  <2>1. UNCHANGED <<file, now>> /\ call'.decision = NoDecision
    BY <1>5 DEF Finish, Restart, IdleCall
  <2>2. call.decision # NoDecision => Contract!Conclude
    BY <2>1 DEF Contract!Conclude
  <2>3. QED
    BY <2>1, <2>2 DEF Contract!ContractNext
<1>6. CASE AdvanceClock
  <2>1. Contract!PassTime
    BY <1>0, <1>6 DEF AdvanceClock, Contract!PassTime
  <2>2. QED
    BY <2>1 DEF Contract!ContractNext
<1>7. CASE StepClockBack \/ DamageFile \/ UNCHANGED policyVars
  BY <1>7 DEF StepClockBack, DamageFile, policyVars
<1>8. QED
  BY <1>1, <1>2, <1>3, <1>4, <1>5, <1>6, <1>7
     DEF PolicyNext, Evaluate, RequestOverride, CallStep, Environment

(* Without faults the policy, its calls cut into steps and interrupted by  *)
(* restarts anywhere, does nothing the contract does not allow.            *)
THEOREM PolicyKeepsContract ==
  ASSUME Faults = {} PROVE PolicySpec => KeepsContract
<1>1. PolicyInit => Traced
  BY PolicyConstants DEF PolicyInit, Traced, IdleCall
<1>2. PolicyInit => Contract!ContractInit
  BY DEF PolicyInit, Contract!ContractInit, Load, DefaultState, IdleCall
<1>3. PolicyTypeOK /\ PolicyTypeOK' /\ Traced /\ [PolicyNext]_policyVars => Traced'
  BY TracedInductive
<1>4. PolicySpec => []Traced
  BY <1>1, <1>3, PolicyTypeCorrect, PTL DEF PolicySpec
<1>5. PolicySpec => []WriteThrough
  BY FileFollowsMemory
<1>6. /\ PolicyTypeOK /\ PolicyTypeOK'
      /\ Traced /\ WriteThrough /\ WriteThrough'
      /\ [PolicyNext]_policyVars
      => [Contract!ContractNext]_(Contract!contractVars)
  BY ContractStep
<1>7. QED
  BY <1>2, <1>4, <1>5, <1>6, PolicyTypeCorrect, PTL
     DEF PolicySpec, KeepsContract, Contract!ContractSpec

=============================================================================
