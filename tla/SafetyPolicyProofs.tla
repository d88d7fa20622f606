------------------------- MODULE SafetyPolicyProofs -------------------------
(***************************************************************************)
(* Proofs about SafetyPolicy, for all thresholds, statuses, requests and   *)
(* bounds.                                                                 *)
(***************************************************************************)
EXTENDS SafetyPolicy, TLAPS

-----------------------------------------------------------------------------
(* The rules.                                                              *)

(* What load() returns is always a memory the policy can work with,        *)
(* whatever the file holds.                                                *)
LEMMA LoadType == ASSUME NEW f \in File PROVE Load(f) \in Memory
<1>1. CASE f \in {Absent, Corrupt}
  BY <1>1 DEF Load, DefaultState, Memory
<1>2. CASE f \in Document
  <2>1. Load(f) = [f EXCEPT !.override = IF f.override = Malformed THEN None
                                         ELSE f.override]
    BY <1>2, FileAssumption DEF Load
  <2>2. f.override \in Override \cup {None, Malformed} /\ f.previous_hot \in BOOLEAN
    BY <1>2 DEF Document
  <2>3. QED
    BY <1>2, <2>1, <2>2 DEF Document, Memory
<1>3. QED
  BY <1>1, <1>2 DEF File

(* Loading back what was saved gives the memory that was saved.            *)
LEMMA LoadSaved == ASSUME NEW m \in Memory PROVE m \in File /\ Load(m) = m
<1>1. m \in Document
  BY DEF Memory, Document
<1>2. m.override # Malformed /\ m # Absent /\ m # Corrupt
  BY <1>1, MalformedAssumption, FileAssumption DEF Memory
<1>3. Load(m) = [m EXCEPT !.override = m.override]
  BY <1>2 DEF Load
<1>4. QED
  BY <1>1, <1>3 DEF Memory, File

LEMMA HotTypes ==
  ASSUME NEW s
  PROVE  Hot(s) \in BOOLEAN /\ SensorFailure(s) \in BOOLEAN /\ Recovered(s) \in BOOLEAN
BY DEF Hot, SensorFailure, Recovered, IsHot, AtMost

(* Every decision is one the hardware can be given.                        *)
LEMMA DecisionTyped ==
  ASSUME NEW m \in Memory, NEW s \in Status, NEW requested \in SafeDuty \cup {None}
  PROVE  Decision(m, s, requested) \in DecisionType
<1> DEFINE state == SafetyState(m.previous_hot, s)
           candidate == Candidate(m.override, requested)
<1>1. state \in {"hot", "sensor-failure", "cooling", "normal"}
  BY DEF SafetyState
<1>2. candidate \in SafeDuty \cup {None}
  BY DEF Candidate, Memory, Override
<1>3. s.duty \in (0..FullDuty) \cup {None}
  BY DEF Status
<1>4. EffectiveDuty(state, s, candidate) \in 0..FullDuty
  <2> HIDE DEF state, candidate
  <2>1. ASSUME NEW low \in 0..FullDuty PROVE AtLeast(low, candidate) \in 0..FullDuty
    BY <1>2, <2>1 DEF AtLeast, SafeDuty, QuietDuty, FullDuty
  <2>2. QED
    BY <1>1, <1>2, <1>3, <2>1
       DEF EffectiveDuty, SafeDuty, QuietDuty, CoolingDuty, FullDuty
<1>5. (IF m.override = None THEN None ELSE m.override.expires) \in Int \cup {None}
  BY DEF Memory, Override
<1>6. QED
  BY <1>1, <1>4, <1>5 DEF Decision, DecisionType

-----------------------------------------------------------------------------
(* Types.                                                                  *)

LEMMA IdleTyped == IdleCall \in CallType
BY DEF IdleCall, CallType, NoDecision, DecisionType, Status, Reading, FullDuty

(* Under PolicyTypeOK, the call that a save lets go on or stops has its    *)
(* type, and so has the file.                                              *)
LEMMA SaveTyped ==
  ASSUME PolicyTypeOK, mem' \in Memory, NEW what, NEW next \in CallType,
         SaveThen(what, next)
  PROVE  file' \in File /\ call' \in CallType /\ call'.phase \in {next.phase, "failed"}
<1>1. CASE file' = mem' /\ call' = next
  BY <1>1, LoadSaved
<1>2. CASE call' = [call EXCEPT !.phase = "failed"] /\ UNCHANGED file
  BY <1>2 DEF PolicyTypeOK, CallType, Finished
<1>3. QED
  BY <1>1, <1>2 DEF SaveThen

(* A call begins with arguments of its types, and past the checks of       *)
(* request_override only with a request they let through.                  *)
LEMMA BeginTyped ==
  ASSUME PolicyTypeOK, NEW s \in Status, NEW requested \in Int \cup {None},
         NEW ttl \in Int, Begin(s, requested, ttl)
  PROVE  /\ call' \in CallType
         /\ call'.requested = requested /\ call'.ttl = ttl
         /\ \/ call'.phase = "rejected"
            \/ /\ call'.phase = "expire"
               /\ requested = None \/ ValidRequest(requested, ttl)
<1> DEFINE phase == IF requested = None \/ ValidRequest(requested, ttl)
                    THEN "expire" ELSE "rejected"
<1>1. call \in CallType /\ now \in Int
  BY DEF PolicyTypeOK
<1>2. call' = [call EXCEPT !.phase = phase, !.status = s, !.requested = requested,
                           !.ttl = ttl, !.at = now]
  BY DEF Begin
<1>3. phase \in {"expire", "rejected"}
  OBVIOUS
<1> HIDE DEF phase
<1>4. call' \in CallType /\ call'.phase = phase
      /\ call'.requested = requested /\ call'.ttl = ttl
  BY <1>1, <1>2, <1>3 DEF CallType, Finished
<1>5. QED
  BY <1>3, <1>4 DEF phase

LEMMA BeginKeepsTypes ==
  ASSUME PolicyTypeOK, NEW s \in Status, NEW requested \in Int \cup {None},
         NEW ttl \in Int, Begin(s, requested, ttl)
  PROVE  PolicyTypeOK'
BY BeginTyped DEF Begin, PolicyTypeOK

(* All that can happen but the beginning of a call.                        *)
UnderWay == CallStep \/ Finish \/ Environment

LEMMA UnderWayKeepsTypes ==
  PolicyTypeOK /\ (UnderWay \/ UNCHANGED policyVars) => PolicyTypeOK'
<1> SUFFICES ASSUME PolicyTypeOK, UnderWay \/ UNCHANGED policyVars PROVE PolicyTypeOK'
  OBVIOUS
<1> USE DEF PolicyTypeOK
<1>1. CASE Expire
  <2> DEFINE next == [call EXCEPT !.phase = "judge"]
  <2>1. next \in CallType /\ next.phase = "judge"
        /\ next.requested = call.requested /\ next.ttl = call.ttl
    BY DEF CallType
  <2>2. mem' \in Memory
    BY <1>1 DEF Expire, Memory
  <2>3. file' \in File /\ call' \in CallType
        /\ call'.phase \in {"judge", "failed"}
        /\ call'.requested = call.requested /\ call'.ttl = call.ttl
    <3>1. CASE SaveThen("save override", next)
      BY <2>1, <2>2, <3>1, SaveTyped DEF SaveThen, CallType
    <3>2. CASE call' = next /\ UNCHANGED <<mem, file>>
      BY <2>1, <3>2
    <3>3. QED
      BY <1>1, <3>1, <3>2 DEF Expire
  <2>4. QED
    BY <1>1, <2>2, <2>3 DEF Expire
<1>2. CASE Judge
  <2> DEFINE decision == Decision(mem, call.status, call.requested)
             next == [call EXCEPT !.phase = AfterJudging(decision),
                                  !.decision = decision]
  <2>1. call.status \in Status /\ call.requested \in SafeDuty \cup {None}
    BY <1>2 DEF Judge, CallType, ValidRequest
  <2>2. decision \in DecisionType
    BY <2>1, DecisionTyped
  <2>3. AfterJudging(decision) \in {"returned", "locked", "grant"}
        /\ (AfterJudging(decision) = "grant" => call.requested # None)
    BY DEF AfterJudging
  <2> HIDE DEF decision
  <2>4. next \in CallType /\ next.phase = AfterJudging(decision)
        /\ next.requested = call.requested /\ next.ttl = call.ttl
    BY <2>2, <2>3 DEF CallType, Finished
  <2>5. mem' \in Memory
    BY <1>2 DEF Judge, Memory, LatchAfter, Hot, IsHot
  <2>6. file' \in File /\ call' \in CallType
        /\ call'.phase \in {AfterJudging(decision), "failed"}
        /\ call'.requested = call.requested /\ call'.ttl = call.ttl
    <3>1. CASE SaveThen("save latch", next)
      BY <2>4, <2>5, <3>1, SaveTyped DEF SaveThen, CallType
    <3>2. CASE call' = next /\ UNCHANGED <<mem, file>>
      BY <2>4, <3>2
    <3>3. QED
      BY <1>2, <3>1, <3>2 DEF Judge, decision
  <2>7. incident' \in BOOLEAN
    BY <1>2 DEF Judge, IncidentAfter
  <2>8. QED
    BY <1>2, <2>3, <2>5, <2>6, <2>7 DEF Judge
<1>3. CASE Grant
  <2> DEFINE expires == call.at + call.ttl
             next == [call EXCEPT !.phase = "returned", !.decision.expires = expires]
  <2>1. ValidRequest(call.requested, call.ttl) /\ call.at \in Int
    BY <1>3 DEF Grant, CallType
  <2>2. expires \in Int /\ call.requested \in SafeDuty
    BY <2>1, MaxTtlAssumption DEF ValidRequest
  <2>3. mem' \in Memory
    BY <1>3, <2>2 DEF Grant, Memory, Override
  <2>4. next \in CallType /\ next.phase = "returned"
    BY <2>2 DEF CallType, DecisionType, Finished
  <2>5. SaveThen("save override", next)
    BY <1>3 DEF Grant
  <2>6. file' \in File /\ call' \in CallType /\ call'.phase \in {"returned", "failed"}
    BY <2>3, <2>4, <2>5, SaveTyped
  <2>7. QED
    BY <1>3, <2>3, <2>6 DEF Grant
<1>4. CASE Finish
  BY <1>4, IdleTyped DEF Finish, IdleCall
<1>5. CASE Restart
  BY <1>5, IdleTyped, LoadType DEF Restart, IdleCall
<1>6. CASE AdvanceClock
  BY <1>6 DEF AdvanceClock
<1>7. CASE StepClockBack
  BY <1>7 DEF StepClockBack
<1>8. CASE DamageFile
  <2>1. file' \in File
    BY <1>8 DEF DamageFile, File, Document
  <2>2. QED
    BY <1>8, <2>1 DEF DamageFile
<1>9. CASE UNCHANGED policyVars
  BY <1>9 DEF policyVars
<1>10. QED
  BY <1>1, <1>2, <1>3, <1>4, <1>5, <1>6, <1>7, <1>8, <1>9
     DEF UnderWay, CallStep, Environment

(* PolicyTypeOK is inductive.                                              *)
LEMMA PolicyTypeInductive == PolicyTypeOK /\ [PolicyNext]_policyVars => PolicyTypeOK'
<1> SUFFICES ASSUME PolicyTypeOK, [PolicyNext]_policyVars PROVE PolicyTypeOK'
  OBVIOUS
<1>1. ASSUME NEW s \in Statuses, Begin(s, None, 0) PROVE PolicyTypeOK'
  <2>1. s \in Status /\ None \in Int \cup {None} /\ 0 \in Int
    BY PolicyConstants
  <2>2. QED
    BY <1>1, <2>1, BeginKeepsTypes
<1>2. ASSUME NEW s \in Statuses, NEW r \in Requests, Begin(s, r.duty, r.ttl)
      PROVE  PolicyTypeOK'
  <2>1. s \in Status /\ r.duty \in Int \cup {None} /\ r.ttl \in Int
    BY PolicyConstants
  <2>2. QED
    BY <1>2, <2>1, BeginKeepsTypes
<1>3. QED
  BY <1>1, <1>2, UnderWayKeepsTypes DEF PolicyNext, Evaluate, RequestOverride, UnderWay

LEMMA PolicyTypeInit == PolicyInit => PolicyTypeOK
<1> SUFFICES ASSUME PolicyInit PROVE PolicyTypeOK
  OBVIOUS
<1>1. file \in File /\ mem \in Memory
  BY LoadType DEF PolicyInit, File
<1>2. QED
  BY <1>1, IdleTyped DEF PolicyInit, PolicyTypeOK, IdleCall

(* Every variable keeps its type: in particular nothing the process stores *)
(* or loads is an override that request_override would have rejected.      *)
THEOREM PolicyTypeCorrect == PolicySpec => []PolicyTypeOK
BY PolicyTypeInit, PolicyTypeInductive, PTL DEF PolicySpec

-----------------------------------------------------------------------------
(* The latch.                                                              *)

(* A save that cannot fail leaves in the file what is in memory.           *)
LEMMA SavedWithoutFault ==
  ASSUME NEW what, what \notin Faults, mem' \in Memory, NEW next,
         SaveThen(what, next)
  PROVE  Load(file') = mem' /\ call' = next
BY LoadSaved DEF SaveThen

(* A save leaves in the file either what is in memory or what was there.   *)
LEMMA SavedOrNot ==
  ASSUME mem' \in Memory, NEW what, NEW next, SaveThen(what, next)
  PROVE  Load(file') \in {mem', Load(file)}
BY LoadSaved DEF SaveThen

(* Damage that does not delete the file never makes a restart forget the   *)
(* latch.                                                                  *)
LEMMA DamageKeepsLatch ==
  ASSUME "delete" \notin Faults, file \in File, DamageFile, Load(file).previous_hot
  PROVE  Load(file').previous_hot
<1>1. CASE file' = Corrupt
  BY <1>1, FileAssumption DEF Load
<1>2. CASE file \in Document /\ file' = [file EXCEPT !.override = Malformed]
  <2>1. file' \in Document /\ file'.previous_hot = file.previous_hot
    BY <1>2 DEF Document
  <2>2. Load(file).previous_hot = file.previous_hot
        /\ Load(file').previous_hot = file'.previous_hot
    BY <1>2, <2>1, FileAssumption DEF Load, Document
  <2>3. QED
    BY <2>1, <2>2
<1>3. QED
  BY <1>1, <1>2 DEF DamageFile

(* What makes the incident invariant inductive: the memory may be more     *)
(* careful than the history (a corrupt file was read as a hot incident),   *)
(* and the file more careful than the memory, but never less.              *)
LatchChain ==
    /\ incident => mem.previous_hot
    /\ mem.previous_hot => Load(file).previous_hot

(* Evidence that leaves an incident standing leaves a set latch standing.  *)
LEMMA EvidenceKeepsLatch ==
  ASSUME NEW begun \in BOOLEAN, NEW latch \in BOOLEAN, NEW s,
         begun => latch, IncidentAfter(begun, s)
  PROVE  LatchAfter(latch, s)
BY DEF IncidentAfter, LatchAfter

LEMMA LatchChainInductive ==
  ASSUME Faults \cap {"save latch", "delete"} = {}
  PROVE  PolicyTypeOK /\ PolicyTypeOK' /\ LatchChain /\ [PolicyNext]_policyVars
           => LatchChain'
<1> SUFFICES ASSUME PolicyTypeOK, PolicyTypeOK', LatchChain, [PolicyNext]_policyVars
             PROVE  LatchChain'
  OBVIOUS
<1>0. "save latch" \notin Faults /\ "delete" \notin Faults
  OBVIOUS
<1> USE DEF LatchChain
<1>1. CASE UNCHANGED <<mem, file, incident>>
  BY <1>1
<1>2. CASE Expire
  <2>1. mem'.previous_hot = mem.previous_hot /\ incident' = incident
    BY <1>2 DEF Expire, PolicyTypeOK, Memory
  <2>2. CASE UNCHANGED <<mem, file>>
    BY <2>1, <2>2
  <2>3. CASE SaveThen("save override", [call EXCEPT !.phase = "judge"])
    BY <2>1, <2>3, SavedOrNot DEF PolicyTypeOK
  <2>4. QED
    BY <1>2, <2>2, <2>3 DEF Expire
<1>3. CASE Judge
  <2> DEFINE latch == LatchAfter(mem.previous_hot, call.status)
             decision == Decision(mem, call.status, call.requested)
             next == [call EXCEPT !.phase = AfterJudging(decision),
                                  !.decision = decision]
  <2>1. incident' => latch
    BY <1>3, EvidenceKeepsLatch DEF Judge, PolicyTypeOK, Memory
  <2> HIDE DEF decision, latch
  <2>2. CASE latch # mem.previous_hot
    <3>1. mem' = [mem EXCEPT !.previous_hot = latch] /\ SaveThen("save latch", next)
      BY <1>3, <2>2 DEF Judge, latch, decision
    <3>2. Load(file') = mem' /\ mem'.previous_hot = latch
      BY <1>0, <3>1, SavedWithoutFault DEF PolicyTypeOK, Memory
    <3>3. QED
      BY <2>1, <3>2
  <2>3. CASE latch = mem.previous_hot
    <3>1. UNCHANGED <<mem, file>>
      BY <1>3, <2>3 DEF Judge, latch
    <3>2. QED
      BY <2>1, <2>3, <3>1
  <2>4. QED
    BY <2>2, <2>3
<1>4. CASE Grant
  <2>1. mem'.previous_hot = mem.previous_hot /\ incident' = incident
    BY <1>4 DEF Grant, PolicyTypeOK, Memory
  <2>2. Load(file') \in {mem', Load(file)}
    BY <1>4, SavedOrNot DEF Grant, PolicyTypeOK
  <2>3. QED
    BY <2>1, <2>2
<1>5. CASE Restart
  BY <1>5 DEF Restart
<1>6. CASE DamageFile
  BY <1>0, <1>6, DamageKeepsLatch DEF DamageFile, PolicyTypeOK
<1>7. QED
  BY <1>1, <1>2, <1>3, <1>4, <1>5, <1>6
     DEF PolicyNext, Evaluate, RequestOverride, Begin, CallStep, Finish, Environment,
         AdvanceClock, StepClockBack, policyVars

LEMMA LatchChainInit == PolicyInit => LatchChain
BY DEF PolicyInit, LatchChain

LEMMA LatchChainHolds ==
  ASSUME Faults \cap {"save latch", "delete"} = {} PROVE PolicySpec => []LatchChain
BY LatchChainInit, LatchChainInductive, PolicyTypeCorrect, PTL DEF PolicySpec

(* Corruption of the state file, restarts at any step and clock steps      *)
(* cannot make the agent forget a hot incident that has not recovered.     *)
THEOREM IncidentIsRemembered ==
  ASSUME Faults \cap {"save latch", "delete"} = {}
  PROVE  PolicySpec => []IncidentRemembered
<1>1. LatchChain => IncidentRemembered
  BY DEF LatchChain, IncidentRemembered
<1>2. QED
  BY <1>1, LatchChainHolds, PTL

(* CoolingHeld, already from the step that judges the status on.           *)
CoolingFromJudging ==
    /\ call.phase \in {"grant", "returned"}
    /\ incident
    /\ call.decision.state # "sensor-failure"
    => call.decision.effective >= CoolingDuty

(* The rule behind it: with the latch set, two readings that do not show   *)
(* recovery never get less than the cooling duty.                          *)
LEMMA LatchedDuty ==
  ASSUME NEW m \in Memory, NEW s \in Status, NEW requested \in SafeDuty \cup {None},
         LatchAfter(m.previous_hot, s),
         Decision(m, s, requested).state # "sensor-failure"
  PROVE  Decision(m, s, requested).effective >= CoolingDuty
<1> DEFINE state == SafetyState(m.previous_hot, s)
           candidate == Candidate(m.override, requested)
<1>1. state \in {"hot", "cooling"}
  BY DEF SafetyState, Decision
<1>2. candidate \in SafeDuty \cup {None}
  BY DEF Candidate, Memory, Override
<1> HIDE DEF candidate, state
<1>3. EffectiveDuty(state, s, candidate) >= CoolingDuty
  BY <1>1, <1>2 DEF EffectiveDuty, AtLeast, SafeDuty, QuietDuty, CoolingDuty, FullDuty
<1>4. QED
  BY <1>3 DEF Decision, state, candidate

LEMMA CoolingInductive ==
  PolicyTypeOK /\ LatchChain /\ CoolingFromJudging /\ [PolicyNext]_policyVars
    => CoolingFromJudging'
<1> SUFFICES ASSUME PolicyTypeOK, LatchChain, CoolingFromJudging,
                    [PolicyNext]_policyVars
             PROVE  CoolingFromJudging'
  OBVIOUS
<1> USE DEF CoolingFromJudging
<1>1. CASE Judge
  <2> DEFINE decision == Decision(mem, call.status, call.requested)
  <2>1. mem \in Memory /\ call.status \in Status /\ call.requested \in SafeDuty \cup {None}
    BY <1>1 DEF Judge, PolicyTypeOK, CallType, ValidRequest
  <2>2. incident' => LatchAfter(mem.previous_hot, call.status)
    BY <1>1, EvidenceKeepsLatch DEF Judge, PolicyTypeOK, Memory, LatchChain
  <2>3. incident' /\ decision.state # "sensor-failure"
          => decision.effective >= CoolingDuty
    BY <2>1, <2>2, LatchedDuty
  <2> HIDE DEF decision
  <2>4. call' = [call EXCEPT !.phase = AfterJudging(decision), !.decision = decision]
        \/ call' = [call EXCEPT !.phase = "failed"]
    BY <1>1 DEF Judge, SaveThen, decision
  <2>5. call'.phase \in {"grant", "returned"} => call'.decision = decision
    BY <2>4 DEF PolicyTypeOK, CallType
  <2>6. QED
    BY <2>3, <2>5
<1>2. CASE Grant
  <2>1. PICK expires :
          \/ call' = [call EXCEPT !.phase = "returned", !.decision.expires = expires]
          \/ call' = [call EXCEPT !.phase = "failed"]
    BY <1>2 DEF Grant, SaveThen
  <2>2. call'.decision.state = call.decision.state
        /\ call'.decision.effective = call.decision.effective
    <3>1. call \in CallType /\ call.decision \in DecisionType
      BY DEF PolicyTypeOK, CallType
    <3>2. call'.decision = [call.decision EXCEPT !.expires = expires]
          \/ call'.decision = call.decision
      BY <2>1, <3>1 DEF CallType
    <3>3. QED
      BY <3>1, <3>2 DEF DecisionType
  <2>3. QED
    BY <1>2, <2>2 DEF Grant
<1>3. CASE Expire
  BY <1>3 DEF Expire, SaveThen, PolicyTypeOK, CallType
<1>4. ASSUME NEW s, NEW requested, NEW ttl, Begin(s, requested, ttl)
      PROVE  CoolingFromJudging'
  BY <1>4 DEF Begin, PolicyTypeOK, CallType
<1>5. CASE Finish \/ Restart
  <2>1. call' = IdleCall /\ IdleCall.phase = "idle"
    BY <1>5 DEF Finish, Restart, IdleCall
  <2>2. QED
    BY <2>1
<1>6. CASE AdvanceClock \/ StepClockBack \/ DamageFile \/ UNCHANGED policyVars
  BY <1>6 DEF AdvanceClock, StepClockBack, DamageFile, policyVars
<1>7. QED
  BY <1>1, <1>2, <1>3, <1>4, <1>5, <1>6
     DEF PolicyNext, Evaluate, RequestOverride, CallStep, Environment

(* From the first hot status to the first recovered one, and through any   *)
(* number of restarts in between, no decision made on two readings asks    *)
(* for less than the cooling duty.                                         *)
THEOREM CoolingIsHeld ==
  ASSUME Faults \cap {"save latch", "delete"} = {}
  PROVE  PolicySpec => []CoolingHeld
<1>1. PolicyInit => CoolingFromJudging
  BY DEF PolicyInit, CoolingFromJudging, IdleCall
<1>2. CoolingFromJudging => CoolingHeld
  BY DEF CoolingFromJudging, CoolingHeld
<1>3. QED
  BY <1>1, <1>2, CoolingInductive, PolicyTypeCorrect, LatchChainHolds, PTL
     DEF PolicySpec

-----------------------------------------------------------------------------
(* The override.                                                           *)

InWindow(override) == override # None => override.expires <= now + MaxTtl

(* Damage never gives a restart an override that was not in the file.      *)
LEMMA DamageInventsNoOverride ==
  ASSUME file \in File, DamageFile
  PROVE  Load(file').override \in {None, Load(file).override}
<1>1. CASE file' \in {Absent, Corrupt}
  BY <1>1 DEF Load, DefaultState
<1>2. CASE file \in Document /\ file' = [file EXCEPT !.override = Malformed]
  <2>1. file' \in Document /\ file'.override = Malformed
    BY <1>2 DEF Document
  <2>2. QED
    BY <2>1, FileAssumption DEF Load, Document
<1>3. QED
  BY <1>1, <1>2 DEF DamageFile

(* The window is inductive with one more fact: the call in flight did not  *)
(* read a clock later than the present one.                                *)
Window == OverrideWindow /\ call.at <= now

LEMMA WindowInductive ==
  ASSUME "clock" \notin Faults
  PROVE  PolicyTypeOK /\ PolicyTypeOK' /\ Window /\ [PolicyNext]_policyVars => Window'
<1> SUFFICES ASSUME PolicyTypeOK, PolicyTypeOK', OverrideWindow, call.at <= now,
                    [PolicyNext]_policyVars
             PROVE  OverrideWindow' /\ call'.at <= now'
  BY DEF Window
<1>0. /\ InWindow(mem.override) /\ InWindow(Load(file).override)
      /\ now \in Nat /\ MaxTtl \in Nat
  BY MaxTtlAssumption DEF OverrideWindow, InWindow, PolicyTypeOK
<1>w. ASSUME now' = now, InWindow(mem'.override), InWindow(Load(file').override)
      PROVE  OverrideWindow'
  BY <1>w DEF OverrideWindow, InWindow
<1>1. ASSUME NEW s, NEW requested, NEW ttl, Begin(s, requested, ttl)
      PROVE  OverrideWindow' /\ call'.at <= now'
  <2>1. call'.at = now
    BY <1>1 DEF Begin, PolicyTypeOK, CallType
  <2>2. QED
    BY <1>0, <1>1, <1>w, <2>1 DEF Begin
<1>2. CASE Expire
  <2>1. call'.at = call.at /\ now' = now
    BY <1>2 DEF Expire, SaveThen, PolicyTypeOK, CallType
  <2>2. mem'.override \in {None, mem.override}
    BY <1>2 DEF Expire, PolicyTypeOK, Memory
  <2>3. Load(file') \in {mem', Load(file)}
    BY <1>2, SavedOrNot DEF Expire, PolicyTypeOK
  <2>4. QED
    BY <1>0, <1>w, <2>1, <2>2, <2>3 DEF InWindow
<1>3. CASE Judge
  <2>1. now' = now
    BY <1>3 DEF Judge
  <2>2. mem'.override = mem.override
    BY <1>3 DEF Judge, PolicyTypeOK, Memory
  <2>3. Load(file') \in {mem', Load(file)}
    BY <1>3, SavedOrNot DEF Judge, PolicyTypeOK
  <2>4. call'.at = call.at
    <3> DEFINE decision == Decision(mem, call.status, call.requested)
    <3>1. call' = [call EXCEPT !.phase = AfterJudging(decision), !.decision = decision]
          \/ call' = [call EXCEPT !.phase = "failed"]
      BY <1>3 DEF Judge, SaveThen
    <3> HIDE DEF decision
    <3>2. QED
      BY <3>1 DEF PolicyTypeOK, CallType
  <2>5. QED
    BY <1>0, <1>w, <2>1, <2>2, <2>3, <2>4 DEF InWindow
<1>4. CASE Grant
  <2> DEFINE expires == call.at + call.ttl
             next == [call EXCEPT !.phase = "returned", !.decision.expires = expires]
  <2>1. now' = now /\ SaveThen("save override", next)
    BY <1>4 DEF Grant
  <2>2. mem'.override = [duty |-> call.requested, expires |-> expires]
    BY <1>4 DEF Grant, PolicyTypeOK, Memory
  <2>3. call.at \in Int /\ call.ttl \in 1..MaxTtl
    BY <1>4 DEF Grant, PolicyTypeOK, CallType, ValidRequest
  <2>4. expires <= now + MaxTtl
    BY <1>0, <2>3
  <2>5. Load(file') \in {mem', Load(file)}
    BY <2>1, SavedOrNot DEF PolicyTypeOK
  <2>6. call'.at = call.at
    BY <2>1 DEF SaveThen, PolicyTypeOK, CallType
  <2> HIDE DEF expires
  <2>7. InWindow(mem'.override)
    BY <2>2, <2>4 DEF InWindow
  <2>8. QED
    BY <1>0, <1>w, <2>1, <2>5, <2>6, <2>7
<1>5. CASE Finish \/ Restart
  <2>1. call'.at = 0 /\ now' = now /\ file' = file
    BY <1>5 DEF Finish, Restart, IdleCall
  <2>2. mem' \in {mem, Load(file)}
    BY <1>5 DEF Finish, Restart
  <2>3. QED
    BY <1>0, <1>w, <2>1, <2>2
<1>6. CASE AdvanceClock
  <2>1. now' = now + 1 /\ mem' = mem /\ file' = file /\ call' = call
    BY <1>6 DEF AdvanceClock
  <2>2. call.at \in Int /\ mem \in Memory /\ Load(file) \in Memory
    BY LoadType DEF PolicyTypeOK, CallType
  <2>3. \A override \in Override : override.expires \in Int
    BY DEF Override
  <2>4. OverrideWindow'
    BY <1>0, <2>1, <2>2, <2>3 DEF OverrideWindow, InWindow, Memory
  <2>5. QED
    BY <1>0, <2>1, <2>2, <2>4
<1>7. CASE DamageFile
  <2>1. Load(file').override \in {None, Load(file).override}
    BY <1>7, DamageInventsNoOverride DEF PolicyTypeOK
  <2>2. QED
    BY <1>0, <1>7, <1>w, <2>1 DEF DamageFile, InWindow
<1>8. CASE UNCHANGED policyVars
  BY <1>8 DEF policyVars, OverrideWindow
<1>9. QED
  BY <1>1, <1>2, <1>3, <1>4, <1>5, <1>6, <1>7, <1>8
     DEF PolicyNext, Evaluate, RequestOverride, CallStep, Environment, StepClockBack

(* Unless the wall clock steps back, no override, in memory or in the file *)
(* a restart would load, outlives MAX_TTL_SECONDS from now; failing saves, *)
(* restarts and damage to the file do not change that.                     *)
THEOREM OverrideStaysInWindow ==
  ASSUME "clock" \notin Faults PROVE PolicySpec => []OverrideWindow
<1>1. PolicyInit => Window
  <2> SUFFICES ASSUME PolicyInit PROVE Window
    OBVIOUS
  <2>2. Load(Absent) = DefaultState
    BY DEF Load
  <2>3. mem = DefaultState /\ Load(file) = DefaultState
    BY <2>2 DEF PolicyInit
  <2>4. DefaultState.override = None
    BY DEF DefaultState
  <2>5. call.at = 0 /\ now = 0
    BY DEF PolicyInit, IdleCall
  <2>6. QED
    BY <2>3, <2>4, <2>5 DEF Window, OverrideWindow
<1>2. Window => OverrideWindow
  BY DEF Window
<1>3. QED
  BY <1>1, <1>2, WindowInductive, PolicyTypeCorrect, PTL DEF PolicySpec

=============================================================================
