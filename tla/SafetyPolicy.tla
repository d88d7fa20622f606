---------------------------- MODULE SafetyPolicy ----------------------------
(***************************************************************************)
(* The safety policy of truefan-control as a state machine: SafetyPolicy   *)
(* and the ControlStateStore it saves to (truefan_control/policy.py).      *)
(*                                                                         *)
(* evaluate() and request_override() hold the policy's lock from their     *)
(* first step to their last, so at most one call is in flight: `call'.     *)
(* Its steps lie between the points where a save can fail or the process   *)
(* can die: dropping an override that has expired, judging the status,     *)
(* granting the request.                                                   *)
(***************************************************************************)
EXTENDS PolicyRules

CONSTANTS
    Statuses,   \* the statuses a caller may pass
    Requests,   \* the (duty, ttl) pairs a caller may ask for
    MaxNow,     \* bound on the clock
    Faults      \* the faults that may happen

(* "save latch", "save override": an os error in ControlStateStore.save    *)
(* when evaluate() stores a changed latch, or when an expiry or a grant    *)
(* stores the override.  "delete", "corrupt", "malform": the file is lost  *)
(* or damaged from outside.  "clock": the wall clock steps back.           *)
FaultKinds == {"save latch", "save override", "delete", "corrupt", "malform",
               "clock"}

ASSUME PolicyConstants ==
    /\ Statuses \subseteq Status
    /\ Requests \subseteq [duty : Int, ttl : Int]
    /\ MaxNow \in Nat
    /\ Faults \subseteq FaultKinds

VARIABLES
    mem,        \* SafetyPolicy._state
    file,       \* what is at ControlStateStore.path
    now,        \* the wall clock
    call,       \* the call that holds the policy's lock
    incident    \* history: the last conclusive status judged was a hot one

policyVars == <<mem, file, now, call, incident>>

NoDecision == [state |-> "none", effective |-> FullDuty, locked |-> TRUE,
               expires |-> None]

IdleCall == [phase |-> "idle",
             status |-> [duty |-> None, cpu |-> None, drive |-> None],
             requested |-> None, ttl |-> 0, at |-> 0, decision |-> NoDecision]

Finished == {"returned", "locked", "failed", "rejected"}

PolicyInit ==
    /\ file = Absent
    /\ mem = Load(file)
    /\ now = 0
    /\ call = IdleCall
    /\ incident = FALSE

-----------------------------------------------------------------------------
(* The steps of a call.                                                    *)

(* request_override checks its arguments before it takes the lock; both    *)
(* calls then read the clock, once.                                        *)
Begin(status, requested, ttl) ==
    /\ call.phase = "idle"
    /\ call' = [call EXCEPT
                  !.phase = IF requested = None \/ ValidRequest(requested, ttl)
                            THEN "expire" ELSE "rejected",
                  !.status = status, !.requested = requested, !.ttl = ttl,
                  !.at = now]
    /\ UNCHANGED <<mem, file, now, incident>>

SaveSkipped(what, next) == UNCHANGED file /\ call' = next

SaveFailureIgnored(what, next) ==
    /\ call' = next
    /\ \/ file' = mem'
       \/ what \in Faults /\ UNCHANGED file

(* Memory changes before the save, and keeps the change when the save      *)
(* raises; the rename makes the file change at once or not at all.         *)
SaveThen(what, next) ==
    \/ file' = mem' /\ call' = next
    \/ /\ what \in Faults
       /\ call' = [call EXCEPT !.phase = "failed"]
       /\ UNCHANGED file

ExpiredLate(override, at) == override # None /\ override.expires < at

Expired(override, at) == override # None /\ override.expires <= at

(* _active_override *)
Expire ==
    /\ call.phase = "expire"
    /\ LET next == [call EXCEPT !.phase = "judge"]
       IN  IF Expired(mem.override, call.at)
           THEN mem' = [mem EXCEPT !.override = None]
                /\ SaveThen("save override", next)
           ELSE call' = next /\ UNCHANGED <<mem, file>>
    /\ UNCHANGED <<now, incident>>

AfterJudgingUnchecked(decision) ==
    IF call.requested = None THEN "returned" ELSE "grant"

(* The rest of evaluate(), and the refusals of request_override().         *)
AfterJudging(decision) ==
    IF call.requested = None THEN "returned"
    ELSE IF Refused(decision.state, call.status, call.requested) THEN "locked"
    ELSE "grant"

Judge ==
    /\ call.phase = "judge"
    /\ LET latch == LatchAfter(mem.previous_hot, call.status)
           decision == Decision(mem, call.status, call.requested)
           next == [call EXCEPT !.phase = AfterJudging(decision),
                                !.decision = decision]
       IN  IF latch # mem.previous_hot
           THEN mem' = [mem EXCEPT !.previous_hot = latch]
                /\ SaveThen("save latch", next)
           ELSE call' = next /\ UNCHANGED <<mem, file>>
    /\ incident' = IncidentAfter(incident, call.status)
    /\ UNCHANGED now

(* request_override() stores the override, whatever duty it will have.     *)
Grant ==
    /\ call.phase = "grant"
    /\ LET expires == call.at + call.ttl
       IN  /\ mem' = [mem EXCEPT !.override = [duty |-> call.requested,
                                               expires |-> expires]]
           /\ SaveThen("save override",
                       [call EXCEPT !.phase = "returned",
                                    !.decision.expires = expires])
    /\ UNCHANGED <<now, incident>>

Finish ==
    /\ call.phase \in Finished
    /\ call' = IdleCall
    /\ UNCHANGED <<mem, file, now, incident>>

-----------------------------------------------------------------------------
(* Around the calls.                                                       *)

(* The process dies, at any step, and a new one reads the file.            *)
Restart ==
    /\ mem' = Load(file)
    /\ call' = IdleCall
    /\ UNCHANGED <<file, now, incident>>

AdvanceClock ==
    /\ now < MaxNow
    /\ now' = now + 1
    /\ UNCHANGED <<mem, file, call, incident>>

StepClockBack ==
    /\ "clock" \in Faults
    /\ now' \in 0..(now - 1)
    /\ UNCHANGED <<mem, file, call, incident>>

DamageFile ==
    /\ \/ "delete" \in Faults /\ file' = Absent
       \/ "corrupt" \in Faults /\ file' = Corrupt
       \/ /\ "malform" \in Faults
          /\ file \in Document /\ file.override # None
          /\ file' = [file EXCEPT !.override = Malformed]
    /\ UNCHANGED <<mem, now, call, incident>>

Evaluate == \E s \in Statuses : Begin(s, None, 0)
RequestOverride ==
    \E s \in Statuses, r \in Requests : Begin(s, r.duty, r.ttl)

CallStep == Expire \/ Judge \/ Grant
Environment == Restart \/ AdvanceClock \/ StepClockBack \/ DamageFile

PolicyNext ==
    Evaluate \/ RequestOverride \/ CallStep \/ Finish \/ Environment

PolicySpec == PolicyInit /\ [][PolicyNext]_policyVars

-----------------------------------------------------------------------------
(* Types. *)

DecisionType == [state : {"none", "hot", "sensor-failure", "cooling", "normal"},
                 effective : 0..FullDuty, locked : BOOLEAN,
                 expires : Int \cup {None}]

CallType == [phase : {"idle", "expire", "judge", "grant"} \cup Finished,
             status : Status, requested : Int \cup {None}, ttl : Int,
             at : Int, decision : DecisionType]

(* Every variable of the policy has its type; a duty that the policy is    *)
(* about to grant or answers with is one the hardware may be given, and an *)
(* override is never kept that request_override would have rejected.       *)
PolicyTypeOK ==
    /\ mem \in Memory
    /\ file \in File
    /\ now \in Nat
    /\ call \in CallType
    /\ incident \in BOOLEAN
    /\ call.phase \in {"expire", "judge", "grant"} =>
         \/ call.requested = None /\ call.phase # "grant"
         \/ ValidRequest(call.requested, call.ttl)

(***************************************************************************)
(* Properties.                                                             *)
(***************************************************************************)

(* README.md, "A prior hot incident has not recovered: at least 50%":      *)
(* whatever restarts, corruption of the file and clock steps have come     *)
(* between, a decision reached on two sensor readings while the last       *)
(* conclusive status was a hot one asks for at least the cooling duty.     *)
CoolingHeld ==
    /\ call.phase = "returned"
    /\ incident
    /\ call.decision.state # "sensor-failure"
    => call.decision.effective >= CoolingDuty

(* Why CoolingHeld holds: neither the memory nor the file a restart would  *)
(* load forgets an incident.                                               *)
IncidentRemembered ==
    incident => mem.previous_hot /\ Load(file).previous_hot

(* spec "Each override has a TTL, maximum 900 seconds", of the memory and  *)
(* of the file: also after a restart, a save that failed half way through  *)
(* a call, or an expiry, no override can outlive MAX_TTL_SECONDS from now. *)
OverrideWindow ==
    \A override \in {mem.override, Load(file).override} :
        override # None => override.expires <= now + MaxTtl

(* request_override() answers only once its override is the one in memory  *)
(* and the one a restart would load, whatever was in the file before; a    *)
(* failed save never gets answered.                                        *)
Acknowledges ==
    /\ call.phase # "returned" /\ call.requested # None
    /\ call'.phase = "returned"

AcknowledgedIsDurable ==
    [][Acknowledges =>
         /\ mem'.override = [duty |-> call.requested,
                             expires |-> call.at + call.ttl]
         /\ Load(file').override = mem'.override]_policyVars

(* A decision never rests on an override that had expired when the call    *)
(* read the clock, and evaluate() never reports an expiry of an override   *)
(* it did not use.                                                         *)
DecisionRestsOnLiveOverride ==
    call.phase = "returned" /\ call.requested = None =>
        /\ call.decision.expires # None => call.decision.expires > call.at
        /\ call.decision.state = "normal" /\ call.decision.expires = None =>
             call.decision.effective = QuietDuty

(* The memory is a write-through cache of the file: between any two steps  *)
(* of a call a restart would load exactly what the process remembers.      *)
WriteThrough == mem = Load(file)

(* The policy keeps the contract, with the file as the contract's state:   *)
(* a crash between two steps of a call leaves nothing half done.           *)
Contract ==
    INSTANCE SafetyContract WITH
        incident <- Load(file).previous_hot, order <- Load(file).override,
        clock <- now, verdict <- call.decision, NoVerdict <- NoDecision

KeepsContract == Contract!ContractSpec

=============================================================================
