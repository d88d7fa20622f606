----------------------------- MODULE PolicyRules -----------------------------
(***************************************************************************)
(* The rules of truefan_control/policy.py that keep no state: what counts  *)
(* as hot, as a sensor failure and as recovered, the decision evaluate()   *)
(* reaches about a backend status, the requests it refuses, and what       *)
(* ControlStateStore.load makes of the state file.                         *)
(***************************************************************************)
EXTENDS Integers

CONSTANTS
    HotDrive, HotCpu,           \* HOT_DRIVE_C, HOT_CPU_C
    RecoverDrive, RecoverCpu,   \* RECOVER_DRIVE_C, RECOVER_CPU_C
    MaxTtl,                     \* MAX_TTL_SECONDS, in steps of the model's clock
    None,                       \* Python's None
    NonFinite,                  \* a reading that is NaN or +infinity
    Absent, Corrupt,            \* no state file; a file that holds no JSON object
    Malformed                   \* an override object that load() refuses

ThresholdAssumption ==
    /\ HotDrive \in Int /\ RecoverDrive \in Int /\ RecoverDrive <= HotDrive
    /\ HotCpu \in Int /\ RecoverCpu \in Int /\ RecoverCpu <= HotCpu

ASSUME ThresholdsOrdered == ThresholdAssumption
ASSUME MaxTtlAssumption == MaxTtl \in Nat \ {0}

QuietDuty == 22
CoolingDuty == 50
FullDuty == 100
SafeDuty == QuietDuty..FullDuty

(* What BackendStatus tells the policy.  sensor_ok is no field of its own: *)
(* a backend reports it exactly when both required readings are there.     *)
Reading == Int \cup {None, NonFinite}
Status == [duty : (0..FullDuty) \cup {None}, cpu : Reading, drive : Reading]

(* What the policy remembers, and what the file that keeps it can hold.    *)
Override == [duty : SafeDuty, expires : Int]
Memory == [previous_hot : BOOLEAN, override : Override \cup {None}]
Document == [previous_hot : BOOLEAN, override : Override \cup {None, Malformed}]
File == Document \cup {Absent, Corrupt}

ASSUME ReadingsDiffer == None \notin Int /\ NonFinite \notin Int /\ None # NonFinite
ASSUME NoOverrideIsNone == None \notin Override
ASSUME MalformedAssumption == Malformed \notin Override /\ Malformed # None
ASSUME FileAssumption ==
    Absent # Corrupt /\ Absent \notin Document /\ Corrupt \notin Document

-----------------------------------------------------------------------------
(* What a status shows.                                                    *)

IsHot(value, threshold) == value \in Int /\ value > threshold
AtMost(value, threshold) == value \in Int /\ value <= threshold

Hot(s) == IsHot(s.cpu, HotCpu) \/ IsHot(s.drive, HotDrive)
SensorFailure(s) == s.cpu = None \/ s.drive = None
Recovered(s) == AtMost(s.drive, RecoverDrive) /\ AtMost(s.cpu, RecoverCpu)

(* The incident of README.md's table once a status has been seen: a hot    *)
(* one begins it, two recovered readings end it, no other status says      *)
(* anything about it.                                                      *)
IncidentAfter(begun, s) ==
    IF Hot(s) THEN TRUE
    ELSE IF Recovered(s) THEN FALSE
    ELSE begun

(* The prior-hot latch once evaluate() has judged the status.              *)
LatchDroppedBySensorFailure(latch, s) ==
    \/ Hot(s)
    \/ latch /\ ~SensorFailure(s) /\ ~Recovered(s)

LatchAfter(latch, s) ==
    \/ Hot(s)
    \/ latch /\ (SensorFailure(s) \/ ~Recovered(s))

SafetyState(latch, s) ==
    IF Hot(s) THEN "hot"
    ELSE IF SensorFailure(s) THEN "sensor-failure"
    ELSE IF LatchAfter(latch, s) THEN "cooling"
    ELSE "normal"

(* The duty asked for: the request's, else that of the override in force.  *)
Candidate(override, requested) ==
    IF requested # None THEN requested
    ELSE IF override # None THEN override.duty ELSE None

AtLeast(low, candidate) ==
    IF candidate # None /\ candidate > low THEN candidate ELSE low

EffectiveDutyOverrideWins(state, s, candidate) ==
    CASE state = "hot"            -> FullDuty
      [] state = "sensor-failure" -> IF s.duty = None THEN FullDuty
                                     ELSE IF candidate = None THEN s.duty
                                     ELSE candidate
      [] state = "cooling"        -> IF candidate = None THEN CoolingDuty
                                     ELSE candidate
      [] state = "normal"         -> IF candidate = None THEN QuietDuty
                                     ELSE candidate

EffectiveDuty(state, s, candidate) ==
    CASE state = "hot"            -> FullDuty
      [] state = "sensor-failure" -> IF s.duty = None THEN FullDuty
                                     ELSE AtLeast(s.duty, candidate)
      [] state = "cooling"        -> AtLeast(CoolingDuty, candidate)
      [] state = "normal"         -> IF candidate = None THEN QuietDuty
                                     ELSE candidate

(* The requests that evaluate() locks and request_override() refuses.      *)
Refused(state, s, requested) ==
    \/ state = "hot" /\ requested < FullDuty
    \/ state = "sensor-failure" /\ s.duty # None /\ requested < s.duty

Decision(memory, s, requested) ==
    LET state == SafetyState(memory.previous_hot, s)
        override == memory.override
    IN  [state     |-> state,
         effective |-> EffectiveDuty(state, s, Candidate(override, requested)),
         locked    |-> /\ state \in {"hot", "sensor-failure"}
                       /\ requested = None \/ Refused(state, s, requested),
         expires   |-> IF override = None THEN None ELSE override.expires]

ValidRequestAnyDuty(duty, ttl) == ttl \in 1..MaxTtl
ValidRequestAnyTtl(duty, ttl) == duty \in SafeDuty /\ ttl >= 1

ValidRequest(duty, ttl) == duty \in SafeDuty /\ ttl \in 1..MaxTtl

-----------------------------------------------------------------------------
(* The store.                                                              *)

DefaultState == [previous_hot |-> FALSE, override |-> None]

LoadFailOpen(f) ==
    IF f \in {Absent, Corrupt} THEN DefaultState
    ELSE [f EXCEPT !.override = IF f.override = Malformed THEN None
                                ELSE f.override]

(* A file that cannot be read as an object counts as a hot incident, a     *)
(* missing one does not; an override that fails its checks is dropped.     *)
Load(f) ==
    IF f = Absent THEN DefaultState
    ELSE IF f = Corrupt THEN [previous_hot |-> TRUE, override |-> None]
    ELSE [f EXCEPT !.override = IF f.override = Malformed THEN None
                                ELSE f.override]

=============================================================================
