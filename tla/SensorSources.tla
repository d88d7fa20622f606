---------------------------- MODULE SensorSources ----------------------------
(***************************************************************************)
(* How a backend status gets the two readings the safety policy judges:    *)
(* the AST2600 backend asks the BMC's Redfish service and then TrueNAS     *)
(* over a websocket (ast2600.py _enrich, redfish.py, truenas.py), the      *)
(* hwmon backend goes through the kernel's files one after the other       *)
(* (hwmon_backend.py read_hwmon_sensors).                                  *)
(*                                                                         *)
(* Temperatures are whole thousandths of a degree, the kernel's unit.      *)
(* Every exchange and every file is a step, and sensors change between     *)
(* them.  Loops over files are steps, not folds.                           *)
(***************************************************************************)
EXTENDS PolicyRules, FiniteSetsExt

CONSTANTS
    Kind,       \* Kind[n]: what sensor n measures, in the order of the scan
    Key,        \* Key[n]: the name its reading is kept under
    Bare,       \* Bare[n]: what the scan takes it for, and the name, when its
                \* label cannot be read: by the chip and the file name alone
    Temps,      \* the temperatures there can be
    MaxDrifts   \* bound on the sensors that change during one read

Sensor == DOMAIN Kind
Kinds == {"cpu", "board", "drive", "nvme"}

ASSUME SensorAssumption ==
    /\ Sensor \in SUBSET Nat /\ IsFiniteSet(Sensor)
    /\ Kind \in [Sensor -> Kinds]
    /\ DOMAIN Key = Sensor
    /\ DOMAIN Bare = Sensor
    /\ \A n \in Sensor : DOMAIN Bare[n] = {"kind", "key"} /\ Bare[n].kind \in Kinds
    /\ Temps \subseteq Int /\ Temps # {}
    /\ MaxDrifts \in Nat

(* Millidegrees up to this one are taken for degrees.                      *)
LargestDegrees == 500
ASSUME ThresholdsAboveDegrees ==
    LargestDegrees <= RecoverCpu /\ LargestDegrees <= RecoverDrive

Of(kind) == {n \in Sensor : Kind[n] = kind}

(* With its label or without it: chip and label, or chip and file name,    *)
(* tell the kind and are the key.                                          *)
Names(n) == {[kind |-> Kind[n], key |-> Key[n]], Bare[n]}
DriveKeys(n) == {name.key : name \in {x \in Names(n) : x.kind = "drive"}}
CountsAs(kind) == {n \in Sensor : kind \in {Kind[n], Bare[n].kind}}
Keys == UNION {DriveKeys(n) : n \in Sensor}

VARIABLES
    backend,    \* Settings.backend
    truth,      \* the temperature of every sensor now
    pc,         \* what the read does next
    file,       \* hwmon: the first file of the scan not read yet
    cpu,        \* temperatures["cpu_c"] so far
    drives,     \* hwmon: drive_values so far
    drive,      \* temperatures["max_drive_c"]
    reply,      \* what disk.temperatures gave, None when fetch() fails
    failed,     \* _enrich: a source failed
    socket,     \* the websocket to TrueNAS
    answer,     \* the BackendStatus of the last read
    during,     \* history: the temperatures each sensor had during the read
    lost,       \* history: the sensors the read took no number from
    odd         \* history: the sensors that gave a number that is not finite

locals == <<file, cpu, drives, drive, reply, failed>>
history == <<during, lost, odd>>
vars == <<backend, truth, pc, locals, socket, answer, history>>

NoDrives == [k \in Keys |-> None]

SourcesInit ==
    /\ backend \in {"ast2600", "hwmon"}
    /\ truth \in [Sensor -> Temps]
    /\ pc = "idle" /\ file = 0 /\ cpu = None /\ drives = NoDrives
    /\ drive = None /\ reply = None /\ failed = FALSE
    /\ socket = "closed" /\ answer = None
    /\ during = [n \in Sensor |-> {truth[n]}] /\ lost = {} /\ odd = {}

(* status() begins.                                                        *)
BeginRead ==
    /\ pc = "idle"
    /\ pc' = IF backend = "ast2600" THEN "redfish" ELSE "scan"
    /\ UNCHANGED <<backend, truth, locals, socket, answer, history>>

(* A sensor's temperature changes, between two reads or while one is on.   *)
Changed == {n \in Sensor : during[n] # {truth[n]}}

Drift ==
    /\ \E n \in Sensor : \E t \in Temps \ {truth[n]} :
           /\ truth' = [truth EXCEPT ![n] = t]
           /\ \/ pc = "idle" /\ during' = [during EXCEPT ![n] = {t}]
              \/ /\ pc \notin {"idle", "answered", "shown"} /\ Cardinality(Changed) < MaxDrifts
                 /\ during' = [during EXCEPT ![n] = @ \cup {t}]
    /\ UNCHANGED <<backend, pc, locals, socket, answer, lost, odd>>

-----------------------------------------------------------------------------
(* The AST2600 backend.                                                    *)

(* What an answer says of sensors asked at once: some are null or hold     *)
(* text, some hold NaN.                                                    *)
Answered(sensors, silent, strange) ==
    [n \in sensors |-> IF n \in silent THEN None
                       ELSE IF n \in strange THEN NonFinite
                       ELSE truth[n]]

(* Python's max: a NaN that comes first is never replaced, a later one     *)
(* never replaces.                                                         *)
Largest(values, sensors) ==
    LET given == {n \in sensors : values[n] # None}
        finite == {values[n] : n \in {m \in given : values[m] \in Int}}
    IN  IF given = {} THEN None
        ELSE IF values[Min(given)] = NonFinite THEN NonFinite
        ELSE Max(finite)

Remember(silent, strange) ==
    /\ lost' = lost \cup silent
    /\ odd' = odd \cup strange

(* One GET, parsed on the spot.                                            *)
ReadRedfish ==
    /\ pc = "redfish" /\ pc' = "connect"
    /\ \/ /\ failed' = TRUE
          /\ UNCHANGED <<cpu, lost, odd>>
       \/ \E silent \in SUBSET Of("cpu") :
          \E strange \in SUBSET (Of("cpu") \ silent) :
             /\ cpu' = Largest(Answered(Of("cpu"), silent, strange), Of("cpu"))
             /\ Remember(silent, strange)
             /\ UNCHANGED failed
    /\ UNCHANGED <<backend, truth, file, drives, drive, reply, socket, answer,
                   during>>

ConnectTrueNas ==
    /\ pc = "connect"
    /\ \/ pc' = "login" /\ socket' = "open" /\ UNCHANGED failed
       \/ pc' = "finish" /\ failed' = TRUE /\ UNCHANGED socket
    /\ UNCHANGED <<backend, truth, file, cpu, drives, drive, reply, answer,
                   history>>

(* auth.login_ex.  Silence until the timeout, an answer to no request of   *)
(* this one, an error and anything but success all end the fetch.          *)
Login ==
    /\ pc = "login"
    /\ pc' \in {"temperatures", "close"}
    /\ UNCHANGED <<backend, truth, locals, socket, answer, history>>

(* disk.temperatures, with the same ways to fail.                          *)
AskTemperatures ==
    /\ pc = "temperatures" /\ pc' = "close"
    /\ \/ UNCHANGED <<reply, lost, odd>>
       \/ \E silent \in SUBSET Of("drive") :
          \E strange \in SUBSET (Of("drive") \ silent) :
             /\ reply' = Answered(Of("drive"), silent, strange)
             /\ Remember(silent, strange)
    /\ UNCHANGED <<backend, truth, file, cpu, drives, drive, failed, socket,
                   answer, during>>

(* The finally clause, whose own exception fails the fetch as well; then   *)
(* the drives that are no NVMe devices give the maximum.                   *)
CloseTrueNas ==
    /\ pc = "close" /\ pc' = "finish"
    /\ socket' = "closed"
    /\ \/ failed' = TRUE /\ UNCHANGED drive
       \/ /\ reply # None
          /\ drive' = Largest(reply, Of("drive"))
          /\ UNCHANGED failed
    /\ UNCHANGED <<backend, truth, file, cpu, drives, reply, answer, history>>

-----------------------------------------------------------------------------
(* The hwmon backend: one file a step, in the order of the paths.          *)

ScannedWithoutUnit(t) == 1000 * t

(* The scan's number for a file that holds t, in thousandths of a degree.  *)
Scanned(t) == IF t > LargestDegrees THEN t ELSE 1000 * t

RunningMaxLastWins(old, value) == value

(* max(old or value, value), where a 0 kept so far counts as none.         *)
RunningMax(old, value) ==
    IF old \in {None, 0} \/ value > old THEN value ELSE old

(* drive_values[key] = value, whatever the key held.                       *)
KeepDrive(key, value) == drives' = [drives EXCEPT ![key] = value]

Unread == {n \in Sensor : n >= file}

(* A file or its chip's name cannot be read, or the file holds no number:  *)
(* it is skipped.                                                          *)
SkipFile ==
    /\ pc = "scan" /\ Unread # {}
    /\ lost' = lost \cup {Min(Unread)}
    /\ file' = Min(Unread) + 1
    /\ UNCHANGED <<backend, truth, pc, cpu, drives, drive, reply, failed,
                   socket, answer, during, odd>>

(* The number counts although the label may be unreadable: then the chip   *)
(* and the file name alone say for what, and under which key.              *)
ReadFile ==
    /\ pc = "scan" /\ Unread # {}
    /\ LET n == Min(Unread)
           value == Scanned(truth[n])
       IN  /\ file' = n + 1
           /\ \E name \in Names(n) :
                 /\ cpu' = IF name.kind = "cpu" THEN RunningMax(cpu, value) ELSE cpu
                 /\ IF name.kind = "drive" THEN KeepDrive(name.key, value)
                    ELSE UNCHANGED drives
    /\ UNCHANGED <<backend, truth, pc, drive, reply, failed, socket, answer,
                   history>>

LargestDrive ==
    LET kept == {drives[k] : k \in Keys} \ {None}
    IN  IF kept = {} THEN None ELSE Max(kept)

EndScan ==
    /\ pc = "scan" /\ Unread = {} /\ pc' = "finish"
    /\ drive' = LargestDrive
    /\ UNCHANGED <<backend, truth, file, cpu, drives, reply, failed, socket,
                   answer, history>>

-----------------------------------------------------------------------------

SensorOkCpuOnly == ~failed /\ cpu # None

(* hwmon has no flag of its own for a failed source.                       *)
SensorOk == ~failed /\ cpu # None /\ drive # None

FinishRead ==
    /\ pc = "finish" /\ pc' = "answered"
    /\ answer' = [cpu |-> cpu, drive |-> drive, sensor_ok |-> SensorOk]
    /\ UNCHANGED <<backend, truth, locals, socket, history>>

(* The service has the status; nothing is kept from one read to the next.  *)
TakeAnswer ==
    /\ pc = "answered" /\ pc' = "idle"
    /\ file' = 0 /\ cpu' = None /\ drives' = NoDrives
    /\ drive' = None /\ reply' = None /\ failed' = FALSE
    /\ answer' = None
    /\ during' = [n \in Sensor |-> {truth[n]}] /\ lost' = {} /\ odd' = {}
    /\ UNCHANGED <<backend, truth, socket>>

Next ==
    \/ BeginRead \/ Drift
    \/ ReadRedfish \/ ConnectTrueNas \/ Login \/ AskTemperatures \/ CloseTrueNas
    \/ SkipFile \/ ReadFile \/ EndScan
    \/ FinishRead \/ TakeAnswer

SourcesSpec == SourcesInit /\ [][Next]_vars

-----------------------------------------------------------------------------
(* Properties.                                                             *)

Number == Int \cup {None, NonFinite}

AgentSteps ==
    {"idle", "redfish", "connect", "login", "temperatures", "close", "scan",
     "finish", "answered"}

LocalsOK ==
    /\ backend \in {"ast2600", "hwmon"}
    /\ truth \in [Sensor -> Temps] /\ during \in [Sensor -> SUBSET Temps]
    /\ file \in Nat /\ cpu \in Number /\ drive \in Number
    /\ drives \in [Keys -> Int \cup {None}]
    /\ reply \in [Of("drive") -> Number] \cup {None}
    /\ failed \in BOOLEAN /\ socket \in {"open", "closed"}
    /\ lost \subseteq Sensor /\ odd \subseteq Sensor
    /\ answer \in [cpu : Number, drive : Number, sensor_ok : BOOLEAN] \cup {None}

(* Types.                                                                  *)
SourcesTypeOK == pc \in AgentSteps /\ LocalsOK

(* What the sensors of one kind were during the whole read: all above a    *)
(* threshold, and their numbers not thrown away by the source.             *)
HeldAbove(n, threshold) ==
    n \notin lost /\ \A t \in during[n] : t > threshold

(* No sensor hides another.  When a CPU sensor or a drive is too hot from  *)
(* the first step of the read to the last, and its own number was there to *)
(* be had, the status is hot or a required reading is missing, either of   *)
(* which makes the policy act; and when one is above its recovery          *)
(* threshold, the status does not end an incident, whichever labels could  *)
(* be read.  Holds while every number is finite; see the hazards for a     *)
(* NaN.                                                                    *)
NoSensorHidden ==
    answer # None /\ odd = {} =>
        /\ \A n \in Of("cpu") :
              /\ HeldAbove(n, HotCpu) => Hot(answer) \/ SensorFailure(answer)
              /\ HeldAbove(n, RecoverCpu) => ~Recovered(answer)
        /\ \A n \in Of("drive") :
              /\ HeldAbove(n, HotDrive) => Hot(answer) \/ SensorFailure(answer)
              /\ HeldAbove(n, RecoverDrive) => ~Recovered(answer)

(* A status is hot only if a CPU sensor or a drive was, or a sensor whose  *)
(* chip's name says as much, at some step of the read, or if the kernel    *)
(* reported less than half a degree, which the hwmon scan takes for whole  *)
(* degrees.                                                                *)
MeasuredAbove(n, threshold) ==
    \E t \in during[n] :
        t > threshold \/ (backend = "hwmon" /\ t \in 1..LargestDegrees)

NoFalseAlarm ==
    answer # None /\ Hot(answer) =>
        \/ \E n \in CountsAs("cpu") : MeasuredAbove(n, HotCpu)
        \/ \E n \in CountsAs("drive") : MeasuredAbove(n, HotDrive)

(* The policy judges the readings and never sees sensor_ok decided apart   *)
(* from them: whichever exchange failed, at whatever step, a status that   *)
(* is not complete lacks a required reading, so PolicyRules may leave      *)
(* sensor_ok out of a status; and no read leaves a websocket open.         *)
FailureIsMissingReading ==
    answer # None =>
        /\ answer.sensor_ok <=> ~SensorFailure(answer)
        /\ failed => SensorFailure(answer)
        /\ socket = "closed"

=============================================================================
