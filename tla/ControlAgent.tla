---------------------------- MODULE ControlAgent ----------------------------
(***************************************************************************)
(* The control agent on its AST2600 backend: the policy loop and the HTTP  *)
(* handlers (truefan_control/main.py) run ControlService.tick and          *)
(* ControlService.request_duty (service.py) in threads of one process,     *)
(* behind one lock; each reads the BMC, asks the policy (SafetyPolicy),    *)
(* commands the BMC over LAN IPMI and reads it back (ast2600.py).          *)
(*                                                                         *)
(* Every IPMI command is a step of its own, since the off-box watchdog can *)
(* command the same BMC between any two of them, the process can die       *)
(* there, and each command can fail.                                       *)
(***************************************************************************)
EXTENDS SafetyPolicy, PwmScale

CONSTANTS
    Loop,           \* the thread of policy_loop
    Handlers,       \* the threadpool's threads that serve HTTP requests
    Temps,          \* the temperatures the machine can have
    WatchdogOrders, \* what the off-box watchdog may make of the BMC
    MaxFaults,      \* bound on the commands and sensor reads that fail
    MaxMeddling,    \* bound on the watchdog's commands
    MaxCrashes      \* bound on the restarts of the process

Threads == {Loop} \cup Handlers

Mode == {"manual", "auto"}

(* duty is None when the sixteen channels differ: read_duty_percent.       *)
Bmc == [mode : Mode, duty : (0..FullDuty) \cup {None}]

ASSUME AgentConstants ==
    /\ Loop \notin Handlers /\ None \notin {Loop} \cup Handlers
    /\ Temps \subseteq [cpu : Int, drive : Int] /\ Temps # {}
    /\ WatchdogOrders \subseteq Bmc
    /\ {MaxFaults, MaxMeddling, MaxCrashes} \subseteq Nat

VARIABLES
    bmc,        \* the mode and duty the BMC really has
    temps,      \* the temperatures the machine really has
    lock,       \* ControlService._lock: the thread that holds it, or None
    pc,         \* what each thread does next
    job,        \* each thread's locals in request_duty or tick
    snapshot,   \* ControlService._last_status
    snapError,  \* ControlService._last_status_error is set
    refreshed,  \* history: how the last refresh of the snapshot ended
    budget      \* faults, watchdog commands and crashes still to come

serviceVars == <<lock, pc, job, snapshot, snapError, refreshed>>
agentVars == <<bmc, temps, serviceVars, budget>>
vars == <<policyVars, agentVars>>

Unreadable == [mode |-> "unknown", duty |-> None, cpu |-> None, drive |-> None]

NoJob == [kind |-> "none", duty |-> None, ttl |-> 0, before |-> Unreadable,
          decision |-> NoDecision, readback |-> Unreadable]

StatusOf(reading) ==
    [duty |-> reading.duty, cpu |-> reading.cpu, drive |-> reading.drive]

AgentInit ==
    /\ PolicyInit
    /\ bmc \in WatchdogOrders
    /\ temps \in Temps
    /\ lock = None
    /\ pc = [t \in Threads |-> "idle"]
    /\ job = [t \in Threads |-> NoJob]
    /\ snapshot = None
    /\ snapError = FALSE
    /\ refreshed = "never"
    /\ budget = [faults |-> MaxFaults, meddling |-> MaxMeddling,
                 crashes |-> MaxCrashes]

-----------------------------------------------------------------------------
(* Control flow of a thread.                                               *)

Goto(t, step) == pc' = [pc EXCEPT ![t] = step]

Start(t, work) ==
    /\ pc[t] = "idle"
    /\ Goto(t, "lock")
    /\ job' = [job EXCEPT ![t] = work]
    /\ UNCHANGED <<policyVars, bmc, temps, lock, snapshot, snapError, refreshed,
                   budget>>

Spend(kind) ==
    /\ budget[kind] > 0
    /\ budget' = [budget EXCEPT ![kind] = @ - 1]

RaiseKeepingLock(t) ==
    /\ UNCHANGED lock
    /\ job' = [job EXCEPT ![t] = NoJob]
    /\ IF job[t].kind = "control"
       THEN Goto(t, "idle") /\ UNCHANGED refreshed
       ELSE Goto(t, "publishError") /\ refreshed' = "failed"
    /\ UNCHANGED <<snapshot, snapError>>

(* An exception leaves the lock's block.  A tick publishes an error after  *)
(* that; a request just answers 409, 400 or 500.                           *)
Raise(t) ==
    /\ lock' = None
    /\ job' = [job EXCEPT ![t] = NoJob]
    /\ IF job[t].kind = "control"
       THEN Goto(t, "idle") /\ UNCHANGED refreshed
       ELSE Goto(t, "publishError") /\ refreshed' = "failed"
    /\ UNCHANGED <<snapshot, snapError>>

-----------------------------------------------------------------------------
(* What starts a thread.                                                   *)

(* policy_loop, after its sleep. *)
Wake == Start(Loop, [NoJob EXCEPT !.kind = "tick"])

(* POST /control, /set_pwm and /profile. *)
ReceiveControl(h) ==
    \E r \in Requests :
        Start(h, [NoJob EXCEPT !.kind = "control", !.duty = r.duty, !.ttl = r.ttl])

(* GET /status answers from the cache without changing anything, unless    *)
(* nothing has been published yet: then it runs a tick of its own.         *)
ReceiveStatus(h) ==
    /\ snapshot = None /\ ~snapError
    /\ Start(h, [NoJob EXCEPT !.kind = "tick"])

MayAcquireAlways(t) == TRUE

MayAcquire(t) == lock = None

Acquire(t) ==
    /\ pc[t] = "lock"
    /\ MayAcquire(t)
    /\ lock' = t
    /\ Goto(t, "readMode")
    /\ UNCHANGED <<policyVars, bmc, temps, job, snapshot, snapError, refreshed,
                   budget>>

-----------------------------------------------------------------------------
(* backend.status(): mode, duty, then the two sensor sources.              *)

ReadMode(t) ==
    /\ pc[t] = "readMode"
    /\ job' = [job EXCEPT ![t].before.mode = bmc.mode]
    /\ Goto(t, "readDuty")
    /\ UNCHANGED <<policyVars, bmc, temps, lock, snapshot, snapError, refreshed,
                   budget>>

ReadDuty(t) ==
    /\ pc[t] = "readDuty"
    /\ job' = [job EXCEPT ![t].before.duty = bmc.duty]
    /\ Goto(t, "readSensors")
    /\ UNCHANGED <<policyVars, bmc, temps, lock, snapshot, snapError, refreshed,
                   budget>>

(* A command that fails makes the whole status unreadable: the sensors are *)
(* then not read at all.                                                   *)
ReadFails(t) ==
    /\ pc[t] \in {"readMode", "readDuty"}
    /\ Spend("faults")
    /\ job' = [job EXCEPT ![t].before = Unreadable]
    /\ Goto(t, "askPolicy")
    /\ UNCHANGED <<policyVars, bmc, temps, lock, snapshot, snapError, refreshed>>

(* _enrich: a source that fails leaves its reading None.                   *)
ReadSensors(t) ==
    /\ pc[t] = "readSensors"
    /\ Goto(t, "askPolicy")
    /\ \/ /\ job' = [job EXCEPT ![t].before.cpu = temps.cpu,
                                ![t].before.drive = temps.drive]
          /\ UNCHANGED budget
       \/ /\ job' = [job EXCEPT ![t].before.drive = temps.drive]
          /\ Spend("faults")
       \/ /\ job' = [job EXCEPT ![t].before.cpu = temps.cpu]
          /\ Spend("faults")
       \/ /\ UNCHANGED job
          /\ Spend("faults")
    /\ UNCHANGED <<policyVars, bmc, temps, lock, snapshot, snapError, refreshed>>

-----------------------------------------------------------------------------
(* policy.evaluate() or policy.request_override().                         *)

AskPolicy(t) ==
    /\ pc[t] = "askPolicy"
    /\ Begin(StatusOf(job[t].before), job[t].duty, job[t].ttl)
    /\ Goto(t, "inPolicy")
    /\ UNCHANGED <<bmc, temps, lock, job, snapshot, snapError, refreshed, budget>>

PolicyStep == CallStep /\ UNCHANGED agentVars

NeedsWriteOnlyIfDutyDiffers(work, decision) ==
    work.kind = "control" \/ work.before.duty # decision.effective

NeedsWrite(work, decision) ==
    \/ work.kind = "control"
    \/ work.before.mode # "manual"
    \/ work.before.duty # decision.effective

TakeDecision(t) ==
    /\ pc[t] = "inPolicy" /\ call.phase = "returned"
    /\ Finish
    /\ IF NeedsWrite(job[t], call.decision)
       THEN /\ job' = [job EXCEPT ![t].decision = call.decision]
            /\ Goto(t, "setManual")
       ELSE /\ job' = [job EXCEPT ![t].decision = call.decision,
                                  ![t].readback = job[t].before]
            /\ Goto(t, "publish")
    /\ UNCHANGED <<bmc, temps, lock, snapshot, snapError, refreshed, budget>>

(* SafetyLocked, ValueError, or the OSError of a save.                     *)
PolicyRaises(t) ==
    /\ pc[t] = "inPolicy" /\ call.phase \in {"locked", "rejected", "failed"}
    /\ Finish
    /\ Raise(t)
    /\ UNCHANGED <<bmc, temps, budget>>

-----------------------------------------------------------------------------
(* backend.set_duty_percent(): two commands, then mode and duty read back. *)

SetManual(t) ==
    /\ pc[t] = "setManual"
    /\ bmc' = [bmc EXCEPT !.mode = "manual"]
    /\ Goto(t, "setDuty")
    /\ UNCHANGED <<policyVars, temps, lock, job, snapshot, snapError, refreshed,
                   budget>>

SetDuty(t) ==
    /\ pc[t] = "setDuty"
    /\ bmc' = [bmc EXCEPT !.duty = Clamp(job[t].decision.effective)]
    /\ Goto(t, "readBackMode")
    /\ UNCHANGED <<policyVars, temps, lock, job, snapshot, snapError, refreshed,
                   budget>>

(* A command the agent sees fail (ipmitool's error, or its timeout) may    *)
(* have reached the BMC or not.                                            *)
WriteFails(t) ==
    /\ Spend("faults")
    /\ \/ pc[t] \in {"setManual", "setDuty"} /\ UNCHANGED bmc
       \/ pc[t] = "setManual" /\ bmc' = [bmc EXCEPT !.mode = "manual"]
       \/ /\ pc[t] = "setDuty"
          /\ bmc' = [bmc EXCEPT !.duty = Clamp(job[t].decision.effective)]
    /\ Raise(t)
    /\ UNCHANGED <<policyVars, temps>>

ReadBackMode(t) ==
    /\ pc[t] = "readBackMode"
    /\ job' = [job EXCEPT ![t].readback.mode = bmc.mode]
    /\ Goto(t, "readBackDuty")
    /\ UNCHANGED <<policyVars, bmc, temps, lock, snapshot, snapError, refreshed,
                   budget>>

MismatchOfModeOnly(work, duty) == work.readback.mode # "manual"

Mismatch(work, duty) ==
    work.readback.mode # "manual" \/ duty # Clamp(work.decision.effective)

ReadBackDuty(t) ==
    /\ pc[t] = "readBackDuty"
    /\ IF Mismatch(job[t], bmc.duty)
       THEN Raise(t)
       ELSE /\ job' = [job EXCEPT ![t].readback.duty = bmc.duty]
            /\ Goto(t, "publish")
            /\ UNCHANGED <<lock, snapshot, snapError, refreshed>>
    /\ UNCHANGED <<policyVars, bmc, temps, budget>>

ReadBackFails(t) ==
    /\ pc[t] \in {"readBackMode", "readBackDuty"}
    /\ Spend("faults")
    /\ Raise(t)
    /\ UNCHANGED <<policyVars, bmc, temps>>

-----------------------------------------------------------------------------
(* The answer.                                                             *)

ErrorStays == UNCHANGED snapError

EndError == snapError' = FALSE

(* _publish_status, still under the lock; then the lock is released and a  *)
(* request answered.                                                       *)
Publish(t) ==
    /\ pc[t] = "publish"
    /\ snapshot' = [state |-> job[t].decision.state,
                    effective |-> job[t].decision.effective,
                    locked |-> job[t].decision.locked,
                    duty |-> job[t].readback.duty]
    /\ EndError
    /\ refreshed' = "succeeded"
    /\ lock' = None
    /\ job' = [job EXCEPT ![t] = NoJob]
    /\ Goto(t, "idle")
    /\ UNCHANGED <<policyVars, bmc, temps, budget>>

(* _publish_status_error, after the lock has been released.                *)
PublishError(t) ==
    /\ pc[t] = "publishError"
    /\ snapError' = TRUE
    /\ Goto(t, "idle")
    /\ UNCHANGED <<policyVars, bmc, temps, lock, job, snapshot, refreshed, budget>>

-----------------------------------------------------------------------------
(* Around the agent.                                                       *)

(* The container is restarted: the process and its threads are gone, the   *)
(* BMC keeps what it was told.                                             *)
Crash ==
    /\ Spend("crashes")
    /\ Restart
    /\ lock' = None
    /\ pc' = [t \in Threads |-> "idle"]
    /\ job' = [t \in Threads |-> NoJob]
    /\ snapshot' = None
    /\ snapError' = FALSE
    /\ refreshed' = "never"
    /\ UNCHANGED <<bmc, temps>>

(* The off-box watchdog. *)
Meddle ==
    /\ Spend("meddling")
    /\ bmc' \in WatchdogOrders \ {bmc}
    /\ UNCHANGED <<policyVars, temps, serviceVars>>

ChangeTemps ==
    /\ temps' \in Temps \ {temps}
    /\ UNCHANGED <<policyVars, bmc, serviceVars, budget>>

World ==
    \/ Crash \/ Meddle \/ ChangeTemps
    \/ (AdvanceClock \/ StepClockBack \/ DamageFile) /\ UNCHANGED agentVars

(* What a thread does once it has started, in the order it does it.        *)
Work(t) ==
    \/ ReadMode(t) \/ ReadDuty(t) \/ ReadSensors(t) \/ ReadFails(t)
    \/ AskPolicy(t) \/ TakeDecision(t) \/ PolicyRaises(t)
    \/ SetManual(t) \/ SetDuty(t) \/ WriteFails(t)
    \/ ReadBackMode(t) \/ ReadBackDuty(t) \/ ReadBackFails(t)
    \/ Publish(t) \/ PublishError(t)

AgentNext ==
    \/ Wake
    \/ \E h \in Handlers : ReceiveControl(h) \/ ReceiveStatus(h)
    \/ \E t \in Threads : Acquire(t) \/ Work(t)
    \/ PolicyStep
    \/ World

AgentSpec == AgentInit /\ [][AgentNext]_vars

(* The loop wakes from every sleep, a running thread runs on, and a thread *)
(* that waits for the lock gets it if it is released again and again.      *)
AgentFairness ==
    /\ WF_vars(Wake)
    /\ WF_vars(PolicyStep)
    /\ \A t \in Threads : WF_vars(Work(t)) /\ SF_vars(Acquire(t))

FairAgentSpec == AgentSpec /\ AgentFairness

-----------------------------------------------------------------------------
(* Types.                                                                  *)

WriteSteps == {"setManual", "setDuty", "readBackMode", "readBackDuty", "publish"}
WorkSteps == {"readMode", "readDuty", "readSensors", "askPolicy", "inPolicy"}
             \cup WriteSteps
Steps == {"idle", "lock", "publishError"} \cup WorkSteps

BackendReading == [mode : Mode \cup {"unknown"}, duty : (0..FullDuty) \cup {None},
                   cpu : Reading, drive : Reading]
Job == [kind : {"none", "tick", "control"}, duty : Int \cup {None}, ttl : Int,
        before : BackendReading, decision : DecisionType,
        readback : BackendReading]
Snapshot == [state : {"none", "hot", "sensor-failure", "cooling", "normal"},
             effective : 0..FullDuty, locked : BOOLEAN,
             duty : (0..FullDuty) \cup {None}]

ASSUME NoSnapshotIsNone == None \notin Snapshot

(* The agent's variables have their types.                                 *)
AgentTypeOK ==
    /\ bmc \in Bmc
    /\ temps \in Temps
    /\ lock \in Threads \cup {None}
    /\ pc \in [Threads -> Steps]
    /\ job \in [Threads -> Job]
    /\ snapshot \in Snapshot \cup {None}
    /\ snapError \in BOOLEAN
    /\ refreshed \in {"never", "failed", "succeeded"}
    /\ budget \in [faults : 0..MaxFaults, meddling : 0..MaxMeddling,
                   crashes : 0..MaxCrashes]

(* What the composition of threads, lock and policy rests on: a thread is  *)
(* in the lock's block exactly while it holds the lock, also after every   *)
(* kind of failure; the one call in the policy is that of the thread that  *)
(* waits for it, and carries that thread's request and reading.            *)
LockDiscipline == \A t \in Threads : lock = t <=> pc[t] \in WorkSteps

JobDiscipline ==
    \A t \in Threads :
        /\ pc[t] \in {"idle", "publishError"} <=> job[t].kind = "none"
        /\ IF job[t].kind = "control"
           THEN \E r \in Requests : job[t].duty = r.duty /\ job[t].ttl = r.ttl
           ELSE job[t].duty = None /\ job[t].ttl = 0

CallDiscipline ==
    /\ call.phase # "idle" => \E t \in Threads : pc[t] = "inPolicy"
    /\ \A t \in Threads : pc[t] = "inPolicy" =>
         /\ call.phase # "idle"
         /\ call.status = StatusOf(job[t].before)
         /\ call.requested = job[t].duty /\ call.ttl = job[t].ttl

AgentInv == AgentTypeOK /\ LockDiscipline /\ JobDiscipline /\ CallDiscipline

(***************************************************************************)
(* Properties.                                                             *)
(***************************************************************************)

(* README.md, "Every accepted mutation reports ... verified read-back",    *)
(* and the spec's "fail if they do not match": when a thread is about to   *)
(* publish and answer, the duty it reports is the duty decided, read back  *)
(* in manual mode; and a request's own override is the one in memory and   *)
(* the one a restart would load.                                           *)
AnswerIsTrue ==
    \A t \in Threads : pc[t] = "publish" =>
        LET work == job[t]
        IN  /\ work.readback.mode = "manual"
            /\ work.readback.duty \in {work.decision.effective,
                                      Clamp(work.decision.effective)}
            /\ work.kind = "control" =>
                  /\ work.readback.duty = work.decision.effective
                  /\ mem.override.duty = work.duty
                  /\ Load(file) = mem

(* The service lock's purpose (test_service_serializes_policy_and_backend_ *)
(* mutations): from the decision to the end of its writes no other thread  *)
(* changes what it was decided on, so the BMC is never given a duty that   *)
(* the latch or the override in force no longer calls for.                 *)
FollowsMemory(decision) ==
    /\ decision.state \in {"hot", "cooling"} => mem.previous_hot
    /\ decision.state = "normal" => ~mem.previous_hot
    /\ decision.expires = IF mem.override = None THEN None
                          ELSE mem.override.expires

WritesFollowMemory ==
    \A t \in Threads : pc[t] \in WriteSteps => FollowsMemory(job[t].decision)

(* What /status shows as good was good: a published incident shows fans at *)
(* the duty the README's table asks for, even though the snapshot is put   *)
(* together from a reading, a decision and a read-back of different times. *)
SnapshotKeepsTable ==
    snapshot # None =>
        /\ snapshot.state = "hot" => snapshot.duty = FullDuty
        /\ snapshot.state = "cooling" => snapshot.duty \in CoolingDuty..FullDuty
        /\ snapshot.duty # None

(* The cache that /status answers from (_last_status) against the fans:    *)
(* while nobody else commands the BMC, a status that is about to be        *)
(* published shows the duty the BMC has and runs under; and as long as no  *)
(* command has failed either, that stays so until the next one, though     *)
(* requests that are refused come in between and the cache is not touched  *)
(* by them.  (A request whose commands fail leaves the older status.)      *)
StatusIsCurrent ==
    budget.meddling = MaxMeddling =>
        /\ \A t \in Threads : pc[t] = "publish" =>
              bmc = [mode |-> "manual", duty |-> job[t].readback.duty]
        /\ snapshot # None /\ lock = None /\ budget.faults = MaxFaults =>
              bmc = [mode |-> "manual", duty |-> snapshot.duty]

(* README.md, "Sensor failure: never lower known duty".  As long as nobody *)
(* else has commanded the BMC, no write decided on a sensor failure lowers *)
(* the duty the BMC has at the moment of the write, also when it was read  *)
(* several commands earlier.                                               *)
SensorFailureNeverLowers ==
    [][budget'.meddling = MaxMeddling => \A t \in Threads :
          /\ pc[t] = "setDuty" /\ job[t].decision.state = "sensor-failure"
          /\ bmc'.duty # bmc.duty /\ bmc.duty # None
          => bmc'.duty > bmc.duty]_vars

(* test_failed_refresh_invalidates_cached_green_until_next_success: the    *)
(* cached error stands for a refresh that failed and that no successful    *)
(* one has followed.                                                       *)
ErrorEndsWithNextSuccess == snapError => refreshed = "failed"

(* README.md, "Hot: force 100%", over time: once the machine stays hot and *)
(* faults, crashes and the watchdog have stopped, the fans end up at 100%  *)
(* in manual mode and stay there, whatever requests keep coming.           *)
HotEventuallyFull ==
    <>[]Hot([cpu |-> temps.cpu, drive |-> temps.drive])
        => <>[](bmc = [mode |-> "manual", duty |-> FullDuty])

(* Every thread that asks for the lock gets through: neither the loop nor  *)
(* a request is left waiting by the others, or by a failure that kept the  *)
(* lock.                                                                   *)
EveryCallEnds ==
    \A t \in Threads : pc[t] = "lock" ~> pc[t] = "idle"

=============================================================================
