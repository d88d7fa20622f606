------------------------- MODULE ControlAgentProofs -------------------------
(***************************************************************************)
(* Proofs about ControlAgent, for any number of threads, any temperatures, *)
(* watchdog and bounds: the service lock and the policy's call belong to   *)
(* the thread the code says, the agent uses the policy only as             *)
(* SafetyPolicy lets it, and what a thread writes to the BMC is what the   *)
(* policy remembers.                                                       *)
(***************************************************************************)
EXTENDS ControlAgent, SafetyContractProofs

-----------------------------------------------------------------------------
(* Control flow.                                                           *)

PcTyped == pc \in [Threads -> Steps]

(* A thread that goes on inside the lock's block keeps the discipline.     *)
LEMMA StayInBlock ==
  ASSUME PcTyped, LockDiscipline, NEW t \in Threads, NEW step \in WorkSteps,
         pc[t] \in WorkSteps, Goto(t, step), UNCHANGED lock
  PROVE  PcTyped' /\ LockDiscipline'
BY DEF PcTyped, LockDiscipline, Goto, Steps

(* So does one that leaves the block and releases the lock.                *)
LEMMA LeaveBlock ==
  ASSUME PcTyped, LockDiscipline, NEW t \in Threads, NEW step \in Steps \ WorkSteps,
         pc[t] \in WorkSteps, Goto(t, step), lock' = None
  PROVE  PcTyped' /\ LockDiscipline'
<1>1. lock = t /\ \A u \in Threads : u # t => pc[u] \notin WorkSteps
  BY DEF LockDiscipline
<1>2. None \notin Threads
  BY AgentConstants DEF Threads
<1>3. QED
  BY <1>1, <1>2 DEF PcTyped, LockDiscipline, Goto

(* And one that moves outside the block.                                   *)
LEMMA StayOutside ==
  ASSUME PcTyped, LockDiscipline, NEW t \in Threads, NEW step \in Steps \ WorkSteps,
         pc[t] \notin WorkSteps, Goto(t, step), UNCHANGED lock
  PROVE  PcTyped' /\ LockDiscipline'
BY DEF PcTyped, LockDiscipline, Goto

LEMMA RaiseLeaves ==
  ASSUME PcTyped, LockDiscipline, NEW t \in Threads, pc[t] \in WorkSteps, Raise(t)
  PROVE  PcTyped' /\ LockDiscipline'
<1>1. PICK step \in {"idle", "publishError"} : Goto(t, step)
  BY DEF Raise
<1>2. step \in Steps \ WorkSteps
  BY DEF Steps, WorkSteps, WriteSteps
<1>3. QED
  BY <1>1, <1>2, LeaveBlock DEF Raise

(* The lock is held exactly by the thread that is in its block, on every   *)
(* path through the block and out of it.                                   *)
LEMMA LockInductive ==
  PcTyped /\ LockDiscipline /\ [AgentNext]_vars => PcTyped' /\ LockDiscipline'
<1> SUFFICES ASSUME PcTyped, LockDiscipline, [AgentNext]_vars
             PROVE  PcTyped' /\ LockDiscipline'
  OBVIOUS
<1>1. ASSUME NEW t \in Threads, NEW work, Start(t, work)
      PROVE  PcTyped' /\ LockDiscipline'
  <2>1. pc[t] \notin WorkSteps /\ "lock" \in Steps \ WorkSteps
    BY <1>1 DEF Start, Steps, WorkSteps, WriteSteps
  <2>2. QED
    BY <1>1, <2>1, StayOutside DEF Start
<1>2. ASSUME NEW t \in Threads, Acquire(t) PROVE PcTyped' /\ LockDiscipline'
  <2>1. lock = None /\ lock' = t /\ pc' = [pc EXCEPT ![t] = "readMode"]
    BY <1>2 DEF Acquire, MayAcquire, Goto
  <2>2. \A u \in Threads : pc[u] \notin WorkSteps
    BY <2>1, AgentConstants DEF LockDiscipline, Threads
  <2>3. QED
    BY <2>1, <2>2 DEF PcTyped, LockDiscipline, Steps, WorkSteps, WriteSteps
<1>3. ASSUME NEW t \in Threads,
             ReadMode(t) \/ ReadDuty(t) \/ ReadSensors(t) \/ ReadFails(t)
               \/ AskPolicy(t) \/ TakeDecision(t) \/ SetManual(t) \/ SetDuty(t)
               \/ ReadBackMode(t)
      PROVE  PcTyped' /\ LockDiscipline'
  <2>1. pc[t] \in WorkSteps /\ UNCHANGED lock
    BY <1>3 DEF ReadMode, ReadDuty, ReadSensors, ReadFails, AskPolicy, TakeDecision,
                SetManual, SetDuty, ReadBackMode, WorkSteps, WriteSteps
  <2>2. PICK step \in WorkSteps : Goto(t, step)
    BY <1>3 DEF ReadMode, ReadDuty, ReadSensors, ReadFails, AskPolicy, TakeDecision,
                SetManual, SetDuty, ReadBackMode, WorkSteps, WriteSteps
  <2>3. QED
    BY <2>1, <2>2, StayInBlock
<1>4. ASSUME NEW t \in Threads, PolicyRaises(t) \/ WriteFails(t) \/ ReadBackFails(t)
      PROVE  PcTyped' /\ LockDiscipline'
  <2>1. pc[t] \in WorkSteps /\ Raise(t)
    BY <1>4 DEF PolicyRaises, WriteFails, ReadBackFails, WorkSteps, WriteSteps
  <2>2. QED
    BY <2>1, RaiseLeaves
<1>5. ASSUME NEW t \in Threads, ReadBackDuty(t) PROVE PcTyped' /\ LockDiscipline'
  <2>1. pc[t] \in WorkSteps
    BY <1>5 DEF ReadBackDuty, WorkSteps, WriteSteps
  <2>2. CASE Raise(t)
    BY <2>1, <2>2, RaiseLeaves
  <2>3. CASE Goto(t, "publish") /\ UNCHANGED lock
    <3>1. "publish" \in WorkSteps
      BY DEF WorkSteps, WriteSteps
    <3>2. QED
      BY <2>1, <2>3, <3>1, StayInBlock
  <2>4. QED
    BY <1>5, <2>2, <2>3 DEF ReadBackDuty
<1>6. ASSUME NEW t \in Threads, Publish(t) PROVE PcTyped' /\ LockDiscipline'
  <2>1. pc[t] \in WorkSteps /\ "idle" \in Steps \ WorkSteps
    BY <1>6 DEF Publish, Steps, WorkSteps, WriteSteps
  <2>2. QED
    BY <1>6, <2>1, LeaveBlock DEF Publish
<1>7. ASSUME NEW t \in Threads, PublishError(t) PROVE PcTyped' /\ LockDiscipline'
  <2>1. pc[t] \notin WorkSteps /\ "idle" \in Steps \ WorkSteps
    BY <1>7 DEF PublishError, Steps, WorkSteps, WriteSteps
  <2>2. QED
    BY <1>7, <2>1, StayOutside DEF PublishError
<1>8. CASE Crash
  BY <1>8, AgentConstants DEF Crash, PcTyped, LockDiscipline, Steps, WorkSteps, WriteSteps, Threads
<1>9. CASE UNCHANGED <<pc, lock>>
  BY <1>9 DEF PcTyped, LockDiscipline
<1>10. \/ \E t \in Threads : \E work : Start(t, work)
       \/ \E t \in Threads : Acquire(t) \/ Work(t)
       \/ Crash
       \/ UNCHANGED <<pc, lock>>
  BY DEF AgentNext, Wake, ReceiveControl, ReceiveStatus, PolicyStep, World, Meddle,
         ChangeTemps, vars, agentVars, serviceVars, Threads
<1>11. QED
  BY <1>1, <1>2, <1>3, <1>4, <1>5, <1>6, <1>7, <1>8, <1>9, <1>10 DEF Work

LEMMA LockInit == AgentInit => PcTyped /\ LockDiscipline
<1> SUFFICES ASSUME AgentInit PROVE PcTyped /\ LockDiscipline
  OBVIOUS
<1>1. pc = [t \in Threads |-> "idle"] /\ lock = None
  BY DEF AgentInit
<1>2. QED
  BY <1>1, AgentConstants DEF PcTyped, LockDiscipline, Steps, WorkSteps, WriteSteps, Threads

(* test_service_serializes_policy_and_backend_mutations, for any number of *)
(* threads and every failure: the lock is held exactly while its holder is *)
(* in the block, so no two threads are ever in it and none leaves it       *)
(* locked behind.                                                          *)
THEOREM LockIsKept == AgentSpec => []LockDiscipline
BY LockInit, LockInductive, PTL DEF AgentSpec

-----------------------------------------------------------------------------
(* The threads' locals.                                                    *)

JobTyped == job \in [Threads -> Job]

(* No thread's request changes, and its other locals keep their types.     *)
KeepsRequests ==
    /\ JobTyped'
    /\ \A t \in Threads : /\ job'[t].kind = job[t].kind
                          /\ job'[t].duty = job[t].duty
                          /\ job'[t].ttl = job[t].ttl

LEMMA NoJobTyped == NoJob \in Job
BY ReadingsDiffer
   DEF NoJob, Job, Unreadable, BackendReading, NoDecision, DecisionType, Reading, FullDuty

LEMMA LocalUpdate ==
  ASSUME JobTyped, NEW t \in Threads, NEW work \in Job,
         job' = [job EXCEPT ![t] = work],
         work.kind = job[t].kind, work.duty = job[t].duty, work.ttl = job[t].ttl
  PROVE  KeepsRequests
BY DEF JobTyped, KeepsRequests

(* What the reading steps store is a backend reading.                      *)
LEMMA BeforeUpdate ==
  ASSUME JobTyped, NEW t \in Threads, NEW reading \in BackendReading,
         job' = [job EXCEPT ![t] = [job[t] EXCEPT !.before = reading]]
  PROVE  KeepsRequests
<1> DEFINE work == [job[t] EXCEPT !.before = reading]
<1>1. job[t] \in Job
  BY DEF JobTyped
<1>2. work \in Job /\ work.kind = job[t].kind /\ work.duty = job[t].duty
      /\ work.ttl = job[t].ttl
  BY <1>1 DEF Job
<1>3. QED
  BY <1>2, LocalUpdate

LEMMA ReadbackUpdate ==
  ASSUME JobTyped, NEW t \in Threads, NEW reading \in BackendReading,
         job' = [job EXCEPT ![t] = [job[t] EXCEPT !.readback = reading]]
  PROVE  KeepsRequests
<1> DEFINE work == [job[t] EXCEPT !.readback = reading]
<1>1. job[t] \in Job
  BY DEF JobTyped
<1>2. work \in Job /\ work.kind = job[t].kind /\ work.duty = job[t].duty
      /\ work.ttl = job[t].ttl
  BY <1>1 DEF Job
<1>3. QED
  BY <1>2, LocalUpdate

LEMMA ReadingStepsKeep ==
  ASSUME AgentTypeOK, NEW t \in Threads,
         ReadMode(t) \/ ReadDuty(t) \/ ReadSensors(t) \/ ReadFails(t) \/ ReadBackMode(t)
  PROVE  KeepsRequests
<1>1. JobTyped /\ job[t] \in Job /\ job[t].before \in BackendReading
      /\ job[t].readback \in BackendReading /\ bmc \in Bmc
  BY DEF AgentTypeOK, JobTyped, Job
<1>2. temps.cpu \in Int /\ temps.drive \in Int
  BY AgentConstants DEF AgentTypeOK
<1>3. CASE ReadMode(t)
  <2>1. [job[t].before EXCEPT !.mode = bmc.mode] \in BackendReading
    BY <1>1 DEF Bmc, BackendReading
  <2>2. job' = [job EXCEPT ![t] = [job[t] EXCEPT !.before =
                                     [job[t].before EXCEPT !.mode = bmc.mode]]]
    BY <1>1, <1>3 DEF ReadMode, JobTyped
  <2>3. QED
    BY <1>1, <2>1, <2>2, BeforeUpdate
<1>4. CASE ReadDuty(t)
  <2>1. [job[t].before EXCEPT !.duty = bmc.duty] \in BackendReading
    BY <1>1 DEF Bmc, BackendReading
  <2>2. job' = [job EXCEPT ![t] = [job[t] EXCEPT !.before =
                                     [job[t].before EXCEPT !.duty = bmc.duty]]]
    BY <1>1, <1>4 DEF ReadDuty, JobTyped
  <2>3. QED
    BY <1>1, <2>1, <2>2, BeforeUpdate
<1>5. CASE ReadFails(t)
  <2>1. Unreadable \in BackendReading
    BY DEF Unreadable, BackendReading, Reading
  <2>2. job' = [job EXCEPT ![t] = [job[t] EXCEPT !.before = Unreadable]]
    BY <1>1, <1>5 DEF ReadFails, JobTyped
  <2>3. QED
    BY <1>1, <2>1, <2>2, BeforeUpdate
<1>6. CASE ReadSensors(t)
  <2> DEFINE before == job[t].before
             both == [before EXCEPT !.cpu = temps.cpu, !.drive = temps.drive]
             drive == [before EXCEPT !.drive = temps.drive]
             cpu == [before EXCEPT !.cpu = temps.cpu]
  <2>1. {both, drive, cpu} \subseteq BackendReading
    BY <1>1, <1>2 DEF BackendReading, Reading
  <2>2. \/ job' = job
        \/ \E reading \in {both, drive, cpu} :
              job' = [job EXCEPT ![t] = [job[t] EXCEPT !.before = reading]]
    BY <1>1, <1>6 DEF ReadSensors, JobTyped
  <2> HIDE DEF both, drive, cpu
  <2>3. CASE job' = job
    BY <1>1, <2>3 DEF KeepsRequests, JobTyped
  <2>4. QED
    BY <1>1, <2>1, <2>2, <2>3, BeforeUpdate
<1>7. CASE ReadBackMode(t)
  <2>1. [job[t].readback EXCEPT !.mode = bmc.mode] \in BackendReading
    BY <1>1 DEF Bmc, BackendReading
  <2>2. job' = [job EXCEPT ![t] = [job[t] EXCEPT !.readback =
                                     [job[t].readback EXCEPT !.mode = bmc.mode]]]
    BY <1>1, <1>7 DEF ReadBackMode, JobTyped
  <2>3. QED
    BY <1>1, <2>1, <2>2, ReadbackUpdate
<1>8. QED
  BY <1>3, <1>4, <1>5, <1>6, <1>7

LEMMA TakeDecisionKeeps ==
  ASSUME AgentTypeOK, PolicyTypeOK, NEW t \in Threads, TakeDecision(t)
  PROVE  KeepsRequests
<1>1. JobTyped /\ job[t] \in Job /\ call.decision \in DecisionType
  BY DEF AgentTypeOK, JobTyped, PolicyTypeOK, CallType
<1>2. ASSUME NEW readback \in BackendReading,
             job' = [job EXCEPT ![t] = [job[t] EXCEPT !.decision = call.decision,
                                                      !.readback = readback]]
      PROVE  KeepsRequests
  <2> DEFINE work == [job[t] EXCEPT !.decision = call.decision, !.readback = readback]
  <2>1. work \in Job /\ work.kind = job[t].kind /\ work.duty = job[t].duty
        /\ work.ttl = job[t].ttl
    BY <1>1, <1>2 DEF Job
  <2>2. QED
    BY <1>1, <1>2, <2>1, LocalUpdate
<1>3. \E readback \in {job[t].readback, job[t].before} :
         job' = [job EXCEPT ![t] = [job[t] EXCEPT !.decision = call.decision,
                                                  !.readback = readback]]
  BY <1>1 DEF TakeDecision, JobTyped, Job
<1>4. job[t].readback \in BackendReading /\ job[t].before \in BackendReading
  BY <1>1 DEF Job
<1>5. QED
  BY <1>2, <1>3, <1>4

LEMMA ReadBackDutyKeeps ==
  ASSUME AgentTypeOK, NEW t \in Threads,
         job' = [job EXCEPT ![t].readback.duty = bmc.duty]
  PROVE  KeepsRequests
<1>1. JobTyped /\ job[t] \in Job /\ job[t].readback \in BackendReading /\ bmc \in Bmc
  BY DEF AgentTypeOK, JobTyped, Job
<1>2. [job[t].readback EXCEPT !.duty = bmc.duty] \in BackendReading
  BY <1>1 DEF Bmc, BackendReading
<1>3. job' = [job EXCEPT ![t] = [job[t] EXCEPT !.readback =
                                   [job[t].readback EXCEPT !.duty = bmc.duty]]]
  BY <1>1 DEF JobTyped
<1>4. QED
  BY <1>1, <1>2, <1>3, ReadbackUpdate

Parked == {"idle", "publishError"}

(* A thread that keeps its request keeps the discipline while it is on its *)
(* way; one that parks has no request any more.                            *)
LEMMA OnTheWay ==
  ASSUME PcTyped, JobDiscipline, KeepsRequests, NEW t \in Threads, NEW step,
         pc[t] \notin Parked, step \notin Parked, Goto(t, step)
  PROVE  JobDiscipline'
BY DEF PcTyped, JobDiscipline, KeepsRequests, Goto, Parked

LEMMA Parks ==
  ASSUME PcTyped, JobTyped, JobDiscipline, NEW t \in Threads, NEW step \in Parked,
         job' = [job EXCEPT ![t] = NoJob], Goto(t, step)
  PROVE  JobTyped' /\ JobDiscipline'
<1>1. NoJob \in Job /\ NoJob.kind = "none" /\ NoJob.duty = None /\ NoJob.ttl = 0
  BY NoJobTyped DEF NoJob
<1>2. JobTyped' /\ job'[t] = NoJob /\ \A u \in Threads : u # t => job'[u] = job[u]
  BY <1>1 DEF JobTyped
<1>3. pc'[t] = step /\ \A u \in Threads : u # t => pc'[u] = pc[u]
  BY DEF PcTyped, Goto
<1>4. QED
  BY <1>1, <1>2, <1>3 DEF JobDiscipline, Parked

LEMMA Starts ==
  ASSUME PcTyped, JobTyped, JobDiscipline, NEW t \in Threads, NEW work \in Job,
         work.kind # "none", Start(t, work),
         IF work.kind = "control"
         THEN \E r \in Requests : work.duty = r.duty /\ work.ttl = r.ttl
         ELSE work.duty = None /\ work.ttl = 0
  PROVE  JobTyped' /\ JobDiscipline'
<1>1. JobTyped' /\ job'[t] = work /\ \A u \in Threads : u # t => job'[u] = job[u]
  BY DEF Start, JobTyped
<1>2. pc'[t] = "lock" /\ \A u \in Threads : u # t => pc'[u] = pc[u]
  BY DEF Start, PcTyped, Goto
<1>3. QED
  BY <1>1, <1>2 DEF JobDiscipline

(* Whatever a thread does, requests stay with the threads that carry them. *)
LEMMA JobInductive ==
  AgentTypeOK /\ PolicyTypeOK /\ LockDiscipline /\ JobDiscipline /\ [AgentNext]_vars
    => JobTyped' /\ JobDiscipline'
<1> SUFFICES ASSUME AgentTypeOK, PolicyTypeOK, JobDiscipline, [AgentNext]_vars
             PROVE  JobTyped' /\ JobDiscipline'
  OBVIOUS
<1>0. PcTyped /\ JobTyped
  BY DEF AgentTypeOK, PcTyped, JobTyped
<1>a. ASSUME UNCHANGED job PROVE KeepsRequests
  BY <1>0, <1>a DEF KeepsRequests, JobTyped
<1>b. ASSUME NEW t \in Threads, pc[t] \in WorkSteps, NEW step \in WorkSteps,
             Goto(t, step), KeepsRequests
      PROVE  JobTyped' /\ JobDiscipline'
  <2>1. pc[t] \notin Parked /\ step \notin Parked
    BY <1>b DEF WorkSteps, WriteSteps, Parked
  <2>2. QED
    BY <1>0, <1>b, <2>1, OnTheWay DEF KeepsRequests
<1>c. ASSUME NEW t \in Threads, Raise(t) PROVE JobTyped' /\ JobDiscipline'
  <2>1. PICK step \in Parked : Goto(t, step) /\ job' = [job EXCEPT ![t] = NoJob]
    BY <1>c DEF Raise, Parked
  <2>2. QED
    BY <1>0, <2>1, Parks
<1>1. CASE Wake
  <2> DEFINE work == [NoJob EXCEPT !.kind = "tick"]
  <2>1. work \in Job /\ work.kind = "tick" /\ work.duty = None /\ work.ttl = 0
    BY NoJobTyped DEF Job, NoJob
  <2>2. Loop \in Threads /\ Start(Loop, work)
    BY <1>1 DEF Wake, Threads
  <2>3. QED
    BY <1>0, <2>1, <2>2, Starts
<1>2. ASSUME NEW h \in Handlers, ReceiveStatus(h) PROVE JobTyped' /\ JobDiscipline'
  <2> DEFINE work == [NoJob EXCEPT !.kind = "tick"]
  <2>1. work \in Job /\ work.kind = "tick" /\ work.duty = None /\ work.ttl = 0
    BY NoJobTyped DEF Job, NoJob
  <2>2. h \in Threads /\ Start(h, work)
    BY <1>2 DEF ReceiveStatus, Threads
  <2>3. QED
    BY <1>0, <2>1, <2>2, Starts
<1>3. ASSUME NEW h \in Handlers, ReceiveControl(h) PROVE JobTyped' /\ JobDiscipline'
  <2>1. PICK r \in Requests :
           Start(h, [NoJob EXCEPT !.kind = "control", !.duty = r.duty, !.ttl = r.ttl])
    BY <1>3 DEF ReceiveControl
  <2> DEFINE work == [NoJob EXCEPT !.kind = "control", !.duty = r.duty, !.ttl = r.ttl]
  <2>2. r.duty \in Int /\ r.ttl \in Int
    BY PolicyConstants
  <2>3. work \in Job /\ work.kind = "control" /\ work.duty = r.duty /\ work.ttl = r.ttl
    BY <2>2, NoJobTyped DEF Job
  <2>4. h \in Threads
    BY DEF Threads
  <2>5. QED
    BY <1>0, <2>1, <2>3, <2>4, Starts
<1>4. ASSUME NEW t \in Threads, Acquire(t) PROVE JobTyped' /\ JobDiscipline'
  <2>1. pc[t] \notin Parked /\ "readMode" \notin Parked
    BY <1>4 DEF Acquire, Parked
  <2>2. QED
    BY <1>0, <1>4, <1>a, <2>1, OnTheWay DEF Acquire, KeepsRequests
<1>5. ASSUME NEW t \in Threads,
             ReadMode(t) \/ ReadDuty(t) \/ ReadSensors(t) \/ ReadFails(t) \/ ReadBackMode(t)
      PROVE  JobTyped' /\ JobDiscipline'
  <2>1. PICK step \in WorkSteps : Goto(t, step) /\ pc[t] \in WorkSteps
    BY <1>5 DEF ReadMode, ReadDuty, ReadSensors, ReadFails, ReadBackMode, WorkSteps, WriteSteps
  <2>2. QED
    BY <1>5, <1>b, <2>1, ReadingStepsKeep
<1>6. ASSUME NEW t \in Threads, AskPolicy(t) \/ SetManual(t) \/ SetDuty(t)
      PROVE  JobTyped' /\ JobDiscipline'
  <2>1. PICK step \in WorkSteps : Goto(t, step) /\ pc[t] \in WorkSteps
    BY <1>6 DEF AskPolicy, SetManual, SetDuty, WorkSteps, WriteSteps
  <2>2. UNCHANGED job
    BY <1>6 DEF AskPolicy, SetManual, SetDuty
  <2>3. QED
    BY <1>a, <1>b, <2>1, <2>2
<1>7. ASSUME NEW t \in Threads, TakeDecision(t) PROVE JobTyped' /\ JobDiscipline'
  <2>1. PICK step \in WorkSteps : Goto(t, step) /\ pc[t] \in WorkSteps
    BY <1>7 DEF TakeDecision, WorkSteps, WriteSteps
  <2>2. QED
    BY <1>7, <1>b, <2>1, TakeDecisionKeeps
<1>8. ASSUME NEW t \in Threads, PolicyRaises(t) \/ WriteFails(t) \/ ReadBackFails(t)
      PROVE  JobTyped' /\ JobDiscipline'
  BY <1>8, <1>c DEF PolicyRaises, WriteFails, ReadBackFails
<1>9. ASSUME NEW t \in Threads, ReadBackDuty(t) PROVE JobTyped' /\ JobDiscipline'
  <2>1. CASE Raise(t)
    BY <1>c, <2>1
  <2>2. CASE Goto(t, "publish") /\ job' = [job EXCEPT ![t].readback.duty = bmc.duty]
    <3>1. pc[t] \in WorkSteps /\ "publish" \in WorkSteps
      BY <1>9 DEF ReadBackDuty, WorkSteps, WriteSteps
    <3>2. QED
      BY <1>b, <2>2, <3>1, ReadBackDutyKeeps
  <2>3. QED
    BY <1>9, <2>1, <2>2 DEF ReadBackDuty
<1>10. ASSUME NEW t \in Threads, Publish(t) PROVE JobTyped' /\ JobDiscipline'
  BY <1>0, <1>10, Parks DEF Publish, Parked
<1>11. ASSUME NEW t \in Threads, PublishError(t) PROVE JobTyped' /\ JobDiscipline'
  <2>1. pc[t] = "publishError" /\ Goto(t, "idle") /\ UNCHANGED job
    BY <1>11 DEF PublishError
  <2>2. QED
    BY <1>0, <2>1 DEF PcTyped, JobTyped, JobDiscipline, Goto
<1>12. CASE Crash
  <2>1. pc' = [t \in Threads |-> "idle"] /\ job' = [t \in Threads |-> NoJob]
    BY <1>12 DEF Crash
  <2>2. NoJob \in Job /\ NoJob.kind = "none" /\ NoJob.duty = None /\ NoJob.ttl = 0
    BY NoJobTyped DEF NoJob
  <2>3. QED
    BY <2>1, <2>2 DEF JobTyped, JobDiscipline
<1>13. CASE UNCHANGED <<pc, job>>
  BY <1>0, <1>13 DEF JobTyped, JobDiscipline
<1>14. \/ Wake
       \/ \E h \in Handlers : ReceiveControl(h) \/ ReceiveStatus(h)
       \/ \E t \in Threads : Acquire(t) \/ Work(t)
       \/ Crash
       \/ UNCHANGED <<pc, job>>
  BY DEF AgentNext, PolicyStep, World, Meddle, ChangeTemps, vars, agentVars, serviceVars
<1>15. QED
  BY <1>1, <1>2, <1>3, <1>4, <1>5, <1>6, <1>7, <1>8, <1>9, <1>10, <1>11, <1>12, <1>13,
     <1>14 DEF Work

-----------------------------------------------------------------------------
(* The agent and its policy.                                               *)

BeginsCall ==
    \/ \E s \in Status : Begin(s, None, 0)
    \/ \E s \in Status, r \in Requests : Begin(s, r.duty, r.ttl)

(* What a thread asks of the policy is a request it was given, or none.    *)
LEMMA AskBegins ==
  ASSUME AgentTypeOK, JobDiscipline, NEW t \in Threads, AskPolicy(t)
  PROVE  BeginsCall
<1>1. job[t] \in Job /\ job[t].before \in BackendReading
  BY DEF AgentTypeOK, Job
<1>2. StatusOf(job[t].before) \in Status
  BY <1>1 DEF StatusOf, BackendReading, Status
<1>3. Begin(StatusOf(job[t].before), job[t].duty, job[t].ttl)
  BY DEF AskPolicy
<1>4. \/ job[t].duty = None /\ job[t].ttl = 0
      \/ \E r \in Requests : job[t].duty = r.duty /\ job[t].ttl = r.ttl
  BY DEF JobDiscipline
<1>5. QED
  BY <1>2, <1>3, <1>4 DEF BeginsCall

(* Every step of the agent is a step of its policy, or leaves it alone.    *)
LEMMA AgentUsesPolicy ==
  ASSUME AgentTypeOK, JobDiscipline, [AgentNext]_vars
  PROVE  BeginsCall \/ UnderWay \/ UNCHANGED policyVars
<1>1. ASSUME NEW t \in Threads, AskPolicy(t) PROVE BeginsCall
  BY <1>1, AskBegins
<1>2. ASSUME NEW t \in Threads, TakeDecision(t) \/ PolicyRaises(t) PROVE UnderWay
  BY <1>2 DEF TakeDecision, PolicyRaises, UnderWay
<1>3. ASSUME NEW t \in Threads, Work(t)
      PROVE  AskPolicy(t) \/ TakeDecision(t) \/ PolicyRaises(t) \/ UNCHANGED policyVars
  BY <1>3 DEF Work, ReadMode, ReadDuty, ReadSensors, ReadFails, SetManual, SetDuty,
              WriteFails, ReadBackMode, ReadBackDuty, ReadBackFails, Publish, PublishError
<1>4. CASE PolicyStep \/ World
  BY <1>4 DEF PolicyStep, World, Crash, Meddle, ChangeTemps, UnderWay, Environment
<1>5. CASE Wake \/ \E h \in Handlers : ReceiveControl(h) \/ ReceiveStatus(h)
  BY <1>5 DEF Wake, ReceiveControl, ReceiveStatus, Start
<1>6. ASSUME NEW t \in Threads, Acquire(t) PROVE UNCHANGED policyVars
  BY <1>6 DEF Acquire
<1>7. CASE UNCHANGED vars
  BY <1>7 DEF vars
<1>8. QED
  BY <1>1, <1>2, <1>3, <1>4, <1>5, <1>6, <1>7 DEF AgentNext

LEMMA AgentKeepsPolicyTypes ==
  PolicyTypeOK /\ AgentTypeOK /\ JobDiscipline /\ [AgentNext]_vars => PolicyTypeOK'
<1> SUFFICES ASSUME PolicyTypeOK, AgentTypeOK, JobDiscipline, [AgentNext]_vars
             PROVE  PolicyTypeOK'
  OBVIOUS
<1>1. ASSUME NEW s \in Status, Begin(s, None, 0) PROVE PolicyTypeOK'
  <2>1. None \in Int \cup {None} /\ 0 \in Int
    OBVIOUS
  <2>2. QED
    BY <1>1, <2>1, BeginKeepsTypes
<1>2. ASSUME NEW s \in Status, NEW r \in Requests, Begin(s, r.duty, r.ttl)
      PROVE  PolicyTypeOK'
  <2>1. r.duty \in Int \cup {None} /\ r.ttl \in Int
    BY PolicyConstants
  <2>2. QED
    BY <1>2, <2>1, BeginKeepsTypes
<1>3. QED
  BY <1>1, <1>2, AgentUsesPolicy, UnderWayKeepsTypes DEF BeginsCall

(* A thread that is not in the policy, before or after, leaves the call    *)
(* with the thread that is.                                                *)
LEMMA CallElsewhere ==
  ASSUME PcTyped, CallDiscipline, NEW t \in Threads, NEW step,
         pc[t] # "inPolicy", step # "inPolicy", Goto(t, step), UNCHANGED call,
         \A u \in Threads : u # t => job'[u] = job[u]
  PROVE  CallDiscipline'
BY DEF PcTyped, CallDiscipline, Goto

(* The thread that is in the policy, and holds the lock, leaves it idle.   *)
LEMMA CallEnds ==
  ASSUME PcTyped, LockDiscipline, NEW t \in Threads, NEW step,
         pc[t] = "inPolicy", step # "inPolicy", Goto(t, step), call' = IdleCall
  PROVE  CallDiscipline'
<1>1. "inPolicy" \in WorkSteps
  BY DEF WorkSteps
<1>2. \A u \in Threads : pc'[u] # "inPolicy"
  BY <1>1 DEF PcTyped, LockDiscipline, Goto
<1>3. call'.phase = "idle"
  BY DEF IdleCall
<1>4. QED
  BY <1>2, <1>3 DEF CallDiscipline

LEMMA CallStepKeepsCaller ==
  ASSUME PolicyTypeOK, CallStep
  PROVE  /\ call.phase # "idle" /\ call'.phase # "idle"
         /\ call'.status = call.status
         /\ call'.requested = call.requested /\ call'.ttl = call.ttl
<1>1. CASE Expire
  BY <1>1, CallAfterExpire DEF Expire
<1>2. CASE Judge
  <2> DEFINE decision == Decision(mem, call.status, call.requested)
  <2>1. AfterJudging(decision) # "idle"
    BY DEF AfterJudging
  <2> HIDE DEF decision
  <2>2. call.phase = "judge"
    BY <1>2 DEF Judge
  <2>3. QED
    BY <1>2, <2>1, <2>2, CallAfterJudge DEF decision
<1>3. CASE Grant
  BY <1>3, CallAfterGrant DEF Grant
<1>4. QED
  BY <1>1, <1>2, <1>3 DEF CallStep

(* The policy's one call is that of the thread that waits for it.          *)
LEMMA CallInductive ==
  AgentTypeOK /\ PolicyTypeOK /\ LockDiscipline /\ CallDiscipline /\ [AgentNext]_vars
    => CallDiscipline'
<1> SUFFICES ASSUME AgentTypeOK, PolicyTypeOK, LockDiscipline, CallDiscipline,
                    [AgentNext]_vars
             PROVE  CallDiscipline'
  OBVIOUS
<1>0. PcTyped /\ JobTyped
  BY DEF AgentTypeOK, PcTyped, JobTyped
<1>1. ASSUME NEW t \in Threads, NEW work, Start(t, work) PROVE CallDiscipline'
  <2>1. pc[t] # "inPolicy" /\ Goto(t, "lock") /\ UNCHANGED call
        /\ \A u \in Threads : u # t => job'[u] = job[u]
    BY <1>0, <1>1 DEF Start, JobTyped, policyVars
  <2>2. QED
    BY <1>0, <2>1, CallElsewhere
<1>2. ASSUME NEW t \in Threads, Acquire(t) PROVE CallDiscipline'
  <2>1. pc[t] # "inPolicy" /\ Goto(t, "readMode") /\ UNCHANGED <<call, job>>
    BY <1>2 DEF Acquire, policyVars
  <2>2. QED
    BY <1>0, <2>1, CallElsewhere
<1>3. ASSUME NEW t \in Threads,
             ReadMode(t) \/ ReadDuty(t) \/ ReadSensors(t) \/ ReadFails(t)
               \/ SetManual(t) \/ SetDuty(t) \/ WriteFails(t) \/ ReadBackMode(t)
               \/ ReadBackDuty(t) \/ ReadBackFails(t) \/ Publish(t) \/ PublishError(t)
      PROVE  CallDiscipline'
  <2>1. pc[t] # "inPolicy" /\ UNCHANGED call
    BY <1>3 DEF ReadMode, ReadDuty, ReadSensors, ReadFails, SetManual, SetDuty,
                WriteFails, ReadBackMode, ReadBackDuty, ReadBackFails, Publish,
                PublishError, policyVars
  <2>2. PICK step : step # "inPolicy" /\ Goto(t, step)
    BY <1>3 DEF ReadMode, ReadDuty, ReadSensors, ReadFails, SetManual, SetDuty,
                WriteFails, ReadBackMode, ReadBackDuty, ReadBackFails, Publish,
                PublishError, Raise
  <2>3. \A u \in Threads : u # t => job'[u] = job[u]
    BY <1>0, <1>3 DEF ReadMode, ReadDuty, ReadSensors, ReadFails, SetManual, SetDuty,
                WriteFails, ReadBackMode, ReadBackDuty, ReadBackFails, Publish,
                PublishError, Raise, JobTyped
  <2>4. QED
    BY <1>0, <2>1, <2>2, <2>3, CallElsewhere
<1>4. ASSUME NEW t \in Threads, AskPolicy(t) PROVE CallDiscipline'
  <2>1. call'.phase \in {"expire", "rejected"}
        /\ call'.status = StatusOf(job[t].before)
        /\ call'.requested = job[t].duty /\ call'.ttl = job[t].ttl
    BY <1>4 DEF AskPolicy, Begin, PolicyTypeOK, CallType
  <2>2. pc[t] \in WorkSteps
    BY <1>4 DEF AskPolicy, WorkSteps
  <2>3. \A u \in Threads : u # t => pc[u] # "inPolicy"
    BY <2>2 DEF LockDiscipline, WorkSteps
  <2>4. pc'[t] = "inPolicy" /\ job' = job
        /\ \A u \in Threads : u # t => pc'[u] = pc[u]
    BY <1>0, <1>4 DEF AskPolicy, Goto, PcTyped
  <2>5. QED
    BY <2>1, <2>3, <2>4 DEF CallDiscipline
<1>5. ASSUME NEW t \in Threads, TakeDecision(t) \/ PolicyRaises(t)
      PROVE  CallDiscipline'
  <2>1. pc[t] = "inPolicy" /\ call' = IdleCall
    BY <1>5 DEF TakeDecision, PolicyRaises, Finish
  <2>2. PICK step : step # "inPolicy" /\ Goto(t, step)
    BY <1>5 DEF TakeDecision, PolicyRaises, Raise
  <2>3. QED
    BY <1>0, <2>1, <2>2, CallEnds
<1>6. CASE PolicyStep
  <2>1. UNCHANGED <<pc, job>> /\ CallStep
    BY <1>6 DEF PolicyStep, agentVars, serviceVars
  <2>2. QED
    BY <2>1, CallStepKeepsCaller DEF CallDiscipline
<1>7. CASE Crash
  <2>1. call'.phase = "idle" /\ pc' = [t \in Threads |-> "idle"]
    BY <1>7 DEF Crash, Restart, IdleCall
  <2>2. QED
    BY <2>1 DEF CallDiscipline
<1>8. CASE UNCHANGED <<pc, job, call>>
  BY <1>8 DEF CallDiscipline
<1>9. \/ \E t \in Threads : \E work : Start(t, work)
      \/ \E t \in Threads : Acquire(t) \/ Work(t)
      \/ PolicyStep \/ Crash \/ UNCHANGED <<pc, job, call>>
  BY DEF AgentNext, Wake, ReceiveControl, ReceiveStatus, World, Meddle, ChangeTemps,
         AdvanceClock, StepClockBack, DamageFile, vars, policyVars, agentVars,
         serviceVars, Threads
<1>10. QED
  BY <1>1, <1>2, <1>3, <1>4, <1>5, <1>6, <1>7, <1>8, <1>9 DEF Work

-----------------------------------------------------------------------------
(* The other types.                                                        *)

BudgetTyped == budget \in [faults : 0..MaxFaults, meddling : 0..MaxMeddling,
                           crashes : 0..MaxCrashes]

(* Who spends of the budget, and who changes the BMC.                      *)
LEMMA BudgetSteps ==
  [AgentNext]_vars => UNCHANGED budget \/ Spend("faults") \/ Spend("crashes") \/ Meddle
<1> SUFFICES ASSUME [AgentNext]_vars
             PROVE  UNCHANGED budget \/ Spend("faults") \/ Spend("crashes") \/ Meddle
  OBVIOUS
<1>1. ASSUME NEW t \in Threads, Work(t) PROVE UNCHANGED budget \/ Spend("faults")
  BY <1>1 DEF Work, ReadMode, ReadDuty, ReadSensors, ReadFails, AskPolicy, TakeDecision,
         PolicyRaises, SetManual, SetDuty, WriteFails, ReadBackMode, ReadBackDuty,
         ReadBackFails, Publish, PublishError
<1>2. QED
  BY <1>1 DEF AgentNext, Wake, ReceiveControl, ReceiveStatus, Start, Acquire, PolicyStep,
         World, Crash, ChangeTemps, vars, agentVars

LEMMA BmcSteps ==
  [AgentNext]_vars => \/ UNCHANGED bmc \/ Meddle
                      \/ \E t \in Threads : SetManual(t) \/ SetDuty(t) \/ WriteFails(t)
<1> SUFFICES ASSUME [AgentNext]_vars, ~Meddle,
                    \A t \in Threads : ~SetManual(t) /\ ~SetDuty(t) /\ ~WriteFails(t)
             PROVE  UNCHANGED bmc
  OBVIOUS
<1>1. ASSUME NEW t \in Threads, Work(t) PROVE UNCHANGED bmc
  BY <1>1 DEF Work, ReadMode, ReadDuty, ReadSensors, ReadFails, AskPolicy, TakeDecision,
         PolicyRaises, ReadBackMode, ReadBackDuty, ReadBackFails, Publish, PublishError
<1>2. QED
  BY <1>1 DEF AgentNext, Wake, ReceiveControl, ReceiveStatus, Start, Acquire, PolicyStep,
         World, Crash, ChangeTemps, vars, agentVars

LEMMA SpendTyped ==
  ASSUME BudgetTyped, NEW kind \in {"faults", "meddling", "crashes"}, Spend(kind)
  PROVE  BudgetTyped'
BY AgentConstants DEF BudgetTyped, Spend

LEMMA BudgetInductive == BudgetTyped /\ [AgentNext]_vars => BudgetTyped'
<1> SUFFICES ASSUME BudgetTyped, [AgentNext]_vars PROVE BudgetTyped'
  OBVIOUS
<1>1. UNCHANGED budget \/ Spend("faults") \/ Spend("meddling") \/ Spend("crashes")
  BY BudgetSteps DEF Meddle
<1>2. CASE UNCHANGED budget
  BY <1>2 DEF BudgetTyped
<1>3. QED
  BY <1>1, <1>2, SpendTyped

(* The backend does not touch a duty of the safe range.                    *)
LEMMA SafeDutyUnclamped == ASSUME NEW n \in SafeDuty PROVE Clamp(n) = n
BY DEF Clamp, SafeDuty, QuietDuty, FullDuty, MinDuty, MaxDuty

(* Whatever duty is decided, the backend gives the BMC one it knows.       *)
LEMMA ClampTyped == ASSUME NEW n \in Int PROVE Clamp(n) \in SafeDuty
BY DEF Clamp, SafeDuty, QuietDuty, FullDuty, MinDuty, MaxDuty

LEMMA BmcInductive == AgentTypeOK /\ [AgentNext]_vars => (bmc \in Bmc /\ temps \in Temps)'
<1> SUFFICES ASSUME AgentTypeOK, [AgentNext]_vars PROVE bmc' \in Bmc /\ temps' \in Temps
  OBVIOUS
<1>1. bmc \in Bmc /\ temps \in Temps
  BY DEF AgentTypeOK
<1>2. ASSUME NEW t \in Threads, bmc' = [bmc EXCEPT !.mode = "manual"] PROVE bmc' \in Bmc
  BY <1>1, <1>2 DEF Bmc, Mode
<1>3. ASSUME NEW t \in Threads, bmc' = [bmc EXCEPT !.duty = Clamp(job[t].decision.effective)]
      PROVE  bmc' \in Bmc
  <2>1. job[t].decision.effective \in Int
    BY DEF AgentTypeOK, Job, DecisionType
  <2>2. Clamp(job[t].decision.effective) \in 0..FullDuty
    BY <2>1, ClampTyped DEF SafeDuty, QuietDuty, FullDuty
  <2>3. QED
    BY <1>1, <1>3, <2>2 DEF Bmc
<1>4. CASE Meddle \/ ChangeTemps
  BY <1>1, <1>4, AgentConstants DEF Meddle, ChangeTemps
<1>5. \/ UNCHANGED <<bmc, temps>> \/ Meddle \/ ChangeTemps
      \/ \E t \in Threads :
            /\ UNCHANGED temps
            /\ \/ bmc' = [bmc EXCEPT !.mode = "manual"]
               \/ bmc' = [bmc EXCEPT !.duty = Clamp(job[t].decision.effective)]
  BY DEF AgentNext, Wake, ReceiveControl, ReceiveStatus, Start, Acquire, Work, ReadMode,
         ReadDuty, ReadSensors, ReadFails, AskPolicy, TakeDecision, PolicyRaises,
         SetManual, SetDuty, WriteFails, ReadBackMode, ReadBackDuty, ReadBackFails,
         Publish, PublishError, PolicyStep, World, Crash, vars, agentVars
<1>6. QED
  BY <1>1, <1>2, <1>3, <1>4, <1>5

CacheTyped ==
    /\ snapshot \in Snapshot \cup {None}
    /\ snapError \in BOOLEAN
    /\ refreshed \in {"never", "failed", "succeeded"}

LEMMA CacheInductive == AgentTypeOK /\ [AgentNext]_vars => CacheTyped'
<1> SUFFICES ASSUME AgentTypeOK, [AgentNext]_vars PROVE CacheTyped'
  OBVIOUS
<1>1. CacheTyped
  BY DEF AgentTypeOK, CacheTyped
<1>2. ASSUME NEW t \in Threads, Publish(t) PROVE CacheTyped'
  <2>1. job[t].decision \in DecisionType /\ job[t].readback \in BackendReading
    BY DEF AgentTypeOK, Job
  <2>2. snapshot' \in Snapshot
    BY <1>2, <2>1 DEF Publish, Snapshot, DecisionType, BackendReading
  <2>3. snapError' = FALSE /\ refreshed' = "succeeded"
    BY <1>2 DEF Publish, EndError
  <2>4. QED
    BY <2>2, <2>3 DEF CacheTyped
<1>3. ASSUME NEW t \in Threads, Raise(t) PROVE CacheTyped'
  BY <1>1, <1>3 DEF Raise, CacheTyped
<1>4. ASSUME NEW t \in Threads, PublishError(t) PROVE CacheTyped'
  BY <1>1, <1>4 DEF PublishError, CacheTyped
<1>5. CASE Crash
  BY <1>5 DEF Crash, CacheTyped
<1>6. CASE UNCHANGED <<snapshot, snapError, refreshed>>
  BY <1>1, <1>6 DEF CacheTyped
<1>7. \/ \E t \in Threads : Publish(t) \/ Raise(t) \/ PublishError(t)
      \/ Crash \/ UNCHANGED <<snapshot, snapError, refreshed>>
  BY DEF AgentNext, Wake, ReceiveControl, ReceiveStatus, Start, Acquire, Work, ReadMode,
         ReadDuty, ReadSensors, ReadFails, AskPolicy, TakeDecision, PolicyRaises,
         SetManual, SetDuty, WriteFails, ReadBackMode, ReadBackDuty, ReadBackFails,
         PolicyStep, World, Meddle, ChangeTemps, vars, agentVars, serviceVars
<1>8. QED
  BY <1>2, <1>3, <1>4, <1>5, <1>6, <1>7

LEMMA LockTyped == AgentTypeOK /\ [AgentNext]_vars => (lock \in Threads \cup {None})'
<1> SUFFICES ASSUME AgentTypeOK, [AgentNext]_vars PROVE lock' \in Threads \cup {None}
  OBVIOUS
<1>1. lock \in Threads \cup {None}
  BY DEF AgentTypeOK
<1>2. UNCHANGED lock \/ lock' \in Threads \cup {None}
  BY DEF AgentNext, Wake, ReceiveControl, ReceiveStatus, Start, Acquire, Work, ReadMode,
         ReadDuty, ReadSensors, ReadFails, AskPolicy, TakeDecision, PolicyRaises, Raise,
         SetManual, SetDuty, WriteFails, ReadBackMode, ReadBackDuty, ReadBackFails,
         Publish, PublishError, PolicyStep, World, Crash, Meddle, ChangeTemps, vars,
         agentVars, serviceVars
<1>3. QED
  BY <1>1, <1>2

-----------------------------------------------------------------------------
(* Together.                                                               *)

LEMMA AgentInductive ==
  PolicyTypeOK /\ AgentInv /\ [AgentNext]_vars => PolicyTypeOK' /\ AgentInv'
<1> SUFFICES ASSUME PolicyTypeOK, AgentInv, [AgentNext]_vars
             PROVE  PolicyTypeOK' /\ AgentInv'
  OBVIOUS
<1>1. AgentTypeOK /\ LockDiscipline /\ JobDiscipline /\ CallDiscipline
  BY DEF AgentInv
<1>2. PolicyTypeOK'
  BY <1>1, AgentKeepsPolicyTypes
<1>3. PcTyped' /\ LockDiscipline'
  BY <1>1, LockInductive DEF AgentTypeOK, PcTyped
<1>4. JobTyped' /\ JobDiscipline'
  BY <1>1, JobInductive
<1>5. CallDiscipline'
  BY <1>1, CallInductive
<1>6. BudgetTyped'
  BY <1>1, BudgetInductive DEF AgentTypeOK, BudgetTyped
<1>7. AgentTypeOK'
  BY <1>1, <1>3, <1>4, <1>6, BmcInductive, CacheInductive, LockTyped
     DEF AgentTypeOK, PcTyped, JobTyped, BudgetTyped, CacheTyped
<1>8. QED
  BY <1>2, <1>3, <1>4, <1>5, <1>7 DEF AgentInv

LEMMA AgentStarts == AgentInit => PolicyTypeOK /\ AgentInv
<1> SUFFICES ASSUME AgentInit PROVE PolicyTypeOK /\ AgentInv
  OBVIOUS
<1>1. PolicyTypeOK /\ PcTyped /\ LockDiscipline
  BY PolicyTypeInit, LockInit DEF AgentInit
<1>2. NoJob \in Job /\ NoJob.kind = "none" /\ NoJob.duty = None /\ NoJob.ttl = 0
  BY NoJobTyped DEF NoJob
<1>3. pc = [t \in Threads |-> "idle"] /\ job = [t \in Threads |-> NoJob]
  BY DEF AgentInit
<1>4. JobDiscipline /\ job \in [Threads -> Job]
  BY <1>2, <1>3 DEF JobDiscipline
<1>5. CallDiscipline
  BY <1>3 DEF AgentInit, PolicyInit, IdleCall, CallDiscipline
<1>6. AgentTypeOK
  <2>1. bmc \in Bmc /\ temps \in Temps /\ lock \in Threads \cup {None}
    BY AgentConstants DEF AgentInit
  <2>2. snapshot \in Snapshot \cup {None} /\ snapError \in BOOLEAN
        /\ refreshed \in {"never", "failed", "succeeded"}
    BY DEF AgentInit
  <2>3. BudgetTyped
    BY AgentConstants DEF AgentInit, BudgetTyped
  <2>4. QED
    BY <1>1, <1>4, <2>1, <2>2, <2>3 DEF AgentTypeOK, PcTyped, BudgetTyped
<1>7. QED
  BY <1>1, <1>4, <1>5, <1>6 DEF AgentInv

(* The threads, the lock and the policy's call fit together in every       *)
(* reachable state: at most one thread is between taking and releasing the *)
(* lock, after a failure at any step too, and a policy call belongs to the *)
(* thread that waits for it.                                               *)
THEOREM AgentKeepsDiscipline == AgentSpec => [](PolicyTypeOK /\ AgentInv)
BY AgentStarts, AgentInductive, PTL DEF AgentSpec

(* The agent's lock gives the policy what its specification asks for: the  *)
(* agent, its faults and its crashes are a behaviour of SafetyPolicy, so   *)
(* what is proved of the policy holds in the agent.                        *)
THEOREM AgentImplementsPolicy ==
  ASSUME Status \subseteq Statuses PROVE AgentSpec => PolicySpec
<1>1. AgentInit => PolicyInit
  BY DEF AgentInit
<1>2. AgentInv /\ [AgentNext]_vars => [PolicyNext]_policyVars
  BY AgentUsesPolicy
     DEF AgentInv, BeginsCall, UnderWay, PolicyNext, Evaluate, RequestOverride
<1>3. QED
  BY <1>1, <1>2, AgentKeepsDiscipline, PTL DEF AgentSpec, PolicySpec

-----------------------------------------------------------------------------
(* What is written follows what is remembered.                             *)

FollowsLatch(decision) ==
    /\ decision.state \in {"hot", "cooling"} => mem.previous_hot
    /\ decision.state = "normal" => ~mem.previous_hot

(* The same of the decision a call is about to answer with: what makes     *)
(* WritesFollowMemory inductive.                                           *)
DecisionFollows ==
    /\ call.phase \in {"grant", "returned"} => FollowsLatch(call.decision)
    /\ call.phase = "returned" =>
         call.decision.expires = IF mem.override = None THEN None
                                 ELSE mem.override.expires

LEMMA JudgedFollows ==
  ASSUME PolicyTypeOK, Judge,
         call'.phase \in {"grant", "returned"}
  PROVE  DecisionFollows'
<1> DEFINE latch == LatchAfter(mem.previous_hot, call.status)
           decision == Decision(mem, call.status, call.requested)
<1>1. /\ decision.state \in {"hot", "cooling"} => latch
      /\ decision.state = "normal" => ~latch
  BY DEF Decision, SafetyState, LatchAfter
<1>2. decision.expires = IF mem.override = None THEN None ELSE mem.override.expires
  BY DEF Decision
<1> HIDE DEF latch, decision
<1>3. mem'.previous_hot = latch /\ mem'.override = mem.override
  BY DEF Judge, PolicyTypeOK, Memory, latch
<1>4. call' = [call EXCEPT !.phase = AfterJudging(decision), !.decision = decision]
      \/ call' = [call EXCEPT !.phase = "failed"]
  BY DEF Judge, SaveThen, decision
<1>5. call'.decision = decision
  <2>1. call \in CallType
    BY DEF PolicyTypeOK
  <2>2. CASE call' = [call EXCEPT !.phase = "failed"]
    <3>1. call'.phase = "failed"
      BY <2>1, <2>2 DEF CallType
    <3>2. QED
      BY <3>1
  <2>3. QED
    BY <1>4, <2>1, <2>2 DEF CallType
<1>6. QED
  BY <1>1, <1>2, <1>3, <1>5 DEF FollowsLatch, DecisionFollows

LEMMA GrantedFollows ==
  ASSUME PolicyTypeOK, DecisionFollows, Grant PROVE DecisionFollows'
<1> DEFINE expires == call.at + call.ttl
<1>1. call \in CallType /\ call.decision \in DecisionType /\ mem \in Memory
  BY DEF PolicyTypeOK, CallType
<1>2. mem'.previous_hot = mem.previous_hot
      /\ mem'.override = [duty |-> call.requested, expires |-> expires]
  BY <1>1 DEF Grant, Memory
<1>3. \/ call' = [call EXCEPT !.phase = "returned", !.decision.expires = expires]
      \/ call' = [call EXCEPT !.phase = "failed"]
  BY DEF Grant, SaveThen
<1>4. call.at \in Int /\ call.requested \in SafeDuty /\ call.ttl \in 1..MaxTtl
  BY DEF Grant, PolicyTypeOK, CallType, ValidRequest
<1>5. mem'.override # None /\ mem'.override.expires = expires
  <2>1. expires \in Int
    BY <1>4, MaxTtlAssumption
  <2>2. mem'.override \in Override
    BY <1>2, <1>4, <2>1 DEF Override
  <2>3. QED
    BY <1>2, <2>2, NoOverrideIsNone
<1> HIDE DEF expires
<1>6. CASE call' = [call EXCEPT !.phase = "failed"]
  BY <1>1, <1>6 DEF DecisionFollows, CallType
<1>7. CASE call' = [call EXCEPT !.phase = "returned", !.decision.expires = expires]
  <2>1. call'.decision = [call.decision EXCEPT !.expires = expires]
    BY <1>1, <1>7 DEF CallType
  <2>2. call'.decision.state = call.decision.state /\ call'.decision.expires = expires
    BY <1>1, <2>1 DEF DecisionType
  <2>3. FollowsLatch(call.decision)
    BY DEF Grant, DecisionFollows
  <2>4. QED
    BY <1>2, <1>5, <2>2, <2>3 DEF DecisionFollows, FollowsLatch
<1>8. QED
  BY <1>3, <1>6, <1>7

LEMMA DecisionFollowsInductive ==
  PolicyTypeOK /\ DecisionFollows /\ (BeginsCall \/ UnderWay \/ UNCHANGED policyVars)
    => DecisionFollows'
<1> SUFFICES ASSUME PolicyTypeOK, DecisionFollows,
                    BeginsCall \/ UnderWay \/ UNCHANGED policyVars
             PROVE  DecisionFollows'
  OBVIOUS
<1>1. CASE call'.phase \notin {"grant", "returned"}
  BY <1>1 DEF DecisionFollows
<1>2. ASSUME NEW s, NEW requested, NEW ttl, Begin(s, requested, ttl)
      PROVE  call'.phase \notin {"grant", "returned"}
  BY <1>2 DEF Begin, PolicyTypeOK, CallType
<1>3. CASE Expire
  BY <1>1, <1>3 DEF Expire, SaveThen, PolicyTypeOK, CallType
<1>4. CASE Judge
  BY <1>1, <1>4, JudgedFollows
<1>5. CASE Grant
  BY <1>5, GrantedFollows
<1>6. CASE Finish \/ Restart
  BY <1>1, <1>6 DEF Finish, Restart, IdleCall
<1>7. CASE UNCHANGED <<mem, call>>
  BY <1>7 DEF DecisionFollows, FollowsLatch
<1>8. QED
  BY <1>1, <1>2, <1>3, <1>4, <1>5, <1>6, <1>7
     DEF BeginsCall, UnderWay, CallStep, Environment, AdvanceClock, StepClockBack,
         DamageFile, policyVars

(* While a thread writes, the lock keeps every other one from changing the *)
(* memory and the file.                                                    *)
LEMMA NobodyElseRemembers ==
  ASSUME AgentInv, PolicyTypeOK, [AgentNext]_vars, NEW t \in Threads,
         pc[t] \in WriteSteps, pc'[t] \in WriteSteps
  PROVE  UNCHANGED mem /\ (UNCHANGED file \/ DamageFile)
<1>1. lock = t /\ \A u \in Threads : u # t => pc[u] \notin WorkSteps
  BY DEF AgentInv, LockDiscipline, WorkSteps
<1>2. "inPolicy" \in WorkSteps /\ "inPolicy" \notin WriteSteps
  BY DEF WorkSteps, WriteSteps
<1>3. call.phase = "idle"
  BY <1>1, <1>2 DEF AgentInv, CallDiscipline
<1>4. ~CallStep
  BY <1>3 DEF CallStep, Expire, Judge, Grant
<1>5. ~Crash
  BY DEF Crash, WriteSteps
<1>6. QED
  BY <1>4, <1>5
     DEF AgentNext, Wake, ReceiveControl, ReceiveStatus, Start, Acquire, Work, ReadMode,
         ReadDuty, ReadSensors, ReadFails, AskPolicy, TakeDecision, PolicyRaises, Begin,
         Finish, SetManual, SetDuty, WriteFails, ReadBackMode, ReadBackDuty,
         ReadBackFails, Publish, PublishError, PolicyStep, World, Meddle, ChangeTemps,
         AdvanceClock, StepClockBack, DamageFile, vars, policyVars, agentVars

(* Nor does its decision change once it has been taken.                    *)
LEMMA DecisionKept ==
  ASSUME AgentInv, PolicyTypeOK, [AgentNext]_vars, NEW t \in Threads,
         pc'[t] \in WriteSteps
  PROVE  \/ pc[t] \in WriteSteps /\ job'[t].decision = job[t].decision
         \/ /\ TakeDecision(t)
            /\ job'[t].decision = call.decision
<1>0. PcTyped /\ JobTyped
  BY DEF AgentInv, AgentTypeOK, PcTyped, JobTyped
<1>1. ASSUME NEW u \in Threads, u # t, NEW step, Goto(u, step),
             \A v \in Threads : v # u => job'[v] = job[v]
      PROVE  pc[t] \in WriteSteps /\ job'[t].decision = job[t].decision
  BY <1>0, <1>1 DEF PcTyped, Goto
<1>2. ASSUME NEW u \in Threads, NEW work, Start(u, work)
      PROVE  u # t /\ \E step : Goto(u, step) /\ \A v \in Threads : v # u => job'[v] = job[v]
  BY <1>0, <1>2 DEF Start, PcTyped, JobTyped, Goto, WriteSteps
<1>3. ASSUME NEW u \in Threads, Acquire(u) \/ Work(u)
      PROVE  \E step : Goto(u, step) /\ \A v \in Threads : v # u => job'[v] = job[v]
  BY <1>0, <1>3 DEF JobTyped, Acquire, Work, ReadMode, ReadDuty, ReadSensors, ReadFails,
         AskPolicy, TakeDecision, PolicyRaises, Raise, SetManual, SetDuty, WriteFails,
         ReadBackMode, ReadBackDuty, ReadBackFails, Publish, PublishError
<1>4. ASSUME Acquire(t) \/ ReadMode(t) \/ ReadDuty(t) \/ ReadSensors(t) \/ ReadFails(t)
               \/ AskPolicy(t) \/ PolicyRaises(t) \/ WriteFails(t) \/ ReadBackFails(t)
               \/ Publish(t) \/ PublishError(t) \/ Raise(t)
      PROVE  FALSE
  BY <1>0, <1>4 DEF PcTyped, Acquire, ReadMode, ReadDuty, ReadSensors, ReadFails,
         AskPolicy, PolicyRaises, Raise, WriteFails, ReadBackFails, Publish,
         PublishError, Goto, WriteSteps
<1>5. CASE SetManual(t) \/ SetDuty(t)
  BY <1>5 DEF SetManual, SetDuty, WriteSteps
<1>6. ASSUME NEW readback, job' = [job EXCEPT ![t] = [job[t] EXCEPT !.readback = readback]]
      PROVE  job'[t].decision = job[t].decision
  BY <1>0, <1>6 DEF JobTyped, Job
<1>7. CASE ReadBackMode(t) \/ ReadBackDuty(t)
  <2>1. pc[t] \in WriteSteps
    BY <1>7 DEF ReadBackMode, ReadBackDuty, WriteSteps
  <2>2. \/ job' = [job EXCEPT ![t].readback.mode = bmc.mode]
        \/ job' = [job EXCEPT ![t].readback.duty = bmc.duty]
    BY <1>4, <1>7 DEF ReadBackMode, ReadBackDuty
  <2>3. \/ job' = [job EXCEPT ![t] = [job[t] EXCEPT !.readback =
                                        [job[t].readback EXCEPT !.mode = bmc.mode]]]
        \/ job' = [job EXCEPT ![t] = [job[t] EXCEPT !.readback =
                                        [job[t].readback EXCEPT !.duty = bmc.duty]]]
    BY <1>0, <2>2 DEF JobTyped
  <2>4. QED
    BY <1>6, <2>1, <2>3
<1>8. CASE TakeDecision(t)
  <2>1. PICK readback \in {job[t].readback, job[t].before} :
           job' = [job EXCEPT ![t] = [job[t] EXCEPT !.decision = call.decision,
                                                    !.readback = readback]]
    <3>1. job[t] \in Job
      BY <1>0 DEF JobTyped
    <3>2. QED
      BY <1>0, <1>8, <3>1 DEF TakeDecision, JobTyped, Job
  <2>2. job'[t].decision = call.decision
    BY <1>0, <2>1 DEF JobTyped, Job
  <2>3. QED
    BY <1>8, <2>2
<1>9. CASE Crash
  BY <1>9 DEF Crash, WriteSteps
<1>10. CASE UNCHANGED <<pc, job>>
  BY <1>10
<1>11. \/ \E u \in Threads : \E work : Start(u, work)
       \/ \E u \in Threads : Acquire(u) \/ Work(u)
       \/ Crash \/ UNCHANGED <<pc, job>>
  BY DEF AgentNext, Wake, ReceiveControl, ReceiveStatus, PolicyStep, World, Meddle,
         ChangeTemps, vars, agentVars, serviceVars, Threads
<1>12. QED
  BY <1>1, <1>2, <1>3, <1>4, <1>5, <1>7, <1>8, <1>9, <1>10, <1>11 DEF Work

LEMMA FollowInductive ==
  PolicyTypeOK /\ AgentInv /\ DecisionFollows /\ WritesFollowMemory /\ [AgentNext]_vars
    => DecisionFollows' /\ WritesFollowMemory'
<1> SUFFICES ASSUME PolicyTypeOK, AgentInv, DecisionFollows, WritesFollowMemory,
                    [AgentNext]_vars
             PROVE  DecisionFollows' /\ WritesFollowMemory'
  OBVIOUS
<1>1. DecisionFollows'
  BY AgentUsesPolicy, DecisionFollowsInductive DEF AgentInv
<1>2. ASSUME NEW t \in Threads, pc'[t] \in WriteSteps
      PROVE  FollowsMemory(job[t].decision)'
  <2>1. CASE pc[t] \in WriteSteps /\ job'[t].decision = job[t].decision
    <3>1. FollowsMemory(job[t].decision)
      BY <2>1 DEF WritesFollowMemory
    <3>2. UNCHANGED mem
      BY <1>2, <2>1, NobodyElseRemembers
    <3>3. QED
      BY <2>1, <3>1, <3>2 DEF FollowsMemory
  <2>2. CASE TakeDecision(t) /\ job'[t].decision = call.decision
    <3>1. call.phase = "returned" /\ UNCHANGED mem
      BY <2>2 DEF TakeDecision, Finish
    <3>2. FollowsMemory(call.decision)
      BY <3>1 DEF DecisionFollows, FollowsLatch, FollowsMemory
    <3>3. QED
      BY <2>2, <3>1, <3>2 DEF FollowsMemory
  <2>3. QED
    BY <1>2, <2>1, <2>2, DecisionKept
<1>3. QED
  BY <1>1, <1>2 DEF WritesFollowMemory

(* For any number of threads, and whatever fails: as long as a thread is   *)
(* writing, the latch and the override in memory are those its decision    *)
(* was made on.                                                            *)
THEOREM WritesFollow == AgentSpec => []WritesFollowMemory
<1>1. AgentInit => DecisionFollows /\ WritesFollowMemory
  <2> SUFFICES ASSUME AgentInit PROVE DecisionFollows /\ WritesFollowMemory
    OBVIOUS
  <2>1. call.phase = "idle" /\ \A t \in Threads : pc[t] = "idle"
    BY DEF AgentInit, PolicyInit, IdleCall
  <2>2. QED
    BY <2>1 DEF DecisionFollows, WritesFollowMemory, WriteSteps
<1>2. QED
  BY <1>1, FollowInductive, AgentKeepsDiscipline, PTL DEF AgentSpec

(* The policy's promise about incidents, in the agent: through any         *)
(* interleaving of threads, failures of the BMC and restarts, no decision  *)
(* made on two readings during an incident is below the cooling duty.      *)
THEOREM AgentHoldsCooling ==
  ASSUME Status \subseteq Statuses, Faults \cap {"save latch", "delete"} = {}
  PROVE  AgentSpec => []CoolingHeld
BY AgentImplementsPolicy, CoolingIsHeld, PTL

(* And the whole contract, when saves succeed and nobody else touches file *)
(* or clock: an agent of any number of threads, cut off anywhere by        *)
(* restarts and BMC failures, is one incident flag and one order.          *)
THEOREM AgentKeepsContract ==
  ASSUME Status \subseteq Statuses, Faults = {}
  PROVE  AgentSpec => KeepsContract
BY AgentImplementsPolicy, PolicyKeepsContract, PTL

-----------------------------------------------------------------------------
(* Answers.                                                                *)

(* README.md's table, of a decision.                                       *)
KeepsTable(decision) ==
    /\ decision.state = "hot" => decision.effective = FullDuty
    /\ decision.state = "cooling" => decision.effective >= CoolingDuty

(* A request's decision needs no clamping, and its override is in memory.  *)
Serves(decision, requested) ==
    requested # None =>
        decision.effective \in SafeDuty /\ mem.override.duty = requested

(* What a call is about to answer with.                                    *)
DecisionSound ==
    /\ call.phase \in {"grant", "returned"} => KeepsTable(call.decision)
    /\ call.phase = "grant" => call.requested # None
    /\ call.phase = "grant" => call.decision.effective \in SafeDuty
    /\ call.phase = "returned" => Serves(call.decision, call.requested)

LEMMA DecidedSoundly ==
  ASSUME NEW m \in Memory, NEW s \in Status, NEW requested \in SafeDuty \cup {None}
  PROVE  /\ KeepsTable(Decision(m, s, requested))
         /\ requested # None => Decision(m, s, requested).effective \in SafeDuty
<1> DEFINE candidate == Candidate(m.override, requested)
           state == SafetyState(m.previous_hot, s)
<1>1. candidate \in SafeDuty \cup {None} /\ (requested # None => candidate = requested)
  BY DEF Candidate, Memory, Override
<1>2. state \in {"hot", "sensor-failure", "cooling", "normal"}
  BY DEF SafetyState
<1>3. s.duty \in (0..FullDuty) \cup {None}
  BY DEF Status
<1>4. /\ Decision(m, s, requested).state = state
      /\ Decision(m, s, requested).effective = EffectiveDuty(state, s, candidate)
  BY DEF Decision
<1> HIDE DEF candidate, state
<1>5. /\ state = "hot" => EffectiveDuty(state, s, candidate) = FullDuty
      /\ state = "cooling" => EffectiveDuty(state, s, candidate) >= CoolingDuty
      /\ candidate # None => EffectiveDuty(state, s, candidate) \in SafeDuty
  BY <1>1, <1>2, <1>3, ReadingsDiffer
     DEF EffectiveDuty, AtLeast, SafeDuty, QuietDuty, CoolingDuty, FullDuty
<1>6. requested # None => candidate # None
  BY <1>1
<1>7. QED
  BY <1>4, <1>5, <1>6 DEF KeepsTable

LEMMA DecisionSoundInductive ==
  PolicyTypeOK /\ DecisionSound /\ (BeginsCall \/ UnderWay \/ UNCHANGED policyVars)
    => DecisionSound'
<1> SUFFICES ASSUME PolicyTypeOK, DecisionSound,
                    BeginsCall \/ UnderWay \/ UNCHANGED policyVars
             PROVE  DecisionSound'
  OBVIOUS
<1>0. CASE call'.phase \notin {"grant", "returned"}
  BY <1>0 DEF DecisionSound
<1>1. ASSUME NEW s, NEW requested, NEW ttl, Begin(s, requested, ttl)
      PROVE  call'.phase \notin {"grant", "returned"}
  BY <1>1, CallAfterBegin
<1>2. CASE Expire
  BY <1>0, <1>2, CallAfterExpire
<1>3. CASE Judge
  <2> DEFINE decision == Decision(mem, call.status, call.requested)
  <2>1. /\ \/ call'.phase = AfterJudging(decision) /\ call'.decision = decision
           \/ call'.phase = "failed"
        /\ call'.requested = call.requested
    BY <1>3, CallAfterJudge
  <2>2. /\ AfterJudging(decision) = "grant" => call.requested # None
        /\ AfterJudging(decision) = "returned" => call.requested = None
    BY DEF AfterJudging
  <2>3. call.requested \in SafeDuty \cup {None}
    BY <1>3 DEF Judge, PolicyTypeOK, ValidRequest
  <2>4. mem \in Memory /\ call.status \in Status
    BY DEF PolicyTypeOK, CallType
  <2>5. KeepsTable(decision) /\ (call.requested # None => decision.effective \in SafeDuty)
    BY <2>3, <2>4, DecidedSoundly
  <2> HIDE DEF decision
  <2>6. QED
    BY <1>0, <2>1, <2>2, <2>5 DEF DecisionSound, Serves
<1>4. CASE Grant
  <2> DEFINE expires == call.at + call.ttl
  <2>1. call \in CallType /\ call.decision \in DecisionType /\ mem \in Memory
    BY DEF PolicyTypeOK, CallType
  <2>2. mem'.override.duty = call.requested
    BY <1>4, <2>1 DEF Grant, Memory
  <2>3. call' = [call EXCEPT !.phase = "returned", !.decision.expires = expires]
        \/ call'.phase = "failed"
    BY <1>4, <2>1 DEF Grant, SaveThen, CallType
  <2> HIDE DEF expires
  <2>4. CASE call' = [call EXCEPT !.phase = "returned", !.decision.expires = expires]
    <3>1. /\ call'.decision = [call.decision EXCEPT !.expires = expires]
          /\ call'.phase = "returned" /\ call'.requested = call.requested
      BY <2>1, <2>4 DEF CallType
    <3>2. call'.decision.state = call.decision.state
          /\ call'.decision.effective = call.decision.effective
      BY <2>1, <3>1 DEF DecisionType
    <3>3. KeepsTable(call.decision) /\ call.decision.effective \in SafeDuty
      BY <1>4 DEF Grant, DecisionSound
    <3>4. QED
      BY <2>2, <3>1, <3>2, <3>3 DEF DecisionSound, KeepsTable, Serves
  <2>5. QED
    BY <1>0, <2>3, <2>4
<1>5. CASE Finish \/ Restart
  BY <1>0, <1>5 DEF Finish, Restart, IdleCall
<1>6. CASE UNCHANGED <<mem, call>>
  BY <1>6 DEF DecisionSound, KeepsTable, Serves
<1>7. QED
  BY <1>0, <1>1, <1>2, <1>3, <1>4, <1>5, <1>6
     DEF BeginsCall, UnderWay, CallStep, Environment, AdvanceClock, StepClockBack,
         DamageFile, policyVars

(* A thread's locals change only by steps of its own.                      *)
LEMMA OwnStep ==
  ASSUME AgentInv, [AgentNext]_vars, NEW t \in Threads
  PROVE  \/ pc'[t] = pc[t] /\ job'[t] = job[t]
         \/ \E work : Start(t, work)
         \/ Acquire(t) \/ Work(t) \/ Crash
<1>0. PcTyped /\ JobTyped
  BY DEF AgentInv, AgentTypeOK, PcTyped, JobTyped
<1>1. ASSUME NEW u \in Threads, u # t, NEW step, Goto(u, step),
             \A v \in Threads : v # u => job'[v] = job[v]
      PROVE  pc'[t] = pc[t] /\ job'[t] = job[t]
  BY <1>0, <1>1 DEF PcTyped, Goto
<1>2. ASSUME NEW u \in Threads, NEW work, Start(u, work)
      PROVE  \E step : Goto(u, step) /\ \A v \in Threads : v # u => job'[v] = job[v]
  BY <1>0, <1>2 DEF Start, JobTyped
<1>3. ASSUME NEW u \in Threads, Acquire(u) \/ Work(u)
      PROVE  \E step : Goto(u, step) /\ \A v \in Threads : v # u => job'[v] = job[v]
  BY <1>0, <1>3 DEF JobTyped, Acquire, Work, ReadMode, ReadDuty, ReadSensors, ReadFails,
         AskPolicy, TakeDecision, PolicyRaises, Raise, SetManual, SetDuty, WriteFails,
         ReadBackMode, ReadBackDuty, ReadBackFails, Publish, PublishError
<1>4. \/ \E u \in Threads : \E work : Start(u, work)
      \/ \E u \in Threads : Acquire(u) \/ Work(u)
      \/ Crash \/ UNCHANGED <<pc, job>>
  BY DEF AgentNext, Wake, ReceiveControl, ReceiveStatus, PolicyStep, World, Meddle,
         ChangeTemps, vars, agentVars, serviceVars, Threads
<1>5. QED
  BY <1>1, <1>2, <1>3, <1>4

(* The ways to the answer; the request stays what it was.                  *)
LEMMA RequestKept ==
  ASSUME AgentInv, PolicyTypeOK, [AgentNext]_vars, NEW t \in Threads,
         pc'[t] \in WriteSteps
  PROVE  /\ job'[t].duty = job[t].duty /\ job'[t].ttl = job[t].ttl
         /\ pc'[t] = "publish" =>
              \/ pc[t] = "publish" /\ job'[t] = job[t]
              \/ TakeDecision(t)
              \/ /\ ReadBackDuty(t) /\ ~Mismatch(job[t], bmc.duty)
                 /\ job' = [job EXCEPT ![t].readback.duty = bmc.duty]
<1>0. PcTyped /\ JobTyped /\ AgentTypeOK
  BY DEF AgentInv, AgentTypeOK, PcTyped, JobTyped
<1>1. CASE pc'[t] = pc[t] /\ job'[t] = job[t]
  BY <1>1
<1>2. ASSUME NEW work, Start(t, work) PROVE FALSE
  BY <1>0, <1>2 DEF Start, PcTyped, Goto, WriteSteps
<1>3. ASSUME Acquire(t) \/ ReadMode(t) \/ ReadDuty(t) \/ ReadSensors(t) \/ ReadFails(t)
               \/ AskPolicy(t) \/ PolicyRaises(t) \/ WriteFails(t) \/ ReadBackFails(t)
               \/ Publish(t) \/ PublishError(t) \/ Raise(t) \/ Crash
      PROVE  FALSE
  BY <1>0, <1>3 DEF PcTyped, Acquire, ReadMode, ReadDuty, ReadSensors, ReadFails,
         AskPolicy, PolicyRaises, Raise, WriteFails, ReadBackFails, Publish,
         PublishError, Goto, WriteSteps, Crash
<1>4. CASE SetManual(t) \/ SetDuty(t)
  BY <1>0, <1>4 DEF SetManual, SetDuty, PcTyped, Goto
<1>5. CASE ReadBackMode(t)
  <2>1. pc'[t] # "publish"
    BY <1>0, <1>5 DEF ReadBackMode, PcTyped, Goto
  <2>2. QED
    BY <1>0, <1>5, <2>1, ReadingStepsKeep DEF KeepsRequests
<1>6. CASE ReadBackDuty(t)
  <2>1. ~Mismatch(job[t], bmc.duty) /\ job' = [job EXCEPT ![t].readback.duty = bmc.duty]
    BY <1>3, <1>6 DEF ReadBackDuty
  <2>2. QED
    BY <1>0, <1>6, <2>1, ReadBackDutyKeeps DEF KeepsRequests
<1>7. CASE TakeDecision(t)
  BY <1>0, <1>7, TakeDecisionKeeps DEF KeepsRequests
<1>8. QED
  BY <1>1, <1>2, <1>3, <1>4, <1>5, <1>6, <1>7, OwnStep DEF Work

(* What makes AnswerIsTrue inductive.                                      *)
WorkSound(t) ==
    /\ pc[t] \in WriteSteps => /\ KeepsTable(job[t].decision)
                              /\ Serves(job[t].decision, job[t].duty)
    /\ pc[t] = "publish" =>
         /\ job[t].readback.mode = "manual"
         /\ job[t].readback.duty \in {job[t].decision.effective,
                                      Clamp(job[t].decision.effective)}

SnapshotSound ==
    snapshot # None =>
        /\ snapshot.duty \in {snapshot.effective, Clamp(snapshot.effective)}
        /\ snapshot.effective \in 0..FullDuty
        /\ KeepsTable(snapshot)

AnswersSound == (\A t \in Threads : WorkSound(t)) /\ SnapshotSound

LEMMA WorkSoundInductive ==
  ASSUME PolicyTypeOK, AgentInv, DecisionSound, AnswersSound, [AgentNext]_vars,
         NEW t \in Threads
  PROVE  WorkSound(t)'
<1>0. JobTyped /\ PcTyped /\ job[t] \in Job
  BY DEF AgentInv, AgentTypeOK, JobTyped, PcTyped
<1>1. ASSUME pc'[t] \in WriteSteps
      PROVE  KeepsTable(job'[t].decision) /\ Serves(job[t].decision, job[t].duty)'
  <2>1. job'[t].duty = job[t].duty
    BY <1>1, RequestKept
  <2>2. CASE pc[t] \in WriteSteps /\ job'[t].decision = job[t].decision
    <3>1. UNCHANGED mem
      BY <1>1, <2>2, NobodyElseRemembers
    <3>2. QED
      BY <2>1, <2>2, <3>1 DEF AnswersSound, WorkSound, Serves
  <2>3. CASE TakeDecision(t) /\ job'[t].decision = call.decision
    <3>1. pc[t] = "inPolicy" /\ call.phase = "returned" /\ UNCHANGED mem
      BY <2>3 DEF TakeDecision, Finish
    <3>2. call.requested = job[t].duty
      BY <3>1 DEF AgentInv, CallDiscipline
    <3>3. KeepsTable(call.decision) /\ Serves(call.decision, job[t].duty)
      BY <3>1, <3>2 DEF DecisionSound
    <3>4. QED
      BY <2>1, <2>3, <3>1, <3>3 DEF Serves
  <2>4. QED
    BY <1>1, <2>2, <2>3, DecisionKept
<1>2. ASSUME pc'[t] = "publish"
      PROVE  /\ job'[t].readback.mode = "manual"
             /\ job'[t].readback.duty \in {job'[t].decision.effective,
                                           Clamp(job'[t].decision.effective)}
  <2>1. pc'[t] \in WriteSteps
    BY <1>2 DEF WriteSteps
  <2>2. CASE pc[t] = "publish" /\ job'[t] = job[t]
    BY <2>2 DEF AnswersSound, WorkSound
  <2>3. CASE TakeDecision(t)
    <3>1. ~NeedsWrite(job[t], call.decision)
      BY <1>0, <1>2, <2>3 DEF TakeDecision, Goto, PcTyped
    <3>2. job' = [job EXCEPT ![t] = [job[t] EXCEPT !.decision = call.decision,
                                                   !.readback = job[t].before]]
      BY <1>0, <2>3, <3>1 DEF TakeDecision, JobTyped, Job
    <3>3. job'[t].decision = call.decision /\ job'[t].readback = job[t].before
      BY <1>0, <3>2 DEF JobTyped, Job
    <3>4. QED
      BY <3>1, <3>3 DEF NeedsWrite
  <2>4. CASE /\ ReadBackDuty(t) /\ ~Mismatch(job[t], bmc.duty)
             /\ job' = [job EXCEPT ![t].readback.duty = bmc.duty]
    <3>1. job[t].readback \in BackendReading
      BY <1>0 DEF Job
    <3>2. job' = [job EXCEPT ![t] = [job[t] EXCEPT !.readback =
                                       [job[t].readback EXCEPT !.duty = bmc.duty]]]
      BY <1>0, <2>4 DEF JobTyped, Job
    <3>3. job'[t] = [job[t] EXCEPT !.readback = [job[t].readback EXCEPT !.duty = bmc.duty]]
      BY <1>0, <3>2 DEF JobTyped
    <3>4. /\ job'[t].decision = job[t].decision
          /\ job'[t].readback = [job[t].readback EXCEPT !.duty = bmc.duty]
      BY <1>0, <3>3 DEF Job
    <3>5. job'[t].readback.mode = job[t].readback.mode /\ job'[t].readback.duty = bmc.duty
      BY <3>1, <3>4 DEF BackendReading
    <3>6. QED
      BY <2>4, <3>4, <3>5 DEF Mismatch
  <2>5. QED
    BY <1>2, <2>1, <2>2, <2>3, <2>4, RequestKept
<1>3. QED
  BY <1>1, <1>2 DEF WorkSound

LEMMA SnapshotSoundInductive ==
  ASSUME AgentInv, AnswersSound, [AgentNext]_vars
  PROVE  SnapshotSound'
<1>1. ASSUME NEW t \in Threads, Publish(t) PROVE SnapshotSound'
  <2>1. /\ pc[t] = "publish"
        /\ snapshot' = [state |-> job[t].decision.state,
                        effective |-> job[t].decision.effective,
                        locked |-> job[t].decision.locked,
                        duty |-> job[t].readback.duty]
    BY <1>1 DEF Publish
  <2>2. job[t].decision \in DecisionType
    BY DEF AgentInv, AgentTypeOK, Job
  <2>3. KeepsTable(job[t].decision)
        /\ job[t].readback.duty \in {job[t].decision.effective,
                                     Clamp(job[t].decision.effective)}
    BY <2>1 DEF AnswersSound, WorkSound, WriteSteps
  <2>4. QED
    BY <2>1, <2>2, <2>3 DEF SnapshotSound, KeepsTable, DecisionType
<1>2. CASE Crash
  BY <1>2 DEF Crash, SnapshotSound
<1>3. CASE UNCHANGED snapshot
  BY <1>3 DEF AnswersSound, SnapshotSound, KeepsTable
<1>4. QED
  BY <1>1, <1>2, <1>3
     DEF AgentNext, Wake, ReceiveControl, ReceiveStatus, Start, Acquire, Work, ReadMode,
         ReadDuty, ReadSensors, ReadFails, AskPolicy, TakeDecision, PolicyRaises, Raise,
         SetManual, SetDuty, WriteFails, ReadBackMode, ReadBackDuty, ReadBackFails,
         PublishError, PolicyStep, World, Meddle, ChangeTemps, vars, agentVars,
         serviceVars

LEMMA AnswersHold == AgentSpec => []AnswersSound
<1>1. AgentInit => DecisionSound /\ AnswersSound
  <2> SUFFICES ASSUME AgentInit PROVE DecisionSound /\ AnswersSound
    OBVIOUS
  <2>1. call.phase = "idle" /\ snapshot = None /\ \A t \in Threads : pc[t] = "idle"
    BY DEF AgentInit, PolicyInit, IdleCall
  <2>2. QED
    BY <2>1 DEF DecisionSound, AnswersSound, WorkSound, SnapshotSound, WriteSteps
<1>2. PolicyTypeOK /\ AgentInv /\ DecisionSound /\ AnswersSound /\ [AgentNext]_vars
        => DecisionSound' /\ AnswersSound'
  <2> SUFFICES ASSUME PolicyTypeOK, AgentInv, DecisionSound, AnswersSound,
                      [AgentNext]_vars
               PROVE  DecisionSound' /\ AnswersSound'
    OBVIOUS
  <2>1. DecisionSound'
    BY AgentUsesPolicy, DecisionSoundInductive DEF AgentInv
  <2>2. SnapshotSound' /\ \A t \in Threads : WorkSound(t)'
    BY SnapshotSoundInductive, WorkSoundInductive
  <2>3. QED
    BY <2>1, <2>2 DEF AnswersSound
<1>3. QED
  BY <1>1, <1>2, AgentKeepsDiscipline, PTL DEF AgentSpec

(* An override is answered after a save of the whole memory that succeeded; *)
(* so an earlier save that failed, of the latch or of an expiry, has been   *)
(* made good, and the file stays so while its thread writes.                *)
GrantSaved ==
    call.phase = "returned" /\ call.requested # None => Load(file) = mem

WorkSaved(t) ==
    pc[t] \in WriteSteps /\ job[t].duty # None => Load(file) = mem

LEMMA GrantSavedInductive ==
  ASSUME Faults \cap {"delete", "corrupt", "malform"} = {}
  PROVE  PolicyTypeOK /\ GrantSaved /\ (BeginsCall \/ UnderWay \/ UNCHANGED policyVars)
           => GrantSaved'
<1> SUFFICES ASSUME PolicyTypeOK, GrantSaved,
                    BeginsCall \/ UnderWay \/ UNCHANGED policyVars
             PROVE  GrantSaved'
  OBVIOUS
<1>0. CASE call'.phase # "returned" \/ call'.requested = None
  BY <1>0 DEF GrantSaved
<1>1. ASSUME NEW s, NEW requested, NEW ttl, Begin(s, requested, ttl)
      PROVE  call'.phase # "returned"
  BY <1>1, CallAfterBegin
<1>2. CASE Expire
  BY <1>0, <1>2, CallAfterExpire
<1>3. CASE Judge
  <2> DEFINE decision == Decision(mem, call.status, call.requested)
  <2>1. /\ call'.phase = AfterJudging(decision) \/ call'.phase = "failed"
        /\ call'.requested = call.requested
    BY <1>3, CallAfterJudge
  <2>2. AfterJudging(decision) = "returned" => call.requested = None
    BY DEF AfterJudging
  <2> HIDE DEF decision
  <2>3. QED
    BY <1>0, <2>1, <2>2
<1>4. CASE Grant
  <2>1. mem \in Memory /\ call \in CallType /\ ValidRequest(call.requested, call.ttl)
    BY <1>4, ReadingsDiffer DEF PolicyTypeOK, Grant
  <2>2. mem' \in Memory
    BY <1>4, UnderWayKeepsTypes DEF PolicyTypeOK, UnderWay, CallStep
  <2>3. file' = mem' \/ call'.phase = "failed"
    BY <1>4, <2>1 DEF Grant, SaveThen, CallType
  <2>4. QED
    BY <1>0, <2>2, <2>3, LoadSaved DEF GrantSaved
<1>5. CASE Finish \/ Restart
  BY <1>0, <1>5 DEF Finish, Restart, IdleCall
<1>6. CASE DamageFile
  BY <1>6 DEF DamageFile
<1>7. CASE UNCHANGED <<mem, file, call>>
  BY <1>7 DEF GrantSaved
<1>8. QED
  BY <1>0, <1>1, <1>2, <1>3, <1>4, <1>5, <1>6, <1>7
     DEF BeginsCall, UnderWay, CallStep, Environment, AdvanceClock, StepClockBack,
         policyVars

LEMMA WorkSavedInductive ==
  ASSUME Faults \cap {"delete", "corrupt", "malform"} = {},
         PolicyTypeOK, AgentInv, GrantSaved, [AgentNext]_vars, NEW t \in Threads,
         WorkSaved(t)
  PROVE  WorkSaved(t)'
<1> SUFFICES ASSUME pc'[t] \in WriteSteps, job'[t].duty # None
             PROVE  (Load(file) = mem)'
  BY DEF WorkSaved
<1>1. job[t].duty # None
  BY RequestKept
<1>2. CASE pc[t] \in WriteSteps
  <2>1. UNCHANGED mem /\ (UNCHANGED file \/ DamageFile)
    BY <1>2, NobodyElseRemembers
  <2>2. ~DamageFile
    BY DEF DamageFile
  <2>3. QED
    BY <1>1, <1>2, <2>1, <2>2 DEF WorkSaved
<1>3. CASE TakeDecision(t)
  <2>1. pc[t] = "inPolicy" /\ call.phase = "returned" /\ UNCHANGED <<mem, file>>
    BY <1>3 DEF TakeDecision, Finish
  <2>2. call.requested = job[t].duty
    BY <2>1 DEF AgentInv, CallDiscipline
  <2>3. QED
    BY <1>1, <2>1, <2>2 DEF GrantSaved
<1>4. QED
  BY <1>2, <1>3, DecisionKept

LEMMA AnswersAreSaved ==
  ASSUME Faults \cap {"delete", "corrupt", "malform"} = {}
  PROVE  AgentSpec => [](\A t \in Threads : WorkSaved(t))
<1> DEFINE Saved == GrantSaved /\ \A t \in Threads : WorkSaved(t)
<1>1. AgentInit => Saved
  <2> SUFFICES ASSUME AgentInit PROVE Saved
    OBVIOUS
  <2>1. call.phase = "idle" /\ \A t \in Threads : pc[t] = "idle"
    BY DEF AgentInit, PolicyInit, IdleCall
  <2>2. QED
    BY <2>1 DEF GrantSaved, WorkSaved, WriteSteps
<1>2. PolicyTypeOK /\ AgentInv /\ Saved /\ [AgentNext]_vars => Saved'
  <2> SUFFICES ASSUME PolicyTypeOK, AgentInv, Saved, [AgentNext]_vars PROVE Saved'
    OBVIOUS
  <2>1. GrantSaved'
    BY AgentUsesPolicy, GrantSavedInductive DEF AgentInv
  <2>2. \A t \in Threads : WorkSaved(t)'
    BY WorkSavedInductive
  <2>3. QED
    BY <2>1, <2>2
<1>3. Saved => \A t \in Threads : WorkSaved(t)
  OBVIOUS
<1> HIDE DEF Saved
<1>4. QED
  BY <1>1, <1>2, <1>3, AgentKeepsDiscipline, PTL DEF AgentSpec

(* An answer is true for any number of threads, BMC failures, restarts and *)
(* commands of the watchdog, and also after saves that failed: the duty    *)
(* reported was decided and read back in manual mode, and a request's      *)
(* override is kept in memory and file.  Only somebody else's hand on the  *)
(* file is excluded.                                                       *)
THEOREM AnswersAreTrue ==
  ASSUME Faults \cap {"delete", "corrupt", "malform"} = {}
  PROVE  AgentSpec => []AnswerIsTrue
<1>1. AgentInv /\ AnswersSound /\ (\A t \in Threads : WorkSaved(t)) => AnswerIsTrue
  <2> SUFFICES ASSUME AgentInv, AnswersSound, \A u \in Threads : WorkSaved(u),
                      NEW t \in Threads, pc[t] = "publish"
               PROVE  /\ job[t].readback.mode = "manual"
                      /\ job[t].readback.duty \in {job[t].decision.effective,
                                                   Clamp(job[t].decision.effective)}
                      /\ job[t].kind = "control" =>
                           /\ job[t].readback.duty = job[t].decision.effective
                           /\ mem.override.duty = job[t].duty
                           /\ Load(file) = mem
    BY DEF AnswerIsTrue
  <2>1. WorkSound(t) /\ WorkSaved(t) /\ pc[t] \in WriteSteps
    BY DEF AnswersSound, WriteSteps
  <2>2. ASSUME job[t].kind = "control"
        PROVE  /\ job[t].decision.effective \in SafeDuty
               /\ mem.override.duty = job[t].duty
               /\ Load(file) = mem
    <3>1. job[t].duty \in Int
      BY <2>2, PolicyConstants DEF AgentInv, JobDiscipline
    <3>2. job[t].duty # None
      BY <3>1, ReadingsDiffer
    <3>3. QED
      BY <2>1, <3>2 DEF WorkSound, Serves, WorkSaved
  <2>3. \A duty \in SafeDuty : Clamp(duty) = duty
    BY SafeDutyUnclamped
  <2>4. QED
    BY <2>1, <2>2, <2>3 DEF WorkSound
<1>2. QED
  BY <1>1, AnswersAreSaved, AnswersHold, AgentKeepsDiscipline, PTL

(* What /status shows as good keeps the README's table, whatever happened  *)
(* between the reading, the decision and the read-back it is made of.      *)
THEOREM SnapshotsKeepTable == AgentSpec => []SnapshotKeepsTable
<1>1. SnapshotSound => SnapshotKeepsTable
  <2> SUFFICES ASSUME SnapshotSound, snapshot # None
               PROVE  /\ snapshot.state = "hot" => snapshot.duty = FullDuty
                      /\ snapshot.state = "cooling" =>
                           snapshot.duty \in CoolingDuty..FullDuty
                      /\ snapshot.duty # None
    BY DEF SnapshotKeepsTable
  <2>1. \A n \in CoolingDuty..FullDuty : Clamp(n) = n
    BY DEF Clamp, CoolingDuty, FullDuty, MinDuty, MaxDuty
  <2>2. \A n \in 0..FullDuty : Clamp(n) \in Int
    BY DEF Clamp, FullDuty, MinDuty, MaxDuty
  <2>3. QED
    BY <2>1, <2>2, ReadingsDiffer DEF SnapshotSound, KeepsTable, CoolingDuty, FullDuty
<1>2. AnswersSound => SnapshotSound
  BY DEF AnswersSound
<1>3. QED
  BY <1>1, <1>2, AnswersHold, PTL

-----------------------------------------------------------------------------
(* Sensor failures.                                                        *)

(* A decision on a sensor failure does not lower the duty it was shown.    *)
KeepsFloor(decision, floor) ==
    decision.state = "sensor-failure" =>
        decision.effective >= (IF floor = None THEN FullDuty ELSE floor)

CallKeepsFloor ==
    call.phase \in {"grant", "returned"} => KeepsFloor(call.decision, call.status.duty)

LEMMA DecidedAboveFloor ==
  ASSUME NEW m \in Memory, NEW s \in Status, NEW requested \in SafeDuty \cup {None}
  PROVE  KeepsFloor(Decision(m, s, requested), s.duty)
<1> DEFINE candidate == Candidate(m.override, requested)
           state == SafetyState(m.previous_hot, s)
<1>1. candidate \in SafeDuty \cup {None}
  BY DEF Candidate, Memory, Override
<1>2. s.duty \in (0..FullDuty) \cup {None}
  BY DEF Status
<1>3. /\ Decision(m, s, requested).state = state
      /\ Decision(m, s, requested).effective = EffectiveDuty(state, s, candidate)
  BY DEF Decision
<1> HIDE DEF candidate, state
<1>4. state = "sensor-failure" =>
        EffectiveDuty(state, s, candidate) >= (IF s.duty = None THEN FullDuty ELSE s.duty)
  BY <1>1, <1>2, ReadingsDiffer DEF EffectiveDuty, AtLeast, SafeDuty, QuietDuty, FullDuty
<1>5. QED
  BY <1>3, <1>4 DEF KeepsFloor

LEMMA CallFloorInductive ==
  PolicyTypeOK /\ CallKeepsFloor /\ (BeginsCall \/ UnderWay \/ UNCHANGED policyVars)
    => CallKeepsFloor'
<1> SUFFICES ASSUME PolicyTypeOK, CallKeepsFloor,
                    BeginsCall \/ UnderWay \/ UNCHANGED policyVars
             PROVE  CallKeepsFloor'
  OBVIOUS
<1>0. CASE call'.phase \notin {"grant", "returned"}
  BY <1>0 DEF CallKeepsFloor
<1>1. ASSUME NEW s, NEW requested, NEW ttl, Begin(s, requested, ttl)
      PROVE  call'.phase \notin {"grant", "returned"}
  BY <1>1, CallAfterBegin
<1>2. CASE Expire
  BY <1>0, <1>2, CallAfterExpire
<1>3. CASE Judge
  <2> DEFINE decision == Decision(mem, call.status, call.requested)
  <2>1. /\ call'.phase = "failed" \/ call'.decision = decision
        /\ call'.status = call.status
    BY <1>3, CallAfterJudge
  <2>2. call.requested \in SafeDuty \cup {None}
    BY <1>3 DEF Judge, PolicyTypeOK, ValidRequest
  <2>3. mem \in Memory /\ call.status \in Status
    BY DEF PolicyTypeOK, CallType
  <2>4. KeepsFloor(decision, call.status.duty)
    BY <2>2, <2>3, DecidedAboveFloor
  <2> HIDE DEF decision
  <2>5. QED
    BY <1>0, <2>1, <2>4 DEF CallKeepsFloor
<1>4. CASE Grant
  <2> DEFINE expires == call.at + call.ttl
  <2>1. call \in CallType /\ call.decision \in DecisionType
    BY DEF PolicyTypeOK, CallType
  <2>2. call' = [call EXCEPT !.phase = "returned", !.decision.expires = expires]
        \/ call'.phase = "failed"
    BY <1>4, <2>1 DEF Grant, SaveThen, CallType
  <2> HIDE DEF expires
  <2>3. CASE call' = [call EXCEPT !.phase = "returned", !.decision.expires = expires]
    <3>1. /\ call'.decision = [call.decision EXCEPT !.expires = expires]
          /\ call'.status = call.status
      BY <2>1, <2>3 DEF CallType
    <3>2. call'.decision.state = call.decision.state
          /\ call'.decision.effective = call.decision.effective
      BY <2>1, <3>1 DEF DecisionType
    <3>3. KeepsFloor(call.decision, call.status.duty)
      BY <1>4 DEF Grant, CallKeepsFloor
    <3>4. QED
      BY <3>1, <3>2, <3>3 DEF CallKeepsFloor, KeepsFloor
  <2>4. QED
    BY <1>0, <2>2, <2>3
<1>5. CASE Finish \/ Restart
  BY <1>0, <1>5 DEF Finish, Restart, IdleCall
<1>6. CASE UNCHANGED <<mem, call>>
  BY <1>6 DEF CallKeepsFloor, KeepsFloor
<1>7. QED
  BY <1>0, <1>1, <1>2, <1>3, <1>4, <1>5, <1>6
     DEF BeginsCall, UnderWay, CallStep, Environment, AdvanceClock, StepClockBack,
         DamageFile, policyVars

(* From its reading of the duty to its writing, a thread carries that      *)
(* reading, and it is still the BMC's duty while the watchdog is silent.   *)
Undisturbed == budget.meddling = MaxMeddling

CarriesDuty == {"readSensors", "askPolicy", "inPolicy", "setManual", "setDuty"}

FloorSound(t) ==
    /\ pc[t] \in {"setManual", "setDuty"} =>
         KeepsFloor(job[t].decision, job[t].before.duty)
    /\ Undisturbed /\ pc[t] \in CarriesDuty => job[t].before.duty \in {None, bmc.duty}

LEMMA BeforeKept ==
  ASSUME AgentInv, [AgentNext]_vars, NEW t \in Threads, pc'[t] \in CarriesDuty
  PROVE  \/ pc[t] \in CarriesDuty /\ job'[t].before.duty = job[t].before.duty
         \/ job'[t].before.duty \in {None, bmc.duty}
            /\ pc'[t] \in {"readSensors", "askPolicy"} /\ UNCHANGED bmc
<1>0. PcTyped /\ JobTyped /\ job[t] \in Job
  BY DEF AgentInv, AgentTypeOK, PcTyped, JobTyped
<1>1. CASE pc'[t] = pc[t] /\ job'[t] = job[t]
  BY <1>1
<1>2. ASSUME \/ \E work : Start(t, work)
             \/ Acquire(t) \/ ReadMode(t) \/ PolicyRaises(t)
             \/ SetDuty(t) \/ WriteFails(t) \/ ReadBackMode(t) \/ ReadBackDuty(t)
             \/ ReadBackFails(t) \/ Publish(t) \/ PublishError(t) \/ Crash
      PROVE  FALSE
  <2>1. ~Raise(t)
    BY <1>0 DEF Raise, Goto, PcTyped, CarriesDuty
  <2>2. ASSUME NEW work, Start(t, work) PROVE FALSE
    BY <1>0, <2>2 DEF Start, Goto, PcTyped, CarriesDuty
  <2>3. QED
    BY <1>0, <1>2, <2>1, <2>2 DEF PcTyped, Acquire, ReadMode, PolicyRaises, SetDuty,
       WriteFails, ReadBackMode, ReadBackDuty, ReadBackFails, Publish, PublishError, Goto,
       CarriesDuty, Crash
<1>3. CASE AskPolicy(t) \/ SetManual(t)
  BY <1>3 DEF AskPolicy, SetManual, CarriesDuty
<1>4. CASE ReadDuty(t)
  <2>1. job[t].before \in BackendReading
    BY <1>0 DEF Job
  <2>2. job' = [job EXCEPT ![t] = [job[t] EXCEPT !.before =
                                     [job[t].before EXCEPT !.duty = bmc.duty]]]
    BY <1>0, <1>4 DEF ReadDuty, JobTyped, Job
  <2>3. job'[t].before = [job[t].before EXCEPT !.duty = bmc.duty]
    BY <1>0, <2>2 DEF JobTyped, Job
  <2>4. job'[t].before.duty = bmc.duty
    BY <2>1, <2>3 DEF BackendReading
  <2>5. pc'[t] = "readSensors" /\ UNCHANGED bmc
    BY <1>0, <1>4 DEF ReadDuty, Goto, PcTyped
  <2>6. QED
    BY <2>4, <2>5
<1>5. CASE ReadFails(t)
  <2>1. job'[t].before = Unreadable
    BY <1>0, <1>5 DEF ReadFails, JobTyped, Job
  <2>2. pc'[t] = "askPolicy" /\ UNCHANGED bmc
    BY <1>0, <1>5 DEF ReadFails, Goto, PcTyped
  <2>3. QED
    BY <2>1, <2>2 DEF Unreadable
<1>6. CASE ReadSensors(t)
  <2>1. job[t].before \in BackendReading
    BY <1>0 DEF Job
  <2>2. PICK cpu, drive : job' = [job EXCEPT ![t] = [job[t] EXCEPT !.before =
                            [job[t].before EXCEPT !.cpu = cpu, !.drive = drive]]]
    <3>1. job = [job EXCEPT ![t] = [job[t] EXCEPT !.before =
                   [job[t].before EXCEPT !.cpu = job[t].before.cpu,
                                         !.drive = job[t].before.drive]]]
      BY <1>0, <2>1 DEF JobTyped, Job, BackendReading
    <3>2. CASE UNCHANGED job
      BY <3>1, <3>2
    <3>3. CASE job' = [job EXCEPT ![t].before.cpu = temps.cpu,
                                  ![t].before.drive = temps.drive]
      <4>1. job' = [job EXCEPT ![t] = [job[t] EXCEPT !.before =
                      [job[t].before EXCEPT !.cpu = temps.cpu, !.drive = temps.drive]]]
        BY <1>0, <2>1, <3>3 DEF JobTyped, Job, BackendReading
      <4>2. QED
        BY <4>1
    <3>4. CASE job' = [job EXCEPT ![t].before.drive = temps.drive]
      <4>1. job' = [job EXCEPT ![t] = [job[t] EXCEPT !.before =
                      [job[t].before EXCEPT !.cpu = job[t].before.cpu,
                                            !.drive = temps.drive]]]
        BY <1>0, <2>1, <3>4 DEF JobTyped, Job, BackendReading
      <4>2. QED
        BY <4>1
    <3>5. CASE job' = [job EXCEPT ![t].before.cpu = temps.cpu]
      <4>1. job' = [job EXCEPT ![t] = [job[t] EXCEPT !.before =
                      [job[t].before EXCEPT !.cpu = temps.cpu,
                                            !.drive = job[t].before.drive]]]
        BY <1>0, <2>1, <3>5 DEF JobTyped, Job, BackendReading
      <4>2. QED
        BY <4>1
    <3>6. QED
      BY <1>6, <3>2, <3>3, <3>4, <3>5 DEF ReadSensors
  <2>3. job'[t].before = [job[t].before EXCEPT !.cpu = cpu, !.drive = drive]
    BY <1>0, <2>2 DEF JobTyped, Job
  <2>4. job'[t].before.duty = job[t].before.duty
    BY <2>1, <2>3 DEF BackendReading
  <2>5. pc[t] = "readSensors"
    BY <1>6 DEF ReadSensors
  <2>6. QED
    BY <2>4, <2>5 DEF CarriesDuty
<1>7. CASE TakeDecision(t)
  <2>1. job'[t].before = job[t].before
    BY <1>0, <1>7 DEF TakeDecision, JobTyped, Job
  <2>2. pc[t] = "inPolicy"
    BY <1>7 DEF TakeDecision
  <2>3. QED
    BY <2>1, <2>2 DEF CarriesDuty
<1>8. QED
  BY <1>1, <1>2, <1>3, <1>4, <1>5, <1>6, <1>7, OwnStep DEF Work

(* Only the holder of the lock, and the watchdog, change the BMC's duty.   *)
LEMMA DutyChangedBy ==
  ASSUME AgentInv, [AgentNext]_vars, NEW t \in Threads, pc[t] \in WorkSteps,
         Undisturbed'
  PROVE  /\ Undisturbed
         /\ \/ bmc'.duty = bmc.duty
            \/ pc[t] = "setDuty" /\ bmc'.duty = Clamp(job[t].decision.effective)
               /\ pc'[t] # "setDuty"
<1>0. PcTyped /\ BudgetTyped /\ bmc \in Bmc
  BY DEF AgentInv, AgentTypeOK, PcTyped, BudgetTyped
<1>2. ~Meddle
  BY <1>0, AgentConstants DEF Meddle, Spend, Undisturbed, BudgetTyped
<1>3. Undisturbed
  BY <1>0, <1>2, BudgetSteps DEF Spend, Undisturbed, BudgetTyped
<1>4. \/ UNCHANGED bmc
      \/ bmc' = [bmc EXCEPT !.mode = "manual"]
      \/ \E u \in Threads : pc[u] = "setDuty" /\ (SetDuty(u) \/ WriteFails(u))
           /\ bmc' = [bmc EXCEPT !.duty = Clamp(job[u].decision.effective)]
  BY <1>2, BmcSteps DEF SetManual, SetDuty, WriteFails
<1>5. CASE UNCHANGED bmc \/ bmc' = [bmc EXCEPT !.mode = "manual"]
  BY <1>0, <1>3, <1>5 DEF Bmc
<1>6. ASSUME NEW u \in Threads, pc[u] = "setDuty", SetDuty(u) \/ WriteFails(u),
             bmc' = [bmc EXCEPT !.duty = Clamp(job[u].decision.effective)]
      PROVE  pc[t] = "setDuty" /\ bmc'.duty = Clamp(job[t].decision.effective)
             /\ pc'[t] # "setDuty"
  <2>1. u = t
    BY <1>6 DEF AgentInv, LockDiscipline, WorkSteps, WriteSteps
  <2>2. QED
    BY <1>0, <1>6, <2>1 DEF Bmc, PcTyped, SetDuty, WriteFails, Raise, Goto
<1>7. QED
  BY <1>3, <1>4, <1>5, <1>6

LEMMA FloorSoundInductive ==
  ASSUME PolicyTypeOK, AgentInv, CallKeepsFloor, [AgentNext]_vars, NEW t \in Threads,
         FloorSound(t)
  PROVE  FloorSound(t)'
<1>0. PcTyped /\ JobTyped /\ bmc \in Bmc
  BY DEF AgentInv, AgentTypeOK, PcTyped, JobTyped
<1>1. ASSUME pc'[t] \in {"setManual", "setDuty"}
      PROVE  KeepsFloor(job'[t].decision, job'[t].before.duty)
  <2>1. pc'[t] \in WriteSteps /\ pc'[t] \in CarriesDuty
    BY <1>1 DEF WriteSteps, CarriesDuty
  <2>2. pc[t] \in CarriesDuty /\ job'[t].before.duty = job[t].before.duty
    BY <1>1, <2>1, BeforeKept
  <2>3. CASE pc[t] \in WriteSteps /\ job'[t].decision = job[t].decision
    <3>1. pc[t] \in {"setManual", "setDuty"}
      BY <2>2, <2>3 DEF WriteSteps, CarriesDuty
    <3>2. QED
      BY <2>2, <2>3, <3>1 DEF FloorSound
  <2>4. CASE TakeDecision(t) /\ job'[t].decision = call.decision
    <3>1. pc[t] = "inPolicy" /\ call.phase = "returned"
      BY <2>4 DEF TakeDecision
    <3>2. call.status = StatusOf(job[t].before)
      BY <3>1 DEF AgentInv, CallDiscipline
    <3>3. call.status.duty = job[t].before.duty
      BY <3>2 DEF StatusOf
    <3>4. QED
      BY <2>2, <2>4, <3>1, <3>3 DEF CallKeepsFloor
  <2>5. QED
    BY <2>1, <2>3, <2>4, DecisionKept
<1>2. ASSUME Undisturbed', pc'[t] \in CarriesDuty
      PROVE  job'[t].before.duty \in {None, bmc'.duty}
  <2>1. CASE job'[t].before.duty \in {None, bmc.duty} /\ UNCHANGED bmc
    BY <2>1
  <2>2. CASE pc[t] \in CarriesDuty /\ job'[t].before.duty = job[t].before.duty
    <3>1. pc[t] \in WorkSteps
      BY <2>2 DEF CarriesDuty, WorkSteps, WriteSteps
    <3>2. CASE Undisturbed /\ bmc'.duty = bmc.duty
      BY <2>2, <3>2 DEF FloorSound
    <3>3. CASE pc[t] = "setDuty" /\ pc'[t] # "setDuty"
      <4>1. pc'[t] \in WriteSteps \/ pc'[t] = pc[t] \/ pc'[t] \notin CarriesDuty
        BY <1>0, <3>3, OwnStep
           DEF Start, Acquire, Work, ReadMode, ReadDuty, ReadSensors, ReadFails, AskPolicy,
               TakeDecision, PolicyRaises, SetManual, SetDuty, WriteFails, ReadBackMode,
               ReadBackDuty, ReadBackFails, Publish, PublishError, Crash, Goto, Raise,
               PcTyped, CarriesDuty, WriteSteps
      <4>2. pc'[t] # "setManual"
        BY <1>0, <3>3, OwnStep
           DEF Start, Acquire, Work, ReadMode, ReadDuty, ReadSensors, ReadFails, AskPolicy,
               TakeDecision, PolicyRaises, SetManual, SetDuty, WriteFails, ReadBackMode,
               ReadBackDuty, ReadBackFails, Publish, PublishError, Crash, Goto, Raise,
               PcTyped
      <4>3. QED
        BY <1>2, <3>3, <4>1, <4>2 DEF WriteSteps, CarriesDuty
    <3>4. QED
      BY <1>2, <3>1, <3>2, <3>3, DutyChangedBy
  <2>3. QED
    BY <1>2, <2>1, <2>2, BeforeKept
<1>3. QED
  BY <1>1, <1>2 DEF FloorSound

(* However many commands lie between the reading and the writing, and      *)
(* whatever fails or restarts: as long as the watchdog has not commanded   *)
(* the BMC, a write decided on a sensor failure raises the duty.           *)
THEOREM SensorFailureKeepsFloor == AgentSpec => SensorFailureNeverLowers
<1> DEFINE Floors == CallKeepsFloor /\ \A t \in Threads : FloorSound(t)
<1>1. AgentInit => Floors
  <2> SUFFICES ASSUME AgentInit PROVE Floors
    OBVIOUS
  <2>1. call.phase = "idle" /\ \A t \in Threads : pc[t] = "idle"
    BY DEF AgentInit, PolicyInit, IdleCall
  <2>2. QED
    BY <2>1 DEF CallKeepsFloor, FloorSound, CarriesDuty
<1>2. PolicyTypeOK /\ AgentInv /\ Floors /\ [AgentNext]_vars => Floors'
  <2> SUFFICES ASSUME PolicyTypeOK, AgentInv, Floors, [AgentNext]_vars PROVE Floors'
    OBVIOUS
  <2>1. CallKeepsFloor'
    BY AgentUsesPolicy, CallFloorInductive DEF AgentInv
  <2>2. \A t \in Threads : FloorSound(t)'
    BY FloorSoundInductive
  <2>3. QED
    BY <2>1, <2>2
<1>3. AgentInv /\ Floors /\ [AgentNext]_vars =>
        (budget'.meddling = MaxMeddling => \A t \in Threads :
           /\ pc[t] = "setDuty" /\ job[t].decision.state = "sensor-failure"
           /\ bmc'.duty # bmc.duty /\ bmc.duty # None
           => bmc'.duty > bmc.duty)
  <2> SUFFICES ASSUME AgentInv, Floors, [AgentNext]_vars, budget'.meddling = MaxMeddling,
                      NEW t \in Threads, pc[t] = "setDuty",
                      job[t].decision.state = "sensor-failure",
                      bmc'.duty # bmc.duty, bmc.duty # None
               PROVE  bmc'.duty > bmc.duty
    OBVIOUS
  <2>1. Undisturbed /\ bmc'.duty = Clamp(job[t].decision.effective)
    BY DutyChangedBy DEF Undisturbed, WorkSteps, WriteSteps
  <2>2. bmc.duty \in 0..FullDuty /\ job[t].decision.effective \in Int
    BY DEF AgentInv, AgentTypeOK, Bmc, Job, DecisionType
  <2>3. KeepsFloor(job[t].decision, job[t].before.duty)
        /\ job[t].before.duty \in {None, bmc.duty}
    BY <2>1 DEF FloorSound, CarriesDuty
  <2>4. job[t].decision.effective >= bmc.duty
    BY <2>2, <2>3 DEF KeepsFloor, FullDuty
  <2>5. QED
    BY <2>1, <2>2, <2>4 DEF Clamp, MinDuty, MaxDuty, FullDuty
<1> HIDE DEF Floors
<1>4. QED
  BY <1>1, <1>2, <1>3, AgentKeepsDiscipline, PTL DEF AgentSpec, SensorFailureNeverLowers

-----------------------------------------------------------------------------
(* What /status shows.                                                     *)

(* What the holder of the lock knows of the BMC at each step, as long as   *)
(* the watchdog is silent.                                                 *)
SeesBmc(t) ==
    LET work == job[t]
    IN  /\ pc[t] = "readDuty" => work.before.mode = bmc.mode
        /\ pc[t] \in {"readSensors", "askPolicy", "inPolicy"} =>
             \/ work.before.mode = "unknown"
             \/ work.before.mode = bmc.mode /\ work.before.duty = bmc.duty
        /\ pc[t] \in {"setDuty", "readBackMode", "readBackDuty", "publish"} =>
             bmc.mode = "manual"
        /\ pc[t] \in {"readBackMode", "readBackDuty"} =>
             bmc.duty = Clamp(work.decision.effective)
        /\ pc[t] = "readBackDuty" => work.readback.mode = bmc.mode
        /\ pc[t] = "publish" => work.readback.duty = bmc.duty

Quiet == \A t \in Threads : pc[t] \notin WriteSteps \ {"setManual"}

(* Between two answers the fans stay as the last one showed them.          *)
ShownStays ==
    budget.faults = MaxFaults /\ snapshot # None /\ Quiet =>
        bmc.mode = "manual" /\ bmc.duty = snapshot.duty

(* Undisturbed is a property of the past: it held before if it holds now.  *)
LEMMA UndisturbedBefore ==
  ASSUME AgentInv, [AgentNext]_vars, Undisturbed'
  PROVE  /\ Undisturbed /\ ~Meddle
         /\ budget'.faults = MaxFaults => budget.faults = MaxFaults /\ ~Spend("faults")
<1>0. BudgetTyped /\ MaxFaults \in Nat /\ MaxMeddling \in Nat
  BY AgentConstants DEF AgentInv, AgentTypeOK, BudgetTyped
<1>2. ~Meddle
  BY <1>0 DEF Meddle, Spend, Undisturbed, BudgetTyped
<1>3. QED
  BY <1>0, <1>2, BudgetSteps DEF Spend, Undisturbed, BudgetTyped

(* The BMC changes only by a writing step of the thread in the block.      *)
LEMMA BmcChangedBy ==
  ASSUME AgentInv, [AgentNext]_vars, NEW t \in Threads, pc[t] \in WorkSteps, ~Meddle,
         ~SetManual(t), ~SetDuty(t), ~WriteFails(t)
  PROVE  UNCHANGED bmc
<1>1. ASSUME NEW u \in Threads, SetManual(u) \/ SetDuty(u) \/ WriteFails(u), bmc' # bmc
      PROVE  u = t
  BY <1>1 DEF AgentInv, LockDiscipline, WorkSteps, WriteSteps, SetManual, SetDuty, WriteFails
<1>2. QED
  BY <1>1, BmcSteps

(* What the steps that read leave in the thread's locals.                  *)
LEMMA ReadingsTaken ==
  ASSUME AgentTypeOK, NEW t \in Threads
  PROVE  /\ ReadMode(t) => job'[t].before.mode = bmc.mode
         /\ ReadDuty(t) => /\ job'[t].before.duty = bmc.duty
                           /\ job'[t].before.mode = job[t].before.mode
         /\ ReadSensors(t) => /\ job'[t].before.duty = job[t].before.duty
                              /\ job'[t].before.mode = job[t].before.mode
         /\ ReadFails(t) => job'[t].before.mode = "unknown"
         /\ ReadBackMode(t) => /\ job'[t].readback.mode = bmc.mode
                               /\ job'[t].decision = job[t].decision
<1>0. /\ job \in [Threads -> Job] /\ job[t] \in Job
      /\ job[t].before \in BackendReading /\ job[t].readback \in BackendReading
  BY DEF AgentTypeOK, Job
<1>1. ASSUME NEW reading, job' = [job EXCEPT ![t] = [job[t] EXCEPT !.before = reading]]
      PROVE  job'[t].before = reading
  BY <1>0, <1>1 DEF Job
<1>2. ASSUME ReadMode(t) PROVE job'[t].before.mode = bmc.mode
  <2>1. job' = [job EXCEPT ![t] = [job[t] EXCEPT !.before =
                                     [job[t].before EXCEPT !.mode = bmc.mode]]]
    BY <1>0, <1>2 DEF ReadMode
  <2>2. job'[t].before = [job[t].before EXCEPT !.mode = bmc.mode]
    BY <1>1, <2>1
  <2>3. QED
    BY <1>0, <2>2 DEF BackendReading
<1>3. ASSUME ReadDuty(t)
      PROVE  job'[t].before.duty = bmc.duty /\ job'[t].before.mode = job[t].before.mode
  <2>1. job' = [job EXCEPT ![t] = [job[t] EXCEPT !.before =
                                     [job[t].before EXCEPT !.duty = bmc.duty]]]
    BY <1>0, <1>3 DEF ReadDuty
  <2>2. job'[t].before = [job[t].before EXCEPT !.duty = bmc.duty]
    BY <1>1, <2>1
  <2>3. QED
    BY <1>0, <2>2 DEF BackendReading
<1>4. ASSUME ReadSensors(t)
      PROVE  /\ job'[t].before.duty = job[t].before.duty
             /\ job'[t].before.mode = job[t].before.mode
  <2>1. \/ job' = [job EXCEPT ![t] = [job[t] EXCEPT !.before =
                     [job[t].before EXCEPT !.cpu = temps.cpu, !.drive = temps.drive]]]
        \/ job' = [job EXCEPT ![t] = [job[t] EXCEPT !.before =
                     [job[t].before EXCEPT !.drive = temps.drive]]]
        \/ job' = [job EXCEPT ![t] = [job[t] EXCEPT !.before =
                     [job[t].before EXCEPT !.cpu = temps.cpu]]]
        \/ UNCHANGED job
    BY <1>0, <1>4 DEF ReadSensors, Job
  <2>2. \/ job'[t].before = [job[t].before EXCEPT !.cpu = temps.cpu, !.drive = temps.drive]
        \/ job'[t].before = [job[t].before EXCEPT !.drive = temps.drive]
        \/ job'[t].before = [job[t].before EXCEPT !.cpu = temps.cpu]
        \/ UNCHANGED job
    BY <1>1, <2>1
  <2>3. QED
    BY <1>0, <2>2 DEF BackendReading
<1>5. ASSUME ReadFails(t) PROVE job'[t].before.mode = "unknown"
  BY <1>0, <1>5 DEF ReadFails, Job, Unreadable
<1>6. ASSUME ReadBackMode(t)
      PROVE  job'[t].readback.mode = bmc.mode /\ job'[t].decision = job[t].decision
  <2>1. job' = [job EXCEPT ![t] = [job[t] EXCEPT !.readback =
                                     [job[t].readback EXCEPT !.mode = bmc.mode]]]
    BY <1>0, <1>6 DEF ReadBackMode
  <2>2. /\ job'[t].readback = [job[t].readback EXCEPT !.mode = bmc.mode]
        /\ job'[t].decision = job[t].decision
    BY <1>0, <2>1 DEF Job
  <2>3. QED
    BY <1>0, <2>2 DEF BackendReading
<1>7. QED
  BY <1>2, <1>3, <1>4, <1>5, <1>6

LEMMA DecisionTaken ==
  ASSUME AgentTypeOK, NEW t \in Threads, TakeDecision(t)
  PROVE  \/ pc'[t] = "setManual"
         \/ /\ pc'[t] = "publish" /\ job[t].before.mode = "manual"
            /\ job'[t].readback = job[t].before
<1>0. job \in [Threads -> Job] /\ job[t] \in Job /\ PcTyped
  BY DEF AgentTypeOK, PcTyped
<1>1. CASE NeedsWrite(job[t], call.decision)
  BY <1>0, <1>1 DEF TakeDecision, Goto, PcTyped
<1>2. CASE ~NeedsWrite(job[t], call.decision)
  <2>1. pc'[t] = "publish" /\ job[t].before.mode = "manual"
    BY <1>0, <1>2 DEF TakeDecision, Goto, PcTyped, NeedsWrite
  <2>2. job' = [job EXCEPT ![t] = [job[t] EXCEPT !.decision = call.decision,
                                                 !.readback = job[t].before]]
    BY <1>0, <1>2 DEF TakeDecision, Job
  <2>3. job'[t].readback = job[t].before
    BY <1>0, <2>2 DEF Job
  <2>4. QED
    BY <2>1, <2>3
<1>3. QED
  BY <1>1, <1>2

LEMMA DutyReadBack ==
  ASSUME AgentTypeOK, NEW t \in Threads, ReadBackDuty(t), pc'[t] \in WorkSteps
  PROVE  /\ pc'[t] = "publish" /\ ~Mismatch(job[t], bmc.duty)
         /\ job'[t].readback.duty = bmc.duty
<1>0. /\ job \in [Threads -> Job] /\ job[t] \in Job /\ job[t].readback \in BackendReading
      /\ PcTyped
  BY DEF AgentTypeOK, PcTyped, Job
<1>1. ~Raise(t)
  BY <1>0 DEF Raise, Goto, PcTyped, WorkSteps, WriteSteps
<1>2. /\ pc'[t] = "publish" /\ ~Mismatch(job[t], bmc.duty)
      /\ job' = [job EXCEPT ![t].readback.duty = bmc.duty]
  BY <1>0, <1>1 DEF ReadBackDuty, Goto, PcTyped
<1>3. job' = [job EXCEPT ![t] = [job[t] EXCEPT !.readback =
                                   [job[t].readback EXCEPT !.duty = bmc.duty]]]
  BY <1>0, <1>2
<1>4. job'[t].readback = [job[t].readback EXCEPT !.duty = bmc.duty]
  BY <1>0, <1>3 DEF Job
<1>5. QED
  BY <1>0, <1>2, <1>4 DEF BackendReading

LEMMA SeesBmcInductive ==
  ASSUME AgentInv, [AgentNext]_vars, ~Meddle, NEW t \in Threads, SeesBmc(t)
  PROVE  SeesBmc(t)'
<1>0. AgentTypeOK /\ PcTyped /\ job \in [Threads -> Job] /\ bmc \in Bmc
  BY DEF AgentInv, AgentTypeOK, PcTyped
<1>1. CASE pc'[t] \notin WorkSteps \/ pc'[t] = "readMode"
  BY <1>1 DEF SeesBmc, WorkSteps, WriteSteps
<1>2. CASE pc'[t] = pc[t] /\ job'[t] = job[t] /\ pc[t] \in WorkSteps
  <2>1. ~SetManual(t) /\ ~SetDuty(t) /\ ~WriteFails(t)
    BY <1>0, <1>2 DEF SetManual, SetDuty, WriteFails, Raise, Goto, PcTyped
  <2>2. UNCHANGED bmc
    BY <1>2, <2>1, BmcChangedBy
  <2>3. QED
    BY <1>2, <2>2 DEF SeesBmc
<1>3. ASSUME \/ \E work : Start(t, work)
             \/ Acquire(t) \/ PolicyRaises(t) \/ WriteFails(t) \/ ReadBackFails(t)
             \/ Publish(t) \/ PublishError(t) \/ Crash
      PROVE  pc'[t] \notin WorkSteps \/ pc'[t] = "readMode"
  <2>1. Raise(t) => pc'[t] \notin WorkSteps
    BY <1>0 DEF Raise, Goto, PcTyped, WorkSteps, WriteSteps
  <2>2. ASSUME NEW work, Start(t, work) PROVE pc'[t] \notin WorkSteps
    BY <1>0, <2>2 DEF Start, Goto, PcTyped, WorkSteps, WriteSteps
  <2>3. QED
    BY <1>0, <1>3, <2>1, <2>2 DEF PcTyped, Acquire, PolicyRaises, WriteFails,
       ReadBackFails, Publish, PublishError, Goto, Crash, WorkSteps, WriteSteps
<1>4. CASE ReadMode(t) \/ ReadDuty(t) \/ ReadSensors(t) \/ ReadFails(t)
  <2>1. UNCHANGED bmc
    BY <1>4 DEF ReadMode, ReadDuty, ReadSensors, ReadFails
  <2>2. \/ ReadMode(t) /\ pc'[t] = "readDuty"
        \/ ReadDuty(t) /\ pc[t] = "readDuty" /\ pc'[t] = "readSensors"
        \/ ReadSensors(t) /\ pc[t] = "readSensors" /\ pc'[t] = "askPolicy"
        \/ ReadFails(t) /\ pc'[t] = "askPolicy"
    BY <1>0, <1>4 DEF ReadMode, ReadDuty, ReadSensors, ReadFails, Goto, PcTyped
  <2>3. QED
    BY <1>0, <2>1, <2>2, ReadingsTaken DEF SeesBmc
<1>5. CASE AskPolicy(t)
  <2>1. UNCHANGED <<bmc, job>> /\ pc[t] = "askPolicy" /\ pc'[t] = "inPolicy"
    BY <1>0, <1>5 DEF AskPolicy, Goto, PcTyped
  <2>2. QED
    BY <2>1 DEF SeesBmc
<1>6. CASE TakeDecision(t)
  <2>1. UNCHANGED bmc /\ pc[t] = "inPolicy"
    BY <1>6 DEF TakeDecision
  <2>2. QED
    BY <1>0, <1>6, <2>1, DecisionTaken DEF SeesBmc
<1>7. CASE SetManual(t)
  <2>1. bmc'.mode = "manual" /\ pc'[t] = "setDuty"
    BY <1>0, <1>7 DEF SetManual, Goto, PcTyped, Bmc
  <2>2. QED
    BY <2>1 DEF SeesBmc
<1>8. CASE SetDuty(t)
  <2>1. /\ bmc'.mode = bmc.mode /\ bmc'.duty = Clamp(job[t].decision.effective)
        /\ UNCHANGED job /\ pc[t] = "setDuty" /\ pc'[t] = "readBackMode"
    BY <1>0, <1>8 DEF SetDuty, Goto, PcTyped, Bmc
  <2>2. QED
    BY <2>1 DEF SeesBmc
<1>9. CASE ReadBackMode(t)
  <2>1. UNCHANGED bmc /\ pc[t] = "readBackMode" /\ pc'[t] = "readBackDuty"
    BY <1>0, <1>9 DEF ReadBackMode, Goto, PcTyped
  <2>2. QED
    BY <1>0, <1>9, <2>1, ReadingsTaken DEF SeesBmc
<1>10. CASE ReadBackDuty(t)
  <2>1. UNCHANGED bmc /\ pc[t] = "readBackDuty"
    BY <1>10 DEF ReadBackDuty
  <2>2. QED
    BY <1>0, <1>1, <1>10, <2>1, DutyReadBack DEF SeesBmc
<1>11. QED
  BY <1>1, <1>2, <1>3, <1>4, <1>5, <1>6, <1>7, <1>8, <1>9, <1>10, OwnStep DEF Work

LEMMA ShownStaysInductive ==
  ASSUME AgentInv, [AgentNext]_vars, Undisturbed', \A t \in Threads : SeesBmc(t), ShownStays
  PROVE  ShownStays'
<1> SUFFICES ASSUME budget'.faults = MaxFaults, snapshot' # None, Quiet'
             PROVE  bmc'.mode = "manual" /\ bmc'.duty = snapshot'.duty
  BY DEF ShownStays
<1>0. AgentTypeOK /\ PcTyped /\ ~Meddle /\ budget.faults = MaxFaults /\ ~Spend("faults")
  BY UndisturbedBefore DEF AgentInv, AgentTypeOK, PcTyped
<1>1. ASSUME NEW t \in Threads, Publish(t)
      PROVE  bmc'.mode = "manual" /\ bmc'.duty = snapshot'.duty
  <2>1. pc[t] = "publish" /\ UNCHANGED bmc /\ snapshot'.duty = job[t].readback.duty
    BY <1>1 DEF Publish
  <2>2. QED
    BY <2>1 DEF SeesBmc
<1>2. ASSUME \A t \in Threads : ~Publish(t)
      PROVE  UNCHANGED snapshot
  <2>1. ~Crash
    BY DEF Crash
  <2>2. ASSUME NEW t \in Threads, Work(t) PROVE UNCHANGED snapshot
    BY <1>2, <2>2 DEF Work, ReadMode, ReadDuty, ReadSensors, ReadFails, AskPolicy,
         TakeDecision, PolicyRaises, SetManual, SetDuty, WriteFails, ReadBackMode,
         ReadBackDuty, ReadBackFails, PublishError, Raise
  <2>3. QED
    BY <2>1, <2>2 DEF AgentNext, Wake, ReceiveControl, ReceiveStatus, Start, Acquire,
         PolicyStep, World, Meddle, ChangeTemps, vars, agentVars, serviceVars
<1>3. ASSUME NEW t \in Threads, SetManual(t) \/ SetDuty(t) \/ WriteFails(t) PROVE FALSE
  <2>1. ~WriteFails(t)
    BY <1>0 DEF WriteFails
  <2>2. pc'[t] \in {"setDuty", "readBackMode"}
    BY <1>0, <1>3, <2>1 DEF SetManual, SetDuty, Goto, PcTyped
  <2>3. QED
    BY <2>2 DEF Quiet, WriteSteps
<1>4. UNCHANGED bmc
  BY <1>0, <1>3, BmcSteps
<1>5. ASSUME NEW t \in Threads, pc[t] \in WriteSteps \ {"setManual"}, ~Publish(t)
      PROVE  FALSE
  <2>1. pc'[t] \notin WriteSteps \ {"setManual"}
    BY DEF Quiet
  <2>2. ~Crash
    BY DEF Crash
  <2>3. ~(\E work : Start(t, work)) /\ ~Acquire(t) /\ ~(pc'[t] = pc[t])
    BY <1>5, <2>1 DEF Start, Acquire, WriteSteps
  <2>4. ReadBackMode(t) \/ ReadBackDuty(t)
    BY <1>0, <1>3, <1>5, <2>2, <2>3, OwnStep
       DEF Work, ReadMode, ReadDuty, ReadSensors, ReadFails, AskPolicy, TakeDecision,
           PolicyRaises, ReadBackFails, PublishError, WriteSteps
  <2>5. CASE ReadBackMode(t)
    BY <1>0, <2>1, <2>5 DEF ReadBackMode, Goto, PcTyped, WriteSteps
  <2>6. CASE ReadBackDuty(t)
    <3>1. pc[t] = "readBackDuty"
      BY <2>6 DEF ReadBackDuty
    <3>2. ~Mismatch(job[t], bmc.duty)
      BY <3>1 DEF SeesBmc, Mismatch
    <3>3. pc'[t] = "publish"
      BY <1>0, <2>6, <3>2 DEF ReadBackDuty, Goto, PcTyped
    <3>4. QED
      BY <2>1, <3>3 DEF WriteSteps
  <2>7. QED
    BY <2>4, <2>5, <2>6
<1>6. CASE \A t \in Threads : ~Publish(t)
  <2>1. Quiet
    BY <1>5, <1>6 DEF Quiet
  <2>2. QED
    BY <1>0, <1>2, <1>4, <1>6, <2>1 DEF ShownStays
<1>7. QED
  BY <1>1, <1>6

(* For any number of threads, and whatever else fails or restarts: as long *)
(* as the watchdog has not commanded the BMC, what a thread is about to    *)
(* publish is what the fans do; and until a command fails the cache keeps  *)
(* showing it whenever the lock is free.                                   *)
THEOREM StatusStaysCurrent == AgentSpec => []StatusIsCurrent
<1> DEFINE Current == Undisturbed => (\A t \in Threads : SeesBmc(t)) /\ ShownStays
<1>1. AgentInit => Current
  <2> SUFFICES ASSUME AgentInit PROVE Current
    OBVIOUS
  <2>1. snapshot = None /\ \A t \in Threads : pc[t] = "idle"
    BY DEF AgentInit
  <2>2. QED
    BY <2>1 DEF SeesBmc, ShownStays
<1>2. AgentInv /\ Current /\ [AgentNext]_vars => Current'
  <2> SUFFICES ASSUME AgentInv, Current, [AgentNext]_vars, Undisturbed'
               PROVE  (\A t \in Threads : SeesBmc(t)') /\ ShownStays'
    OBVIOUS
  <2>1. Undisturbed /\ ~Meddle
    BY UndisturbedBefore
  <2>2. QED
    BY <2>1, SeesBmcInductive, ShownStaysInductive
<1>3. AgentInv /\ Current => StatusIsCurrent
  <2> SUFFICES ASSUME AgentInv, Current, budget.meddling = MaxMeddling
               PROVE  /\ \A t \in Threads : pc[t] = "publish" =>
                           bmc = [mode |-> "manual", duty |-> job[t].readback.duty]
                      /\ snapshot # None /\ lock = None /\ budget.faults = MaxFaults =>
                           bmc = [mode |-> "manual", duty |-> snapshot.duty]
    BY DEF StatusIsCurrent
  <2>1. bmc = [mode |-> bmc.mode, duty |-> bmc.duty]
    BY DEF AgentInv, AgentTypeOK, Bmc
  <2>2. (\A t \in Threads : SeesBmc(t)) /\ ShownStays
    BY DEF Undisturbed
  <2>3. lock = None => Quiet
    BY AgentConstants DEF AgentInv, LockDiscipline, Quiet, WorkSteps, Threads
  <2>4. QED
    BY <2>1, <2>2, <2>3 DEF SeesBmc, ShownStays
<1> HIDE DEF Current
<1>4. QED
  BY <1>1, <1>2, <1>3, AgentKeepsDiscipline, PTL DEF AgentSpec

=============================================================================
