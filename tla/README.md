# TrueFan: specification and verification

TLA+ modules for TrueFan, a fan controller for a NAS: a public web service (the
*core*), its dashboard, and a private *control agent* that alone touches the
hardware. The modules are checked on small instances with TLC; the theorems in
the `*Proofs` modules are checked by TLAPS for every value of the constants.
Paths below are relative to `src/`.

## 1. The system

| Component | Code | State | Operations |
|---|---|---|---|
| Safety policy and store | `truefan_control/policy.py` | prior-hot latch and override, in memory and in `/data/control-state.json` | `evaluate`, `request_override`, `save`, `load` |
| Control service, routes, policy loop | `truefan_control/service.py`, `main.py`, `factory.py` | service lock, cached status, cached error | `tick`, `request_duty`, `request_profile`, `status`; the loop, the FastAPI handlers |
| AST2600 backend | `truefan_control/ast2600.py` | the BMC's mode and duty (16 channels) | `status`, `set_duty_percent`, (`set_auto`) |
| hwmon backend | `truefan_control/hwmon_backend.py` | PWM and enable files | `status`, `set_duty_percent`, `read_hwmon_sensors`, (`set_auto`) |
| PWM scale | `truefan_control/ast2600.py` | none | `percent_to_pwm`, `pwm_to_percent` |
| Sensor clients | `truefan_control/redfish.py`, `truenas.py` | a websocket, open during a fetch | one fetch each |
| Core web service | `app/server.py`, `control_client.py` | none | `/status`, `/api/control`, `/api/profile`, `/pwm`, `/set` |
| Core sensor display, hwmon reader | `app/temperature_sources.py`, `hwmon.py`, `sensors.py` | a latch on SMART permission errors | reading three sources while the agent is away |
| Dashboard | `app/static/js/dashboard.js` | flags of the page, state of its controls | `poll`, `runAction`, `render` |
| Configuration, packaging | `config.py`, `entrypoint.sh`, `healthcheck.py`, `docker-compose.yaml`, `Dockerfile` | secret files, health, what runs | start, restart, health check |
| Core command line, legacy control functions | `app/fan.py`, `app/control.py` | none | not used by a service |

How they interact. The loop and the request handlers run in threads of one agent
process. Each takes the service lock, reads the BMC and the sensors, asks the
policy (which has a lock of its own and saves to its file before it answers),
commands the BMC if needed, reads back, publishes a status. An off-box watchdog
(README.md:5) commands the same BMC at any time. The core forwards over HTTP and
waits two seconds; the dashboard polls it every five seconds and sends one action
at a time. When the agent does not answer a `/status`, the core reads the machine's
sensors itself. Both containers read their secrets from shared files, the agent once
at its start, the core and the health check every time.

What is hard, and what correctness means:

* *policy*: a save can fail or the process die between a change of memory and the
  file's. Incidents must not be forgotten, overrides must not outlive their time,
  an answered override must be durable, and a sequence of calls, restarts
  included, must look like one memory that never crashes (`SafetyContract`).
* *service and AST2600*: threads, failing commands and the watchdog interleave
  between any two IPMI commands. No write may follow a stale decision; what is
  answered and published must have been read back; a hot machine must end up at
  100%; nobody waits for ever.
* *hwmon*: files are looked up three times in a write, drivers reload, the
  machine's own control moves values, and every duty is rounded twice.
* *sensors*: several readings become the one the policy judges, over exchanges and
  files that fail one by one while temperatures change. No sensor may hide a hotter
  one, no failure may look like a complete status.
* *start-up*: secret files that come, go and change between two reads of them.
  Nothing may serve or write without its secrets; with good ones the agent must end up
  running, and the start of the core, which waits for it, must be decided.
* *core and dashboard*: a timeout shorter than the work it waits for; overlapping
  polls; controls that must lock and come back.

`PROJECT.json` lists every hazard at its line with the properties that cover it.

## 2. Modules

| Module | Models | Used by |
|---|---|---|
| `PolicyRules` | thresholds, safety states, decisions, refusals, what `load` makes of a file | all below but hwmon |
| `SafetyContract` | abstract: an incident flag and an order, no file, no crash | refined by `SafetyPolicy` |
| `SafetyPolicy` | the policy, one step per point where a save can fail or the process die | `ControlAgent` |
| `PwmScale` | clamping, rounding, both conversions | `ControlAgent`, `HwmonPwm` |
| `ControlAgent` | loop, handlers, lock, cache and BMC, one step per IPMI command; EXTENDS `SafetyPolicy`, whose actions it calls | `AnsweringAgent` |
| `AgentInterface` | abstract: the agent as its HTTP callers see it, one step per call | refined by `AnsweringAgent`, extended by `CoreProxy` |
| `AnsweringAgent` | `ControlAgent` with the state last judged and the fate of each request as history | |
| `HwmonPwm` | the hwmon backend under the service, one step per file access | |
| `SensorSources` | how either backend gets the two readings of a status, one step per exchange or file | `CoreSensors` |
| `CoreSensors` | what the core reads and shows on its own; EXTENDS `SensorSources`, with which it shares the machine's temperatures | |
| `CoreProxy` | the core's answers and timeout in front of `AgentInterface`, which it EXTENDS | `Dashboard` |
| `Dashboard` | `poll` and `runAction`, interleaved at every `await` | |
| `Deployment` | both containers' start from their secret files, the health check, a write through both tokens | |
| `MC*` | small instances | runs |
| `SafetyPolicyProofs`, `SafetyContractProofs`, `ControlAgentProofs`, `AgentInterfaceProofs`, `HwmonPwmProofs`, `CoreSensorsProofs`, `DashboardProofs`, `DeploymentProofs` | theorems | |

### Correspondence

*SafetyPolicy.* `mem` is `_state`, `file` what is at the store's path, `call` the
call that holds the policy's lock. `Begin` is the argument check and the one
reading of the clock; `Expire`, `Judge` and `Grant` are `_active_override`, the
body of `evaluate` and the end of `request_override`. Each changes memory *before*
`SaveThen`, which may raise and leave the file, as the code does. The saves fail
under two names, `"save latch"` (in `evaluate`) and `"save override"` (an expiry's
and a grant's), because only the first loses an incident. `Restart` can
happen between any two steps. `incident` is a history variable: the last
conclusive status judged was a hot one.

*ControlAgent.* `pc` and `job` are a thread's place and locals in `tick` or
`request_duty`. `lock` is the service lock (an `RLock`; `request_profile` re-enters
it, which is why it is one request here). `Raise` is every exception that leaves
the lock's block; `PublishError` comes after it, as in `tick`. `Crash` restarts the
process at any step and leaves the BMC alone. `set_duty_percent` is four commands
(`SetManual`, `SetDuty`, `ReadBackMode`, `ReadBackDuty`); a command that fails may
have taken effect. A late effect of a timed-out command is that case too.

*HwmonPwm.* `op` holds an operation's locals, `paths` the files it found last.
Each `stat`, read and write is a step; `Firmware`, `Unload` and `Load` are what
drivers do between them. The policy's decision is the input `wanted`.

*SensorSources.* `backend` chooses between `_enrich` (`ReadRedfish`, then
`ConnectTrueNas`, `Login`, `AskTemperatures`, `CloseTrueNas`, each with its ways to
fail) and `read_hwmon_sensors` (`SkipFile` or `ReadFile` for each file in order, then
`EndScan`). A sensor's number may be missing, and over the network NaN; `Largest`
keeps Python's `max` with a NaN in it. `Drift` changes a sensor at any moment.
`during`, `lost` and `odd` are history: the temperatures of each sensor during the
read, the sensors that gave no number, and those that gave no finite one. A file without
a number, or under a chip without a readable name, is skipped (`SkipFile`); one whose
label cannot be read still counts (`ReadFile`), by its chip's and its own name alone:
`Names` has both identities of a sensor, `Bare` the second, and `Keys` are those of the
drives in either.

*CoreSensors.* The three sources of `get_temperature_sources` in order: `FindDevice`
is `find_best_sensor`, `GetTemp` is `get_temp` (the CPU first by its label),
`Smartctl` the fallback of the other two, `BuildPage` what `/status` makes of it. A
device can be gone between `FindDevice` and `GetTemp`. The core goes by the names of
chips (`Devices`), so the kind a chip's name tells is the one of `Bare`. smartctl's JSON
is of unchecked shape: `Smartctl` may raise, which ends the reading (`raised`), and
`PageOf` is then zeros for every source, as in `get_sensors_data`.

*Deployment.* `Edit` replaces a file at any moment. `CheckAgentSecret` and
`CheckCoreSecret` are the entrypoint's look at one file, `LoadAgentSecret` is one
`read_secret_file` of `Settings.from_env`; `StartProbe` reads the token for a health
check and `ProbeSucceeds` or `ProbeFails` ends it, as Docker counts it: failures not
before the start period is over (`EndStartPeriod`). compose starts the core
when it finds the agent healthy (`StartCore`); if it finds it unhealthy or exited it
fails the start (`ComposeGivesUp`), and the restart policy does not start what never
ran. A second `docker compose up` by the operator is outside the model. `Authorise`,
`BuildHeaders` and `Deliver` are a write at `_require_write_access`, at the client's
header and at the agent's `require_token`.

*AgentInterface.* `published` is what `/status` answers with (`None`: it fails),
`request` the latest request of each caller with its fate, `safety` the state that a
status read now would be judged to be in. `Apply`, `Refuse` and `Fail` are the three
ways a handler answers (200, 409 or 400, 500), `Tick` and `TickFails` the two ends of a
tick, `Crash` the end of the process. In a sensor failure a request below full speed
may be accepted or refused, since that depends on the BMC's duty.

*AnsweringAgent.* The mapping: `published` is `Shown`, the cache of `ControlAgent`
unless it holds an error; each handler thread is a caller. `Judges` notes the state of
a judgement whose save did not fail, `Asks` and `Ends` the start and the end of a
request; both only record what `ControlAgent` does. A request is decided by one step
of the interface at the moment its thread publishes or raises, a dozen commands after
the judgement. So the refinement says that nothing in between (another thread, the
watchdog, a restart) makes that decision or that status one of an older state.

*CoreProxy.* A request has an `answer`, what the core says of it, and a `fate`,
what the agent does with it: after `GiveUp` they part. The agent's steps are those of
`AgentInterface`, and here the agent can also stay down (`up`).

*Dashboard.* `allows` and `inFlight` are the page's two flags, `controls` what
`updateControlAvailability` last enabled, `poll[p]` one `fetch("/status")` each,
`"own"` the poll at the end of `runAction`. JavaScript runs a task to its next
`await`, so the drawing of the own poll and the `finally` block are one step, and
so is a click without a token, which throws before its first `await`.

### Abstractions

* Temperatures are integers, or None, or `NonFinite` (NaN or infinity). In the policy
  and the agent one CPU and one drive value are read in one step and `sensor_ok` is
  left out: `SensorSources` has how the two values come about and shows
  (`FailureIsMissingReading`) that `sensor_ok` says no more than they do. There the
  unit is the kernel's, a thousandth of a degree.
* The agent's read and the core's share no state but the temperatures, so one is on
  at a time.
* Of the secret files only what they hold matters: nothing, spaces, or a value. The
  four that only the AST2600 backend needs are one.
* The clock is in units of which `MAX_TTL_SECONDS` is `MaxTtl`; only order matters.
* The read-back's temperatures are display only and left out of `snapshot`.
* FastAPI validates bodies, so `rejected` is only reached by direct calls
  (`SafetyPolicy`); an unknown profile changes nothing and is left out.
* `set_auto` has no caller in the program and is left out.
* Board and NVMe temperatures and fan speeds are shown and never judged: left out of
  what the agent reads.
* In `AgentInterface` a caller has one request at a time, and the duty an accepted one
  got is left out: the page does not depend on it.
* Wording, drive rows and colours of the page, wire formats and logging are left out.
* In `HwmonPwm` one directory listing is atomic. In `CoreProxy` so is one call of the
  agent; that is no assumption but what `KeepsInterface` shows of `ControlAgent`.

## 3. Runs

| Run | Bounds | Shows |
|---|---|---|
| `policy_contract` | 60 statuses on both sides of each threshold, one odd reading, 4 requests, clock to 3, TTL to 2; no faults, restart anywhere | types, write-through, no decision on an expired override, no override beyond its time, refinement of `SafetyContract` |
| `policy_damage` | the same; saves of overrides fail, the file is corrupted or its override malformed, the clock steps back | an incident is remembered, cooling is held, an answered override is in the file |
| `agent_disturbed` | loop and one handler, a low request, 2 machines (in the cooling band, hot), 3 BMC orders, saves of overrides can fail; one failing command or read, one watchdog command or one restart | lock and call discipline, writes follow memory, answers and published statuses are true, a sensor failure never lowers; the agent implements `AgentInterface` |
| `agent_liveness` | loop and one handler, low and full requests, 2 machines (recovered, hot), one failure, one watchdog command, no restart (that is in `agent_disturbed`) | a hot machine ends up at 100%, every call ends, `/status` comes back to the state last judged, with its lock |
| `hwmon` | two PWM files, one with an enable file; one fault, two removals | true answers, no false mismatch, full duty reaches the fan |
| `dashboard` | two requests, one timer poll beside the action's own, one failure, one change of the safety state | true reports, nothing usable in flight; controls lock and come back |
| `sensors` | two CPU sensors and two drives of one chip name whose keys differ with and without their labels, 4 temperatures (below half a degree, between the thresholds, on both sides), one change during a read; both backends and the core | whichever labels can be read, no hot sensor is hidden and no alarm is false; a failure is a missing reading; what the core shows was measured, or is only zeros when nothing was read or a reading raised, and is shown when readable |
| `deployment` | two agent tokens, one value of the other secrets, each file replaced once, one crash, three failed probes | closed without secrets, every write authorised, a refusal means a replaced file; with good secrets the agent ends up serving, and the core's start is decided |
| `policy_lost_latch`, `agent_late_error`, `hwmon_floor`, `sensors_drives` | | disagreements, section 4 |

Why the bounds are enough to meet the cases. A threshold is a comparison, so a
value on each side and the band between stand for all. One handler beside the loop has
every interleaving of two threads, and a third could only wait for the lock or hold
it: the lock's and the policy's properties are proved for any number. Clock 3 with TTL 2 lets an override be granted, expire on time, and a later
one be granted; in the agent, where the policy's clock cases are already checked,
clock 1 with TTL 1 has one expiry. One failure at *every* step covers each way a
call ends early; watchdog and restart are further mishaps, and `agent_disturbed` has
one of any kind in a behaviour (`MCOneMishap`) to stay small: its properties are all
proved for any number. Orders of polls need two polls, the timer's and the action's,
and the proved ones hold for any number. A second request comes after one the core gave
up on, while the agent still has the first. Two sensors
of a kind are one that is hot and one that could hide it, in either order of the scan;
two tokens are the one read before a replacement and the one after. Every bound is a named constant (`MaxNow`, `MaxFaults`, `MaxMeddling`,
`MaxCrashes`, `MaxReloads`, `MaxFailures`, `MaxWeather`, `MaxDrifts`, `MaxEdits`) or a definition of an MC
module; only `MCOneMishap` is a constraint.

Each property is broken by a mutant of the code in `PROJECT.json` (a dropped
comparison, a missing reset, a lock not released, a save skipped).

### Fairness

* `ControlAgent`: WF of `Wake` (the loop catches every exception and sleeps a fixed
  time), of the policy's step and of a thread's work (no step blocks: IPMI, Redfish
  and TrueNAS calls have timeouts), SF of `Acquire`, since an `RLock` is not handed
  over in order but its holder always releases it, and a waiter is not passed over
  for ever by threads that sleep between calls. Requests, failures, watchdog and
  crashes are not fair; the last three are bounded, and `HotEventuallyFull` is
  about what follows them.
* `HwmonPwm`: WF of `Tick` and `Work`; WF of `Load`: a driver that went comes back.
* `Dashboard`: WF of the timer, of the end of every fetch (the core answers within
  its timeout, or the fetch fails), of the page's own steps and of the agent's tick.
  That the agent's tick comes again and again is what `StatusComesBack` shows of
  `ControlAgent` under its own fairness. The user is not fair, the agent need not
  restart.
* `Deployment`: WF of the agent's start and the core's (Docker restarts what ends), of
  the end of the start period, of the start and the end of a probe (every 30 seconds,
  with a timeout), and of compose, which looks at the agent until it has started the
  core or given up. No probe has to succeed: `/status` waits for the service's lock and
  answers 500 while the BMC cannot be reached. So what is claimed of the core is that
  its start is decided, either way. Files are replaced and the agent crashes without
  fairness and finitely often.

## 4. Disagreements found

Each is a run in which TLC reaches the violation; `PROJECT.json` quotes the lines.

1. `policy_lost_latch`: `evaluate` sets the latch in memory before it saves. If the
   save raises, memory has the latch, so no later evaluation saves it, and a restart
   forgets the incident: 22% instead of at least 50%. (An override granted or expired in
   the meantime would write the whole state, latch included.)
2. `agent_late_error`: a tick's error is published outside the lock, after another
   thread's newer success, which it then hides.
3. `hwmon_floor`: a raw value below 22% reads as 22%, so a fan left there in manual
   mode is never raised when 22% is wanted.
4. `sensors_drives`: the drives of the kernel's drivetemp driver share chip name and
   file name, so `read_hwmon_sensors` keeps them under one key and only the last one's
   temperature: a hot drive before it is judged normal. Where the keys of two drives
   differ, with and without their labels, and the chip's name tells what a sensor is, no
   sensor is ever hidden, which is a theorem (`HotSensorsCount`). Labels alone
   are not enough: one that cannot be read is replaced by the file's name
   (hwmon_backend.py:79), so drives that only their labels tell apart can collide too.

Seen on the way, without a run of their own: a save that fails (of the latch,
policy.py:194, or of an expiry) leaves the tick before the write, so that tick
commands nothing even for a hot reading; and after any action the page redraws its
controls without the safety state (dashboard.js:265), so Emergency is disabled in a
hot lock until the next poll (`ControlsComeBack` shows that it does come back).

Behaviours no document decides: a NaN reading is neither hot nor a failure (the
policy runs include it; it can come out of `max` over several readings, where one that
comes first also hides the others, truenas.py:108); and a request the core gave up on
can still be applied, after a later one too; a sensor known as a CPU's or a drive's
only by its label is none while the label cannot be read; a store without the key
`previous_hot` loads as no incident (policy.py:121); and smartctl output of an unexpected
shape (app/sensors.py:31, 128) puts zeros in place of what the other sources gave. They
are hazards with a note, not findings. Of several PWM files the hwmon backend commands the first one only; no
document says which fans it must command.

## 5. Proofs

All theorems hold for every value of the constants. They rest on the named
assumptions of the modules (thresholds in order, `MaxTtl` positive, the special values
distinct, inputs in their types) and on those a theorem states itself.

`SafetyPolicyProofs`.

* `PolicyTypeCorrect`: the type invariant. It is not inductive by types alone: that
  a granted override lies in 22..100 needs its last conjunct, which says that a call
  that got past the argument check carries a valid request.
* `IncidentIsRemembered`, `CoolingIsHeld`, for `Faults` without `"save latch"` and
  `"delete"`. `IncidentRemembered` alone is not inductive: from a latch that is set
  in memory and not in the file, with no incident yet, a hot status begins an
  incident and saves nothing, since the latch does not change. `LatchChain` says
  that the incident implies the latch in memory and that one the latch in the file;
  `CoolingHeld` is carried from the step that judges (`CoolingFromJudging`), where a
  set latch gives at least the cooling duty (`LatchedDuty`). The exclusion is
  necessary: finding 1 is the counterexample with `"save latch"`.
* `OverrideStaysInWindow`, for `Faults` without `"clock"`, failing saves included:
  the invariant bounds memory, file and the call's own reading of the clock.

`SafetyContractProofs`.

* `AnsweredIsDurable`, for any faults: only a save that succeeded leads to an answer,
  and what it wrote loads to the override granted (`LoadSaved`).
* `DecisionsAreLive`: `LiveFromExpiry` adds that after the step which drops an expired
  override the one in memory outlives the call's reading of the clock.
* `FileFollowsMemory`, if no save fails and nobody else touches the file.
* `PolicyKeepsContract`: without faults every step of the policy is a step of
  `SafetyContract` or a stutter, under the mapping that takes the contract's state
  from the *file*. `Traced` keeps what the contract's steps need of a call under way:
  its status, its request, and that a call which grants was not locked.

`ControlAgentProofs`, for any set of handler threads.

* `LockIsKept`, `AgentKeepsDiscipline`: the lock is held exactly by the thread in
  its block, after every kind of failure; each thread keeps its request; the call in
  the policy belongs to the thread that waits for it. `AgentInv` and `PolicyTypeOK`
  are inductive together: the agent's types need what the policy returns, the
  policy's need what the agent passes.
* `AgentImplementsPolicy`: `AgentSpec => PolicySpec`, if every status the agent can
  read is in `Statuses` (an assumption of the theorem). Every step of the agent is a
  step of the policy or leaves it alone; so what is proved of the policy holds in
  the agent: `AgentHoldsCooling`, and `AgentKeepsContract`, the whole agent against
  the abstract contract.
* `WritesFollow`: while a thread writes, latch and override are those its decision
  was made on. The invariant follows the decision from the policy's answer, and uses
  that no call can begin while the lock is held.
* `AnswersAreTrue`, `SnapshotsKeepTable`: `DecisionSound` is about the policy's answer
  (README's table; a request's override is in memory), `WorkSound` carries it through
  the writes and adds the read-back, `SnapshotSound` keeps it in the cache. That the
  override is also in the file holds after failed saves too, since a later save writes
  the whole memory: `GrantSaved` follows file and memory from the grant, `WorkSaved` from
  the answer to the read-back, while no call can begin. Only edits of the file by others
  (`"delete"`, `"corrupt"`, `"malform"`) are assumed away.
* `StatusStaysCurrent`: `SeesBmc` says what the holder of the lock knows of the BMC at
  each step while the watchdog is silent; `ShownStays`, that the fans stay as the last
  answer showed them while no thread has commanded anything since. A request that is
  refused commands nothing, so the cache it leaves alone is still true.
* `SensorFailureKeepsFloor`: no write decided on a sensor failure lowers the duty.
  `FloorSound` says that a thread carries the duty it read, or `None` if the read
  failed, from the reading to the write; that while the watchdog is silent this is
  still the BMC's duty, because only the holder of the lock changes it
  (`DutyChangedBy`); and that the decision was made above it.

`AgentInterfaceProofs`, for any set of handler threads and requests.

* `AgentKeepsInterface`: `ControlAgent` with its history implements `AgentInterface`.
  `AnsweringInv` has, beside `AgentInv`, three parts. `CallShows`: what the policy's call
  is about to answer agrees with the state last judged, and is what the interface may
  accept or refuse. `WorkShows`: the same of the decision a thread carries to the BMC;
  it is preserved because nobody can judge while the lock is held (`NoJudgement`).
  `Pendings`: a request is queued exactly while its thread works on it, and is the one it
  was sent as. Each step then maps to one of the interface or to a stutter (`StepsShow`):
  a publication to `Tick` or `Apply` (`PublishShows`), an exception to `Refuse`, `Fail` or
  a stutter, a published error to `TickFails`, a judgement that changes the state to
  `Sense`.

`HwmonPwmProofs`, for any number of PWM files.

* `RoundTrip`, every safe duty survives the way to PWM and back, and
  `HigherDutyHigherPwm`. Both follow from one lemma: rounding errs by at most a half.
* `HwmonTypeCorrect`. That a nonempty set of files has a first one (`FirstIsOne`) needs
  that the numbers of files are well-founded.
* `AnswerIsOnTheFan` and `MismatchIsReal` from `OperationInv`, which follows an operation
  from its decision to its answer: which file it took, that it is in manual mode when its
  value is written, that the value stays until the read-back unless something disturbed
  it. It uses `RoundTrip`.

`CoreSensorsProofs`, for any number of sensors.

* `SensorsTypeCorrect`. That `max` of finitely many readings exists is proved from a
  least counterexample (`LargestExists`).
* `FailuresShow`: `ReadInv` says what is still empty at each exchange.
* `AlarmsAreReal`: `BackedInv`, every number on its way is one that some sensor had,
  which the scan takes for a CPU's or a drive's by its label or its chip's name. That
  there are finitely many keys (`KeysFinite`) makes the maximum over them exist.
* `HotSensorsCount`: `CountedInv`, every number is at least what each sensor read so
  far had at some step. It assumes `DrivesAreNamed`, that no two drives share a key,
  with or without labels, and `ChipsTellKinds`, that a CPU sensor or a drive is one by
  its chip's name too. Finding 4 is the counterexample without the first; without the
  second a sensor drops out of the scan with its label. With a 0 in the running maximum
  the number can drop, so the invariant speaks of temperatures above half a degree only.
* `ShowsWhatWasMeasured`, `ShowsWhatIsReadable`: `ShownInv` adds that a source which
  has been passed gave a number or has lost a device, unless the reading raised, and
  that every number shown so far was measured.

`DashboardProofs`, for any number of polls and requests: `InFlightLocks`,
`DashboardTypeCorrect`, and `ReportsAreTrue`. `ProxyInv` says of each request that what the
core answered agrees with what the agent did with it (`AllConsistent`): a success or a
refusal is final, a request given up on may still get any fate. `ReportAnswered` ties the
page's line to the answer it was drawn from.

`DeploymentProofs`: `DeploymentTypeCorrect`; `AgentFailsClosed` from `Reading`, what
an agent that starts has read; `EveryWriteIsAuthorised`; `RefusedTokenWasReplaced`
from `SameReadSameToken`, that two tokens read from one content of the file are equal.

Only model-checked: liveness (`HotEventuallyFull`, `EveryCallEnds`, `StatusComesBack`,
`FullReachesFan`, `ControlsComeBack`, `LocksFollowAgent`, `GoodSecretsServe`,
`CoreStarts`), since TLAPS proves nothing about fairness. Every invariant and every
action property that a passing run checks is also a theorem, under the assumptions named
above. The violations of section 4 are TLC's.

## 6. Not modelled

* `app/fan.py`, an older command line that no service runs, and `app/control.py`, a
  switch in front of the client of which the core uses only the profiles' names: no
  state of their own.
* In the core's display: the latch on SMART permission errors, a flag on the page, and
  fan speeds. In the agent's status: board and NVMe temperatures and fan speeds. None
  reaches a decision.
* `set_auto` of both backends: no caller in the program.
* Numeric and boolean settings: constants of a process. Building the image and
  `release.sh`: no state at run time.
* A power loss that undoes a rename: a fault of the machine, and the code takes no
  measure against it that could be checked.
* In `Dashboard`, cards, rows and wording.

## 7. Further work

The modules and theorems above are what was planned, in that order: the control path
first because the fans depend on it, then what it reads, then how it starts. What could
follow:

1. *Sixteen channels*: the write of all channels and the reading of one that differs,
   which the BMC's duty `None` stands for.
