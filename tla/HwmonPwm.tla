------------------------------ MODULE HwmonPwm ------------------------------
(***************************************************************************)
(* The hwmon backend (truefan_control/hwmon_backend.py) under the control  *)
(* service: one operation at a time, since the service lock is held        *)
(* throughout, reads the PWM files, compares what it read with the duty    *)
(* decided, writes one of the files and reads back.                        *)
(*                                                                         *)
(* Every access to a file is a step of its own.  Between any two of them   *)
(* the machine's own fan control moves a PWM value that is in automatic    *)
(* mode, and a driver that is loaded again takes files away, brings them   *)
(* back and resets them.  What the policy decides is SafetyPolicy's        *)
(* matter; here it is the duty `wanted'.                                   *)
(***************************************************************************)
EXTENDS PwmScale, FiniteSets, FiniteSetsExt

CONSTANTS
    Channel,        \* the PWM files there can be, numbered in the order of their paths
    Switchable,     \* those that have a pwm*_enable file
    Raws,           \* the PWM values the machine's own control uses
    Decisions,      \* the duties the policy decides
    None,
    MaxFaults,      \* bound on the accesses that fail
    MaxReloads      \* bound on what the driver and other programs do to files

ASSUME HwmonConstants ==
    /\ Channel \subseteq Nat /\ IsFiniteSet(Channel) /\ Channel # {}
    /\ Switchable \subseteq Channel
    /\ Raws \subseteq 0..MaxPwm /\ Raws # {}
    /\ Decisions \subseteq MinDuty..MaxDuty /\ Decisions # {}
    /\ None \notin Int
    /\ MaxFaults \in Nat /\ MaxReloads \in Nat

VARIABLES
    pwm,        \* the raw value of each channel
    enable,     \* what its pwm*_enable says: "1" is manual, "2" automatic
    present,    \* the channels whose files exist
    wanted,     \* the duty the policy decides at present
    pc,         \* what the operation does next
    op,         \* the operation's locals
    budget      \* faults and reloads still to come

hwVars == <<pwm, enable, present>>
vars == <<hwVars, wanted, pc, op, budget>>

(* duty is the decided one, before and readback what status() read, paths  *)
(* the files found last, target the file written, fresh whether no file    *)
(* has been taken away or reset since the operation began (history).       *)
NoOp == [kind |-> "none", duty |-> None, before |-> None, readback |-> None,
         paths |-> {}, target |-> None, fresh |-> TRUE]

HwmonInit ==
    /\ pwm \in [Channel -> Raws]
    /\ enable \in [Channel -> {"1", "2"}]
    /\ \A c \in Channel \ Switchable : enable[c] = "1"
    /\ present = Channel
    /\ wanted \in Decisions
    /\ pc = "idle"
    /\ op = NoOp
    /\ budget = [faults |-> MaxFaults, reloads |-> MaxReloads]

Spend(kind) ==
    /\ budget[kind] > 0
    /\ budget' = [budget EXCEPT ![kind] = @ - 1]

(* discover_pwm_files sorts by path, and its callers take the first.       *)
First(paths) == Min(paths)

-----------------------------------------------------------------------------
(* status(): discover, then the first file that can be read.               *)

Begin(kind) ==
    /\ pc = "idle"
    /\ op' = [NoOp EXCEPT !.kind = kind]
    /\ pc' = "discover"
    /\ UNCHANGED <<hwVars, wanted, budget>>

Tick == Begin("tick")
Request == Begin("control")

DiscoverToRead ==
    /\ pc \in {"discover", "discoverBack"}
    /\ op' = [op EXCEPT !.paths = present]
    /\ pc' = IF pc = "discover" THEN "read" ELSE "readBack"
    /\ UNCHANGED <<hwVars, wanted, budget>>

(* What status() makes of the file it could read, or of none: both become  *)
(* the operation's reading.                                                *)
Reading(raw) ==
    IF pc = "read"
    THEN op' = [op EXCEPT !.before = raw, !.paths = {}] /\ pc' = "decide"
    ELSE op' = [op EXCEPT !.readback = raw, !.paths = {}] /\ pc' = "verify"

ReadFirst ==
    /\ pc \in {"read", "readBack"} /\ op.paths # {}
    /\ First(op.paths) \in present
    /\ Reading(pwm[First(op.paths)])
    /\ UNCHANGED <<hwVars, wanted, budget>>

(* A file that has gone or fails is passed over. *)
ReadNext ==
    /\ pc \in {"read", "readBack"} /\ op.paths # {}
    /\ \/ First(op.paths) \notin present /\ UNCHANGED budget
       \/ Spend("faults")
    /\ op' = [op EXCEPT !.paths = @ \ {First(@)}]
    /\ UNCHANGED <<hwVars, wanted, pc>>

ReadNone ==
    /\ pc \in {"read", "readBack"} /\ op.paths = {}
    /\ Reading(None)
    /\ UNCHANGED <<hwVars, wanted, budget>>

-----------------------------------------------------------------------------
(* The service's comparison. status() says "manual" whenever a value could *)
(* be read.                                                                *)

NeedsWriteIfUnread(kind, before, duty) == kind = "control" \/ before = None

NeedsWrite(kind, before, duty) ==
    kind = "control" \/ before = None \/ PwmToPercent(before) # duty

Decide ==
    /\ pc = "decide"
    /\ op' = [op EXCEPT !.duty = wanted]
    /\ pc' = IF NeedsWrite(op.kind, op.before, wanted) THEN "discoverToWrite"
             ELSE "answer"
    /\ UNCHANGED <<hwVars, wanted, budget>>

-----------------------------------------------------------------------------
(* set_duty_percent(): write_pwm_value, then status() and the comparison.  *)

DiscoverToWrite ==
    /\ pc = "discoverToWrite"
    /\ op' = [op EXCEPT !.paths = present]
    /\ pc' = "target"
    /\ UNCHANGED <<hwVars, wanted, budget>>

(* The files are looked up again: the first that is still there, else any  *)
(* that is there now.  None at all is pwm_write_failed.                    *)
StillThere == op.paths \cap present

ChooseTarget ==
    /\ pc = "target"
    /\ \E t \in IF StillThere # {} THEN {First(StillThere)} ELSE present :
          op' = [op EXCEPT !.target = t, !.paths = {}]
    /\ pc' = "writeEnable"
    /\ UNCHANGED <<hwVars, wanted, budget>>

Fail ==
    /\ pc' = "idle"
    /\ op' = NoOp

NoTarget ==
    /\ pc = "target" /\ present = {}
    /\ Fail
    /\ UNCHANGED <<hwVars, wanted, budget>>

(* is_file(), then the write of "1". *)
WriteEnableSkipped ==
    /\ pc = "writeEnable"
    /\ pc' = "writePwm"
    /\ UNCHANGED <<hwVars, wanted, op, budget>>

WriteEnable ==
    /\ pc = "writeEnable"
    /\ enable' = IF op.target \in Switchable \cap present
                 THEN [enable EXCEPT ![op.target] = "1"] ELSE enable
    /\ pc' = "writePwm"
    /\ UNCHANGED <<pwm, present, wanted, op, budget>>

WritePwm ==
    /\ pc = "writePwm" /\ op.target \in present
    /\ pwm' = [pwm EXCEPT ![op.target] = PercentToPwm(op.duty)]
    /\ pc' = "discoverBack"
    /\ UNCHANGED <<enable, present, wanted, op, budget>>

(* An os error: a file that is gone, or that refuses the write.            *)
WriteFails ==
    /\ \/ pc = "writePwm" /\ op.target \notin present /\ UNCHANGED budget
       \/ /\ pc = "writeEnable" /\ op.target \in Switchable
          /\ Spend("faults")
       \/ pc = "writePwm" /\ Spend("faults")
    /\ Fail
    /\ UNCHANGED <<hwVars, wanted>>

Verified(readback, duty) == readback # None /\ PwmToPercent(readback) = duty

Verify ==
    /\ pc = "verify"
    /\ IF Verified(op.readback, op.duty)
       THEN pc' = "answer" /\ UNCHANGED op
       ELSE Fail
    /\ UNCHANGED <<hwVars, wanted, budget>>

(* The status is published, and a request answered. *)
Answer ==
    /\ pc = "answer"
    /\ pc' = "idle"
    /\ op' = NoOp
    /\ UNCHANGED <<hwVars, wanted, budget>>

-----------------------------------------------------------------------------
(* Around the backend.                                                     *)

Firmware ==
    /\ \E c \in present, raw \in Raws \cup {MaxPwm} :
          /\ enable[c] = "2"
          /\ pwm' = [pwm EXCEPT ![c] = raw]
    /\ UNCHANGED <<enable, present, wanted, pc, op, budget>>

(* A driver goes, and comes back with its files reset.                     *)
Unload ==
    /\ Spend("reloads")
    /\ \E c \in present : present' = present \ {c}
    /\ op' = [op EXCEPT !.fresh = FALSE]
    /\ UNCHANGED <<pwm, enable, wanted, pc>>

Load ==
    /\ \E c \in Channel \ present, raw \in Raws :
          /\ present' = present \cup {c}
          /\ pwm' = [pwm EXCEPT ![c] = raw]
          /\ enable' = [enable EXCEPT ![c] = IF c \in Switchable THEN "2" ELSE "1"]
    /\ op' = [op EXCEPT !.fresh = FALSE]
    /\ UNCHANGED <<wanted, pc, budget>>

ChangeDecision ==
    /\ wanted' \in Decisions \ {wanted}
    /\ UNCHANGED <<hwVars, pc, op, budget>>

Work ==
    \/ DiscoverToRead \/ ReadFirst \/ ReadNext \/ ReadNone \/ Decide
    \/ DiscoverToWrite \/ ChooseTarget \/ NoTarget \/ WriteEnable \/ WritePwm
    \/ WriteFails \/ Verify \/ Answer

HwmonNext ==
    \/ Tick \/ Request \/ Work
    \/ Firmware \/ Unload \/ Load \/ ChangeDecision

HwmonSpec == HwmonInit /\ [][HwmonNext]_vars

(* The loop ticks for ever, an operation goes on, and a driver comes back. *)
FairHwmonSpec ==
    /\ HwmonSpec
    /\ WF_vars(Tick) /\ WF_vars(Work) /\ WF_vars(Load)

-----------------------------------------------------------------------------

PwmOrNone == (0..255) \cup {None}

Operation == [kind : {"none", "tick", "control"}, duty : Decisions \cup {None},
              before : PwmOrNone, readback : PwmOrNone, paths : SUBSET Channel,
              target : Channel \cup {None}, fresh : BOOLEAN]

(* The backend's variables have their types.                               *)
HwmonTypeOK ==
    /\ pwm \in [Channel -> 0..255]
    /\ enable \in [Channel -> {"1", "2"}]
    /\ present \subseteq Channel
    /\ wanted \in Decisions
    /\ pc \in {"idle", "discover", "read", "decide", "discoverToWrite", "target",
               "writeEnable", "writePwm", "discoverBack", "readBack", "verify",
               "answer"}
    /\ op \in Operation
    /\ budget \in [faults : 0..MaxFaults, reloads : 0..MaxReloads]

(* README.md, "Every accepted mutation reports ... verified read-back":    *)
(* once it answers, the file it wrote holds the duty decided and is out of *)
(* the machine's own control, unless a driver took it away meanwhile; the  *)
(* value was read from the first file that could be read, which need not   *)
(* be that one.                                                            *)
AnswerMatchesFan ==
    pc = "answer" /\ op.target # None /\ op.fresh =>
        pwm[op.target] = PercentToPwm(op.duty) /\ enable[op.target] = "1"

(* "readback_mismatch" means that the fan does not have the value: a       *)
(* read-back of exactly the value that was written always passes, though   *)
(* two roundings lie between the duty decided and the duty compared.       *)
NoFalseMismatch ==
    pc = "verify" /\ op.readback = PercentToPwm(op.duty)
        => Verified(op.readback, op.duty)

(* README.md, "Hot: force 100%", of the first fan: while full duty is      *)
(* wanted for ever, the machine's own control may take the fan lower only  *)
(* until the loop next looks, and a fan in manual mode ends up at 100%.    *)
FullPwm == {raw \in 0..MaxPwm : PwmToPercent(raw) = MaxDuty}
FirstFanFull == pwm[First(Channel)] \in FullPwm

FullReachesFan ==
    <>[](wanted = MaxDuty) =>
        /\ []<>FirstFanFull
        /\ <>[](enable[First(Channel)] = "1" => FirstFanFull)

(* README.md, "Recovered/normal: Quiet 22%" and "Manual duty is 22-100%":  *)
(* when a tick or request has ended well, not every fan that is in manual  *)
(* mode, and so is nobody's but the agent's, turns below the least duty.   *)
FloorHeld ==
    pc = "answer" /\ op.fresh /\ (\A c \in Channel : enable[c] = "1")
        => \E c \in Channel : pwm[c] >= PercentToPwm(MinDuty)

=============================================================================
