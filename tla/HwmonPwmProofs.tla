--------------------------- MODULE HwmonPwmProofs ---------------------------
(***************************************************************************)
(* What an answer of the hwmon backend means, for any number of PWM files, *)
(* any set of decisions and any budget of faults and reloads; first what   *)
(* the two scales of PwmScale have in common.                              *)
(***************************************************************************)
EXTENDS HwmonPwm, WellFoundedInduction, TLAPS

(* Rounding moves a quotient by at most a half.                            *)
LEMMA RoundNear ==
  ASSUME NEW n \in Nat, NEW d \in Nat \ {0}
  PROVE  /\ Round(n, d) \in Nat
         /\ 2 * d * Round(n, d) <= 2 * n + d
         /\ 2 * n <= 2 * d * Round(n, d) + d
<1> DEFINE q == n \div d
           r == n % d
<1>1. q \in Nat /\ r \in 0..(d - 1) /\ n = d * q + r
  OBVIOUS
<1> HIDE DEF q, r
<1>2. Round(n, d) = (IF 2 * r < d \/ (2 * r = d /\ q % 2 = 0) THEN q ELSE q + 1)
  BY DEF Round, q, r
<1>3. CASE Round(n, d) = q /\ 2 * r <= d
  BY <1>1, <1>3
<1>4. CASE Round(n, d) = q + 1 /\ 2 * r >= d
  BY <1>1, <1>4
<1>5. QED
  BY <1>1, <1>2, <1>3, <1>4

LEMMA PercentNear ==
  ASSUME NEW n \in Nat
  PROVE  /\ Round(n, 255) \in Nat
         /\ 510 * Round(n, 255) <= 2 * n + 255
         /\ 2 * n <= 510 * Round(n, 255) + 255
<1>1. 255 \in Nat \ {0}
  OBVIOUS
<1> DEFINE d == 255
<1>2. d \in Nat \ {0} /\ d = 255
  BY <1>1
<1> HIDE DEF d
<1>3. /\ Round(n, d) \in Nat
      /\ 2 * d * Round(n, d) <= 2 * n + d
      /\ 2 * n <= 2 * d * Round(n, d) + d
  BY <1>2, RoundNear
<1>4. QED
  BY <1>2, <1>3

(* The PWM value of a safe duty is in range, and within a half of it.      *)
LEMMA PwmOfSafeDuty ==
  ASSUME NEW p \in MinDuty..MaxDuty
  PROVE  /\ PercentToPwm(p) \in 0..MaxPwm
         /\ 200 * PercentToPwm(p) <= 510 * p + 100
         /\ 510 * p <= 200 * PercentToPwm(p) + 100
<1>1. Clamp(p) = p /\ p * 255 \in Nat
  BY DEF Clamp, MinDuty, MaxDuty
<1>2. PercentToPwm(p) = Round(p * 255, 100)
  BY <1>1 DEF PercentToPwm, MaxPwm
<1>3. /\ Round(p * 255, 100) \in Nat
      /\ 2 * 100 * Round(p * 255, 100) <= 2 * (p * 255) + 100
      /\ 2 * (p * 255) <= 2 * 100 * Round(p * 255, 100) + 100
  BY <1>1, RoundNear
<1> DEFINE raw == Round(p * 255, 100)
<1> HIDE DEF raw
<1>4. raw \in Nat /\ 200 * raw <= 510 * p + 100 /\ 510 * p <= 200 * raw + 100
  BY <1>3 DEF raw
<1>5. raw <= 255
  BY <1>4 DEF MinDuty, MaxDuty
<1>6. QED
  BY <1>2, <1>4, <1>5 DEF raw, MaxPwm

LEMMA RoundedBack ==
  ASSUME NEW p \in Nat, NEW raw \in Nat, NEW hundredfold, hundredfold = raw * 100,
         200 * raw <= 510 * p + 100, 510 * p <= 200 * raw + 100
  PROVE  Round(hundredfold, 255) = p
<1>1. hundredfold \in Nat
  OBVIOUS
<1>2. /\ Round(hundredfold, 255) \in Nat
      /\ 510 * Round(hundredfold, 255) <= 2 * hundredfold + 255
      /\ 2 * hundredfold <= 510 * Round(hundredfold, 255) + 255
  BY <1>1, PercentNear
<1>3. QED
  BY <1>1, <1>2

(* set_duty_percent compares the duty it reads back with the one it wrote: *)
(* the PWM value in between loses nothing of a safe duty.                  *)
THEOREM RoundTrip == NothingLost
<1> SUFFICES ASSUME NEW p \in MinDuty..MaxDuty PROVE PwmToPercent(PercentToPwm(p)) = p
  BY DEF NothingLost
<1> DEFINE raw == PercentToPwm(p)
<1>1. raw \in 0..255 /\ 200 * raw <= 510 * p + 100 /\ 510 * p <= 200 * raw + 100
  BY PwmOfSafeDuty DEF MaxPwm
<1> HIDE DEF raw
<1>2. Round(raw * 100, 255) = p
  <2>1. p \in Nat /\ raw \in Nat
    BY <1>1 DEF MinDuty, MaxDuty
  <2>2. QED
    BY <1>1, <2>1, RoundedBack
<1>3. PwmToPercent(raw) = Clamp(Round(raw * 100, 255))
  BY <1>1 DEF PwmToPercent, Bounded, MaxPwm
<1>4. QED
  BY <1>2, <1>3 DEF raw, Clamp, MinDuty, MaxDuty

(* Two safe duties never share a PWM value, and the higher duty has the    *)
(* higher one.                                                             *)
THEOREM HigherDutyHigherPwm ==
  \A p, q \in MinDuty..MaxDuty : p < q => PercentToPwm(p) < PercentToPwm(q)
<1> SUFFICES ASSUME NEW p \in MinDuty..MaxDuty, NEW q \in MinDuty..MaxDuty, p < q
             PROVE  PercentToPwm(p) < PercentToPwm(q)
  OBVIOUS
<1> DEFINE low == PercentToPwm(p)
           high == PercentToPwm(q)
<1>1. low \in 0..255 /\ 200 * low <= 510 * p + 100
  BY PwmOfSafeDuty DEF MaxPwm
<1>2. high \in 0..255 /\ 510 * q <= 200 * high + 100
  BY PwmOfSafeDuty DEF MaxPwm
<1> HIDE DEF low, high
<1>3. low < high
  BY <1>1, <1>2 DEF MinDuty, MaxDuty
<1>4. QED
  BY <1>3 DEF low, high

-----------------------------------------------------------------------------
(* An operation.                                                           *)

(* op has the fields of NoOp; nothing is said of what is in op.paths.      *)
Shape(o) ==
    o = [kind |-> o.kind, duty |-> o.duty, before |-> o.before,
         readback |-> o.readback, paths |-> o.paths, target |-> o.target,
         fresh |-> o.fresh]

Files ==
    /\ pwm \in [Channel -> 0..255]
    /\ enable \in [Channel -> {"1", "2"}]
    /\ \A c \in Channel \ Switchable : enable[c] = "1"
    /\ present \subseteq Channel

BeforeWriting == {"discover", "read", "decide"}
Writing == {"discoverToWrite", "target", "writeEnable", "writePwm"}
AfterWriting == {"discoverBack", "readBack", "verify"}

Holds(c, duty) ==
    c \in Channel /\ pwm[c] = PercentToPwm(duty) /\ enable[c] = "1"

(* What makes AnswerMatchesFan and NoFalseMismatch inductive: the steps of *)
(* an operation from the decision to the answer, one by one.               *)
Progress ==
    /\ pc \in BeforeWriting => op.target = None
    /\ pc \in Writing \cup AfterWriting \cup {"answer"} => op.duty \in Decisions
    /\ pc = "writePwm" /\ op.fresh /\ op.target \in present => enable[op.target] = "1"
    /\ pc \in AfterWriting /\ op.fresh => Holds(op.target, op.duty)
    /\ pc = "answer" /\ op.fresh /\ op.target # None => Holds(op.target, op.duty)

OperationInv == Shape(op) /\ Files /\ wanted \in Decisions /\ Progress

LEMMA SafeDecision ==
  ASSUME NEW duty \in Decisions
  PROVE  /\ PercentToPwm(duty) \in 0..255
         /\ PwmToPercent(PercentToPwm(duty)) = duty
<1>1. duty \in MinDuty..MaxDuty
  BY HwmonConstants
<1>2. QED
  BY <1>1, PwmOfSafeDuty, RoundTrip DEF NothingLost, MaxPwm

LEMMA NoOpShape == Shape(NoOp)
BY DEF Shape, NoOp

-----------------------------------------------------------------------------
(* The steps.                                                              *)

(* Steps that look at files and change none.                               *)
LEMMA LookingKeeps ==
  ASSUME OperationInv, UNCHANGED <<hwVars, wanted>>,
         Shape(op'), op'.duty = op.duty, op'.target = op.target, op'.fresh = op.fresh,
         \/ pc \in BeforeWriting /\ pc' \in BeforeWriting
         \/ pc \in AfterWriting /\ pc' \in AfterWriting
  PROVE  OperationInv'
<1>1. Files' /\ Holds(op.target, op.duty)' = Holds(op.target, op.duty)
  BY DEF OperationInv, Files, Holds, hwVars
<1>2. Progress'
  BY DEF OperationInv, Progress, Holds, hwVars, BeforeWriting, Writing, AfterWriting
<1>3. QED
  BY <1>1, <1>2 DEF OperationInv

LEMMA EndingKeeps ==
  ASSUME OperationInv, UNCHANGED <<hwVars, wanted>>, op' = NoOp, pc' = "idle"
  PROVE  OperationInv'
<1>1. Files' /\ Progress'
  BY DEF OperationInv, Files, hwVars, Progress, BeforeWriting, Writing, AfterWriting
<1>2. QED
  BY <1>1, NoOpShape DEF OperationInv, Shape

LEMMA BeginKeeps ==
  ASSUME OperationInv, NEW kind, Begin(kind) PROVE OperationInv'
<1>1. op' = [NoOp EXCEPT !.kind = kind] /\ pc' = "discover" /\ UNCHANGED <<hwVars, wanted>>
  BY DEF Begin
<1>2. Shape(op') /\ op'.target = None
  BY <1>1 DEF NoOp, Shape
<1>3. Files' /\ Progress'
  BY <1>1, <1>2
     DEF OperationInv, Files, hwVars, Progress, BeforeWriting, Writing, AfterWriting
<1>4. QED
  BY <1>1, <1>2, <1>3 DEF OperationInv

LEMMA StatusKeeps ==
  ASSUME OperationInv, DiscoverToRead \/ ReadFirst \/ ReadNext \/ ReadNone
  PROVE  OperationInv'
<1>0. Shape(op)
  BY DEF OperationInv
<1>1. ASSUME NEW raw, Reading(raw), pc \in {"read", "readBack"}
      PROVE  /\ Shape(op') /\ op'.duty = op.duty /\ op'.target = op.target
             /\ op'.fresh = op.fresh
             /\ \/ pc \in BeforeWriting /\ pc' \in BeforeWriting
                \/ pc \in AfterWriting /\ pc' \in AfterWriting
  <2>1. \/ op' = [op EXCEPT !.before = raw, !.paths = {}]
        \/ op' = [op EXCEPT !.readback = raw, !.paths = {}]
    BY <1>1 DEF Reading
  <2>2. Shape(op') /\ op'.duty = op.duty /\ op'.target = op.target /\ op'.fresh = op.fresh
    BY <1>0, <2>1 DEF Shape
  <2>3. QED
    BY <1>1, <2>2 DEF Reading, BeforeWriting, AfterWriting
<1>2. CASE DiscoverToRead
  <2>1. op' = [op EXCEPT !.paths = present]
    BY <1>2 DEF DiscoverToRead
  <2>2. Shape(op') /\ op'.duty = op.duty /\ op'.target = op.target /\ op'.fresh = op.fresh
    BY <1>0, <2>1 DEF Shape
  <2>3. QED
    BY <1>2, <2>2, LookingKeeps DEF DiscoverToRead, BeforeWriting, AfterWriting
<1>3. CASE ReadFirst
  BY <1>1, <1>3, LookingKeeps DEF ReadFirst
<1>4. CASE ReadNext
  <2>1. op' = [op EXCEPT !.paths = op.paths \ {First(op.paths)}]
    BY <1>4 DEF ReadNext
  <2>2. Shape(op') /\ op'.duty = op.duty /\ op'.target = op.target /\ op'.fresh = op.fresh
    BY <1>0, <2>1 DEF Shape
  <2>3. QED
    BY <1>4, <2>2, LookingKeeps DEF ReadNext, BeforeWriting, AfterWriting
<1>5. CASE ReadNone
  BY <1>1, <1>5, LookingKeeps DEF ReadNone
<1>6. QED
  BY <1>2, <1>3, <1>4, <1>5

LEMMA DecideKeeps == ASSUME OperationInv, Decide PROVE OperationInv'
<1>0. Shape(op) /\ wanted \in Decisions /\ op.target = None
  BY DEF OperationInv, Progress, Decide, BeforeWriting
<1>1. /\ op' = [op EXCEPT !.duty = wanted] /\ pc' \in {"discoverToWrite", "answer"}
      /\ UNCHANGED <<hwVars, wanted>>
  BY DEF Decide
<1>2. Shape(op') /\ op'.duty \in Decisions /\ op'.target = None
  BY <1>0, <1>1 DEF Shape
<1>3. Files' /\ Progress'
  BY <1>1, <1>2
     DEF OperationInv, Files, hwVars, Progress, BeforeWriting, Writing, AfterWriting
<1>4. QED
  BY <1>0, <1>1, <1>2, <1>3 DEF OperationInv

(* From the second look at the files to the write of pwm*_enable.          *)
LEMMA AimingKeeps ==
  ASSUME OperationInv, DiscoverToWrite \/ ChooseTarget \/ WriteEnable
  PROVE  OperationInv'
<1>0. Shape(op) /\ wanted \in Decisions /\ Files /\ (pc \in Writing => op.duty \in Decisions)
  BY DEF OperationInv, Progress
<1>1. CASE DiscoverToWrite
  <2>1. op' = [op EXCEPT !.paths = present] /\ pc' = "target" /\ pc = "discoverToWrite"
        /\ UNCHANGED <<hwVars, wanted>>
    BY <1>1 DEF DiscoverToWrite
  <2>2. Shape(op') /\ op'.duty = op.duty
    BY <1>0, <2>1 DEF Shape
  <2>3. Files' /\ Progress'
    BY <1>0, <2>1, <2>2 DEF Files, hwVars, Progress, BeforeWriting, Writing, AfterWriting
  <2>4. QED
    BY <1>0, <2>1, <2>2, <2>3 DEF OperationInv
<1>2. CASE ChooseTarget
  <2>1. PICK t : op' = [op EXCEPT !.target = t, !.paths = {}]
    BY <1>2 DEF ChooseTarget
  <2>2. pc = "target" /\ pc' = "writeEnable" /\ UNCHANGED <<hwVars, wanted>>
    BY <1>2 DEF ChooseTarget
  <2>3. Shape(op') /\ op'.duty = op.duty
    BY <1>0, <2>1 DEF Shape
  <2>4. Files' /\ Progress'
    BY <1>0, <2>2, <2>3 DEF Files, hwVars, Progress, BeforeWriting, Writing, AfterWriting
  <2>5. QED
    BY <1>0, <2>2, <2>3, <2>4 DEF OperationInv
<1>3. CASE WriteEnable
  <2>1. /\ pc = "writeEnable" /\ pc' = "writePwm" /\ UNCHANGED <<pwm, present, wanted, op>>
        /\ enable' = IF op.target \in Switchable \cap present
                     THEN [enable EXCEPT ![op.target] = "1"] ELSE enable
    BY <1>3 DEF WriteEnable
  <2>2. Files'
    BY <1>0, <2>1 DEF Files
  <2>3. op.target \in present => enable'[op.target] = "1"
    BY <1>0, <2>1 DEF Files
  <2>4. Progress'
    BY <1>0, <2>1, <2>3 DEF Progress, BeforeWriting, Writing, AfterWriting
  <2>5. QED
    BY <1>0, <2>1, <2>2, <2>4 DEF OperationInv, Shape
<1>4. QED
  BY <1>1, <1>2, <1>3

LEMMA WriteKeeps == ASSUME OperationInv, WritePwm PROVE OperationInv'
<1>0. /\ Shape(op) /\ wanted \in Decisions /\ Files /\ op.duty \in Decisions
      /\ op.target \in present /\ (op.fresh => enable[op.target] = "1")
  BY DEF OperationInv, Progress, WritePwm, Writing
<1>1. /\ pwm' = [pwm EXCEPT ![op.target] = PercentToPwm(op.duty)]
      /\ pc' = "discoverBack" /\ UNCHANGED <<enable, present, wanted, op>>
  BY DEF WritePwm
<1>2. op.target \in Channel /\ PercentToPwm(op.duty) \in 0..255
  BY <1>0, SafeDecision DEF Files
<1>3. Files' /\ pwm'[op.target] = PercentToPwm(op.duty)
  BY <1>0, <1>1, <1>2 DEF Files
<1>4. Progress'
  BY <1>0, <1>1, <1>2, <1>3
     DEF Progress, Holds, BeforeWriting, Writing, AfterWriting
<1>5. QED
  BY <1>0, <1>1, <1>3, <1>4 DEF OperationInv, Shape

LEMMA VerifyKeeps == ASSUME OperationInv, Verify PROVE OperationInv'
<1>1. CASE pc' = "answer" /\ UNCHANGED op
  <2>1. pc = "verify" /\ UNCHANGED <<hwVars, wanted>>
    BY DEF Verify
  <2>2. Files' /\ Progress'
    BY <1>1, <2>1 DEF OperationInv, Files, hwVars, Progress, Holds, BeforeWriting,
                      Writing, AfterWriting
  <2>3. QED
    BY <1>1, <2>1, <2>2 DEF OperationInv, Shape
<1>2. CASE Fail
  BY <1>2, EndingKeeps DEF Verify, Fail
<1>3. QED
  BY <1>1, <1>2 DEF Verify

(* A file taken away or reset is remembered by the operation: nothing is   *)
(* claimed of it any more.                                                 *)
LEMMA StaleKeeps ==
  ASSUME OperationInv, Files', op' = [op EXCEPT !.fresh = FALSE], UNCHANGED <<wanted, pc>>
  PROVE  OperationInv'
<1>1. Shape(op') /\ op'.fresh = FALSE /\ op'.duty = op.duty /\ op'.target = op.target
  BY DEF OperationInv, Shape
<1>2. Progress'
  BY <1>1 DEF OperationInv, Progress
<1>3. QED
  BY <1>1, <1>2 DEF OperationInv

LEMMA SurroundingsKeep ==
  ASSUME OperationInv, Firmware \/ Unload \/ Load \/ ChangeDecision
  PROVE  OperationInv'
<1>0. Files /\ Shape(op)
  BY DEF OperationInv
<1>1. CASE Firmware
  <2>1. PICK c \in present, raw \in Raws \cup {MaxPwm} :
          enable[c] = "2" /\ pwm' = [pwm EXCEPT ![c] = raw]
    BY <1>1 DEF Firmware
  <2>2. UNCHANGED <<enable, present, wanted, pc, op>>
    BY <1>1 DEF Firmware
  <2>3. Files'
    BY <1>0, <2>1, <2>2, HwmonConstants DEF Files, MaxPwm
  <2>4. \A t, duty : Holds(t, duty) => t \in Channel /\ pwm'[t] = PercentToPwm(duty)
                                    /\ enable[t] = "1"
    BY <1>0, <2>1 DEF Files, Holds
  <2>5. Progress'
    BY <2>2, <2>4 DEF OperationInv, Progress, Holds
  <2>6. QED
    BY <1>0, <2>2, <2>3, <2>5 DEF OperationInv, Shape
<1>2. CASE Unload
  <2>1. Files'
    BY <1>0, <1>2 DEF Unload, Files
  <2>2. QED
    BY <1>2, <2>1, StaleKeeps DEF Unload
<1>3. CASE Load
  <2>1. PICK c \in Channel \ present, raw \in Raws :
          /\ present' = present \cup {c}
          /\ pwm' = [pwm EXCEPT ![c] = raw]
          /\ enable' = [enable EXCEPT ![c] = IF c \in Switchable THEN "2" ELSE "1"]
    BY <1>3 DEF Load
  <2>2. raw \in 0..255
    BY HwmonConstants DEF MaxPwm
  <2>3. Files'
    BY <1>0, <2>1, <2>2 DEF Files
  <2>4. QED
    BY <1>3, <2>3, StaleKeeps DEF Load
<1>4. CASE ChangeDecision
  <2>1. wanted' \in Decisions /\ UNCHANGED <<hwVars, pc, op>>
    BY <1>4 DEF ChangeDecision
  <2>2. Files' /\ Progress'
    BY <2>1 DEF OperationInv, Files, hwVars, Progress, Holds
  <2>3. QED
    BY <1>0, <2>1, <2>2 DEF OperationInv, Shape
<1>5. QED
  BY <1>1, <1>2, <1>3, <1>4

LEMMA OperationInductive == OperationInv /\ [HwmonNext]_vars => OperationInv'
<1> SUFFICES ASSUME OperationInv, [HwmonNext]_vars PROVE OperationInv'
  OBVIOUS
<1>1. CASE Tick \/ Request
  BY <1>1, BeginKeeps DEF Tick, Request
<1>2. CASE NoTarget \/ WriteFails \/ Answer
  BY <1>2, EndingKeeps DEF NoTarget, WriteFails, Answer, Fail
<1>3. CASE UNCHANGED vars
  BY <1>3 DEF vars, hwVars, OperationInv, Shape, Files, Progress, Holds
<1>4. QED
  BY <1>1, <1>2, <1>3, StatusKeeps, DecideKeeps, AimingKeeps, WriteKeeps, VerifyKeeps,
     SurroundingsKeep DEF HwmonNext, Work

LEMMA OperationHolds == HwmonSpec => []OperationInv
<1>1. HwmonInit => OperationInv
  <2> SUFFICES ASSUME HwmonInit PROVE OperationInv
    OBVIOUS
  <2>1. Raws \subseteq 0..255
    BY HwmonConstants DEF MaxPwm
  <2>2. Files
    BY <2>1 DEF HwmonInit, Files
  <2>3. QED
    BY <2>2, NoOpShape
       DEF HwmonInit, OperationInv, Progress, BeforeWriting, Writing, AfterWriting
<1>2. QED
  BY <1>1, OperationInductive, PTL DEF HwmonSpec

-----------------------------------------------------------------------------
(* The theorems.                                                           *)

(* An operation that answers leaves the decided duty in the file it wrote, *)
(* in manual mode, whatever the machine's own control did meanwhile; only  *)
(* a file taken away or reset during the operation is excepted.            *)
THEOREM AnswerIsOnTheFan == HwmonSpec => []AnswerMatchesFan
<1>1. OperationInv => AnswerMatchesFan
  BY DEF OperationInv, Progress, Holds, AnswerMatchesFan
<1>2. QED
  BY <1>1, OperationHolds, PTL

(* A read-back of the value that was written never fails the comparison    *)
(* of percentages, for any duty the policy may decide.                     *)
THEOREM MismatchIsReal == HwmonSpec => []NoFalseMismatch
<1>1. OperationInv => NoFalseMismatch
  <2> SUFFICES ASSUME OperationInv, pc = "verify", op.readback = PercentToPwm(op.duty)
               PROVE  Verified(op.readback, op.duty)
    BY DEF NoFalseMismatch
  <2>1. op.duty \in Decisions
    BY DEF OperationInv, Progress, AfterWriting
  <2>2. op.readback \in Int /\ PwmToPercent(op.readback) = op.duty
    BY <2>1, SafeDecision
  <2>3. QED
    BY <2>2, HwmonConstants DEF Verified
<1>2. QED
  BY <1>1, OperationHolds, PTL

-----------------------------------------------------------------------------
(* Types.                                                                  *)

(* The first of several paths is one of them: there is no endless descent. *)
LEMMA FirstIsOne ==
  ASSUME NEW paths, paths \subseteq Channel, paths # {}
  PROVE  First(paths) \in paths
<1>1. paths \subseteq Nat
  BY HwmonConstants
<1>2. PICK c \in paths : \A d \in paths : <<d, c>> \notin OpToRel(<, Nat)
  BY <1>1, NatLessThanWellFounded, WFMin
<1>3. ASSUME NEW d \in paths, d < c PROVE FALSE
  <2>1. <<d, c>> \in Nat \X Nat /\ <<d, c>>[1] < <<d, c>>[2]
    BY <1>1, <1>3
  <2>2. <<d, c>> \in OpToRel(<, Nat)
    BY <2>1 DEF OpToRel
  <2>3. QED
    BY <1>2, <2>2
<1>4. ASSUME NEW d \in paths PROVE c <= d
  <2>1. c \in Nat /\ d \in Nat /\ ~(d < c)
    BY <1>1, <1>3
  <2>2. QED
    BY <2>1
<1>5. QED
  BY <1>4 DEF First, Min

BackendTyped ==
    /\ pwm \in [Channel -> 0..255]
    /\ enable \in [Channel -> {"1", "2"}]
    /\ present \subseteq Channel

LEMMA NoOpTyped == NoOp \in Operation
BY DEF NoOp, Operation, PwmOrNone

LEMMA OperationTyped ==
  ASSUME HwmonTypeOK, [HwmonNext]_vars PROVE op' \in Operation
<1>0. op \in Operation /\ BackendTyped /\ wanted \in Decisions
  BY DEF HwmonTypeOK, BackendTyped
<1>1. ASSUME NEW raw \in PwmOrNone, Reading(raw) PROVE op' \in Operation
  BY <1>0, <1>1 DEF Reading, Operation
<1>2. CASE Tick \/ Request
  <2>1. PICK kind \in {"tick", "control"} : op' = [NoOp EXCEPT !.kind = kind]
    BY <1>2 DEF Tick, Request, Begin
  <2>2. QED
    BY <2>1, NoOpTyped DEF Operation
<1>3. CASE DiscoverToRead \/ DiscoverToWrite
  BY <1>0, <1>3 DEF DiscoverToRead, DiscoverToWrite, Operation, BackendTyped
<1>4. CASE ReadFirst
  <2>1. First(op.paths) \in Channel
    BY <1>0, <1>4, FirstIsOne DEF ReadFirst, Operation
  <2>2. pwm[First(op.paths)] \in PwmOrNone
    BY <1>0, <2>1 DEF BackendTyped, PwmOrNone
  <2>3. QED
    BY <1>1, <1>4, <2>2 DEF ReadFirst
<1>5. CASE ReadNext
  BY <1>0, <1>5 DEF ReadNext, Operation
<1>6. CASE ReadNone
  BY <1>1, <1>6 DEF ReadNone, PwmOrNone
<1>7. CASE Decide
  BY <1>0, <1>7 DEF Decide, Operation
<1>8. CASE ChooseTarget
  <2>1. PICK t \in IF StillThere # {} THEN {First(StillThere)} ELSE present :
          op' = [op EXCEPT !.target = t, !.paths = {}]
    BY <1>8 DEF ChooseTarget
  <2>2. StillThere \subseteq Channel
    BY <1>0 DEF StillThere, Operation
  <2>3. t \in Channel
    BY <1>0, <2>1, <2>2, FirstIsOne DEF BackendTyped
  <2>4. QED
    BY <1>0, <2>1, <2>3 DEF Operation
<1>9. CASE NoTarget \/ WriteFails \/ Verify \/ Answer
  BY <1>0, <1>9, NoOpTyped DEF NoTarget, WriteFails, Verify, Answer, Fail
<1>10. CASE Unload \/ Load
  BY <1>0, <1>10 DEF Unload, Load, Operation
<1>11. CASE WriteEnable \/ WritePwm \/ Firmware \/ ChangeDecision \/ UNCHANGED vars
  BY <1>0, <1>11 DEF WriteEnable, WritePwm, Firmware, ChangeDecision, vars
<1>12. QED
  BY <1>2, <1>3, <1>4, <1>5, <1>6, <1>7, <1>8, <1>9, <1>10, <1>11 DEF HwmonNext, Work

LEMMA PlaceTyped ==
  ASSUME HwmonTypeOK, [HwmonNext]_vars
  PROVE  /\ pc' \in {"idle", "discover", "read", "decide", "discoverToWrite", "target",
                     "writeEnable", "writePwm", "discoverBack", "readBack", "verify",
                     "answer"}
         /\ budget' \in [faults : 0..MaxFaults, reloads : 0..MaxReloads]
<1>1. UNCHANGED budget \/ Spend("faults") \/ Spend("reloads")
  BY DEF HwmonNext, Work, Tick, Request, Begin, DiscoverToRead, ReadFirst, ReadNext,
         ReadNone, Decide, DiscoverToWrite, ChooseTarget, NoTarget, WriteEnable, WritePwm,
         WriteFails, Verify, Answer, Firmware, Unload, Load, ChangeDecision, vars
<1>2. budget' \in [faults : 0..MaxFaults, reloads : 0..MaxReloads]
  BY <1>1, HwmonConstants DEF HwmonTypeOK, Spend
<1>3. pc' \in {"idle", "discover", "read", "decide", "discoverToWrite", "target",
               "writeEnable", "writePwm", "discoverBack", "readBack", "verify", "answer"}
  BY DEF HwmonTypeOK, HwmonNext, Work, Tick, Request, Begin, DiscoverToRead, Reading,
         ReadFirst, ReadNext, ReadNone, Decide, DiscoverToWrite, ChooseTarget, NoTarget,
         WriteEnable, WritePwm, WriteFails, Fail, Verify, Answer, Firmware, Unload, Load,
         ChangeDecision, vars
<1>4. QED
  BY <1>2, <1>3

(* The backend's variables have their types for any number of files and    *)
(* whatever drivers and machine do; every duty and raw value an operation  *)
(* carries is one that was decided or read.                                *)
THEOREM HwmonTypeCorrect == HwmonSpec => []HwmonTypeOK
<1>1. HwmonInit => HwmonTypeOK
  <2> SUFFICES ASSUME HwmonInit PROVE HwmonTypeOK
    OBVIOUS
  <2>1. pwm \in [Channel -> 0..255]
    BY HwmonConstants DEF HwmonInit, MaxPwm
  <2>2. budget \in [faults : 0..MaxFaults, reloads : 0..MaxReloads]
    BY HwmonConstants DEF HwmonInit
  <2>3. QED
    BY <2>1, <2>2, NoOpTyped DEF HwmonInit, HwmonTypeOK
<1>2. HwmonTypeOK /\ OperationInv' /\ [HwmonNext]_vars => HwmonTypeOK'
  <2> SUFFICES ASSUME HwmonTypeOK, OperationInv', [HwmonNext]_vars PROVE HwmonTypeOK'
    OBVIOUS
  <2>1. QED
    BY OperationTyped, PlaceTyped DEF HwmonTypeOK, OperationInv, Files
<1>3. QED
  BY <1>1, <1>2, OperationHolds, PTL DEF HwmonSpec

=============================================================================
