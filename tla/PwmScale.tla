------------------------------ MODULE PwmScale ------------------------------
(***************************************************************************)
(* The two scales a fan's speed is given in: percent of full duty, which   *)
(* the policy decides in, and the raw PWM value of a hwmon file and of the *)
(* /set_pwm route (clamp_percent, percent_to_pwm and pwm_to_percent of     *)
(* truefan_control/ast2600.py).                                            *)
(***************************************************************************)
EXTENDS Integers

MinDuty == 22
MaxDuty == 100
PwmLevels == 256
MaxPwm == 255

Clamp(percent) ==
    IF percent < MinDuty THEN MinDuty
    ELSE IF percent > MaxDuty THEN MaxDuty ELSE percent

Bounded(raw) == IF raw < 0 THEN 0 ELSE IF raw > MaxPwm THEN MaxPwm ELSE raw

(* Python's round(n / d): to the nearest integer, halves to the even one.  *)
(* No n / d below comes nearer to a half, without being one, than 1/510,   *)
(* so that the floating-point division changes nothing.                    *)
RoundDown(n, d) == n \div d

Round(n, d) ==
    LET q == n \div d
        r == n % d
    IN  IF 2 * r < d \/ (2 * r = d /\ q % 2 = 0) THEN q ELSE q + 1

PercentToPwm(percent) == Round(Clamp(percent) * MaxPwm, 100)

PwmToPercent(raw) == Clamp(Round(Bounded(raw) * 100, MaxPwm))

(* set_duty_percent compares the percentage read back with the one it      *)
(* wrote as a PWM value: the way there and back loses no safe duty.        *)
NothingLost == \A p \in MinDuty..MaxDuty : PwmToPercent(PercentToPwm(p)) = p

=============================================================================
