--------------------------- MODULE HealthAutomaton ---------------------------
(***************************************************************************)
(* health.py: how one probe changes the health of a firewall.  The two     *)
(* counters only matter up to the largest threshold and are saturated      *)
(* there; a threshold of 0 behaves like 1.                                 *)
(***************************************************************************)
EXTENDS Naturals

CONSTANTS WarningMisses, CriticalMisses, WarningRecovery, CriticalRecovery

ASSUME ThresholdAssumption ==
    /\ WarningMisses \in Nat \ {0} /\ CriticalMisses \in Nat \ {0}
    /\ WarningRecovery \in Nat \ {0} /\ CriticalRecovery \in Nat \ {0}

Larger(m, n) == IF m >= n THEN m ELSE n
MissedCap == Larger(WarningMisses, CriticalMisses)
SuccessCap == Larger(WarningRecovery, CriticalRecovery)

Health == [st : {"online", "warning", "offline"}, missed : 0..MissedCap,
           success : 0..SuccessCap]

\* enroll() creates the row.
NewHealth == [st |-> "online", missed |-> 0, success |-> 0]

Up(n, cap) == IF n < cap THEN n + 1 ELSE cap

\* The successes that bring a firewall back.
Required(st) == IF st = "offline" THEN CriticalRecovery ELSE WarningRecovery

\* Faulty variant: a miss leaves the successes counted so far.
MissedKeepsSuccess(s) ==
    LET n == Up(s.missed, MissedCap)
    IN  [st |-> IF n >= CriticalMisses THEN "offline"
                ELSE IF n >= WarningMisses THEN "warning" ELSE s.st,
         missed |-> n, success |-> s.success]

Missed(s) ==
    LET n == Up(s.missed, MissedCap)
    IN  [st |-> IF n >= CriticalMisses THEN "offline"
                ELSE IF n >= WarningMisses THEN "warning" ELSE s.st,
         missed |-> n, success |-> 0]

Answered(s) ==
    LET n == Up(s.success, SuccessCap)
    IN  [st |-> IF n >= Required(s.st) THEN "online" ELSE s.st,
         missed |-> 0, success |-> n]

\* next_health_state().
NextHealth(s, healthy) == IF healthy THEN Answered(s) ELSE Missed(s)

\* The status is never more or less alarming than the counters say: the
\* thresholds of consecutive misses are met exactly, and a firewall in trouble
\* has not answered often enough to be taken back.
Explained(s) ==
    /\ s.missed = 0 \/ s.success = 0
    /\ s.missed >= CriticalMisses => s.st = "offline"
    /\ s.missed \in WarningMisses..CriticalMisses - 1 => s.st = "warning"
    /\ s.st # "online" => s.success < Required(s.st)
=============================================================================
