------------------------------ MODULE Scoring ------------------------------
(***************************************************************************)
(* The score and the grade of a report (ScanReport.compute_overall,         *)
(* CheckResult.compute_grade), as the checks of the registry complete, in   *)
(* any order; a check that raises is left out of the report.                *)
(***************************************************************************)
EXTENDS Integers

CONSTANTS
    Check,       \* the registered checks
    SeverityOf,  \* the severity in each one's results
    Score,       \* the scores a check may give
    NoScore      \* of a check that is not in the report

Severity == {"critical", "high", "medium", "low", "info"}

VARIABLES
    checks,    \* report.checks: the score of each check in the report
    weighted,  \* the sum of scores times weights
    weights    \* the sum of weights

vars == <<checks, weighted, weights>>

TypeOK ==
    /\ checks \in [Check -> Score \cup {NoScore}]
    /\ weighted \in Nat
    /\ weights \in Nat

Init ==
    /\ checks = [c \in Check |-> NoScore]
    /\ weighted = 0
    /\ weights = 0

(* SEVERITY_WEIGHTS *)
Weight(severity) ==
    CASE severity = "critical" -> 5 [] severity = "high" -> 4
      [] severity = "medium" -> 3 [] severity = "low" -> 2 [] OTHER -> 1

(* Mutant: the divisor counts the checks.                                    *)
AddUnweighted(c, score) ==
    /\ checks[c] = NoScore
    /\ checks' = [checks EXCEPT ![c] = score]
    /\ weighted' = weighted + score * Weight(SeverityOf[c])
    /\ weights' = weights + 1

(* report.checks.append, and the check's part of the sums.                   *)
Add(c, score) ==
    /\ checks[c] = NoScore
    /\ checks' = [checks EXCEPT ![c] = score]
    /\ weighted' = weighted + score * Weight(SeverityOf[c])
    /\ weights' = weights + Weight(SeverityOf[c])

Next == \E c \in Check, score \in Score : Add(c, score)

Spec == Init /\ [][Next]_vars

-----------------------------------------------------------------------------
(* Mutant: the next integer, also of an exact quotient.                      *)
RoundUp(n, d) == (n \div d) + 1

(* Python's round of n / d: to the nearest, ties to even.                    *)
Round(n, d) ==
    LET down == n \div d
        rest == n % d
    IN  IF 2 * rest < d \/ (2 * rest = d /\ down % 2 = 0) THEN down ELSE down + 1

(* compute_overall; 0 for a report without checks.                           *)
Overall(n, d) == IF d = 0 THEN 0 ELSE Round(n, d)

(* compute_grade, as a rank: F, D, C, B, A.                                  *)
Grade(score) ==
    CASE score >= 90 -> 4 [] score >= 75 -> 3 [] score >= 60 -> 2
      [] score >= 40 -> 1 [] OTHER -> 0

InReport == {c \in Check : checks[c] # NoScore}

(* The weights and the rounding never make a report better than its best     *)
(* check or worse than its worst (compute_overall, then compute_grade).      *)
GradeWithinChecks ==
    InReport # {} =>
        /\ \E c \in InReport : Grade(checks[c]) <= Grade(Overall(weighted, weights))
        /\ \E c \in InReport : Grade(checks[c]) >= Grade(Overall(weighted, weights))

(* One more result pulls the score towards it and not past it: a good result *)
(* never costs a report points, rounding included.                           *)
PulledTowardsNewResult ==
    [][LET old == Overall(weighted, weights)
           new == Overall(weighted', weights')
       IN  \A c \in Check :
             checks[c] = NoScore /\ checks'[c] # NoScore /\ weights # 0 =>
                 \/ old <= new /\ new <= checks'[c]
                 \/ old >= new /\ new >= checks'[c]]_vars

=============================================================================
