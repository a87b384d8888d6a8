------------------------------ MODULE Scoring ------------------------------
(***************************************************************************)
(* The assessment of an attempt from its total score and its number of     *)
(* choices (domain/scoring.go).                                            *)
(***************************************************************************)
EXTENDS Integers

CONSTANTS Attentive, Resilient  \* thresholds of the levels, in percent

(* What config.validate accepts.                                           *)
ASSUME ThresholdsAssumption ==
  /\ Attentive \in Nat /\ Resilient \in Nat
  /\ 0 < Attentive /\ Attentive < Resilient /\ Resilient <= 100

Level == {"resilient", "attentive", "vulnerable"}

(* Broken variant: cuts the fraction off.                                  *)
TruncatePercent(num, denom) == num \div denom

(* num / denom rounded to the nearest integer, a half upwards.             *)
RoundPercent(num, denom) == (2 * num + denom) \div (2 * denom)

LevelFor(percent) ==
  IF percent >= Resilient THEN "resilient"
  ELSE IF percent >= Attentive THEN "attentive"
  ELSE "vulnerable"

(* The share of the way from the worst total, -10n, to the best, 10n.      *)
Percent(score, n) ==
  LET minScore == -10 * n
      maxScore == 10 * n
  IN  RoundPercent((score - minScore) * 100, maxScore - minScore)

(* EvaluateTotals; an attempt without choices has the zero result.         *)
EvaluateTotals(score, n) ==
  IF n <= 0 THEN [percent |-> 0, level |-> ""]
            ELSE [percent |-> Percent(score, n), level |-> LevelFor(Percent(score, n))]

=============================================================================
