---------------------------- MODULE AnomalyDetector ----------------------------
(***************************************************************************)
(* The anomaly detector: per metric a bounded history and a count of       *)
(* consecutive breaches, both kept across ticks, models and gaps.          *)
(*                                                                         *)
(* The arithmetic of _score (robust z, Tukey fences, EWMA chart) is a free *)
(* choice with the one fact the rest depends on: against a history without *)
(* any spread none of the three tests can fire.                            *)
(***************************************************************************)
EXTENDS BoundedQueue

CONSTANTS
  Tracked,     \* the metrics of _METRICS that are followed
  W,           \* history length
  WMin,        \* W_MIN: values seen before the first test
  NSustain     \* N_SUSTAIN: breaches in a row that make a pattern

VARIABLES
  hist,        \* per metric: the last W values
  consec       \* per metric: breaches in a row, saturating at NSustain

detectorVars == <<hist, consec>>

ASSUME DetectorAssumption ==
  W \in Nat \ {0} /\ WMin \in Nat \ {0} /\ NSustain \in Nat \ {0}

DetectorInit ==
  /\ hist = [k \in Tracked |-> <<>>] /\ consec = [k \in Tracked |-> 0]

Flat(past) == \A i \in DOMAIN past : past[i] = past[1]

MayBreach(past) == Len(past) >= WMin /\ ~Flat(past)

Scored(k) == Len(hist[k]) >= WMin

CountBreaches(breached) ==
  consec' = [k \in Tracked |->
               IF ~Scored(k) THEN consec[k]
               ELSE IF k \notin breached THEN 0
               ELSE IF consec[k] < NSustain THEN consec[k] + 1 ELSE NSustain]

(* Faulty form: an abnormal value is kept out of the baseline.             *)
EvaluateFreezing(values, breached) ==
  /\ \A k \in breached : MayBreach(hist[k])
  /\ hist' = [k \in Tracked |-> IF k \in breached THEN hist[k]
                                ELSE Push(hist[k], values[k], W)]
  /\ CountBreaches(breached)

(* evaluate: the test sees the history before the value is appended.       *)
Evaluate(values, breached) ==
  /\ \A k \in breached : MayBreach(hist[k])
  /\ hist' = [k \in Tracked |-> Push(hist[k], values[k], W)]
  /\ CountBreaches(breached)

(* What the tick reports of the metrics that breached in it.               *)
Pattern(k) == IF consec'[k] >= NSustain THEN "sustained" ELSE "spike"
===============================================================================
