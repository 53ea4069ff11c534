------------------------------- MODULE Scoring -------------------------------
(***************************************************************************)
(* How a request becomes a decision: the signal the gateway builds of it   *)
(* (ZeroTrustFilter.buildSignal), the engine's validation of that signal   *)
(* (RequestSignal), the features it derives and the ensemble's score.      *)
(*                                                                         *)
(* Floats are integers here: scores in hundredths, so that the weights     *)
(* 0.35 and 0.65 give a final score in ten-thousandths; deviations in      *)
(* hundredths, rounded up so that none vanishes.  What the two models      *)
(* answer is left to choice.                                               *)
(***************************************************************************)
EXTENDS Integers, FiniteSetsExt, Functions

CONSTANTS
  Endpoints, Fields,
  Numbers,      \* bound: numeric values a field may have
  Text,         \* a field's value that is not a number
  NotJson,      \* a body that is no JSON object, or no body
  None,         \* what is not there yet
  NoToken,      \* the age of the token on a public path
  Ages,         \* bound: ages of tokens, negative if issued by a fast clock
  Streaks,      \* bound: values of the failed-auth counter
  IntLimit,     \* 2^31: an int is in -IntLimit .. IntLimit - 1
  Configured,   \* the entries of firewall.numeric-baselines
  IsoMin,       \* the least and the greatest isolation score in training
  IsoMax,
  RawScores,    \* bound: isolation scores at run time
  Probs         \* bound: probabilities of an attack

\* An entry's key is bracketed if it is written "[endpoint:field]".
Baseline == [endpoint : Endpoints, field : Fields, lo : Int, hi : Int,
             bracketed : BOOLEAN]

ASSUME ScoringAssumption ==
  /\ IsFiniteSet(Fields) /\ Configured \subseteq Baseline
  /\ IntLimit \in Nat \ {0}
  /\ Numbers \subseteq Int /\ Ages \subseteq Int /\ Streaks \subseteq Nat
  /\ IsoMin \in Int /\ IsoMax \in Int /\ IsoMin < IsoMax
  /\ RawScores \subseteq Int /\ Probs \subseteq 0 .. 100

VARIABLES
  request,   \* what the gateway reads of the request
  stage,     \* how far it has come
  signal,    \* the signal the gateway sends, None before
  vector,    \* the engine's features
  answer,    \* what the two models return
  result     \* the engine's ScoreResult

vars == <<request, stage, signal, vector, answer, result>>
-----------------------------------------------------------------------------
Decisions == {"ALLOW", "CHALLENGE", "BLOCK"}

Bodies ==
  {NotJson} \cup UNION {[F -> Numbers \cup {Text}] : F \in SUBSET Fields}

Request == [endpoint : Endpoints, body : Bodies, age : Ages \cup {NoToken},
            streak : Streaks]

Unbounded == 1000000000
MostAnomalous == 1000      \* deviations are clipped at 10.0

SignalTypeOK ==
  signal # None =>
    /\ signal.failedAuthStreak \in -IntLimit .. IntLimit - 1
    /\ signal.sessionAge \in Int
    /\ DOMAIN signal.numericFields = DOMAIN signal.baselineRanges

Percent == 0 .. 100
FinalScores == 0 .. 10000  \* in hundredths of a point

ResultTypeOK ==
  result # None =>
    /\ result.isolation \in Percent
    /\ result.xgboost \in Percent
    /\ result.final \in FinalScores
    /\ result.decision \in Decisions

TypeOK ==
  /\ request \in Request
  /\ stage \in {"received", "built", "valid", "rejected", "extracted",
                "scored"}
  /\ SignalTypeOK
  /\ vector # None => vector.anomaly \in 0 .. MostAnomalous
  /\ answer # None => answer \in [raw : RawScores, prob : Probs]
  /\ ResultTypeOK

Init ==
  /\ request \in Request /\ stage = "received"
  /\ signal = None /\ vector = None /\ answer = None /\ result = None
-----------------------------------------------------------------------------
(***************************************************************************)
(* The gateway                                                             *)
(***************************************************************************)

\* A long cast to int.
AsInt(n) == ((n + IntLimit) % (2 * IntLimit)) - IntLimit

\* Mutant of SessionAge: the difference is taken the wrong way round.
SessionAgeReversed(age) == IF age = NoToken THEN 0 ELSE -age

SessionAge(age) == IF age = NoToken THEN 0 ELSE age

CountTopLevelFields(body) ==
  IF body = NotJson THEN 0 ELSE Cardinality(DOMAIN body)

ExtractNumericFields(body) ==
  IF body = NotJson THEN [f \in {} |-> 0]
  ELSE RestrictValues(body, LAMBDA v : v # Text)

\* Binding a map drops from a key that is not bracketed whatever is neither
\* a letter, a digit nor one of - and _, so also its slashes and its colon:
\* such a key is in the map, and no lookup of endpoint:field finds it.
NumericBaselines == {b \in Configured : b.bracketed}

BaselineFor(endpoint, field) ==
  LET found == {b \in NumericBaselines :
                  b.endpoint = endpoint /\ b.field = field}
  IN  IF found = {} THEN [lo |-> -Unbounded, hi |-> Unbounded]
      ELSE LET b == CHOOSE b \in found : TRUE IN [lo |-> b.lo, hi |-> b.hi]

\* The signal of a request, but for what is sent as a constant.
SignalOf(r) ==
  LET numbers == ExtractNumericFields(r.body) IN
    [failedAuthStreak |-> AsInt(r.streak),
     sessionAge |-> SessionAge(r.age),
     paramCount |-> CountTopLevelFields(r.body),
     baselineParamCount |-> 8,
     numericFields |-> numbers,
     baselineRanges |->
       [f \in DOMAIN numbers |-> BaselineFor(r.endpoint, f)]]

BuildSignal ==
  /\ stage = "received"
  /\ signal' = SignalOf(request)
  /\ stage' = "built"
  /\ UNCHANGED <<request, vector, answer, result>>
-----------------------------------------------------------------------------
(***************************************************************************)
(* The engine                                                              *)
(***************************************************************************)

\* RequestSignal's constraints on what the gateway does not send as a
\* constant.
Acceptable(s) == s.failedAuthStreak >= 0 /\ s.sessionAge >= 0

Validate ==
  /\ stage = "built"
  /\ stage' = IF Acceptable(signal) THEN "valid" ELSE "rejected"
  /\ UNCHANGED <<request, signal, vector, answer, result>>

\* Mutant of Deviation: values below the range are not looked at.
DeviationAbove(v, range) ==
  LET span == range.hi - range.lo
  IN  IF v <= range.hi THEN 0
      ELSE IF span <= 0 THEN MostAnomalous
      ELSE (100 * (v - range.hi) + span - 1) \div span

\* How far v lies outside its range, in hundredths of the range's width; a
\* range without width is as if it had next to none.
Deviation(v, range) ==
  LET outside == IF v < range.lo THEN range.lo - v
                 ELSE IF v > range.hi THEN v - range.hi ELSE 0
      span == range.hi - range.lo
  IN  IF outside = 0 THEN 0
      ELSE IF span <= 0 THEN MostAnomalous
      ELSE (100 * outside + span - 1) \div span

\* Mutant of NumericAnomaly: the mean of the deviations.
MeanAnomaly(numbers, ranges) ==
  LET total == MapThenSumSet(LAMBDA f : Deviation(numbers[f], ranges[f]),
                             DOMAIN numbers)
  IN  IF DOMAIN numbers = {} THEN 0
      ELSE Min({total \div Cardinality(DOMAIN numbers), MostAnomalous})

\* The worst field's deviation, clipped.
NumericAnomaly(numbers, ranges) ==
  LET worst == Max({0} \cup {Deviation(numbers[f], ranges[f]) :
                               f \in DOMAIN numbers})
  IN  Min({worst, MostAnomalous})

ExtractFeatures ==
  /\ stage = "valid"
  /\ vector' = [failedAuthStreak |-> signal.failedAuthStreak,
                paramCountDeviation |->
                  IF signal.paramCount < signal.baselineParamCount
                  THEN signal.baselineParamCount - signal.paramCount
                  ELSE signal.paramCount - signal.baselineParamCount,
                anomaly |-> NumericAnomaly(signal.numericFields,
                                           signal.baselineRanges),
                sessionAge |-> signal.sessionAge]
  /\ stage' = "extracted"
  /\ UNCHANGED <<request, signal, answer, result>>

\* Mutant of NormalizeIso: what was seen in training is taken for a bound.
NormalizeIsoUnclipped(raw) == ((IsoMax - raw) * 100) \div (IsoMax - IsoMin)

\* Lower raw scores are more anomalous; those beyond training are clipped.
NormalizeIso(raw) ==
  Max({0, Min({100, ((IsoMax - raw) * 100) \div (IsoMax - IsoMin)})})

\* Mutant of FinalScore: the isolation score counts the wrong way round.
FinalScoreFlipped(iso, xgb) == 35 * (100 - iso) + 65 * xgb

FinalScore(iso, xgb) == 35 * iso + 65 * xgb

Decide(final) ==
  IF final >= 8500 THEN "BLOCK"
  ELSE IF final >= 6000 THEN "CHALLENGE" ELSE "ALLOW"

ScoreResult(raw, prob) ==
  LET iso == NormalizeIso(raw)
      final == FinalScore(iso, prob)
  IN  [isolation |-> iso, xgboost |-> prob, final |-> final,
       decision |-> Decide(final)]

Score(raw, prob) ==
  /\ stage = "extracted"
  /\ answer' = [raw |-> raw, prob |-> prob]
  /\ result' = ScoreResult(raw, prob)
  /\ stage' = "scored"
  /\ UNCHANGED <<request, signal, vector>>

Next ==
  \/ BuildSignal \/ Validate \/ ExtractFeatures
  \/ \E raw \in RawScores, prob \in Probs : Score(raw, prob)

Spec == Init /\ [][Next]_vars
-----------------------------------------------------------------------------
(***************************************************************************)
(* Properties                                                              *)
(***************************************************************************)

\* The engine rejects no signal of the gateway's, and so no request goes
\* unscored and unaudited, but for a clock that runs ahead or a streak beyond
\* an int.
BuiltSignalsAccepted ==
  stage = "rejected" =>
    \/ request.age # NoToken /\ request.age < 0
    \/ request.streak >= IntLimit

\* A body is anomalous exactly if one of its numbers lies outside the range
\* that was looked up for it, on either side.
AnomalousIffOutside ==
  vector # None =>
    (vector.anomaly > 0 <=>
       \E f \in DOMAIN signal.numericFields :
         LET v == signal.numericFields[f] IN
           \/ v < signal.baselineRanges[f].lo
           \/ v > signal.baselineRanges[f].hi)

\* Padding hides nothing: with some of its fields left out, a body is never
\* more anomalous than it is.
PaddingHidesNothing ==
  vector # None =>
    \A F \in SUBSET DOMAIN signal.numericFields :
      vector.anomaly >= NumericAnomaly(Restrict(signal.numericFields, F),
                                       Restrict(signal.baselineRanges, F))

Severity(decision) ==
  CASE decision = "BLOCK" -> 2 [] decision = "CHALLENGE" -> 1 [] OTHER -> 0

\* The more anomalous and the more like an attack, the severer the decision,
\* also outside the range of scores seen in training.
SeverityIsMonotone ==
  result # None =>
    \A raw \in RawScores, prob \in Probs :
      raw <= answer.raw /\ prob >= answer.prob =>
        Severity(ScoreResult(raw, prob).decision) >= Severity(result.decision)
-----------------------------------------------------------------------------
(***************************************************************************)
(* What documentation and comments say; the run shows where the code does  *)
(* otherwise.                                                              *)
(***************************************************************************)

\* SecurityProperties: the configured entries are "expected numeric ranges",
\* and only "anything not listed here is treated as unconstrained".
BaselinesApply ==
  vector # None =>
    \A b \in Configured :
      /\ b.endpoint = request.endpoint
      /\ b.field \in DOMAIN signal.numericFields
      /\ signal.numericFields[b.field] \notin b.lo .. b.hi
      => vector.anomaly > 0
=============================================================================
