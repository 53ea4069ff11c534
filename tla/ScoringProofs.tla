--------------------------- MODULE ScoringProofs ---------------------------
(***************************************************************************)
(* Proofs about Scoring, for every value of its constants: every range of  *)
(* training scores, every raw score and probability, every width of an     *)
(* int.                                                                    *)
(***************************************************************************)
EXTENDS Scoring, FiniteSetTheorems, TLAPS

\* A finite set of numbers has a greatest one.  Otherwise a smallest such set
\* would not have one, and without one of its elements it would be smaller.
LEMMA GreatestExists ==
  ASSUME NEW S \in SUBSET Int, IsFiniteSet(S), S # {}
  PROVE  \E x \in S : \A y \in S : x >= y
  <1> DEFINE HasGreatest(T) == \E x \in T : \A y \in T : x >= y
             Without == {T \in FiniteSubsetsOf(Int) :
                           T # {} /\ ~HasGreatest(T)}
  <1> SUFFICES ASSUME Without # {} PROVE FALSE
    BY DEF FiniteSubsetsOf
  <1>1. PICK T \in Without : \A U \in Without :
                               ~(<<U, T>> \in StrictSubsetOrdering(Int))
    BY FS_StrictSubsetOrderingWellFounded, WFMin
  <1>2. T \in SUBSET Int /\ IsFiniteSet(T) /\ T # {} /\ ~HasGreatest(T)
    BY DEF FiniteSubsetsOf
  <1>3. PICK t \in T : TRUE
    BY <1>2
  <1> DEFINE U == T \ {t}
  <1>4. U \in SUBSET Int /\ IsFiniteSet(U) /\ U # T
    BY <1>2, <1>3, FS_RemoveElement
  <1>5. <<U, T>> \in StrictSubsetOrdering(Int)
    BY <1>2, <1>4 DEF StrictSubsetOrdering
  <1>6. U = {} \/ HasGreatest(U)
    BY <1>1, <1>4, <1>5 DEF FiniteSubsetsOf
  <1>7. HasGreatest(T)
    <2>1. CASE U = {}
      BY <1>2, <1>3, <2>1
    <2>2. CASE HasGreatest(U)
      <3>1. PICK u \in U : \A y \in U : u >= y
        BY <2>2
      <3>2. t \in Int /\ u \in Int
        BY <1>2
      <3>3. CASE u >= t
        BY <1>2, <3>1, <3>3
      <3>4. CASE t > u
        <4>1. \A y \in T : t >= y
          BY <1>2, <3>1, <3>2, <3>4
        <4>2. QED
          BY <4>1
      <3>5. QED
        BY <3>2, <3>3, <3>4
    <2>3. QED
      BY <1>6, <2>1, <2>2
  <1>8. QED
    BY <1>2, <1>7

LEMMA MaxIs ==
  ASSUME NEW S \in SUBSET Int, IsFiniteSet(S), S # {}
  PROVE  Max(S) \in S /\ \A y \in S : Max(S) >= y
  BY GreatestExists DEF Max

\* What the inputs are made of.
LEMMA Inputs ==
  /\ \A n \in Streaks : n \in Nat
  /\ \A n \in Ages : n \in Int
  /\ \A n \in RawScores : n \in Int
  /\ \A n \in Probs : n \in Int
  /\ IntLimit \in Int
  <1>1. \A n \in Probs : n \in 0 .. 100
    BY ScoringAssumption
  <1> QED
    BY <1>1, ScoringAssumption

\* A cast to int keeps what fits into one.
LEMMA AsIntKeeps ==
  ASSUME NEW n \in Nat, n < IntLimit PROVE AsInt(n) = n
  BY ScoringAssumption DEF AsInt

\* Division by a positive number keeps the order.
LEMMA DivMono ==
  ASSUME NEW a \in Int, NEW b \in Int, NEW d \in Nat \ {0}, a <= b
  PROVE  a \div d <= b \div d
  OBVIOUS

LEMMA MaxPair ==
  ASSUME NEW a \in Int, NEW b \in Int
  PROVE  Max({a, b}) = IF a >= b THEN a ELSE b
  BY DEF Max

LEMMA MinPair ==
  ASSUME NEW a \in Int, NEW b \in Int
  PROVE  Min({a, b}) = IF a <= b THEN a ELSE b
  BY DEF Min

\* Clipping to 0 .. 100 ends between them and keeps the order.
Clip(n) == Max({0, Min({100, n})})

LEMMA ClipIs ==
  ASSUME NEW n \in Int
  PROVE  Clip(n) = IF n < 0 THEN 0 ELSE IF n > 100 THEN 100 ELSE n
  <1>1. Min({100, n}) = IF 100 <= n THEN 100 ELSE n
    BY MinPair
  <1>2. Min({100, n}) \in Int
    BY <1>1
  <1>3. Clip(n) = IF 0 >= Min({100, n}) THEN 0 ELSE Min({100, n})
    BY <1>2, MaxPair DEF Clip
  <1> QED
    BY <1>1, <1>3

\* _normalize_iso ends in 0 .. 1 ...
LEMMA NormalizeIsoType ==
  ASSUME NEW raw \in Int
  PROVE  NormalizeIso(raw) \in 0 .. 100
  <1>1. IsoMax - IsoMin \in Nat \ {0}
    BY ScoringAssumption
  <1> DEFINE n == ((IsoMax - raw) * 100) \div (IsoMax - IsoMin)
  <1>2. n \in Int
    BY <1>1, ScoringAssumption
  <1>3. NormalizeIso(raw) = Clip(n)
    BY DEF NormalizeIso, Clip
  <1> HIDE DEF n
  <1> QED
    BY <1>2, <1>3, ClipIs

\* ... and never rises with the raw score.
LEMMA NormalizeIsoAntitone ==
  ASSUME NEW r \in Int, NEW s \in Int, r <= s
  PROVE  NormalizeIso(s) <= NormalizeIso(r)
  <1> DEFINE d == IsoMax - IsoMin
             p == (IsoMax - r) * 100
             q == (IsoMax - s) * 100
  <1>1. d \in Nat \ {0} /\ p \in Int /\ q \in Int /\ q <= p
    BY ScoringAssumption
  <1>2. NormalizeIso(r) = Clip(p \div d) /\ NormalizeIso(s) = Clip(q \div d)
    BY DEF NormalizeIso, Clip
  <1> HIDE DEF d, p, q
  <1>3. p \div d \in Int /\ q \div d \in Int
    BY <1>1
  <1>4. q \div d <= p \div d
    BY <1>1, DivMono
  <1> DEFINE u == q \div d
             v == p \div d
  <1>5. Clip(u) <= Clip(v)
    <2>1. u \in Int /\ v \in Int /\ u <= v
      BY <1>3, <1>4
    <2> HIDE DEF u, v
    <2> QED
      BY <2>1, ClipIs
  <1> QED
    BY <1>2, <1>5

\* A cast to int ends in the ints.
LEMMA AsIntType ==
  ASSUME NEW n \in Int PROVE AsInt(n) \in -IntLimit .. IntLimit - 1
  <1> DEFINE width == 2 * IntLimit
             m == (n + IntLimit) % width
  <1>1. IntLimit \in Nat /\ width \in Nat \ {0} /\ n + IntLimit \in Int
    BY ScoringAssumption
  <1>2. m \in 0 .. width - 1
    <2> HIDE DEF width
    <2>1. QED
      BY <1>1
  <1>3. AsInt(n) = m - IntLimit
    BY DEF AsInt
  <1> HIDE DEF m
  <1>4. QED
    BY <1>1, <1>2, <1>3

\* Numbers with their ranges, as the gateway sends them.
Ranged(numbers, ranges) ==
  /\ IsFiniteSet(DOMAIN numbers)
  /\ \A f \in DOMAIN numbers :
       numbers[f] \in Int /\ ranges[f].lo \in Int /\ ranges[f].hi \in Int

Outside(v, range) == v < range.lo \/ v > range.hi

\* _numeric_field_anomaly of one field is positive exactly outside its range.
LEMMA DeviationPositive ==
  ASSUME NEW v, NEW range, v \in Int, range.lo \in Int, range.hi \in Int
  PROVE  /\ Deviation(v, range) \in Nat
         /\ Deviation(v, range) > 0 <=> Outside(v, range)
  <1> DEFINE outside == IF v < range.lo THEN range.lo - v
                        ELSE IF v > range.hi THEN v - range.hi ELSE 0
             span == range.hi - range.lo
  <1>1. /\ span \in Int /\ outside \in Nat
        /\ outside > 0 <=> Outside(v, range)
    BY DEF Outside
  <1>2. Deviation(v, range) =
          IF outside = 0 THEN 0
          ELSE IF span <= 0 THEN MostAnomalous
          ELSE (100 * outside + span - 1) \div span
    BY DEF Deviation
  <1> HIDE DEF outside, span
  <1>3. CASE outside = 0
    BY <1>1, <1>2, <1>3
  <1>4. CASE outside # 0 /\ span <= 0
    BY <1>1, <1>2, <1>4 DEF MostAnomalous
  <1>5. CASE outside # 0 /\ ~(span <= 0)
    <2> DEFINE dividend == 100 * outside + span - 1
    <2>1. span \in Nat \ {0} /\ dividend \in Int /\ span <= dividend
      BY <1>1, <1>5
    <2> HIDE DEF dividend
    <2>2. dividend \div span \in Int /\ span \div span <= dividend \div span
      BY <2>1, DivMono
    <2>3. span \div span = 1
      BY <2>1
    <2>4. QED
      BY <1>1, <1>2, <1>5, <2>2, <2>3 DEF dividend
  <1>6. QED
    BY <1>3, <1>4, <1>5

\* The deviations and the zero to begin with; which is the worst of them.
Deviations(numbers, ranges) ==
  {0} \cup {Deviation(numbers[f], ranges[f]) : f \in DOMAIN numbers}

LEMMA DeviationsAre ==
  ASSUME NEW numbers, NEW ranges, Ranged(numbers, ranges)
  PROVE  LET all == Deviations(numbers, ranges) IN
           /\ all \in SUBSET Nat
           /\ Max(all) \in all /\ \A d \in all : Max(all) >= d
           /\ NumericAnomaly(numbers, ranges)
                = IF Max(all) <= MostAnomalous THEN Max(all)
                  ELSE MostAnomalous
  <1> DEFINE deviation == [f \in DOMAIN numbers |->
                             Deviation(numbers[f], ranges[f])]
             image == {Deviation(numbers[f], ranges[f]) :
                         f \in DOMAIN numbers}
             all == Deviations(numbers, ranges)
  <1>1. \A f \in DOMAIN numbers : Deviation(numbers[f], ranges[f]) \in Nat
    BY DeviationPositive DEF Ranged
  <1>2. image \in SUBSET Nat
    BY <1>1
  <1>3. IsFiniteSet(image)
    <2>1. deviation \in Surjection(DOMAIN numbers, image)
      BY DEF Surjection
    <2>2. IsFiniteSet(DOMAIN numbers)
      BY DEF Ranged
    <2>3. QED
      BY <2>1, <2>2, FS_Surjection
  <1>4. all = image \cup {0}
    BY DEF Deviations
  <1> HIDE DEF image
  <1>5. IsFiniteSet(all) /\ all # {} /\ all \in SUBSET Nat
    BY <1>2, <1>3, <1>4, FS_AddElement
  <1>6. Max(all) \in all /\ \A d \in all : Max(all) >= d
    BY <1>5, MaxIs
  <1>7. NumericAnomaly(numbers, ranges) = Min({Max(all), MostAnomalous})
    BY DEF NumericAnomaly, Deviations
  <1> HIDE DEF all
  <1>8. Max(all) \in Int /\ MostAnomalous \in Int
    <2>1. Max(all) \in all
      BY <1>6
    <2>2. Max(all) \in Nat
      BY <1>5, <2>1
    <2>3. QED
      BY <2>2 DEF MostAnomalous
  <1>9. NumericAnomaly(numbers, ranges)
          = IF Max(all) <= MostAnomalous THEN Max(all) ELSE MostAnomalous
    BY <1>7, <1>8, MinPair
  <1>10. QED
    BY <1>5, <1>6, <1>9 DEF all

\* The worst of them is positive exactly if a number is outside its range.
LEMMA AnomalyPositive ==
  ASSUME NEW numbers, NEW ranges, Ranged(numbers, ranges)
  PROVE  /\ NumericAnomaly(numbers, ranges) \in 0 .. MostAnomalous
         /\ NumericAnomaly(numbers, ranges) > 0 <=>
              \E f \in DOMAIN numbers : Outside(numbers[f], ranges[f])
  <1> DEFINE all == Deviations(numbers, ranges)
             worst == Max(all)
             anomaly == NumericAnomaly(numbers, ranges)
  <1>1. /\ all \in SUBSET Nat /\ worst \in all
        /\ \A d \in all : worst >= d
        /\ anomaly = IF worst <= MostAnomalous THEN worst ELSE MostAnomalous
    BY DeviationsAre
  <1> HIDE DEF worst, anomaly
  <1>2. anomaly \in 0 .. MostAnomalous /\ (anomaly > 0 <=> worst > 0)
    BY <1>1 DEF MostAnomalous
  <1>3. ASSUME worst > 0
        PROVE  \E f \in DOMAIN numbers : Outside(numbers[f], ranges[f])
    <2>1. PICK f \in DOMAIN numbers :
                 worst = Deviation(numbers[f], ranges[f])
      BY <1>1, <1>3 DEF Deviations
    <2>2. QED
      BY <1>3, <2>1, DeviationPositive DEF Ranged
  <1>4. ASSUME NEW f \in DOMAIN numbers, Outside(numbers[f], ranges[f])
        PROVE  worst > 0
    <2> DEFINE d == Deviation(numbers[f], ranges[f])
    <2>1. d \in Nat /\ d > 0
      BY <1>4, DeviationPositive DEF Ranged
    <2>2. d \in all
      BY DEF Deviations
    <2> HIDE DEF d
    <2>3. worst >= d /\ worst \in Nat
      BY <1>1, <2>2
    <2>4. QED
      BY <2>1, <2>3
  <1>5. QED
    BY <1>2, <1>3, <1>4 DEF anomaly

\* It is no worse without some of the fields.
LEMMA AnomalyOfPart ==
  ASSUME NEW numbers, NEW ranges, Ranged(numbers, ranges),
         NEW F \in SUBSET DOMAIN numbers
  PROVE  NumericAnomaly(numbers, ranges)
           >= NumericAnomaly(Restrict(numbers, F), Restrict(ranges, F))
  <1> DEFINE part == Restrict(numbers, F)
             partRanges == Restrict(ranges, F)
             all == Deviations(numbers, ranges)
             some == Deviations(part, partRanges)
  <1>1. /\ DOMAIN part = F
        /\ \A f \in F : part[f] = numbers[f] /\ partRanges[f] = ranges[f]
    BY DEF Restrict
  <1> HIDE DEF part, partRanges
  <1>2. Ranged(part, partRanges)
    BY <1>1, FS_Subset DEF Ranged
  <1>3. some \subseteq all
    BY <1>1 DEF Deviations
  <1>4. /\ all \in SUBSET Nat /\ Max(all) \in all
        /\ \A d \in all : Max(all) >= d
        /\ NumericAnomaly(numbers, ranges)
             = IF Max(all) <= MostAnomalous THEN Max(all) ELSE MostAnomalous
    BY DeviationsAre
  <1>5. /\ Max(some) \in some
        /\ NumericAnomaly(part, partRanges)
             = IF Max(some) <= MostAnomalous THEN Max(some)
               ELSE MostAnomalous
    BY <1>2, DeviationsAre
  <1>6. Max(all) \in Nat /\ Max(some) \in Nat /\ Max(all) >= Max(some)
    BY <1>3, <1>4, <1>5
  <1> HIDE DEF all, some
  <1>7. NumericAnomaly(numbers, ranges) >= NumericAnomaly(part, partRanges)
    BY <1>4, <1>5, <1>6 DEF MostAnomalous
  <1>8. QED
    BY <1>7 DEF part, partRanges

\* The range looked up for a field has numbers for its ends.
LEMMA BaselineForType ==
  ASSUME NEW endpoint, NEW field
  PROVE  /\ BaselineFor(endpoint, field).lo \in Int
         /\ BaselineFor(endpoint, field).hi \in Int
  <1> DEFINE found == {b \in NumericBaselines :
                         b.endpoint = endpoint /\ b.field = field}
             b == CHOOSE b \in found : TRUE
  <1>1. BaselineFor(endpoint, field) =
          IF found = {} THEN [lo |-> -Unbounded, hi |-> Unbounded]
          ELSE [lo |-> b.lo, hi |-> b.hi]
    BY DEF BaselineFor
  <1>2. CASE found = {}
    BY <1>1, <1>2 DEF Unbounded
  <1>3. CASE found # {}
    <2>1. b \in found
      BY <1>3
    <2>2. b \in Baseline
      BY <2>1, ScoringAssumption DEF NumericBaselines
    <2>3. QED
      BY <1>1, <1>3, <2>2 DEF Baseline
  <1>4. QED
    BY <1>2, <1>3

\* What buildSignal makes of a request is typed, and its numbers have ranges.
LEMMA SignalOfType ==
  ASSUME NEW r \in Request
  PROVE  /\ SignalOf(r).failedAuthStreak \in -IntLimit .. IntLimit - 1
         /\ SignalOf(r).sessionAge \in Int
         /\ DOMAIN SignalOf(r).numericFields
              = DOMAIN SignalOf(r).baselineRanges
         /\ Ranged(SignalOf(r).numericFields, SignalOf(r).baselineRanges)
  <1> DEFINE numbers == ExtractNumericFields(r.body)
             ranges == [f \in DOMAIN numbers |-> BaselineFor(r.endpoint, f)]
             age == r.age
             streak == r.streak
  <1>1. /\ SignalOf(r).failedAuthStreak = AsInt(streak)
        /\ SignalOf(r).sessionAge = SessionAge(age)
        /\ SignalOf(r).numericFields = numbers
        /\ SignalOf(r).baselineRanges = ranges
    BY DEF SignalOf
  <1>2. AsInt(streak) \in -IntLimit .. IntLimit - 1
    <2>1. streak \in Int
      BY Inputs DEF Request
    <2>2. QED
      BY <2>1, AsIntType
  <1>3. SessionAge(age) \in Int
    <2>1. age # NoToken => age \in Int
      BY Inputs DEF Request
    <2>2. QED
      BY <2>1 DEF SessionAge
  <1>4. /\ IsFiniteSet(DOMAIN numbers)
        /\ \A f \in DOMAIN numbers : numbers[f] \in Int
    <2> DEFINE body == r.body
               F == {f \in DOMAIN body : body[f] # Text}
    <2>1. CASE body = NotJson
      BY <2>1, FS_EmptySet DEF ExtractNumericFields
    <2>2. CASE body # NotJson
      <3>1. PICK G \in SUBSET Fields : body \in [G -> Numbers \cup {Text}]
        BY <2>2 DEF Request, Bodies
      <3>2. numbers = Restrict(body, F)
        BY <2>2 DEF ExtractNumericFields, RestrictValues
      <3>3. DOMAIN numbers = F /\ \A f \in F : numbers[f] = body[f]
        BY <3>2 DEF Restrict
      <3>4. F \in SUBSET Fields /\ \A f \in F : body[f] \in Numbers
        BY <3>1
      <3>5. IsFiniteSet(F)
        BY <3>4, ScoringAssumption, FS_Subset
      <3>6. QED
        BY <3>3, <3>4, <3>5, ScoringAssumption
    <2>3. QED
      BY <2>1, <2>2
  <1>5. \A f \in DOMAIN numbers : ranges[f].lo \in Int /\ ranges[f].hi \in Int
    BY BaselineForType
  <1>6. Ranged(numbers, ranges)
    BY <1>4, <1>5 DEF Ranged
  <1>7. DOMAIN numbers = DOMAIN ranges
    OBVIOUS
  <1>8. QED
    BY <1>1, <1>2, <1>3, <1>6, <1>7

\* Where a signal, its features, a verdict and a result come from.
Provenance ==
  /\ request \in Request
  /\ stage \in {"received", "built", "valid", "rejected", "extracted",
                "scored"}
  /\ stage = "received" => signal = None
  /\ stage # "received" => signal = SignalOf(request)
  /\ stage \in {"received", "built", "valid", "rejected"} => vector = None
  /\ vector # None =>
       vector.anomaly
         = NumericAnomaly(signal.numericFields, signal.baselineRanges)
  /\ stage = "rejected" => ~Acceptable(signal)
  /\ answer # None => answer \in [raw : RawScores, prob : Probs]
  /\ result # None =>
       /\ answer \in [raw : RawScores, prob : Probs]
       /\ result = ScoreResult(answer.raw, answer.prob)

LEMMA ProvenanceHolds == Spec => []Provenance
  <1>1. Init => Provenance
    BY DEF Init, Provenance
  <1>2. Provenance /\ [Next]_vars => Provenance'
    <2> SUFFICES ASSUME Provenance, [Next]_vars
                 PROVE  Provenance'
      OBVIOUS
    <2> USE DEF Provenance
    <2>1. CASE BuildSignal
      BY <2>1 DEF BuildSignal
    <2>2. CASE Validate
      BY <2>2 DEF Validate
    <2>3. CASE ExtractFeatures
      BY <2>3 DEF ExtractFeatures
    <2>4. ASSUME NEW raw \in RawScores, NEW prob \in Probs, Score(raw, prob)
          PROVE  Provenance'
      BY <2>4 DEF Score
    <2>5. CASE UNCHANGED vars
      BY <2>5 DEF vars, Acceptable
    <2> QED
      BY <2>1, <2>2, <2>3, <2>4, <2>5 DEF Next
  <1> QED
    BY <1>1, <1>2, PTL DEF Spec

\* Only a clock that runs ahead or a streak beyond an int makes the engine
\* reject what ZeroTrustFilter.buildSignal sent.
THEOREM BuiltSignalsAcceptedHolds == Spec => []BuiltSignalsAccepted
  <1>1. Provenance => BuiltSignalsAccepted
    <2> SUFFICES ASSUME Provenance, stage = "rejected",
                        ~(request.streak >= IntLimit)
                 PROVE  request.age # NoToken /\ request.age < 0
      BY DEF BuiltSignalsAccepted
    <2> DEFINE age == request.age
               streak == request.streak
    <2>1. streak \in Streaks /\ age \in Ages \cup {NoToken}
      BY DEF Provenance, Request
    <2>2. streak \in Nat /\ streak < IntLimit
      BY <2>1, Inputs
    <2>3. signal = SignalOf(request)
      BY DEF Provenance
    <2>4. /\ signal.failedAuthStreak = AsInt(streak)
          /\ signal.sessionAge = SessionAge(age)
      BY <2>3 DEF SignalOf
    <2>5. ~(signal.failedAuthStreak >= 0 /\ signal.sessionAge >= 0)
      BY DEF Provenance, Acceptable
    <2> HIDE DEF age, streak
    <2>6. AsInt(streak) = streak
      BY <2>2, AsIntKeeps
    <2>7. ~(SessionAge(age) >= 0)
      BY <2>2, <2>4, <2>5, <2>6
    <2>8. age # NoToken
      BY <2>7 DEF SessionAge
    <2>9. age \in Int
      BY <2>1, <2>8, Inputs
    <2>10. age < 0
      BY <2>7, <2>8, <2>9 DEF SessionAge
    <2> QED
      BY <2>8, <2>10 DEF age
  <1> QED
    BY <1>1, ProvenanceHolds, PTL

\* The decision never becomes milder when a request looks more anomalous and
\* more like an attack (EnsembleThreatModel.score).
THEOREM SeverityIsMonotoneHolds == Spec => []SeverityIsMonotone
  <1>1. Provenance => SeverityIsMonotone
    <2> SUFFICES ASSUME Provenance, result # None,
                        NEW raw \in RawScores, NEW prob \in Probs,
                        raw <= answer.raw, prob >= answer.prob
                 PROVE  Severity(ScoreResult(raw, prob).decision)
                          >= Severity(result.decision)
      BY DEF SeverityIsMonotone
    <2> DEFINE f == FinalScore(NormalizeIso(raw), prob)
               g == FinalScore(NormalizeIso(answer.raw), answer.prob)
    <2>1. /\ raw \in Int /\ answer.raw \in Int
          /\ prob \in Int /\ answer.prob \in Int
      BY Inputs DEF Provenance
    <2>2. /\ NormalizeIso(raw) \in Int /\ NormalizeIso(answer.raw) \in Int
          /\ NormalizeIso(answer.raw) <= NormalizeIso(raw)
      BY <2>1, NormalizeIsoType, NormalizeIsoAntitone
    <2>3. f \in Int /\ g \in Int /\ g <= f
      BY <2>1, <2>2 DEF FinalScore
    <2>4. /\ ScoreResult(raw, prob).decision = Decide(f)
          /\ result.decision = Decide(g)
      BY DEF Provenance, ScoreResult
    <2> HIDE DEF f, g
    <2>5. Severity(Decide(f)) >= Severity(Decide(g))
      BY <2>3 DEF Severity, Decide
    <2> QED
      BY <2>4, <2>5
  <1> QED
    BY <1>1, ProvenanceHolds, PTL

\* What a client is banned for has at least 10/13 of the supervised model.
BlockNeedsKnownPattern ==
  result # None /\ result.decision = "BLOCK" => 13 * result.xgboost >= 1000

\* EnsembleThreatModel's weights and threshold let no isolation score block by
\* itself, although model.py's docstring has the unsupervised model for
\* attacks "nobody has labeled yet".
THEOREM BlockNeedsKnownPatternHolds == Spec => []BlockNeedsKnownPattern
  <1>1. Provenance => BlockNeedsKnownPattern
    <2> SUFFICES ASSUME Provenance, result # None, result.decision = "BLOCK"
                 PROVE  13 * result.xgboost >= 1000
      BY DEF BlockNeedsKnownPattern
    <2> DEFINE i == NormalizeIso(answer.raw)
               p == answer.prob
    <2>1. answer.raw \in Int /\ p \in Int
      BY Inputs DEF Provenance
    <2>2. i \in 0 .. 100
      BY <2>1, NormalizeIsoType
    <2>3. result.xgboost = p /\ result.decision = Decide(FinalScore(i, p))
      BY DEF Provenance, ScoreResult
    <2> HIDE DEF i, p
    <2>4. 35 * i + 65 * p >= 8500
      BY <2>1, <2>2, <2>3 DEF Decide, FinalScore
    <2> QED
      BY <2>1, <2>2, <2>3, <2>4
  <1> QED
    BY <1>1, ProvenanceHolds, PTL

\* What has features has a signal of a request's.
LEMMA VectorHasSignal ==
  ASSUME Provenance, vector # None
  PROVE  /\ Ranged(signal.numericFields, signal.baselineRanges)
         /\ vector.anomaly
              = NumericAnomaly(signal.numericFields, signal.baselineRanges)
  <1>1. signal = SignalOf(request) /\ request \in Request
    BY DEF Provenance
  <1>2. QED
    BY <1>1, SignalOfType DEF Provenance

\* Signals, features and results keep their types: a cast streak fits an int,
\* the anomaly and all three scores stay within their scales.
THEOREM TypeCorrect == Spec => []TypeOK
  <1>1. Provenance => TypeOK
    <2> SUFFICES ASSUME Provenance PROVE TypeOK
      OBVIOUS
    <2>1. SignalTypeOK
      BY SignalOfType DEF Provenance, SignalTypeOK
    <2>2. vector # None => vector.anomaly \in 0 .. MostAnomalous
      BY VectorHasSignal, AnomalyPositive
    <2>3. ASSUME result # None
          PROVE  /\ result.isolation \in Percent
                 /\ result.xgboost \in Percent
                 /\ result.final \in FinalScores
                 /\ result.decision \in Decisions
      <3> DEFINE i == NormalizeIso(answer.raw)
                 p == answer.prob
      <3>1. answer \in [raw : RawScores, prob : Probs]
        BY <2>3 DEF Provenance
      <3>2. answer.raw \in Int /\ p \in Percent
        BY <3>1, ScoringAssumption DEF Percent
      <3>3. i \in Percent
        BY <3>2, NormalizeIsoType DEF Percent
      <3>4. /\ result.isolation = i /\ result.xgboost = p
            /\ result.final = FinalScore(i, p)
            /\ result.decision = Decide(FinalScore(i, p))
        BY <2>3 DEF Provenance, ScoreResult
      <3> HIDE DEF i, p
      <3>5. FinalScore(i, p) \in FinalScores
        BY <3>2, <3>3 DEF FinalScore, Percent, FinalScores
      <3>6. Decide(FinalScore(i, p)) \in Decisions
        BY DEF Decide, Decisions
      <3>7. QED
        BY <3>2, <3>3, <3>4, <3>5, <3>6
    <2>4. /\ request \in Request
          /\ stage \in {"received", "built", "valid", "rejected", "extracted",
                        "scored"}
          /\ answer # None => answer \in [raw : RawScores, prob : Probs]
      BY DEF Provenance
    <2>5. ResultTypeOK
      BY <2>3 DEF ResultTypeOK
    <2>6. QED
      BY <2>1, <2>2, <2>4, <2>5 DEF TypeOK
  <1>2. QED
    BY <1>1, ProvenanceHolds, PTL

\* For every set of fields, baselines and values, the engine finds a body
\* anomalous exactly if one of its numbers lies outside the range looked up
\* for it (_numeric_field_anomaly).
THEOREM AnomalousIffOutsideHolds == Spec => []AnomalousIffOutside
  <1>1. Provenance => AnomalousIffOutside
    <2> SUFFICES ASSUME Provenance, vector # None
                 PROVE  vector.anomaly > 0 <=>
                          \E f \in DOMAIN signal.numericFields :
                            Outside(signal.numericFields[f],
                                    signal.baselineRanges[f])
      BY DEF AnomalousIffOutside, Outside
    <2>1. QED
      BY VectorHasSignal, AnomalyPositive
  <1>2. QED
    BY <1>1, ProvenanceHolds, PTL

\* However many fields a body has, leaving some out never makes it more
\* anomalous: the engine takes the worst, not the mean.
THEOREM PaddingHidesNothingHolds == Spec => []PaddingHidesNothing
  <1>1. Provenance => PaddingHidesNothing
    <2> SUFFICES ASSUME Provenance, vector # None,
                        NEW F \in SUBSET DOMAIN signal.numericFields
                 PROVE  vector.anomaly
                          >= NumericAnomaly(
                               Restrict(signal.numericFields, F),
                               Restrict(signal.baselineRanges, F))
      BY DEF PaddingHidesNothing
    <2>1. QED
      BY VectorHasSignal, AnomalyOfPart
  <1>2. QED
    BY <1>1, ProvenanceHolds, PTL
=============================================================================
