-------------------------- MODULE EngineCallsProofs --------------------------
(***************************************************************************)
(* Proofs about EngineCalls and the two modules it is made of, for any     *)
(* number of trainings, calls and kills and whatever the breaker's limits: *)
(* the types, that a half-open circuit can be decided, and that silence    *)
(* opens the circuit.                                                      *)
(***************************************************************************)
EXTENDS EngineCalls, FiniteSetTheorems, SequenceTheorems, TLAPS

-----------------------------------------------------------------------------
(***************************************************************************)
(* The models' files.                                                      *)
(***************************************************************************)

\* Trainings are numbers; a file is one of three.
LEMMA TrainingTypes ==
  /\ Trainings \subseteq Nat /\ 1 \in Trainings
  /\ File = {1, 2, 3} /\ MaxKills \in Nat
BY ArtifactAssumption DEF Trainings, File, Forest, Metadata

\* An image with or without a training has them.
LEMMA ArtifactsInitTypes == ArtifactsInit => ArtifactsTypeOK
<1> SUFFICES ASSUME ArtifactsInit PROVE ArtifactsTypeOK
  OBVIOUS
<1>1. loaded \in Seq(Trainings) /\ Len(loaded) <= 3
  BY EmptySeq DEF ArtifactsInit
<1>2. files \in [File -> Trainings \cup {Missing, Broken}]
  BY TrainingTypes DEF ArtifactsInit
<1>3. training \in Trainings /\ dump \in File \cup {0}
  BY TrainingTypes DEF ArtifactsInit
<1>4. engine = "down" /\ kills \in 0 .. MaxKills
  BY TrainingTypes DEF ArtifactsInit
<1>5. QED
  BY <1>1, <1>2, <1>3, <1>4 DEF ArtifactsTypeOK

\* Every step of a training or an engine keeps the types.
LEMMA ArtifactsTypes ==
  ASSUME ArtifactsTypeOK, ArtifactsNext PROVE ArtifactsTypeOK'
<1> USE TrainingTypes
<1> USE DEF ArtifactsNext, ArtifactsTypeOK, Train, OpenFile, WriteFile, Launch,
            Load, Serve, Kill
<1>1. files' \in [File -> Trainings \cup {Missing, Broken}]
  OBVIOUS
<1>2. training' \in Trainings /\ dump' \in File \cup {0}
  BY DEF Forest, Metadata
<1>3. engine' \in {"down", "loading", "serving"} /\ kills' \in 0 .. MaxKills
  OBVIOUS
<1>4. loaded' \in Seq(Trainings) /\ Len(loaded') <= 3
  <2>1. loaded \in Seq(Trainings) /\ Len(loaded) \in Nat /\ Len(loaded) <= 3
    OBVIOUS
  <2>2. CASE loaded' = loaded
    BY <2>1, <2>2
  <2>3. CASE loaded' = <<>>
    BY <2>3, EmptySeq
  <2>4. CASE /\ Len(loaded) < 3 /\ files[Len(loaded) + 1] \in Trainings
             /\ loaded' = Append(loaded, files[Len(loaded) + 1])
    BY <2>1, <2>4
  <2>5. QED
    BY <2>2, <2>3, <2>4
<1>5. QED
  BY <1>1, <1>2, <1>3, <1>4

-----------------------------------------------------------------------------
(***************************************************************************)
(* The breaker.                                                            *)
(***************************************************************************)

\* A half-open circuit gives no more permissions than there are calls for.
PermitsBounded ==
  circuit = "HALF_OPEN" =>
    permits + Cardinality(asking) <= PermittedTrials + Cardinality(Calls)

\* It is judged with the result it waits for.
Undecided == circuit = "HALF_OPEN" => Len(results) < PermittedTrials

\* The calls since the last answer are the newest in the window, and failed.
SilentTail ==
  circuit # "OPEN" =>
    /\ unanswered <= Len(results)
    /\ \A i \in 1 .. Len(results) :
         i > Len(results) - unanswered => results[i] = TRUE

BreakerInv ==
  /\ BreakerTypeOK /\ PermitsBounded /\ Undecided /\ SilentTail
  /\ TrialsRemain /\ SilenceOpensCircuit

\* The limits are numbers; as many silent calls as are tolerated fit into the
\* window, and are enough of it, even of a full one.
LEMMA BreakerBounds ==
  /\ WindowSize \in Nat /\ MinimumCalls \in Nat /\ PermittedTrials \in Nat
  /\ WaitOpen \in Nat /\ FailureRate \in 1 .. 100
  /\ 1 <= PermittedTrials /\ PermittedTrials <= MinimumCalls
  /\ Tolerated \in Nat /\ UnansweredCap \in Nat
  /\ MinimumCalls <= Tolerated /\ Tolerated <= WindowSize
  /\ FailureRate * WindowSize <= 100 * Tolerated
  /\ UnansweredCap = Tolerated + PermittedTrials
  /\ IsFiniteSet(Calls) /\ Cardinality(Calls) \in Nat
<1> DEFINE product == FailureRate * WindowSize
           half == (product + 99) \div 100
<1>1. /\ WindowSize \in Nat /\ MinimumCalls \in Nat /\ PermittedTrials \in Nat
      /\ WaitOpen \in Nat /\ FailureRate \in 1 .. 100
      /\ 1 <= PermittedTrials /\ PermittedTrials <= MinimumCalls
      /\ MinimumCalls <= WindowSize
  BY BreakerAssumption
<1>2. product \in Nat /\ product <= 100 * WindowSize
  BY <1>1
<1> HIDE DEF product
<1>3. /\ half \in Nat /\ product <= 100 * half
      /\ 100 * half <= product + 99
  BY <1>2
<1>4. half <= WindowSize
  BY <1>1, <1>2, <1>3
<1>5. Tolerated = IF half > MinimumCalls THEN half ELSE MinimumCalls
  BY DEF Tolerated, product
<1>6. /\ Tolerated \in Nat /\ MinimumCalls <= Tolerated
      /\ Tolerated <= WindowSize /\ product <= 100 * Tolerated
  <2> HIDE DEF half
  <2>1. CASE half > MinimumCalls
    BY <1>1, <1>2, <1>3, <1>4, <1>5, <2>1
  <2>2. CASE ~(half > MinimumCalls)
    BY <1>1, <1>2, <1>3, <1>4, <1>5, <2>2
  <2>3. QED
    BY <2>1, <2>2
<1>7. IsFiniteSet(Calls) /\ Cardinality(Calls) \in Nat
  BY BreakerAssumption, FS_CardinalityType
<1>8. UnansweredCap \in Nat /\ UnansweredCap = Tolerated + PermittedTrials
  BY <1>1, <1>6 DEF UnansweredCap
<1>9. QED
  BY <1>1, <1>6, <1>7, <1>8 DEF product

\* What sliding the window keeps.
LEMMA NewestKeeps ==
  ASSUME NEW window \in Seq(BOOLEAN), NEW size \in Nat, size > 0
  PROVE  LET kept == Newest(window, size)
             dropped == Len(window) - Len(kept) IN
           /\ kept \in Seq(BOOLEAN)
           /\ Len(kept) = IF Len(window) > size THEN size ELSE Len(window)
           /\ \A i \in 1 .. Len(kept) : kept[i] = window[i + dropped]
<1> DEFINE n == Len(window)
           m == IF n > size THEN n - size + 1 ELSE 1
           kept == SubSeq(window, m, n)
<1>1. n \in Nat
  OBVIOUS
<1> HIDE DEF n
<1>2. m \in Int /\ 1 <= m /\ m <= n + 1
  BY <1>1
<1>3. n - m + 1 = IF n > size THEN size ELSE n
  BY <1>1
<1>4. \A i \in m .. n : window[i] \in BOOLEAN
  BY <1>1, <1>2, ElementOfSeq DEF n
<1> HIDE DEF m
<1>5. /\ kept \in Seq(BOOLEAN)
      /\ Len(kept) = IF m <= n THEN n - m + 1 ELSE 0
      /\ \A i \in 1 .. n - m + 1 : kept[i] = window[m + i - 1]
  BY <1>1, <1>2, <1>4, SubSeqProperties
<1>6. Len(kept) = n - m + 1 /\ Len(kept) \in Nat
  BY <1>1, <1>2, <1>5
<1>7. \A i \in 1 .. Len(kept) : m + i - 1 = i + (n - Len(kept))
  BY <1>1, <1>2, <1>6
<1>8. \A i \in 1 .. Len(kept) : kept[i] = window[i + (n - Len(kept))]
  BY <1>5, <1>6, <1>7
<1>9. Newest(window, size) = kept
  BY DEF Newest, m, n
<1>10. QED
  BY <1>3, <1>5, <1>6, <1>8, <1>9 DEF n

\* n failures at the end of the window are at least n failures.
LEMMA FailedAtLeast ==
  ASSUME NEW window \in Seq(BOOLEAN), NEW n \in Nat, n <= Len(window),
         \A i \in 1 .. Len(window) : i > Len(window) - n => window[i] = TRUE
  PROVE  /\ Cardinality({i \in 1 .. Len(window) : window[i]}) \in Nat
         /\ Cardinality({i \in 1 .. Len(window) : window[i]}) >= n
<1> DEFINE len == Len(window)
           failed == {i \in 1 .. len : window[i]}
           last == len - n + 1 .. len
<1>1. len \in Nat
  OBVIOUS
<1>2. IsFiniteSet(1 .. len)
  BY <1>1, FS_Interval
<1>3. failed \in SUBSET (1 .. len)
  OBVIOUS
<1>4. IsFiniteSet(failed) /\ Cardinality(failed) \in Nat
  BY <1>2, <1>3, FS_Subset, FS_CardinalityType
<1>5. last \in SUBSET failed
  BY <1>1
<1>6. Cardinality(last) = n
  <2>1. len - n + 1 \in Int
    BY <1>1
  <2> HIDE DEF len
  <2>2. Cardinality(last)
          = IF len - n + 1 > len THEN 0 ELSE len - (len - n + 1) + 1
    BY <1>1, <2>1, FS_Interval
  <2>3. QED
    BY <1>1, <2>2
<1>7. Cardinality(last) <= Cardinality(failed)
  BY <1>4, <1>5, FS_Subset
<1>8. QED
  BY <1>4, <1>6, <1>7

\* A call more or less under way.
LEMMA AskingCounts ==
  ASSUME NEW S \in SUBSET Calls, NEW c \in Calls
  PROVE  /\ Cardinality(S) \in Nat /\ Cardinality(S) <= Cardinality(Calls)
         /\ c \notin S => Cardinality(S \cup {c}) = Cardinality(S) + 1
         /\ c \in S => /\ Cardinality(S \ {c}) = Cardinality(S) - 1
                       /\ Cardinality(S \ {c}) \in Nat
<1>1. IsFiniteSet(S) /\ Cardinality(S) <= Cardinality(Calls)
  BY BreakerBounds, FS_Subset
<1>2. Cardinality(S) \in Nat
  BY <1>1, FS_CardinalityType
<1>3. c \notin S => Cardinality(S \cup {c}) = Cardinality(S) + 1
  BY <1>1, FS_AddElement
<1>4. IsFiniteSet(S \ {c})
      /\ (c \in S => Cardinality(S \ {c}) = Cardinality(S) - 1)
  BY <1>1, FS_RemoveElement
<1>5. Cardinality(S \ {c}) \in Nat
  BY <1>4, FS_CardinalityType
<1>6. QED
  BY <1>1, <1>2, <1>3, <1>4, <1>5

\* What a result does to the window while the circuit is not open: the calls
\* since the last answer stay its newest and failed ones, and if they are too
\* many for a closed circuit it opens.
LEMMA ResultInWindow ==
  ASSUME BreakerInv, circuit # "OPEN",
         NEW failed \in BOOLEAN, NEW silent \in Nat,
         silent = 0 \/ (failed = TRUE /\ silent <= unanswered + 1)
  PROVE  LET window == Newest(Append(results, failed), WindowSize) IN
           /\ window \in Seq(BOOLEAN) /\ Len(window) \in Nat
           /\ Len(window) <= WindowSize
           /\ circuit = "HALF_OPEN" => Len(window) = Len(results) + 1
           /\ silent <= Len(window)
           /\ \A i \in 1 .. Len(window) :
                i > Len(window) - silent => window[i] = TRUE
           /\ silent >= Tolerated /\ circuit = "CLOSED" =>
                Enough(window) /\ TooManyFailed(window)
<1> DEFINE n == Len(results)
           longer == Append(results, failed)
           window == Newest(longer, WindowSize)
<1> USE BreakerBounds
<1>1. /\ results \in Seq(BOOLEAN) /\ n \in Nat /\ n <= WindowSize
      /\ unanswered \in Nat /\ unanswered <= n
      /\ \A i \in 1 .. n : i > n - unanswered => results[i] = TRUE
      /\ circuit = "CLOSED" => unanswered < Tolerated
      /\ circuit = "HALF_OPEN" => unanswered < PermittedTrials
      /\ circuit = "HALF_OPEN" => n < PermittedTrials
      /\ circuit \in {"CLOSED", "HALF_OPEN"}
  BY DEF BreakerInv, BreakerTypeOK, SilentTail, SilenceOpensCircuit, Undecided
<1>2. /\ longer \in Seq(BOOLEAN) /\ Len(longer) = n + 1
      /\ \A i \in 1 .. n : longer[i] = results[i]
      /\ longer[n + 1] = failed
  BY <1>1, AppendProperties
<1> HIDE DEF n, longer
<1>3. /\ window \in Seq(BOOLEAN)
      /\ Len(window) = IF n + 1 > WindowSize THEN WindowSize ELSE n + 1
      /\ \A i \in 1 .. Len(window) :
           window[i] = longer[i + (n + 1 - Len(window))]
  <2>1. WindowSize \in Nat /\ WindowSize > 0
    OBVIOUS
  <2>2. /\ window \in Seq(BOOLEAN)
        /\ Len(window) = IF Len(longer) > WindowSize THEN WindowSize
                         ELSE Len(longer)
        /\ \A i \in 1 .. Len(window) :
             window[i] = longer[i + (Len(longer) - Len(window))]
    BY <1>2, <2>1, NewestKeeps
  <2> HIDE DEF window
  <2>3. Len(longer) = n + 1 /\ n \in Nat
    BY <1>1, <1>2
  <2>4. Len(window) \in Nat
    BY <2>2, <2>3
  <2>5. QED
    BY <2>2, <2>3, <2>4
<1> HIDE DEF window
<1>4. Len(window) \in Nat /\ Len(window) <= WindowSize /\ Len(window) <= n + 1
  BY <1>1, <1>3
<1>5. silent <= Len(window)
  BY <1>1, <1>3, <1>4
<1>6. ASSUME NEW i \in 1 .. Len(window), i > Len(window) - silent
      PROVE  window[i] = TRUE
  <2> DEFINE j == i + (n + 1 - Len(window))
  <2>1. j \in 1 .. n + 1 /\ j > n + 1 - silent
    BY <1>1, <1>4, <1>6
  <2>2. silent > 0 /\ failed = TRUE /\ j > n - unanswered
    BY <1>1, <1>4, <1>6, <2>1
  <2>3. longer[j] = TRUE
    <3>1. CASE j = n + 1
      BY <1>2, <2>2, <3>1
    <3>2. CASE j # n + 1
      <4>1. j \in 1 .. n
        BY <1>1, <2>1, <3>2
      <4>2. QED
        BY <1>1, <1>2, <2>2, <4>1
    <3>3. QED
      BY <3>1, <3>2
  <2>4. QED
    BY <1>3, <2>3
<1>7. ASSUME silent >= Tolerated, circuit = "CLOSED"
      PROVE  Enough(window) /\ TooManyFailed(window)
  <2> DEFINE number == Cardinality({i \in 1 .. Len(window) : window[i]})
  <2>1. number \in Nat /\ number >= silent
    BY <1>3, <1>5, <1>6, FailedAtLeast
  <2> HIDE DEF number
  <2>2. FailureRate * Len(window) <= FailureRate * WindowSize
    BY <1>4
  <2>3. FailureRate * Len(window) \in Nat /\ FailureRate * WindowSize \in Nat
    BY <1>4
  <2>4. number * 100 >= FailureRate * Len(window)
    BY <1>7, <2>1, <2>2, <2>3
  <2>5. Len(window) >= MinimumCalls
    BY <1>4, <1>5, <1>7
  <2>6. QED
    BY <1>7, <2>4, <2>5 DEF Enough, TooManyFailed, number
<1>8. circuit = "HALF_OPEN" => Len(window) = n + 1
  BY <1>1, <1>3
<1>9. QED
  BY <1>3, <1>4, <1>5, <1>6, <1>7, <1>8 DEF window, longer, n

\* A circuit that changes starts anew.
LEMMA ChangeKeepsInv ==
  ASSUME BreakerTypeOK, NEW c \in {"CLOSED", "OPEN", "HALF_OPEN"}, ChangeTo(c),
         permits' \in 0 .. PermittedTrials + Cardinality(Calls),
         asking' \in SUBSET Calls,
         c = "HALF_OPEN" =>
           /\ permits' + Cardinality(asking') >= PermittedTrials
           /\ permits' + Cardinality(asking')
                <= PermittedTrials + Cardinality(Calls)
  PROVE  BreakerInv'
<1> USE BreakerBounds
<1>1. /\ circuit' = c /\ results' = <<>> /\ waited' = 0 /\ unanswered' = 0
      /\ results' \in Seq(BOOLEAN) /\ Len(results') = 0
  BY EmptySeq DEF ChangeTo
<1>2. BreakerTypeOK'
  BY <1>1 DEF BreakerTypeOK
<1>3. PermitsBounded' /\ Undecided'
  BY <1>1 DEF PermitsBounded, Undecided
<1>4. SilentTail' /\ SilenceOpensCircuit'
  BY <1>1 DEF SilentTail, SilenceOpensCircuit
<1>5. TrialsRemain'
  <2>1. Cardinality(asking') \in Nat
    BY FS_Subset, FS_CardinalityType
  <2>2. QED
    BY <1>1, <2>1 DEF TrialsRemain
<1>6. QED
  BY <1>2, <1>3, <1>4, <1>5 DEF BreakerInv

\* A call that ends, with an answer or without one, keeps the invariant.
LEMMA ResultKeepsInv ==
  ASSUME BreakerInv, NEW c \in asking, asking' = asking \ {c},
         permits' = permits, NEW failed \in BOOLEAN, NEW answered \in BOOLEAN,
         answered = TRUE \/ failed = TRUE, OnResult(failed, answered)
  PROVE  BreakerInv'
<1> DEFINE window == Newest(Append(results, failed), WindowSize)
           silent == IF answered THEN 0
                     ELSE IF unanswered < UnansweredCap THEN unanswered + 1
                     ELSE unanswered
<1> USE BreakerBounds
<1>1. /\ circuit \in {"CLOSED", "OPEN", "HALF_OPEN"}
      /\ results \in Seq(BOOLEAN) /\ Len(results) \in Nat
      /\ permits \in 0 .. PermittedTrials + Cardinality(Calls)
      /\ waited \in 0 .. WaitOpen /\ asking \in SUBSET Calls /\ c \in Calls
      /\ unanswered \in 0 .. UnansweredCap
      /\ Len(results) <= WindowSize
      /\ BreakerTypeOK
  BY DEF BreakerInv, BreakerTypeOK
<1>2. asking' \in SUBSET Calls /\ Cardinality(asking) \in Nat
      /\ Cardinality(asking') = Cardinality(asking) - 1
      /\ Cardinality(asking') \in Nat
      /\ Cardinality(asking) <= Cardinality(Calls)
  BY <1>1, AskingCounts
<1>3. silent \in 0 .. UnansweredCap
      /\ (silent = 0 \/ (failed = TRUE /\ silent <= unanswered + 1))
  <2>1. CASE answered = TRUE
    BY <2>1
  <2>2. CASE answered = FALSE
    <3>1. failed = TRUE
      BY <2>2
    <3>2. silent = IF unanswered < UnansweredCap THEN unanswered + 1
                   ELSE unanswered
      BY <2>2
    <3>3. QED
      BY <1>1, <3>1, <3>2
  <2>3. QED
    BY <2>1, <2>2
<1>4. circuit # "OPEN" =>
        /\ window \in Seq(BOOLEAN) /\ Len(window) \in Nat
        /\ Len(window) <= WindowSize
        /\ circuit = "HALF_OPEN" => Len(window) = Len(results) + 1
        /\ silent <= Len(window)
        /\ \A i \in 1 .. Len(window) :
             i > Len(window) - silent => window[i] = TRUE
        /\ silent >= Tolerated /\ circuit = "CLOSED" =>
             Enough(window) /\ TooManyFailed(window)
  <2>1. silent \in Nat
    BY <1>3
  <2> HIDE DEF silent
  <2>2. QED
    BY <1>3, <2>1, ResultInWindow
<1>5. \/ circuit = "OPEN" /\ unanswered' = silent
         /\ UNCHANGED <<circuit, results, waited>>
      \/ circuit # "OPEN" /\ ~Enough(window)
         /\ results' = window /\ unanswered' = silent
         /\ UNCHANGED <<circuit, waited>>
      \/ circuit # "OPEN" /\ ChangeTo("OPEN")
      \/ circuit = "CLOSED" /\ Enough(window) /\ ~TooManyFailed(window)
         /\ results' = window /\ unanswered' = silent
         /\ UNCHANGED <<circuit, waited>>
      \/ circuit = "HALF_OPEN" /\ ChangeTo("CLOSED")
  BY DEF OnResult
<1> HIDE DEF window, silent
<1>6. CASE circuit = "OPEN" /\ unanswered' = silent
           /\ UNCHANGED <<circuit, results, waited>>
  <2>1. BreakerTypeOK'
    BY <1>1, <1>2, <1>3, <1>6 DEF BreakerTypeOK
  <2>2. QED
    BY <1>6, <2>1 DEF BreakerInv, PermitsBounded, Undecided, SilentTail,
       TrialsRemain, SilenceOpensCircuit
<1>7. CASE circuit # "OPEN" /\ results' = window /\ unanswered' = silent
           /\ UNCHANGED <<circuit, waited>>
           /\ \/ ~Enough(window)
              \/ circuit = "CLOSED" /\ ~TooManyFailed(window)
  <2>1. BreakerTypeOK'
    BY <1>1, <1>2, <1>3, <1>4, <1>7 DEF BreakerTypeOK
  <2>2. SilentTail'
    BY <1>4, <1>7 DEF SilentTail
  <2>3. CASE circuit = "CLOSED"
    <3>1. silent < Tolerated
      BY <1>3, <1>4, <1>7, <2>3
    <3>2. QED
      BY <1>7, <2>1, <2>2, <2>3, <3>1 DEF BreakerInv, PermitsBounded,
         Undecided, TrialsRemain, SilenceOpensCircuit
  <2>4. CASE circuit = "HALF_OPEN"
    <3>1. Len(window) < PermittedTrials /\ Len(window) = Len(results) + 1
      BY <1>4, <1>7, <2>4 DEF Enough
    <3>2. PermitsBounded' /\ Undecided'
      BY <1>1, <1>2, <1>7, <2>4, <3>1
      DEF BreakerInv, PermitsBounded, Undecided
    <3>3. TrialsRemain'
      BY <1>1, <1>2, <1>7, <2>4, <3>1 DEF BreakerInv, TrialsRemain
    <3>4. SilenceOpensCircuit'
      BY <1>3, <1>4, <1>7, <2>4, <3>1 DEF SilenceOpensCircuit
    <3>5. QED
      BY <2>1, <2>2, <3>2, <3>3, <3>4 DEF BreakerInv
  <2>5. QED
    BY <1>1, <1>7, <2>3, <2>4
<1>8. CASE ChangeTo("OPEN") \/ ChangeTo("CLOSED")
  BY <1>1, <1>2, <1>8, ChangeKeepsInv
<1>9. QED
  BY <1>5, <1>6, <1>7, <1>8

\* Permitting a call, giving one up and letting time pass keep it, too.
LEMMA SubscribeKeepsInv ==
  ASSUME BreakerInv, NEW c \in Calls, Subscribe(c) PROVE BreakerInv'
<1> USE BreakerBounds
<1>1. /\ permits \in 0 .. PermittedTrials + Cardinality(Calls)
      /\ asking \in SUBSET Calls /\ BreakerTypeOK
  BY DEF BreakerInv, BreakerTypeOK
<1>2. /\ asking' = asking \cup {c} /\ c \notin asking
      /\ asking' \in SUBSET Calls
  BY <1>1 DEF Subscribe
<1>3. /\ Cardinality(asking) \in Nat
      /\ Cardinality(asking') = Cardinality(asking) + 1
      /\ Cardinality(asking') <= Cardinality(Calls)
  BY <1>1, <1>2, AskingCounts
<1>4. CASE circuit = "CLOSED"
           /\ UNCHANGED <<circuit, results, permits, waited, unanswered>>
  BY <1>2, <1>4 DEF BreakerInv, BreakerTypeOK, PermitsBounded, Undecided,
     SilentTail, TrialsRemain, SilenceOpensCircuit
<1>5. CASE ChangeTo("HALF_OPEN") /\ permits' = PermittedTrials - 1
  <2>1. /\ permits' \in 0 .. PermittedTrials + Cardinality(Calls)
        /\ permits' + Cardinality(asking') >= PermittedTrials
        /\ permits' + Cardinality(asking')
             <= PermittedTrials + Cardinality(Calls)
    BY <1>3, <1>5
  <2>2. QED
    BY <1>1, <1>2, <1>5, <2>1, ChangeKeepsInv
<1>6. CASE /\ circuit = "HALF_OPEN" /\ permits > 0 /\ permits' = permits - 1
           /\ UNCHANGED <<circuit, results, waited, unanswered>>
  <2>1. permits' \in 0 .. PermittedTrials + Cardinality(Calls)
    BY <1>1, <1>6
  <2>2. permits' + Cardinality(asking') = permits + Cardinality(asking)
    BY <1>1, <1>3, <1>6
  <2>3. BreakerTypeOK'
    BY <1>2, <1>6, <2>1 DEF BreakerInv, BreakerTypeOK
  <2>4. QED
    BY <1>6, <2>2, <2>3 DEF BreakerInv, PermitsBounded, Undecided,
       SilentTail, TrialsRemain, SilenceOpensCircuit
<1>7. QED
  BY <1>4, <1>5, <1>6 DEF Subscribe

LEMMA CancelKeepsInv ==
  ASSUME BreakerInv, NEW c \in Calls, Cancel(c) PROVE BreakerInv'
<1> USE BreakerBounds
<1>1. /\ permits \in 0 .. PermittedTrials + Cardinality(Calls)
      /\ asking \in SUBSET Calls
  BY DEF BreakerInv, BreakerTypeOK
<1>2. /\ asking' = asking \ {c} /\ c \in asking /\ asking' \in SUBSET Calls
      /\ UNCHANGED <<circuit, results, waited, unanswered>>
      /\ permits' = IF circuit = "HALF_OPEN" THEN permits + 1 ELSE permits
  BY <1>1 DEF Cancel
<1>3. /\ Cardinality(asking) \in Nat /\ Cardinality(asking') \in Nat
      /\ Cardinality(asking') = Cardinality(asking) - 1
  BY <1>1, <1>2, AskingCounts
<1>4. circuit = "HALF_OPEN" =>
        permits' + Cardinality(asking') = permits + Cardinality(asking)
  BY <1>1, <1>2, <1>3
<1>5. permits' \in 0 .. PermittedTrials + Cardinality(Calls)
  BY <1>1, <1>2, <1>3, <1>4 DEF BreakerInv, PermitsBounded
<1>6. BreakerTypeOK'
  BY <1>2, <1>5 DEF BreakerInv, BreakerTypeOK
<1>7. QED
  BY <1>2, <1>4, <1>6 DEF BreakerInv, PermitsBounded, Undecided, SilentTail,
     TrialsRemain, SilenceOpensCircuit

LEMMA WaitKeepsInv == ASSUME BreakerInv, Wait PROVE BreakerInv'
<1>1. BreakerTypeOK'
  BY BreakerBounds DEF Wait, BreakerInv, BreakerTypeOK
<1>2. QED
  BY <1>1 DEF Wait, BreakerInv, PermitsBounded, Undecided, SilentTail,
     TrialsRemain, SilenceOpensCircuit

-----------------------------------------------------------------------------
(***************************************************************************)
(* The two together.                                                       *)
(***************************************************************************)

\* The inductive invariant.
IInv == ArtifactsTypeOK /\ BreakerInv

LEMMA BreakerInitInv == BreakerInit => BreakerInv
<1> SUFFICES ASSUME BreakerInit PROVE BreakerInv
  OBVIOUS
<1> USE BreakerBounds
<1>1. results \in Seq(BOOLEAN) /\ Len(results) = 0
  BY EmptySeq DEF BreakerInit
<1>2. BreakerTypeOK
  BY <1>1 DEF BreakerInit, BreakerTypeOK
<1>3. QED
  BY <1>1, <1>2 DEF BreakerInit, BreakerInv, PermitsBounded, Undecided,
     SilentTail, TrialsRemain, SilenceOpensCircuit

\* The invariant is inductive.
LEMMA Inductive == IInv /\ [Next]_vars => IInv'
<1> SUFFICES ASSUME IInv, [Next]_vars PROVE IInv'
  OBVIOUS
<1>1. ArtifactsTypeOK /\ BreakerInv
  BY DEF IInv
<1>2. UNCHANGED artifacts => ArtifactsTypeOK'
  BY <1>1 DEF artifacts, ArtifactsTypeOK
<1>3. UNCHANGED breaker => BreakerInv'
  BY <1>1 DEF breaker, BreakerInv, BreakerTypeOK, PermitsBounded, Undecided,
     SilentTail, TrialsRemain, SilenceOpensCircuit
<1>4. CASE EngineStep
  BY <1>1, <1>3, <1>4, ArtifactsTypes DEF EngineStep, IInv
<1>5. CASE ClientStep
  <2> SUFFICES BreakerInv'
    BY <1>2, <1>5 DEF ClientStep, IInv
  <2>1. ASSUME NEW c \in Calls, End(c) PROVE BreakerInv'
    <3>1. ASSUME NEW accepted \in BOOLEAN, Answer(c, accepted)
          PROVE  BreakerInv'
      <4> DEFINE failed == ~accepted
      <4>1. /\ c \in asking /\ asking' = asking \ {c} /\ permits' = permits
            /\ OnResult(failed, TRUE)
        BY <3>1 DEF Answer
      <4>2. failed \in BOOLEAN
        OBVIOUS
      <4> HIDE DEF failed
      <4>3. QED
        BY <1>1, <4>1, <4>2, ResultKeepsInv
    <3>2. ASSUME NoAnswer(c) PROVE BreakerInv'
      <4>1. /\ c \in asking /\ asking' = asking \ {c} /\ permits' = permits
            /\ OnResult(TRUE, FALSE)
        BY <3>2 DEF NoAnswer
      <4>2. QED
        BY <1>1, <4>1, ResultKeepsInv
    <3>3. QED
      BY <2>1, <3>1, <3>2 DEF End
  <2>2. QED
    BY <1>1, <1>5, <2>1, SubscribeKeepsInv, CancelKeepsInv, WaitKeepsInv
    DEF ClientStep
<1>6. CASE UNCHANGED vars
  BY <1>2, <1>3, <1>6 DEF vars, IInv
<1>7. QED
  BY <1>4, <1>5, <1>6 DEF Next

LEMMA Invariant == Spec => []IInv
<1>1. Init => IInv
  BY ArtifactsInitTypes, BreakerInitInv DEF Init, IInv
<1>2. QED
  BY <1>1, Inductive, PTL DEF Spec

\* Whatever the trainings, the breaker's limits and the number of calls, both
\* sides keep their types.
THEOREM TypeCorrect == Spec => []TypeOK
<1>1. IInv => TypeOK
  BY DEF IInv, BreakerInv, TypeOK
<1>2. QED
  BY <1>1, Invariant, PTL

\* However calls are permitted, ended and given up, a half-open circuit can
\* still be decided.
THEOREM TrialsRemainHolds == Spec => []TrialsRemain
<1>1. IInv => TrialsRemain
  BY DEF IInv, BreakerInv
<1>2. QED
  BY <1>1, Invariant, PTL

\* For every window, minimum, rate and number of trials, so many calls in a
\* row without an answer open the circuit.
THEOREM SilenceOpensCircuitHolds == Spec => []SilenceOpensCircuit
<1>1. IInv => SilenceOpensCircuit
  BY DEF IInv, BreakerInv
<1>2. QED
  BY <1>1, Invariant, PTL
=============================================================================
