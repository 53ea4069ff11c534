-------------------------- MODULE ThreatEngineClient --------------------------
(***************************************************************************)
(* The gateway's ThreatEngineClient: calls to the threat engine under a    *)
(* time limit, behind resilience4j's circuit breaker.                      *)
(*                                                                         *)
(* The limit is inside the breaker, so running into it is a failure like   *)
(* any other; a call its caller gives up has no result and returns its     *)
(* permission.  A call that is not permitted is answered UNSCORED at once  *)
(* and changes nothing here.  The breaker remembers results, not calls: a  *)
(* call begun in one state of the circuit may end in another.              *)
(***************************************************************************)
EXTENDS Naturals, Sequences, FiniteSets

CONSTANTS
  Calls,            \* calls that may be under way at once
  WindowSize,       \* sliding-window-size
  MinimumCalls,     \* minimum-number-of-calls
  FailureRate,      \* failure-rate-threshold, in percent
  WaitOpen,         \* wait-duration-in-open-state, in units of time
  PermittedTrials   \* permitted-number-of-calls-in-half-open-state

\* As configured, fewer trials are permitted than results are asked for while
\* the circuit is closed (5 and 20), so a half-open circuit is judged with all
\* of its trials.
ASSUME BreakerAssumption ==
  /\ {WindowSize, MinimumCalls, PermittedTrials, WaitOpen} \subseteq Nat \ {0}
  /\ PermittedTrials <= MinimumCalls /\ MinimumCalls <= WindowSize
  /\ FailureRate \in 1 .. 100
  /\ IsFiniteSet(Calls)

VARIABLES
  circuit,      \* "CLOSED", "OPEN" or "HALF_OPEN"
  results,      \* in the window, the newest last: whether each call failed
  permits,      \* trials that may still begin, while HALF_OPEN
  waited,       \* how long the circuit has been open
  asking,       \* calls under way
  unanswered    \* history: calls without an answer since the last answer
                \* or the circuit's last change

breaker == <<circuit, results, permits, waited, asking, unanswered>>
-----------------------------------------------------------------------------
\* So many calls in a row without an answer are too many while CLOSED.
Tolerated ==
  LET half == (FailureRate * WindowSize + 99) \div 100 IN
    IF half > MinimumCalls THEN half ELSE MinimumCalls

\* Bound: unanswered stays there.
UnansweredCap == Tolerated + PermittedTrials

BreakerTypeOK ==
  /\ circuit \in {"CLOSED", "OPEN", "HALF_OPEN"}
  /\ results \in Seq(BOOLEAN) /\ Len(results) <= WindowSize
  /\ permits \in 0 .. PermittedTrials + Cardinality(Calls)
  /\ waited \in 0 .. WaitOpen
  /\ asking \subseteq Calls
  /\ unanswered \in 0 .. UnansweredCap

BreakerInit ==
  /\ circuit = "CLOSED" /\ results = <<>> /\ permits = 0 /\ waited = 0
  /\ asking = {} /\ unanswered = 0
-----------------------------------------------------------------------------
\* The circuit changes to c, with an empty window.
ChangeTo(c) ==
  /\ circuit' = c /\ results' = <<>> /\ waited' = 0 /\ unanswered' = 0

\* Mutant of Subscribe: a call that is not permitted renews the wait.
SubscribeRenewing(c) ==
  /\ c \notin asking
  /\ \/ /\ circuit = "OPEN" /\ 0 < waited /\ waited < WaitOpen
        /\ waited' = 0
        /\ UNCHANGED <<circuit, results, permits, asking, unanswered>>
     \/ /\ circuit = "CLOSED"
        /\ asking' = asking \cup {c}
        /\ UNCHANGED <<circuit, results, permits, waited, unanswered>>
     \/ /\ circuit = "OPEN" /\ waited = WaitOpen
        /\ ChangeTo("HALF_OPEN")
        /\ asking' = asking \cup {c} /\ permits' = PermittedTrials - 1
     \/ /\ circuit = "HALF_OPEN" /\ permits > 0
        /\ asking' = asking \cup {c} /\ permits' = permits - 1
        /\ UNCHANGED <<circuit, results, waited, unanswered>>

\* score() is subscribed to, and permitted.  The first call after the wait
\* half-opens the circuit.
Subscribe(c) ==
  /\ c \notin asking
  /\ asking' = asking \cup {c}
  /\ \/ /\ circuit = "CLOSED"
        /\ UNCHANGED <<circuit, results, permits, waited, unanswered>>
     \/ /\ circuit = "OPEN" /\ waited = WaitOpen
        /\ ChangeTo("HALF_OPEN")
        /\ permits' = PermittedTrials - 1
     \/ /\ circuit = "HALF_OPEN" /\ permits > 0
        /\ permits' = permits - 1
        /\ UNCHANGED <<circuit, results, waited, unanswered>>

\* As many results as the state of the circuit asks for before it judges.
Enough(window) ==
  Len(window) >= IF circuit = "CLOSED" THEN MinimumCalls ELSE PermittedTrials

TooManyFailed(window) ==
  Cardinality({i \in 1 .. Len(window) : window[i]}) * 100
    >= FailureRate * Len(window)

\* Mutant of Newest: the window never slides.
NewestAll(window, size) == window

\* The newest results, at most so many.
Newest(window, size) ==
  SubSeq(window, IF Len(window) > size THEN Len(window) - size + 1 ELSE 1,
         Len(window))

\* A call has ended, with or without an answer, and counts as failed or not.
\* An open circuit takes no notice.
OnResult(failed, answered) ==
  LET window == Newest(Append(results, failed), WindowSize)
      silent == IF answered THEN 0
                ELSE IF unanswered < UnansweredCap THEN unanswered + 1
                ELSE unanswered
  IN
    \/ /\ circuit = "OPEN"
       /\ unanswered' = silent
       /\ UNCHANGED <<circuit, results, waited>>
    \/ /\ circuit # "OPEN" /\ ~Enough(window)
       /\ results' = window /\ unanswered' = silent
       /\ UNCHANGED <<circuit, waited>>
    \/ /\ circuit # "OPEN" /\ Enough(window) /\ TooManyFailed(window)
       /\ ChangeTo("OPEN")
    \/ /\ circuit = "CLOSED" /\ Enough(window) /\ ~TooManyFailed(window)
       /\ results' = window /\ unanswered' = silent
       /\ UNCHANGED <<circuit, waited>>
    \/ /\ circuit = "HALF_OPEN" /\ Enough(window) /\ ~TooManyFailed(window)
       /\ ChangeTo("CLOSED")

\* The engine answers in time.  Its 422 on a signal it does not accept is an
\* error to the WebClient, and a failure.
Answer(c, accepted) ==
  /\ c \in asking
  /\ asking' = asking \ {c}
  /\ OnResult(~accepted, TRUE)
  /\ UNCHANGED permits

\* Mutant of NoAnswer: the limit is outside of the breaker, which sees the
\* call cancelled.
NoAnswerOutside(c) ==
  /\ c \in asking
  /\ asking' = asking \ {c}
  /\ permits' = IF circuit = "HALF_OPEN" THEN permits + 1 ELSE permits
  /\ unanswered' = IF unanswered < UnansweredCap THEN unanswered + 1
                   ELSE unanswered
  /\ UNCHANGED <<circuit, results, waited>>

\* The time limit, a refused connection, an error of the engine.
NoAnswer(c) ==
  /\ c \in asking
  /\ asking' = asking \ {c}
  /\ OnResult(TRUE, FALSE)
  /\ UNCHANGED permits

\* Mutant of Cancel: the permission is not returned.
CancelKeepingPermit(c) ==
  /\ c \in asking
  /\ asking' = asking \ {c}
  /\ UNCHANGED <<circuit, results, permits, waited, unanswered>>

\* The caller's request is gone: the permission is returned.
Cancel(c) ==
  /\ c \in asking
  /\ asking' = asking \ {c}
  /\ permits' = IF circuit = "HALF_OPEN" THEN permits + 1 ELSE permits
  /\ UNCHANGED <<circuit, results, waited, unanswered>>

Wait ==
  /\ circuit = "OPEN" /\ waited < WaitOpen
  /\ waited' = waited + 1
  /\ UNCHANGED <<circuit, results, permits, asking, unanswered>>

-----------------------------------------------------------------------------
(***************************************************************************)
(* Properties                                                              *)
(***************************************************************************)

\* A half-open circuit can always be decided: results that are in, calls
\* under way and trials still permitted add up to what it waits for, however
\* many calls are given up and in whatever state they began.
TrialsRemain ==
  circuit = "HALF_OPEN" =>
    permits + Cardinality(asking) + Len(results) >= PermittedTrials

\* "Stop calling it altogether": a silent engine keeps no circuit closed and
\* none half open.
SilenceOpensCircuit ==
  /\ circuit = "CLOSED" => unanswered < Tolerated
  /\ circuit = "HALF_OPEN" => unanswered < PermittedTrials
=============================================================================
