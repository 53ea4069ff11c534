----------------------------- MODULE EngineCalls -----------------------------
(***************************************************************************)
(* The gateway's calls to an engine that comes and goes, ThreatEngineClient *)
(* over ModelArtifacts.  Only a serving engine answers, and it, too, may be *)
(* late or fail: one event loop carries /score and the Kafka consumer.     *)
(***************************************************************************)
EXTENDS ModelArtifacts, ThreatEngineClient

vars == <<artifacts, breaker>>
-----------------------------------------------------------------------------
TypeOK == ArtifactsTypeOK /\ BreakerTypeOK

Init == ArtifactsInit /\ BreakerInit

\* A call comes to an end of its own.  The time limit, a 5xx or a connection
\* that breaks ends it whatever the engine is doing.
End(c) ==
  \/ engine = "serving" /\ \E accepted \in BOOLEAN : Answer(c, accepted)
  \/ NoAnswer(c)

EngineStep == ArtifactsNext /\ UNCHANGED breaker
ClientStep ==
  /\ \/ \E c \in Calls : Subscribe(c) \/ End(c) \/ Cancel(c)
     \/ Wait
  /\ UNCHANGED artifacts

Next == EngineStep \/ ClientStep

\* An engine that is launched gets on with loading; calls keep coming and end,
\* at the time limit if not before, and time passes.  Nothing in the repository
\* launches an engine again, and a training need not come, nor end.
Fairness ==
  /\ WF_vars(Load /\ UNCHANGED breaker)
  /\ WF_vars(Serve /\ UNCHANGED breaker)
  /\ WF_vars(Wait /\ UNCHANGED artifacts)
  /\ \A c \in Calls : /\ WF_vars(Subscribe(c) /\ UNCHANGED artifacts)
                      /\ WF_vars(End(c) /\ UNCHANGED artifacts)

Spec == Init /\ [][Next]_vars /\ Fairness
-----------------------------------------------------------------------------
\* A call that the circuit takes notice of fails although the engine serves,
\* or a trial is given up.
Disturbance ==
  \E c \in Calls :
    \/ /\ engine = "serving" /\ circuit # "OPEN"
       /\ Answer(c, FALSE) \/ NoAnswer(c)
    \/ circuit = "HALF_OPEN" /\ Cancel(c)

\* After an outage, however it came about, the calls get through again without
\* anything being done to the gateway: if an engine that stopped is launched
\* again and finds its files readable, and from some time on it fails no call
\* and no trial is given up, the circuit closes for good.
CircuitClosesAgain ==
  /\ <>[]Readable
  /\ []<>(engine # "down")
  /\ <>[][~Disturbance]_vars
  => <>[](circuit = "CLOSED")
=============================================================================
