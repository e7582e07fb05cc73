---------------------------- MODULE HealthServer ----------------------------
(* The health server of src/health-server.ts beside the life of its task:   *)
(* it listens from the start of the task until its resources are closed,    *)
(* answers every probe from a fresh clamd ping and from the readiness of    *)
(* the Kafka runner, and its close waits for the probes in progress.        *)
EXTENDS Lifecycle, ClamAvClient

VARIABLES
  probe,    \* what a client of /health is doing or was last told
  ready     \* KafkaConsumerRunner.ready

healthVars == <<probe, ready, clientVars>>
allVars == <<vars, healthVars>>

InitHealth ==
  /\ Init /\ ClientInit
  /\ probe = [p \in Pings |-> "idle"]
  /\ ready = FALSE

Tell(p, answer) == probe' = [probe EXCEPT ![p] = answer]

\* GET or HEAD /health: clamd is pinged on a connection of its own.
Probe(p) ==
  /\ app \in {"running"} \cup Initializing /\ probe[p] # "pinging"
  /\ Tell(p, "pinging") /\ OpenSocket(p)
  /\ UNCHANGED <<vars, ready>>

\* Mutant: the readiness of the runner is not looked at.
AnsweredUnready(p) ==
  /\ Alive /\ probe[p] = "pinging" /\ step[p] = "settled"
  /\ Tell(p, IF outcome[p] = "pong" THEN "up" ELSE "down")
  /\ UNCHANGED <<vars, ready, clientVars>>

\* 503 with clamd down, 200, or 503 with Kafka starting.
Answered(p) ==
  /\ Alive /\ probe[p] = "pinging" /\ step[p] = "settled"
  /\ Tell(p, IF outcome[p] # "pong" THEN "down" ELSE IF ready THEN "up" ELSE "starting")
  /\ UNCHANGED <<vars, ready, clientVars>>

\* A step of the task.  The runner is ready once it adopts its first stream;
\* the server is not closed while a probe waits for its answer.
TaskStep ==
  /\ Next
  /\ ready' = (ready \/ Adopt)
  /\ closes'["health"] = "done" /\ closes["health"] # "done" => \A p \in Pings : probe[p] # "pinging"
  /\ UNCHANGED <<probe, clientVars>>

Ping(p) == Alive /\ ClientStep(p) /\ UNCHANGED <<vars, probe, ready>>

NextHealth == TaskStep \/ \E p \in Pings : Probe(p) \/ Answered(p) \/ Ping(p)

SpecHealth == InitHealth /\ [][NextHealth]_allVars

\* The fairness of the task, of the ping deadline and of continuations.
FairSpecHealth ==
  /\ SpecHealth
  /\ Fairness
  /\ \A p \in Pings :
        /\ WF_allVars(Answered(p))
        /\ WF_allVars(Ping(p) /\ (Deadline(p) \/ Continuation(p)))

-----------------------------------------------------------------------------
(* Properties *)

\* A 200 says that clamd answered this very probe with PONG, that the topic
\* for failed callbacks exists and that the intake has run: a health check
\* cannot pass a task that could not do its work yet.
HealthyMeansServing ==
  \A p \in Pings : probe[p] = "up" => reply[p] = "PONG" /\ topic /\ offer = "adopted"

\* A probe is answered, or its task ends, even when clamd accepts the
\* connection and then says nothing.
ProbesAreAnswered ==
  \A p \in Pings : probe[p] = "pinging" ~> probe[p] # "pinging" \/ ~Alive
=============================================================================
