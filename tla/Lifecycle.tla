---------------------------- MODULE Lifecycle ----------------------------
(* The life of one task: runApplication (src/src/index.ts), the setup, stop *)
(* and close protocol of KafkaConsumerRunner (src/src/kafka.ts) and the     *)
(* start and stop of the resources around it.                               *)
(*                                                                          *)
(* A termination signal may arrive before, during and after the consumer's  *)
(* setup, between a promise settling and the code that awaits it; streams,  *)
(* consumers, handlers and resources may hang, fail or answer late.  Steps  *)
(* of the library (when consume() settles, when a stream or a consumer is   *)
(* closed) are nondeterministic; the process's own continuations are        *)
(* actions.  Another task of the service may start at the same time and     *)
(* create the dead-letter topic that both need.  What happens to single     *)
(* records is RecordScheduler's subject: here a record is one of the        *)
(* in-flight tasks the loop waits for.                                      *)
EXTENDS Naturals

CONSTANT MaxInFlight    \* maximumPending of processMessageStream

ASSUME InFlightAssumption == MaxInFlight \in Nat \ {0}

VARIABLES
  app,        \* where runApplication stands, the steps of initialize() included
  topic,      \* the dead-letter topic exists
  failed,     \* applicationFailure is set
  signalled,  \* shutdownPromise is set: a signal has been handled
  race,       \* what settled Promise.race([consumerRun, shutdownFailure, drainDeadline])
  run,        \* where KafkaConsumerRunner.run stands
  setup,      \* what settled the race for the first stream
  offer,      \* the consume() promise and, when it is not adopted, its stream
  stream,     \* this.stream with streamClosePromise
  consumer,   \* this.consumer with consumerClosePromise
  inflight,   \* tasks in the pending set
  closes      \* the close attempts that runApplication waits for

vars == <<app, topic, failed, signalled, race, run, setup, offer, stream, consumer, inflight, closes>>
taskVars == <<app, topic, failed, closes>>
runnerVars == <<setup, offer, stream, consumer, inflight>>

Initializing == {"listing", "creating", "relisting", "adminClosing", "notCreated", "notListed"}
Resources == {"kafka", "health", "deadLetters"}
Exited == {"exit0", "exit1"}
RunSettled == {"resolved", "rejected"}

TypeOK ==
  /\ app \in {"starting", "running", "closing"} \cup Initializing \cup Exited
  /\ topic \in BOOLEAN
  /\ failed \in BOOLEAN
  /\ signalled \in BOOLEAN
  /\ race \in {"open", "resolved", "rejected", "late", "stopFailed"}
  /\ run \in {"idle", "consuming", "processing", "draining", "settling", "discarding"} \cup RunSettled
  /\ setup \in {"none", "stream", "stopped", "error"}
  /\ offer \in {"none", "pending", "ready", "adopted", "rejected", "closing", "released"}
  /\ stream \in {"none", "open", "closing", "closed", "stuck"}
  /\ consumer \in {"none", "open", "closing", "closed", "stuck"}
  /\ inflight \in 0..MaxInFlight
  /\ closes \in [Resources -> {"none", "pending", "done", "failed"}]

Init ==
  /\ app = "starting" /\ topic \in BOOLEAN /\ failed = FALSE /\ signalled = FALSE
  /\ race = "open" /\ run = "idle" /\ setup = "none" /\ offer = "none"
  /\ stream = "none" /\ consumer = "none" /\ inflight = 0
  /\ closes = [r \in Resources |-> "none"]

Alive == app \notin Exited

(* stopRequested: set by stopIntake and by close. *)
StopRequested == signalled \/ ~(app \in {"starting", "running"} \cup Initializing)

Unsettled(s) == s \in {"open", "closing"}

(* run() settles; the race takes it only when nothing settled it before. *)
RunEnds(how) ==
  /\ run' = how
  /\ race' = IF race = "open" THEN how ELSE race

-----------------------------------------------------------------------------
(* Starting: the health server, then the dead-letter topic, then run().     *)

(* The cleanup starts every close at once; the Kafka runner closes its      *)
(* stream first and its consumer when that has settled.                     *)
BeginCleanUp(failure) ==
  /\ app' = "closing"
  /\ failed' = failure
  /\ closes' = [r \in Resources |-> "pending"]
  /\ stream' = IF stream = "open" THEN "closing" ELSE stream
  /\ UNCHANGED <<topic, signalled, race, run, setup, offer, consumer, inflight>>

HealthFails == app = "starting" /\ BeginCleanUp(TRUE)

(* Before run() a phase goes to the next one and the runner has nothing. *)
StartUp(from, to) ==
  /\ app = from /\ app' = to
  /\ UNCHANGED <<failed, closes, signalled, race, run, runnerVars>>

HealthStarts == StartUp("starting", "listing") /\ UNCHANGED topic

(* Another task of the service creates the topic, or a creation that seemed *)
(* to fail took effect.                                                     *)
TopicAppears ==
  /\ app \in {"starting"} \cup Initializing /\ ~topic
  /\ topic' = TRUE
  /\ UNCHANGED <<app, failed, closes, signalled, race, run, runnerVars>>

TopicListed == StartUp("listing", IF topic THEN "adminClosing" ELSE "creating") /\ UNCHANGED topic

TopicCreated == StartUp("creating", "adminClosing") /\ ~topic /\ topic' = TRUE

(* As CreationFails, without the second look at the topics. *)
CreationFailsForGood == StartUp("creating", "notCreated") /\ UNCHANGED topic

(* The creation fails, because the topic exists by now or for any other     *)
(* reason: the topics are listed again.                                     *)
CreationFails == StartUp("creating", "relisting") /\ UNCHANGED topic

TopicListedAgain ==
  StartUp("relisting", IF topic THEN "adminClosing" ELSE "notCreated") /\ UNCHANGED topic

ListingFails ==
  /\ \E from \in {"listing", "relisting"} : StartUp(from, "notListed")
  /\ UNCHANGED topic

(* The admin client has closed and the failure goes on, or it cannot close. *)
InitializeFails == app \in {"notCreated", "notListed", "adminClosing"} /\ BeginCleanUp(TRUE)

(* initialize() resolves and run() begins in the same job. *)
RunBegins ==
  /\ app = "adminClosing" /\ ~signalled
  /\ app' = "running"
  /\ run' = "consuming" /\ consumer' = "open" /\ offer' = "pending"
  /\ UNCHANGED <<topic, failed, closes, signalled, race, setup, stream, inflight>>

(* A signal came first: run() returns before it creates a consumer. *)
RunReturnsAtOnce ==
  /\ app = "adminClosing" /\ signalled
  /\ app' = "running"
  /\ RunEnds("resolved")
  /\ UNCHANGED <<topic, failed, closes, signalled, runnerVars>>

-----------------------------------------------------------------------------
(* The first stream: consume() races the stop request and a client error.   *)

Wins(outcome) == setup' = IF setup = "none" THEN outcome ELSE setup

(* The stream of a setup that was stopped is closed by closeLateStream as   *)
(* soon as it appears; before run() has seen the outcome it only waits.     *)
ConsumeResolves ==
  /\ Alive /\ offer = "pending"
  /\ Wins("stream")
  /\ offer' = IF setup = "stopped" /\ run # "consuming" THEN "closing" ELSE "ready"
  /\ UNCHANGED <<taskVars, signalled, race, run, stream, consumer, inflight>>

ConsumeRejects ==
  /\ Alive /\ offer = "pending"
  /\ Wins("error")
  /\ offer' = "rejected"
  /\ UNCHANGED <<taskVars, signalled, race, run, stream, consumer, inflight>>

(* consumerErrorListener before there is a stream. *)
ConsumerError ==
  /\ Alive /\ run = "consuming" /\ setup = "none" /\ consumer = "open"
  /\ setup' = "error"
  /\ UNCHANGED <<taskVars, signalled, race, run, offer, stream, consumer, inflight>>

(* As SetupStopped, without closeLateStream. *)
SetupStoppedForgetful ==
  /\ Alive /\ run = "consuming" /\ setup = "stopped"
  /\ RunEnds("resolved")
  /\ UNCHANGED <<taskVars, signalled, runnerVars>>

SetupStopped ==
  /\ Alive /\ run = "consuming" /\ setup = "stopped"
  /\ RunEnds("resolved")
  /\ offer' = IF offer = "ready" THEN "closing" ELSE offer
  /\ UNCHANGED <<taskVars, signalled, setup, stream, consumer, inflight>>

SetupThrows ==
  /\ Alive /\ run = "consuming" /\ setup = "error"
  /\ RunEnds("rejected")
  /\ UNCHANGED <<taskVars, signalled, runnerVars>>

(* As Adopt, without the second look at stopRequested. *)
AdoptUnchecked ==
  /\ Alive /\ run = "consuming" /\ setup = "stream"
  /\ run' = "processing" /\ offer' = "adopted" /\ stream' = "open"
  /\ UNCHANGED <<taskVars, signalled, race, setup, consumer, inflight>>

(* The stream won: it is adopted and the task reports that it is ready. *)
Adopt ==
  /\ Alive /\ run = "consuming" /\ setup = "stream" /\ ~StopRequested
  /\ run' = "processing" /\ offer' = "adopted" /\ stream' = "open"
  /\ UNCHANGED <<taskVars, signalled, race, setup, consumer, inflight>>

(* The stream won but a stop came before run() continued: close it again.   *)
Discard ==
  /\ Alive /\ run = "consuming" /\ setup = "stream" /\ StopRequested
  /\ run' = "discarding" /\ offer' = "adopted" /\ stream' = "closing"
  /\ UNCHANGED <<taskVars, signalled, race, setup, consumer, inflight>>

Discarded ==
  /\ Alive /\ run = "discarding" /\ ~Unsettled(stream)
  /\ RunEnds(IF stream = "closed" THEN "resolved" ELSE "rejected")
  /\ UNCHANGED <<taskVars, signalled, runnerVars>>

-----------------------------------------------------------------------------
(* Processing: the loop over the adopted stream, seen from outside.         *)

Admit ==
  /\ Alive /\ run = "processing" /\ Unsettled(stream) /\ inflight < MaxInFlight
  /\ inflight' = inflight + 1
  /\ UNCHANGED <<taskVars, signalled, race, run, setup, offer, stream, consumer>>

(* A task settles: handled, or skipped because the stop was requested. *)
Finish ==
  /\ Alive /\ inflight > 0
  /\ inflight' = inflight - 1
  /\ UNCHANGED <<taskVars, signalled, race, run, setup, offer, stream, consumer>>

(* As HandlerFails, counted by the rejection and by the cleanup after it. *)
HandlerFailsCountedTwice ==
  /\ Alive /\ inflight > 0 /\ run \in {"processing", "draining"}
  /\ inflight' = inflight - 2
  /\ run' = "settling"
  /\ UNCHANGED <<taskVars, signalled, race, setup, offer, stream, consumer>>

HandlerFails ==
  /\ Alive /\ inflight > 0 /\ run \in {"processing", "draining"}
  /\ inflight' = inflight - 1
  /\ run' = "settling"
  /\ UNCHANGED <<taskVars, signalled, race, setup, offer, stream, consumer>>

IterationEnds ==
  /\ Alive /\ run = "processing"
  /\ run' = "draining"
  /\ UNCHANGED <<taskVars, signalled, race, runnerVars>>

(* A fetch failed, a client error or a fatal heartbeat destroyed the stream. *)
IterationFails ==
  /\ Alive /\ run = "processing"
  /\ run' = "settling"
  /\ UNCHANGED <<taskVars, signalled, race, runnerVars>>

Drained ==
  /\ Alive /\ run = "draining" /\ inflight = 0
  /\ RunEnds("resolved")
  /\ UNCHANGED <<taskVars, signalled, runnerVars>>

(* The failure is thrown only when every task has settled. *)
Settled ==
  /\ Alive /\ run = "settling" /\ inflight = 0
  /\ RunEnds("rejected")
  /\ UNCHANGED <<taskVars, signalled, runnerVars>>

-----------------------------------------------------------------------------
(* A signal, and what the library answers.                                  *)

(* SIGTERM or SIGINT: stopIntake closes the adopted stream, or the consumer *)
(* when there is no stream yet, and wakes the setup race.                   *)
Signal ==
  /\ app \in {"starting", "running"} \cup Initializing /\ ~signalled
  /\ signalled' = TRUE
  /\ setup' = IF run = "consuming" /\ setup = "none" THEN "stopped" ELSE setup
  /\ stream' = IF stream = "open" THEN "closing" ELSE stream
  /\ consumer' = IF stream = "none" /\ consumer = "open" THEN "closing" ELSE consumer
  /\ UNCHANGED <<taskVars, race, run, offer, inflight>>

StreamCloses ==
  /\ Alive /\ stream = "closing"
  /\ stream' = "closed"
  /\ UNCHANGED <<taskVars, signalled, race, run, setup, offer, consumer, inflight>>

(* stopIntake rejects with the close it waits for; the close of a discarded *)
(* stream is awaited by run() instead.                                      *)
StreamCloseFails ==
  /\ Alive /\ stream = "closing"
  /\ stream' = "stuck"
  /\ race' = IF race = "open" /\ run # "discarding" THEN "stopFailed" ELSE race
  /\ UNCHANGED <<taskVars, signalled, run, setup, offer, consumer, inflight>>

LateStreamReleased ==
  /\ Alive /\ offer = "closing"
  /\ offer' = "released"
  /\ UNCHANGED <<taskVars, signalled, race, run, setup, stream, consumer, inflight>>

ConsumerCloses ==
  /\ Alive /\ consumer = "closing"
  /\ consumer' \in {"closed", "stuck"}
  /\ UNCHANGED <<taskVars, signalled, race, run, setup, offer, stream, inflight>>

-----------------------------------------------------------------------------
(* Ending: the race, the cleanup with its deadlines, the exit code.         *)

(* The 100 s that a signal grants run(), counted from when both exist. *)
DrainPending == app = "running" /\ signalled /\ race = "open"

(* As DrainDeadline, armed only for handlers that are still active. *)
DeadlineForHandlersOnly ==
  /\ DrainPending /\ inflight > 0
  /\ race' = "late"
  /\ UNCHANGED <<taskVars, signalled, run, runnerVars>>

DrainDeadline ==
  /\ DrainPending
  /\ race' = "late"
  /\ UNCHANGED <<taskVars, signalled, run, runnerVars>>

(* Only a run that resolved after a signal was a graceful stop. *)
RaceSettles ==
  /\ app = "running" /\ race # "open"
  /\ BeginCleanUp(~(race = "resolved" /\ signalled))

CloseConsumer ==
  /\ app = "closing" /\ ~Unsettled(stream) /\ consumer = "open"
  /\ consumer' = "closing"
  /\ UNCHANGED <<taskVars, signalled, race, run, setup, offer, stream, inflight>>

CloseSettles(r, how) ==
  /\ app = "closing" /\ closes[r] = "pending"
  /\ closes' = [closes EXCEPT ![r] = how]
  /\ UNCHANGED <<app, topic, failed, signalled, race, run, runnerVars>>

KafkaClosed ==
  /\ ~Unsettled(stream) /\ ~Unsettled(consumer)
  /\ CloseSettles("kafka", IF "stuck" \in {stream, consumer} THEN "failed" ELSE "done")

ResourceCloses(r) == r # "kafka" /\ CloseSettles(r, "done")

(* As CloseFails, without a deadline on the Kafka resources. *)
KafkaCloseUnbounded(r) == r # "kafka" /\ CloseSettles(r, "failed")

(* A close that failed, or that its 10 s passed by. *)
CloseFails(r) == CloseSettles(r, "failed")

Exit ==
  /\ app = "closing" /\ \A r \in Resources : closes[r] \in {"done", "failed"}
  /\ app' = IF ~failed /\ \A r \in Resources : closes[r] = "done" THEN "exit0" ELSE "exit1"
  /\ UNCHANGED <<topic, failed, closes, signalled, race, run, runnerVars>>

Gone == ~Alive /\ UNCHANGED vars

-----------------------------------------------------------------------------
Start ==
  \/ HealthStarts \/ HealthFails
  \/ TopicListed \/ TopicCreated \/ CreationFails \/ TopicListedAgain \/ ListingFails
  \/ InitializeFails \/ RunBegins \/ RunReturnsAtOnce
Continue == SetupStopped \/ SetupThrows \/ Adopt \/ Discard \/ Discarded \/ Drained \/ Settled
Cleanup == RaceSettles \/ CloseConsumer \/ KafkaClosed \/ Exit
Library == ConsumeResolves \/ ConsumeRejects \/ ConsumerError \/ StreamCloses
           \/ StreamCloseFails \/ LateStreamReleased \/ ConsumerCloses
Records == Admit \/ Finish \/ HandlerFails \/ IterationEnds \/ IterationFails

Next ==
  \/ Start \/ TopicAppears \/ Library \/ Continue \/ Records \/ Signal \/ DrainDeadline \/ Cleanup
  \/ \E r \in Resources : ResourceCloses(r) \/ CloseFails(r)
  \/ Gone

Spec == Init /\ [][Next]_vars

(* The event loop runs every continuation, every timer fires, and the start *)
(* of the health server and of the dead-letter topic have bounded retries.  *)
(* Nothing is assumed of the Kafka client or of the handlers.               *)
Fairness ==
  /\ WF_vars(Start) /\ WF_vars(Continue) /\ WF_vars(Cleanup) /\ WF_vars(DrainDeadline)
  /\ \A r \in Resources : WF_vars(CloseFails(r))

FairSpec == Spec /\ Fairness

-----------------------------------------------------------------------------
(* The properties.                                                          *)

(* Active records keep the connection they commit on.  stopIntake promises  *)
(* to preserve the consumer for handlers that are already active and closes *)
(* it only during setup, where none can be: the consumer is closed under an *)
(* active record only after the drain deadline or a failed intake stop.     *)
ActiveRecordsKeepTheConsumer ==
  inflight > 0 /\ consumer \in {"closing", "closed", "stuck"} => race \in {"late", "stopFailed"}

(* Exit code 0 means a graceful stop: a signal was handled, run() resolved, *)
(* no record was left in flight, every resource was really released, and no *)
(* stream stays unowned: one that consume() returned after the stop has     *)
(* been handed to closeLateStream.                                          *)
ExitZeroMeansDrained ==
  app = "exit0" =>
    /\ signalled /\ run = "resolved" /\ inflight = 0
    /\ stream \in {"none", "closed"} /\ consumer \in {"none", "closed"}
    /\ offer # "ready"

(* The intake, and with it every failed callback, comes after the topic     *)
(* that retains failed callbacks.                                           *)
IntakeNeedsTopic == consumer # "none" => topic

(* Tasks that start together may all find the topic missing.  Losing the    *)
(* race to create it costs no task its start: the creation error is thrown  *)
(* only while the topic is missing still.                                   *)
LosingTheRaceIsNotFatal ==
  [][app # "notCreated" /\ app' = "notCreated" => ~topic]_vars

(* A signal ends the process whatever the Kafka client and the handlers do: *)
(* the drain deadline and the close deadlines bound every wait.             *)
SignalEndsTheProcess == signalled ~> ~Alive

(* Once the record loop has failed or ended, signal or not, the process     *)
(* exits so that it can be restarted, provided its handlers settle: S3,     *)
(* clamd and the callbacks answer.                                          *)
HandlersSettle == WF_vars(Finish)

LoopEndEndsTheProcess ==
  HandlersSettle => (run \in {"draining", "settling", "rejected"} ~> ~Alive)
=============================================================================
