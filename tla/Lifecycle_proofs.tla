-------------------------- MODULE Lifecycle_proofs --------------------------
(* The safety properties of Lifecycle, for any number of records in flight. *)
EXTENDS Lifecycle, Integers, TLAPS

Looping == {"processing", "draining", "settling"}
Ending == {"closing"} \cup Exited

-----------------------------------------------------------------------------
(* The inductive invariant: what each phase implies about the others.       *)

(* Before run() begins the runner owns nothing. *)
IdleInv ==
  /\ app \in {"starting"} \cup Initializing => run = "idle"
  /\ app = "running" => run # "idle"
  /\ run = "idle" => /\ race = "open" /\ offer = "none" /\ inflight = 0
                     /\ stream = "none" /\ consumer = "none"

(* Until a stop is requested the setup keeps its consumer open. *)
SetupInv ==
  run = "consuming" => /\ stream = "none"
                       /\ app = "running" /\ ~signalled => consumer = "open"

(* Records are in flight only while the loop works on an adopted stream. *)
LoopInv ==
  /\ run \in Looping \cup {"discarding"} => offer = "adopted" /\ stream # "none"
  /\ inflight > 0 => run \in Looping

(* The connection is kept while the loop works, not only while records are  *)
(* in flight: the next one may be admitted at any moment.                   *)
KeptInv == run \in Looping /\ consumer \notin {"none", "open"} => race \in {"late", "stopFailed"}

(* A settled race says how run() ended; the cleanup begins only after it,   *)
(* and without a failure only after a graceful end.                         *)
RaceInv ==
  /\ race = "resolved" => run = "resolved"
  /\ race = "rejected" => run = "rejected"
  /\ app \in Ending => /\ run # "idle" => race # "open"
                       /\ ~failed => race = "resolved" /\ signalled

(* A stopped setup never holds on to the stream that comes late. *)
OfferInv ==
  run = "resolved" => offer # "ready" /\ (offer = "pending" => setup = "stopped")

(* initialize() resolves only with the topic in place. *)
TopicInv == app = "adminClosing" \/ consumer # "none" => topic

(* A clean close of the Kafka resources stays clean. *)
CleanInv ==
  /\ app \in Ending /\ ~failed /\ closes["kafka"] = "done" =>
       stream \in {"none", "closed"} /\ consumer \in {"none", "closed"}
  /\ app = "exit0" => ~failed /\ closes["kafka"] = "done"

IInv == TypeOK /\ IdleInv /\ SetupInv /\ LoopInv /\ KeptInv /\ RaceInv /\ OfferInv /\ CleanInv /\ TopicInv

LEMMA InitIInv == Init => IInv
<1> SUFFICES ASSUME Init PROVE IInv
  OBVIOUS
<1>1. TypeOK
  <2>1. closes \in [Resources -> {"none", "pending", "done", "failed"}]
    BY DEF Init
  <2>2. failed \in BOOLEAN /\ signalled \in BOOLEAN /\ topic \in BOOLEAN
    BY DEF Init
  <2>3. inflight \in 0..MaxInFlight
    BY InFlightAssumption DEF Init
  <2> QED BY <2>1, <2>2, <2>3, Zenon DEF Init, TypeOK
<1>2. IdleInv /\ SetupInv /\ OfferInv /\ TopicInv
  BY DEF Init, IdleInv, SetupInv, OfferInv, TopicInv, Initializing
<1>3. LoopInv /\ KeptInv
  BY DEF Init, LoopInv, KeptInv, Looping
<1>4. RaceInv /\ CleanInv
  BY DEF Init, RaceInv, CleanInv, Ending, Exited
<1> QED BY <1>1, <1>2, <1>3, <1>4 DEF IInv

(* Start-up. *)
LEMMA StartKeepsIInv == ASSUME IInv, Start PROVE IInv'
<1> USE InFlightAssumption DEF IInv, TypeOK, IdleInv, SetupInv, LoopInv, KeptInv, RaceInv, OfferInv, CleanInv,
         TopicInv, Looping, Ending, Initializing, Exited, RunSettled, Resources, Alive, taskVars, runnerVars
<1>1. CASE HealthStarts \/ TopicListed \/ TopicCreated
  BY <1>1 DEF HealthStarts, TopicListed, TopicCreated, StartUp
<1>2. CASE CreationFails \/ TopicListedAgain \/ ListingFails
  BY <1>2 DEF CreationFails, TopicListedAgain, ListingFails, StartUp
<1>3. CASE HealthFails \/ InitializeFails
  BY <1>3 DEF HealthFails, InitializeFails, BeginCleanUp
<1>4. CASE RunBegins
  BY <1>4 DEF RunBegins
<1>5. CASE RunReturnsAtOnce
  BY <1>5 DEF RunReturnsAtOnce, RunEnds
<1> QED BY <1>1, <1>2, <1>3, <1>4, <1>5 DEF Start

(* The topic only ever appears. *)
LEMMA TopicKeepsIInv == ASSUME IInv, TopicAppears PROVE IInv'
BY InFlightAssumption DEF TopicAppears, IInv, TypeOK, IdleInv, SetupInv, LoopInv, KeptInv, RaceInv,
   OfferInv, CleanInv, TopicInv, Looping, Ending, Exited, Initializing, RunSettled, Resources, runnerVars

(* What the Kafka client does. *)
LEMMA LibraryKeepsIInv == ASSUME IInv, Library PROVE IInv'
<1> USE InFlightAssumption DEF IInv, TypeOK, IdleInv, SetupInv, LoopInv, KeptInv, RaceInv, OfferInv, CleanInv,
         TopicInv, Looping, Ending, Initializing, Exited, RunSettled, Resources, Alive, taskVars, runnerVars
<1>1. CASE ConsumeResolves
  BY <1>1 DEF ConsumeResolves, Wins
<1>2. CASE ConsumeRejects
  BY <1>2 DEF ConsumeRejects, Wins
<1>3. CASE ConsumerError
  BY <1>3 DEF ConsumerError
<1>4. CASE StreamCloses
  BY <1>4 DEF StreamCloses
<1>5. CASE StreamCloseFails
  BY <1>5 DEF StreamCloseFails
<1>6. CASE LateStreamReleased
  BY <1>6 DEF LateStreamReleased
<1>7. CASE ConsumerCloses
  BY <1>7 DEF ConsumerCloses
<1> QED BY <1>1, <1>2, <1>3, <1>4, <1>5, <1>6, <1>7 DEF Library

(* Continuations of run(). *)
LEMMA ContinueKeepsIInv == ASSUME IInv, Continue PROVE IInv'
<1> USE InFlightAssumption DEF IInv, TypeOK, IdleInv, SetupInv, LoopInv, KeptInv, RaceInv, OfferInv, CleanInv,
         TopicInv, Looping, Ending, Initializing, Exited, RunSettled, Resources, Alive, taskVars, runnerVars
<1>1. CASE SetupStopped
  BY <1>1 DEF SetupStopped, RunEnds
<1>2. CASE SetupThrows
  BY <1>2 DEF SetupThrows, RunEnds
<1>3. CASE Adopt
  BY <1>3 DEF Adopt, StopRequested
<1>4. CASE Discard
  BY <1>4 DEF Discard, StopRequested
<1>5. CASE Discarded
  BY <1>5 DEF Discarded, RunEnds, Unsettled
<1>6. CASE Drained
  BY <1>6 DEF Drained, RunEnds
<1>7. CASE Settled
  BY <1>7 DEF Settled, RunEnds
<1> QED BY <1>1, <1>2, <1>3, <1>4, <1>5, <1>6, <1>7 DEF Continue

(* The record loop. *)
LEMMA RecordsKeepIInv == ASSUME IInv, Records PROVE IInv'
<1> USE InFlightAssumption DEF IInv, TypeOK, IdleInv, SetupInv, LoopInv, KeptInv, RaceInv, OfferInv, CleanInv,
         TopicInv, Looping, Ending, Initializing, Exited, RunSettled, Resources, Alive, taskVars, runnerVars
<1>1. CASE Admit
  BY <1>1 DEF Admit, Unsettled
<1>2. CASE Finish
  BY <1>2 DEF Finish
<1>3. CASE HandlerFails
  BY <1>3 DEF HandlerFails
<1>4. CASE IterationEnds
  BY <1>4 DEF IterationEnds
<1>5. CASE IterationFails
  BY <1>5 DEF IterationFails
<1> QED BY <1>1, <1>2, <1>3, <1>4, <1>5 DEF Records

(* The end of the race, the cleanup and the exit. *)
LEMMA CleanupKeepsIInv == ASSUME IInv, Cleanup PROVE IInv'
<1> USE InFlightAssumption DEF IInv, TypeOK, IdleInv, SetupInv, LoopInv, KeptInv, RaceInv, OfferInv, CleanInv,
         TopicInv, Looping, Ending, Initializing, Exited, RunSettled, Resources, Alive, taskVars, runnerVars
<1>1. CASE RaceSettles
  <2>1. CASE race = "resolved" /\ signalled
    <3>1. failed' = FALSE
      BY <1>1, <2>1 DEF RaceSettles, BeginCleanUp
    <3> QED BY <1>1, <2>1, <3>1 DEF RaceSettles, BeginCleanUp
  <2>2. CASE ~(race = "resolved" /\ signalled)
    <3>1. failed' = TRUE
      BY <1>1, <2>2 DEF RaceSettles, BeginCleanUp
    <3> QED BY <1>1, <2>2, <3>1 DEF RaceSettles, BeginCleanUp
  <2> QED BY <2>1, <2>2
<1>2. CASE CloseConsumer
  BY <1>2 DEF CloseConsumer, Unsettled
<1>3. CASE KafkaClosed
  BY <1>3 DEF KafkaClosed, Unsettled, CloseSettles
<1>4. CASE Exit
  BY <1>4 DEF Exit
<1> QED BY <1>1, <1>2, <1>3, <1>4 DEF Cleanup

(* A signal, the drain deadline and the single closes. *)
LEMMA SignalKeepsIInv == ASSUME IInv, Signal PROVE IInv'
BY InFlightAssumption DEF Signal, IInv, TypeOK, IdleInv, SetupInv, LoopInv, KeptInv, RaceInv,
   OfferInv, CleanInv, TopicInv, Looping, Ending, Exited, Initializing, RunSettled, Resources, taskVars

LEMMA DeadlineKeepsIInv == ASSUME IInv, DrainDeadline PROVE IInv'
BY InFlightAssumption DEF DrainDeadline, DrainPending, IInv, TypeOK, IdleInv, SetupInv, LoopInv,
   KeptInv, RaceInv, OfferInv, CleanInv, TopicInv, Looping, Ending, Exited, Initializing, RunSettled,
   Resources, taskVars, runnerVars

(* A single close can only turn the Kafka resources' attempt into a failure. *)
LEMMA CloseKeepsIInv ==
  ASSUME IInv, NEW r \in Resources, ResourceCloses(r) \/ CloseFails(r)
  PROVE  IInv'
<1>1. /\ app = "closing"
      /\ UNCHANGED <<app, topic, failed, signalled, race, run, runnerVars>>
      /\ \/ r # "kafka" /\ closes' = [closes EXCEPT ![r] = "done"]
         \/ closes' = [closes EXCEPT ![r] = "failed"]
  BY DEF ResourceCloses, CloseFails, CloseSettles
<1>2. closes["kafka"] = "done" \/ closes'["kafka"] # "done"
  BY <1>1 DEF IInv, TypeOK, Resources
<1>3. TypeOK'
  BY <1>1, InFlightAssumption DEF IInv, TypeOK, Resources, runnerVars
<1>4. CleanInv'
  BY <1>1, <1>2 DEF IInv, CleanInv, Ending, Exited, runnerVars
<1> QED BY <1>1, <1>3, <1>4 DEF IInv, IdleInv, SetupInv, LoopInv, KeptInv, RaceInv, OfferInv, TopicInv,
              runnerVars

LEMMA NextKeepsIInv == IInv /\ [Next]_vars => IInv'
<1> SUFFICES ASSUME IInv, [Next]_vars PROVE IInv'
  OBVIOUS
<1>1. CASE Start BY <1>1, StartKeepsIInv
<1>2. CASE Library BY <1>2, LibraryKeepsIInv
<1>3. CASE Continue BY <1>3, ContinueKeepsIInv
<1>4. CASE Records BY <1>4, RecordsKeepIInv
<1>5. CASE Signal BY <1>5, SignalKeepsIInv
<1>6. CASE DrainDeadline BY <1>6, DeadlineKeepsIInv
<1>7. CASE Cleanup BY <1>7, CleanupKeepsIInv
<1>8. ASSUME NEW r \in Resources, ResourceCloses(r) \/ CloseFails(r) PROVE IInv'
  BY <1>8, CloseKeepsIInv
<1>9. CASE UNCHANGED vars
  BY <1>9 DEF vars, IInv, TypeOK, IdleInv, SetupInv, LoopInv, KeptInv, RaceInv, OfferInv, CleanInv, TopicInv
<1>10. CASE TopicAppears BY <1>10, TopicKeepsIInv
<1> QED BY <1>1, <1>2, <1>3, <1>4, <1>5, <1>6, <1>7, <1>8, <1>9, <1>10 DEF Next, Gone

THEOREM Invariance == Spec => []IInv
BY InitIInv, NextKeepsIInv, PTL DEF Spec

-----------------------------------------------------------------------------
(* The theorems.                                                            *)

(* Every reachable state of a task's life is well typed. *)
THEOREM TypeCorrect == Spec => []TypeOK
<1>1. IInv => TypeOK BY DEF IInv
<1> QED BY <1>1, Invariance, PTL

(* The consumer is closed under a record in flight only after the drain     *)
(* deadline or a failed stop of the intake.                                 *)
THEOREM ConnectionKept == Spec => []ActiveRecordsKeepTheConsumer
<1>1. IInv => ActiveRecordsKeepTheConsumer
  BY DEF IInv, LoopInv, KeptInv, ActiveRecordsKeepTheConsumer
<1> QED BY <1>1, Invariance, PTL

(* A process that exits with code 0 was told to stop, drained its records,  *)
(* released its stream and its consumer and handed a late stream to its     *)
(* close.                                                                   *)
THEOREM CleanExit == Spec => []ExitZeroMeansDrained
<1>1. IInv => ExitZeroMeansDrained
  BY DEF IInv, TypeOK, LoopInv, RaceInv, OfferInv, CleanInv, Ending, Exited, Looping, ExitZeroMeansDrained
<1> QED BY <1>1, Invariance, PTL

(* Intake begins only with the topic for failed callbacks in place. *)
THEOREM TopicFirst == Spec => []IntakeNeedsTopic
<1>1. IInv => IntakeNeedsTopic
  BY DEF IInv, TopicInv, IntakeNeedsTopic
<1> QED BY <1>1, Invariance, PTL

(* A task gives up over the creation of the topic only while the topic is   *)
(* missing: another task that was faster does not stop it.                  *)
THEOREM RaceLost == Spec => LosingTheRaceIsNotFatal
<1>1. ASSUME [Next]_vars, app # "notCreated", app' = "notCreated" PROVE ~topic
  <2>1. CASE Start
    <3>1. TopicListedAgain \/ HealthStarts \/ TopicListed \/ TopicCreated \/ CreationFails \/ ListingFails
      BY <1>1, <2>1 DEF Start, HealthFails, InitializeFails, BeginCleanUp, RunBegins, RunReturnsAtOnce
    <3> QED BY <1>1, <3>1 DEF TopicListedAgain, HealthStarts, TopicListed, TopicCreated,
                              CreationFails, ListingFails, StartUp
  <2>2. CASE TopicAppears
    BY <1>1, <2>2 DEF TopicAppears
  <2>3. CASE Library \/ Continue \/ Records \/ Signal \/ DrainDeadline
    <3>1. UNCHANGED taskVars
      BY <2>3 DEF Library, Continue, Records, Signal, DrainDeadline, ConsumeResolves, ConsumeRejects,
         ConsumerError, StreamCloses, StreamCloseFails, LateStreamReleased, ConsumerCloses, SetupStopped,
         SetupThrows, Adopt, Discard, Discarded, Drained, Settled, Admit, Finish, HandlerFails,
         IterationEnds, IterationFails
    <3> QED BY <1>1, <3>1 DEF taskVars
  <2>4. CASE Cleanup
    BY <1>1, <2>4 DEF Cleanup, RaceSettles, BeginCleanUp, CloseConsumer, KafkaClosed, CloseSettles, Exit, taskVars
  <2>5. ASSUME NEW r \in Resources, ResourceCloses(r) \/ CloseFails(r) PROVE app' = app
    BY <2>5 DEF ResourceCloses, CloseFails, CloseSettles
  <2> QED BY <1>1, <2>1, <2>2, <2>3, <2>4, <2>5 DEF Next, Gone, vars
<1> QED BY <1>1, PTL DEF Spec, LosingTheRaceIsNotFatal

-----------------------------------------------------------------------------
(* The safety core of SignalEndsTheProcess and LoopEndEndsTheProcess.       *)
(*                                                                          *)
(* Ahead counts the process's own steps from where it stands to its exit.   *)
(* No step of the library, of a handler or of another task adds to them,    *)
(* and each own step takes at least one; so the wait for an exit is over    *)
(* once the scheduler has run the process, its timers and its close         *)
(* deadlines often enough, whatever else happens in between.                *)

(* The resources are closed in the cleanup and at no other time. *)
ClosesInv ==
  /\ app \notin Ending => \A r \in Resources : closes[r] = "none"
  /\ app \in Ending => \A r \in Resources : closes[r] # "none"

(* The race has taken notice of a run that settled. *)
SettledInv == run \in RunSettled => race # "open"

Stage ==
  IF app = "starting" THEN 13
  ELSE IF app = "listing" THEN 12
  ELSE IF app = "creating" THEN 11
  ELSE IF app = "relisting" THEN 10
  ELSE IF app \in Initializing THEN 9
  ELSE IF app = "running" /\ race = "open" THEN 7
  ELSE IF app = "running" THEN 6
  ELSE IF app = "closing" THEN 1
  ELSE 0

Waits(r) == IF closes[r] = "pending" THEN 1 ELSE 0

Ahead == Stage + Waits("kafka") + Waits("health") + Waits("deadLetters")
               + (IF consumer = "open" THEN 1 ELSE 0)

(* The process's own steps: those that Fairness lets no one withhold. *)
Own == Start \/ Cleanup \/ DrainDeadline \/ \E r \in Resources : ResourceCloses(r) \/ CloseFails(r)

(* The state of the process lets one of them be taken. *)
OwnStepReady ==
  \/ app \in {"starting"} \cup Initializing
  \/ DrainPending
  \/ app = "running" /\ race # "open"
  \/ app = "closing" /\ \E r \in Resources : closes[r] = "pending"
  \/ app = "closing" /\ \A r \in Resources : closes[r] \in {"done", "failed"}

EndInv == IInv /\ ClosesInv /\ SettledInv

LEMMA InitEndInv == Init => EndInv
<1>1. Init => ClosesInv /\ SettledInv
  BY DEF Init, ClosesInv, SettledInv, Ending, Exited, RunSettled
<1> QED BY <1>1, InitIInv DEF EndInv

(* Which steps touch what Ahead counts, and how. *)
LEMMA OthersStand ==
  ASSUME EndInv, Library \/ Continue \/ Records \/ Signal \/ TopicAppears
  PROVE  /\ UNCHANGED <<app, closes>>
         /\ race' = race \/ (race = "open" /\ race' # "open")
         /\ consumer' = "open" => consumer = "open"
         /\ SettledInv'
<1> USE DEF taskVars, runnerVars, EndInv, SettledInv, RunSettled, RunEnds
<1>1. CASE Library
  BY <1>1 DEF Library, ConsumeResolves, ConsumeRejects, ConsumerError, StreamCloses, StreamCloseFails,
     LateStreamReleased, ConsumerCloses
<1>2. CASE Continue
  BY <1>2 DEF Continue, SetupStopped, SetupThrows, Adopt, Discard, Discarded, Drained, Settled
<1>3. CASE Records
  BY <1>3 DEF Records, Admit, Finish, HandlerFails, IterationEnds, IterationFails
<1>4. CASE Signal \/ TopicAppears
  BY <1>4 DEF Signal, TopicAppears
<1> QED BY <1>1, <1>2, <1>3, <1>4

LEMMA OthersAddNothing ==
  ASSUME EndInv, Library \/ Continue \/ Records \/ Signal \/ TopicAppears
  PROVE  ClosesInv' /\ SettledInv' /\ Ahead' <= Ahead
<1>1. /\ UNCHANGED <<app, closes>> /\ SettledInv'
      /\ race' = race \/ (race = "open" /\ race' # "open")
      /\ consumer' = "open" => consumer = "open"
  BY OthersStand
<1>2. Stage' <= Stage /\ Stage \in Int /\ Stage' \in Int
  BY <1>1 DEF Stage
<1>3. \A r : Waits(r)' = Waits(r) /\ Waits(r) \in Int
  BY <1>1 DEF Waits
<1> QED BY <1>1, <1>2, <1>3 DEF EndInv, ClosesInv, Ahead

(* The begin of the cleanup, from whatever phase. *)
LEMMA CleanUpLowers ==
  ASSUME EndInv, app \notin Ending, NEW failure, BeginCleanUp(failure)
  PROVE  ClosesInv' /\ SettledInv' /\ Ahead' < Ahead
<1>1. /\ app' = "closing" /\ \A r \in Resources : closes'[r] = "pending" /\ closes[r] = "none"
      /\ UNCHANGED <<race, run, consumer>>
  BY DEF BeginCleanUp, EndInv, ClosesInv
<1>2. Stage >= 6 /\ Stage \in Int /\ Stage' = 1
  BY <1>1 DEF Stage, Ending, Exited, EndInv, IInv, TypeOK, Initializing
<1>3. \A r \in Resources : Waits(r) = 0 /\ Waits(r)' = 1
  BY <1>1 DEF Waits
<1> QED BY <1>1, <1>2, <1>3 DEF ClosesInv, SettledInv, Ahead, Ending, Resources, EndInv

LEMMA StartLowers == ASSUME EndInv, Start PROVE ClosesInv' /\ SettledInv' /\ Ahead' < Ahead
<1>1. CASE HealthFails \/ InitializeFails
  BY <1>1, CleanUpLowers DEF HealthFails, InitializeFails, Ending, Exited
<1>2. CASE ~(HealthFails \/ InitializeFails)
  <2>1. /\ closes' = closes /\ app' \notin Ending /\ app \notin Ending
        /\ Stage \in Int /\ Stage' \in Int
        /\ \/ Stage' < Stage /\ consumer' = consumer
           \/ Stage' < Stage - 1 /\ consumer # "open"
    <3>1. CASE HealthStarts \/ TopicListed \/ TopicCreated
      BY <3>1 DEF HealthStarts, TopicListed, TopicCreated, StartUp, Stage, Initializing, Ending, Exited, runnerVars
    <3>2. CASE CreationFails \/ TopicListedAgain \/ ListingFails
      BY <3>2 DEF CreationFails, TopicListedAgain, ListingFails, StartUp, Stage, Initializing, Ending, Exited, runnerVars
    <3>3. CASE RunBegins
      BY <3>3 DEF RunBegins, Stage, Initializing, Ending, Exited, EndInv, IInv, IdleInv
    <3>4. CASE RunReturnsAtOnce
      BY <3>4 DEF RunReturnsAtOnce, RunEnds, Stage, Initializing, Ending, Exited, runnerVars
    <3> QED BY <1>2, <3>1, <3>2, <3>3, <3>4 DEF Start
  <2>2. \A r : Waits(r)' = Waits(r) /\ Waits(r) \in Int
    BY <2>1 DEF Waits
  <2>3. SettledInv'
    <3>1. run' = "resolved" => race' # "open"
      BY <1>2 DEF Start, HealthStarts, TopicListed, TopicCreated, CreationFails, TopicListedAgain,
         ListingFails, StartUp, RunBegins, RunReturnsAtOnce, RunEnds, EndInv, SettledInv, RunSettled, runnerVars
    <3>2. run' = "rejected" => race' # "open"
      BY <1>2 DEF Start, HealthStarts, TopicListed, TopicCreated, CreationFails, TopicListedAgain,
         ListingFails, StartUp, RunBegins, RunReturnsAtOnce, RunEnds, EndInv, SettledInv, RunSettled, runnerVars
    <3> QED BY <3>1, <3>2 DEF SettledInv, RunSettled
  <2> QED BY <2>1, <2>2, <2>3 DEF EndInv, ClosesInv, Ahead
<1> QED BY <1>1, <1>2

LEMMA SettlingLowers ==
  ASSUME EndInv, NEW r \in Resources, NEW how \in {"done", "failed"}, CloseSettles(r, how)
  PROVE  ClosesInv' /\ SettledInv' /\ Ahead' < Ahead
<1>1. /\ app = "closing" /\ closes[r] = "pending" /\ closes' = [closes EXCEPT ![r] = how]
      /\ UNCHANGED <<app, race, run, consumer>>
  BY DEF CloseSettles, runnerVars
<1>2. closes'[r] = how /\ \A q \in Resources \ {r} : closes'[q] = closes[q]
  BY <1>1 DEF EndInv, IInv, TypeOK
<1>3. Waits(r) = 1 /\ Waits(r)' = 0 /\ \A q \in Resources \ {r} : Waits(q)' = Waits(q) /\ Waits(q) \in Int
  BY <1>1, <1>2 DEF Waits
<1>4. Stage' = Stage /\ Stage \in Int
  BY <1>1 DEF Stage
<1>5. ClosesInv' /\ SettledInv'
  BY <1>1, <1>2 DEF EndInv, ClosesInv, SettledInv, Ending
<1> QED BY <1>1, <1>3, <1>4, <1>5 DEF Ahead, Resources

LEMMA CleanupLowers ==
  ASSUME EndInv, Cleanup \/ DrainDeadline \/ \E r \in Resources : ResourceCloses(r) \/ CloseFails(r)
  PROVE  ClosesInv' /\ SettledInv' /\ Ahead' < Ahead
<1>1. CASE RaceSettles
  BY <1>1, CleanUpLowers DEF RaceSettles, Ending, Exited
<1>2. CASE KafkaClosed \/ \E r \in Resources : ResourceCloses(r) \/ CloseFails(r)
  <2>1. \E r \in Resources, how \in {"done", "failed"} : CloseSettles(r, how)
    BY <1>2 DEF KafkaClosed, ResourceCloses, CloseFails, Resources
  <2> QED BY <2>1, SettlingLowers
<1>3. CASE CloseConsumer
  <2>1. /\ consumer = "open" /\ consumer' = "closing" /\ UNCHANGED <<app, closes, race, run>>
    BY <1>3 DEF CloseConsumer, taskVars
  <2>2. Stage' = Stage /\ Stage \in Int /\ \A r : Waits(r)' = Waits(r) /\ Waits(r) \in Int
    BY <2>1 DEF Stage, Waits
  <2> QED BY <2>1, <2>2 DEF EndInv, ClosesInv, SettledInv, Ahead
<1>4. CASE Exit
  <2>1. app = "closing" /\ app' \in Exited /\ UNCHANGED <<closes, race, run, consumer>>
    BY <1>4 DEF Exit, Exited, runnerVars
  <2>2. Stage = 1 /\ Stage' = 0 /\ \A r : Waits(r)' = Waits(r) /\ Waits(r) \in Int
    BY <2>1 DEF Stage, Waits, Exited, Initializing
  <2> QED BY <2>1, <2>2 DEF EndInv, ClosesInv, SettledInv, Ahead, Ending
<1>5. CASE DrainDeadline
  <2>1. app = "running" /\ race = "open" /\ race' = "late" /\ UNCHANGED <<app, closes, run, consumer>>
    BY <1>5 DEF DrainDeadline, DrainPending, taskVars, runnerVars
  <2>2. Stage = 7 /\ Stage' = 6 /\ \A r : Waits(r)' = Waits(r) /\ Waits(r) \in Int
    BY <2>1 DEF Stage, Waits, Initializing
  <2> QED BY <2>1, <2>2 DEF EndInv, ClosesInv, SettledInv, Ahead
<1> QED BY <1>1, <1>2, <1>3, <1>4, <1>5 DEF Cleanup

LEMMA NextEndInv ==
  EndInv /\ [Next]_vars => EndInv' /\ Ahead' <= Ahead /\ (Own => Ahead' < Ahead)
<1> SUFFICES ASSUME EndInv, [Next]_vars PROVE EndInv' /\ Ahead' <= Ahead /\ (Own => Ahead' < Ahead)
  OBVIOUS
<1>1. Ahead \in Int /\ Ahead' \in Int
  BY DEF Ahead, Stage, Waits
<1>2. IInv'
  BY NextKeepsIInv DEF EndInv
<1>3. CASE Own
  <2>1. ClosesInv' /\ SettledInv' /\ Ahead' < Ahead
    BY <1>3, StartLowers, CleanupLowers DEF Own
  <2> QED BY <1>1, <1>2, <2>1 DEF EndInv
<1>4. CASE ~Own /\ (Library \/ Continue \/ Records \/ Signal \/ TopicAppears)
  BY <1>2, <1>4, OthersAddNothing DEF EndInv
<1>5. CASE ~Own /\ UNCHANGED vars
  BY <1>1, <1>2, <1>5 DEF vars, EndInv, ClosesInv, SettledInv, Ahead, Stage, Waits
<1> QED BY <1>3, <1>4, <1>5 DEF Next, Own, Gone

(* The way to the exit only gets shorter: whatever the Kafka client, the    *)
(* handlers and the other tasks do, no step adds to the own steps ahead of  *)
(* the process, and each own step takes one away.                           *)
THEOREM ExitComesNearer ==
  Spec => [][Ahead' <= Ahead /\ (Own => Ahead' < Ahead)]_vars
BY InitEndInv, NextEndInv, PTL DEF Spec

(* There are never more than 13 of them. *)
THEOREM ExitIsNear == Spec => [](Ahead \in 0 .. 13)
<1>1. EndInv => Ahead \in 0 .. 13
  <2> SUFFICES ASSUME EndInv PROVE Ahead \in 0 .. 13
    OBVIOUS
  <2>1. app \notin Ending => \A r \in Resources : Waits(r) = 0
    BY DEF EndInv, ClosesInv, Waits
  <2>2. \A r \in Resources : Waits(r) \in 0 .. 1
    BY DEF Waits
  <2>3. Stage \in 0 .. 13 /\ (app \in Ending => Stage \in 0 .. 1)
    BY DEF Stage, Ending, Exited, Initializing
  <2>4. consumer = "open" => Stage \in 0 .. 7
    BY DEF EndInv, IInv, IdleInv, TypeOK, Stage, Initializing, Exited
  <2> QED BY <2>1, <2>2, <2>3, <2>4 DEF Ahead, Resources
<1> QED BY <1>1, InitEndInv, NextEndInv, PTL DEF Spec

(* And none of them waits for anybody: a task that was signalled, or whose  *)
(* run has settled, stands where a timer, a deadline or a continuation of   *)
(* its own takes it on, until it is gone.                                   *)
THEOREM NothingHoldsTheExit ==
  Spec => [](Alive /\ (signalled \/ run \in RunSettled) => OwnStepReady)
<1>1. EndInv => (Alive /\ (signalled \/ run \in RunSettled) => OwnStepReady)
  <2> SUFFICES ASSUME EndInv, Alive, signalled \/ run \in RunSettled PROVE OwnStepReady
    OBVIOUS
  <2>1. CASE app = "closing"
    <3>1. \A r \in Resources : closes[r] \in {"pending", "done", "failed"}
      BY <2>1 DEF EndInv, IInv, TypeOK, ClosesInv, Ending
    <3> QED BY <2>1, <3>1 DEF OwnStepReady
  <2>2. CASE app = "running"
    BY <2>2 DEF OwnStepReady, DrainPending, EndInv, SettledInv
  <2>3. CASE app \in {"starting"} \cup Initializing
    BY <2>3 DEF OwnStepReady
  <2> QED BY <2>1, <2>2, <2>3 DEF EndInv, IInv, TypeOK, Alive
<1> QED BY <1>1, InitEndInv, NextEndInv, PTL DEF Spec

Winding == run \in {"draining", "settling"}

(* A loop that has ended or failed takes on no record: the records in       *)
(* flight only get fewer until the run settles.                             *)
THEOREM LoopWindsDown ==
  Spec => [][Winding /\ run' \notin RunSettled =>
               Winding' /\ inflight' <= inflight /\ (Finish => inflight' < inflight)]_vars
<1> USE DEF Winding
<1>1. ASSUME IInv, [Next]_vars, Winding, run' \notin RunSettled
      PROVE  /\ run' \in {"draining", "settling"} /\ inflight' <= inflight
             /\ Finish => inflight' < inflight
  <2> USE DEF taskVars, runnerVars
  <2>0. inflight \in Int /\ (inflight > 0 => inflight - 1 < inflight) /\ inflight <= inflight
    <3>1. inflight \in 0..MaxInFlight
      BY <1>1 DEF IInv, TypeOK
    <3> QED BY <3>1, InFlightAssumption
  <2>1. CASE Start
    BY <1>1, <2>0, <2>1 DEF Start, HealthFails, InitializeFails, BeginCleanUp, HealthStarts, TopicListed,
       TopicCreated, CreationFails, TopicListedAgain, ListingFails, StartUp, RunBegins, RunReturnsAtOnce,
       IInv, IdleInv, Initializing, RunEnds, RunSettled, Finish
  <2>2. CASE Library \/ Signal \/ TopicAppears \/ DrainDeadline
    BY <1>1, <2>0, <2>2 DEF Library, Signal, TopicAppears, DrainDeadline, ConsumeResolves, ConsumeRejects,
       ConsumerError, StreamCloses, StreamCloseFails, LateStreamReleased, ConsumerCloses, Finish
  <2>3. CASE Continue
    BY <1>1, <2>3 DEF Continue, SetupStopped, SetupThrows, Adopt, Discard, Discarded, Drained, Settled,
       RunEnds, RunSettled
  <2>4. CASE Records
    BY <1>1, <2>0, <2>4 DEF Records, Admit, Finish, HandlerFails, IterationEnds, IterationFails
  <2>5. CASE Cleanup \/ \E r \in Resources : ResourceCloses(r) \/ CloseFails(r)
    BY <1>1, <2>0, <2>5 DEF Cleanup, RaceSettles, BeginCleanUp, CloseConsumer, KafkaClosed, Exit,
       ResourceCloses, CloseFails, CloseSettles, Finish
  <2>6. CASE UNCHANGED vars
    BY <1>1, <2>0, <2>6 DEF vars, Finish
  <2> QED BY <1>1, <2>1, <2>2, <2>3, <2>4, <2>5, <2>6 DEF Next, Gone
<1>2. IInv /\ [Next]_vars =>
        [Winding /\ run' \notin RunSettled =>
               Winding' /\ inflight' <= inflight /\ (Finish => inflight' < inflight)]_vars
  BY <1>1
<1> QED BY <1>2, InitIInv, NextKeepsIInv, PTL DEF Spec
=============================================================================
