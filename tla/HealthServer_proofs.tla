------------------------ MODULE HealthServer_proofs ------------------------
(* The task and its health server together: the task alone is what          *)
(* Lifecycle says, so its theorems carry over, and a 200 is never early.     *)
EXTENDS HealthServer, Lifecycle_proofs

-----------------------------------------------------------------------------
(* The health server only watches the task. *)

LEMMA TaskSteps == [NextHealth]_allVars => [Next]_vars
BY DEF NextHealth, TaskStep, Probe, Answered, Ping, allVars

LEMMA TaskInvariance == SpecHealth => Spec /\ []IInv
<1>1. InitHealth => Init
  BY DEF InitHealth
<1>2. SpecHealth => Spec
  BY <1>1, TaskSteps, PTL DEF SpecHealth, Spec
<1> QED BY <1>2, Invariance, PTL

(* A graceful exit, with every probe of the health server in the way of its *)
(* close, is still one that drained its records.                            *)
THEOREM CleanExitBesideProbes == SpecHealth => []ExitZeroMeansDrained
BY TaskInvariance, CleanExit, PTL

-----------------------------------------------------------------------------
(* The inductive invariant of HealthyMeansServing. *)

(* Once the intake has run it has run: the stream was adopted and the topic *)
(* stays.                                                                   *)
Ran == offer = "adopted" /\ topic

ReadyInv == ready => Ran

(* A ping that returned without an error has its answer, and nothing can    *)
(* change either before the next ping of the same probe.                    *)
PongInv ==
  \A p \in Pings : outcome[p] = "pong" =>
    step[p] = "settled" /\ link[p] = "gone" /\ reply[p] = "PONG"

UpInv == \A p \in Pings : probe[p] = "up" => outcome[p] = "pong" /\ Ran

Typed ==
  /\ ready \in BOOLEAN
  /\ probe \in [Pings -> {"idle", "pinging", "up", "down", "starting"}]
  /\ ClientTypeOK

HInv == Typed /\ ReadyInv /\ PongInv /\ UpInv

LEMMA RanStays == IInv /\ Ran /\ [Next]_vars => Ran'
<1> SUFFICES ASSUME IInv, Ran, [Next]_vars PROVE Ran'
  OBVIOUS
<1> USE DEF Ran
<1>1. CASE Start
  <2>1. ~RunBegins
    BY DEF RunBegins, IInv, IdleInv, Initializing
  <2>2. CASE HealthFails \/ InitializeFails \/ RunReturnsAtOnce
    BY <2>2 DEF HealthFails, InitializeFails, BeginCleanUp, RunReturnsAtOnce, runnerVars
  <2>3. CASE HealthStarts \/ TopicListed \/ TopicCreated \/ CreationFails \/ TopicListedAgain \/ ListingFails
    BY <2>3 DEF HealthStarts, TopicListed, TopicCreated, CreationFails, TopicListedAgain,
                ListingFails, StartUp, runnerVars
  <2> QED BY <1>1, <2>1, <2>2, <2>3 DEF Start
<1>2. CASE TopicAppears
  BY <1>2 DEF TopicAppears, runnerVars
<1>3. CASE Library
  BY <1>3 DEF Library, ConsumeResolves, ConsumeRejects, ConsumerError, StreamCloses, StreamCloseFails,
     LateStreamReleased, ConsumerCloses, taskVars
<1>4. CASE Continue
  BY <1>4 DEF Continue, SetupStopped, SetupThrows, Adopt, Discard, Discarded, Drained, Settled,
     taskVars, runnerVars
<1>5. CASE Records
  BY <1>5 DEF Records, Admit, Finish, HandlerFails, IterationEnds, IterationFails, taskVars, runnerVars
<1>6. CASE Signal \/ DrainDeadline
  BY <1>6 DEF Signal, DrainDeadline, taskVars, runnerVars
<1>7. CASE Cleanup
  BY <1>7 DEF Cleanup, RaceSettles, BeginCleanUp, CloseConsumer, KafkaClosed, CloseSettles, Exit,
     taskVars, runnerVars
<1>8. ASSUME NEW r \in Resources, ResourceCloses(r) \/ CloseFails(r) PROVE Ran'
  BY <1>8 DEF ResourceCloses, CloseFails, CloseSettles, runnerVars
<1> QED BY <1>1, <1>2, <1>3, <1>4, <1>5, <1>6, <1>7, <1>8 DEF Next, Gone, vars

(* Only an adopted stream makes the task ready, and its consumer was only    *)
(* created with the topic in place.                                         *)
LEMMA AdoptRan == IInv /\ Adopt => Ran'
<1> SUFFICES ASSUME IInv, Adopt PROVE Ran'
  OBVIOUS
<1>1. app = "running" /\ ~signalled /\ run = "consuming"
  BY DEF Adopt, StopRequested, IInv, IdleInv
<1>2. consumer = "open"
  BY <1>1 DEF IInv, SetupInv
<1> QED BY <1>2 DEF IInv, TopicInv, Adopt, Ran, taskVars

LEMMA TaskKeepsHInv == ASSUME IInv, HInv, TaskStep PROVE HInv'
<1>1. Ran => Ran'
  BY RanStays DEF TaskStep
<1>2. ready' => Ran'
  BY <1>1, AdoptRan DEF TaskStep, HInv, ReadyInv
<1>3. ready' \in BOOLEAN
  BY DEF TaskStep, HInv, Typed
<1> QED BY <1>1, <1>2, <1>3 DEF HInv, Typed, ClientTypeOK, ReadyInv, PongInv, UpInv, TaskStep, clientVars

LEMMA ProbeKeepsHInv ==
  ASSUME HInv, NEW p \in Pings, Probe(p) \/ Answered(p) PROVE HInv'
<1> USE DEF HInv, Typed, ClientTypeOK, ReadyInv, PongInv, UpInv, Ran, Tell, Calls, vars, clientVars
<1>1. CASE Probe(p)
  BY <1>1 DEF Probe, OpenSocket, Goes, Working, Writing
<1>2. CASE Answered(p)
  <2> DEFINE answer == IF outcome[p] # "pong" THEN "down" ELSE IF ready THEN "up" ELSE "starting"
  <2>1. /\ answer \in {"up", "down", "starting"}
        /\ answer = "up" => outcome[p] = "pong" /\ ready
    OBVIOUS
  <2>2. probe' = [probe EXCEPT ![p] = answer] /\ UNCHANGED <<vars, ready, clientVars>>
    BY <1>2 DEF Answered
  <2> HIDE DEF answer
  <2> QED BY <2>1, <2>2
<1> QED BY <1>1, <1>2

LEMMA PingKeepsHInv == ASSUME HInv, NEW p \in Pings, Ping(p) PROVE HInv'
<1> USE DEF HInv, Typed, ClientTypeOK, ReadyInv, PongInv, UpInv, Ran, Calls, Goes, Working, Writing
<1>1. ClientStep(p) /\ UNCHANGED <<vars, probe, ready>>
  BY DEF Ping
<1>2. CASE Connected(p) \/ Written(p) \/ TakeChunk(p)
  BY <1>1, <1>2 DEF Connected, Written, TakeChunk, vars
<1>3. CASE ConnectFails(p)
  BY <1>1, <1>3 DEF ConnectFails, vars
<1>4. CASE Answer(p)
  BY <1>1, <1>4 DEF Answer, Possible, Answers, vars
<1>5. CASE ReplyBreaks(p) \/ LinkBreaks(p)
  BY <1>1, <1>5 DEF ReplyBreaks, LinkBreaks, vars
<1>6. CASE BodyEnds(p)
  BY <1>1, <1>6 DEF BodyEnds, vars
<1>7. CASE BodyBreaks(p) \/ WriteFails(p) \/ Replied(p)
  <2>1. /\ step[p] \in {"read", "answer"} \cup Writing
        /\ \E how \in {"clean", "infected", "limit", "pong", "error"} :
             Settle(p, how) /\ (how = "pong" => reply[p] = "PONG")
    BY <1>7 DEF BodyBreaks, WriteFails, Replied, Caught, Parse, Received
  <2> QED BY <1>1, <2>1 DEF Settle, vars
<1> QED BY <1>1, <1>2, <1>3, <1>4, <1>5, <1>6, <1>7 DEF ClientStep, Clamd, Source, Continuation, Deadline

LEMMA NextKeepsHInv == IInv /\ HInv /\ [NextHealth]_allVars => HInv'
<1> SUFFICES ASSUME IInv, HInv, [NextHealth]_allVars PROVE HInv'
  OBVIOUS
<1>1. CASE TaskStep
  BY <1>1, TaskKeepsHInv
<1>2. ASSUME NEW p \in Pings, Probe(p) \/ Answered(p) \/ Ping(p) PROVE HInv'
  BY <1>2, ProbeKeepsHInv, PingKeepsHInv
<1>3. CASE UNCHANGED allVars
  BY <1>3 DEF allVars, healthVars, clientVars, vars, HInv, Typed, ClientTypeOK, ReadyInv, PongInv, UpInv, Ran
<1> QED BY <1>1, <1>2, <1>3 DEF NextHealth

(* A 200 says that clamd answered this probe with PONG, that the topic for   *)
(* failed callbacks exists and that the intake has run, for any number of    *)
(* probes at once and of records in flight.                                 *)
THEOREM Serving == SpecHealth => []HealthyMeansServing
<1>1. InitHealth => HInv
  <2> SUFFICES ASSUME InitHealth PROVE HInv
    OBVIOUS
  <2>1. ClientTypeOK
    BY DEF InitHealth, ClientInit, ClientTypeOK
  <2>2. ~ready /\ \A p \in Pings : outcome[p] = "none" /\ probe[p] = "idle"
    BY DEF InitHealth, ClientInit, Calls
  <2> QED BY <2>1, <2>2 DEF InitHealth, HInv, Typed, ReadyInv, PongInv, UpInv
<1>2. HInv => HealthyMeansServing
  BY DEF HInv, PongInv, UpInv, Ran, HealthyMeansServing
<1> QED BY <1>1, <1>2, NextKeepsHInv, TaskInvariance, PTL DEF SpecHealth
=============================================================================
