# av-scanner-v6: specification and verification

av-scanner-v6 is a TypeScript service. It consumes scan requests from a Kafka topic, streams the S3
object each request names through clamd, copies it to a clean or quarantine bucket, calls back the
requester, commits the offset and then deletes the source object. Several tasks share one consumer
group. This directory holds TLA+ modules translated from `src/src/*.ts`, TLC runs over small
instances, and TLAPS proofs that hold for every value of the constants.

Paths such as `kafka.ts:786` mean `src/src/kafka.ts`, line 786.

## 1. Inventory

| Component | State it keeps | Operations | Talks to |
|---|---|---|---|
| `Semaphore` (semaphore.ts) | `active`, `waiters` | `acquire`, the returned release | scheduler, scan processor |
| `processMessageStream` (kafka.ts:739) | `pending`, `partitionTails`, `failureRecorded`, the iterator | admit, schedule, settle | stream, semaphore, handler, fence, stop signal |
| fetch fence (kafka.ts:118) and `KafkaAssignmentFence` (kafka.ts:224) | membership snapshot per fetch; `valid`, `epoch`; a snapshot per record | wrapped `fetch`, `capture`, `commit`, join and heartbeat listeners, `dispose` | Kafka client and group coordinator |
| `KafkaMessageHandler` (kafka.ts:580) | none between records | `handle`: decode, process, dead letter, commit, cleanup | processor, dead letters, fence |
| event validation (validation.ts, `parseS3Url`) | none | schema, whitelists, URL forms | message handler |
| `ScanProcessor` | scan slots (a second semaphore) | `process`, source retries, one attempt | S3, clamd, result handler |
| `ScanResultHandler` | none | `handle`: copy, callback attempts, cleanup to run later | S3, webhook or Bus API |
| `S3ObjectStore` | the buckets (external) | metadata, read stream, copy, delete | AWS |
| `KafkaDeadLetterPublisher` | producer connection | `initialize`, `publish`, `close` | Kafka |
| `KafkaConsumerRunner` (kafka.ts:854) | consumer, stream, their close promises, `stopRequested`, `ready` | `run`, `stopIntake`, `close` | Kafka client, scheduler |
| `runApplication` (index.ts) | `shutdownPromise`, `applicationFailure` | start order, signals, drain race, cleanup, exit code | everything |
| `HealthServer` | listening socket | `start`, `stop`, health request | clamd, readiness |
| `ClamAvClient` | per call: socket, reply promise, deadline, S3 body | `scan`, `ping` | clamd |
| patched Kafka client (`src/patches`) | fetch offsets, `refreshOffsetsInflight`, `refreshOffsetsPending` | `refreshOffsets` | coordinator |
| `M2MTokenProvider`, configuration, errors, logger | none, or a cached token | pure functions | |
| release script, templates, images | outside the service | deploy | AWS |

How they interact. Kafka's client pushes records into one stream. The scheduler takes them from its
iterator, captures each with the assignment fence, chains it to its partition's lane and runs the
handler under a semaphore. The handler's effects happen in a fixed order: source reads, scan, copy,
callback (or dead letter), commit, deletion. The first failure stops the loop, lets active handlers
settle and ends the process with code 1; ECS starts another, which resumes at the committed offset.
SIGTERM stops intake and lets active handlers finish and commit for at most 100 s.

What is hard here, and what has to hold:

- *Promise jobs.* Every `await` is a point where other jobs run: state read before it may be stale
  after it (semaphore barging, queued records that a failure, a stop or a revocation overtakes).
- *Rebalances.* A response, a buffered record, a running handler and a commit on its way may each
  belong to a membership that has ended. None may move an offset for the wrong task or over an
  unfinished record.
- *Replies that race the upload.* clamd may answer, close or fall silent while the body is still
  being written; the body may stall or break off. A verdict must not come from half a file, a
  size-limit reply must not turn into a failure, and neither slot nor download may leak.
- *Partial failure.* A process may die between any two effects. Retries must find the source, and
  no request may vanish between callback, dead letter and commit.
- *Start and stop.* Tasks that start together race to create the dead-letter topic. A signal can
  meet setup half done; clients can hang; exit code 0 has to be earned, a signal has to end the
  process, and a health check must not pass a task that cannot work yet.

`PROJECT.json` lists every component with its status and every hazard at its line.

## 2. Modules

```
 Semaphore <--INSTANCE-- RecordScheduler --implements--> OrderedLane
     ^
     +-------INSTANCE-- ScanProcessor          GroupCommit --implements--> AtLeastOnce, PartitionLease
                             |                   ^    ^
                         ClamAvClient  MCGroupCommit  MCGroupCommitLatest
                             |
                         HealthServer --> Lifecycle

 EventValidation <-- ScanPipeline --implements--> PartitionLease
                         ^
                     MCScanPipeline
```

Arrows without a word are EXTENDS (read `HealthServer` as extending both `ClamAvClient` and
`Lifecycle`). Eight modules have a companion `_proofs`: `Semaphore`, `RecordScheduler`,
`GroupCommit`, `AtLeastOnce`, `ScanPipeline`, `ScanProcessor`, `Lifecycle`, `HealthServer`.

The modules are layered by what one step stands for. `RecordScheduler` takes "handle a record" as
one settling promise and shows that a partition is a lane handled in order. `GroupCommit` takes
lanes for granted and opens up fetches, memberships and commits across tasks. `ScanPipeline` takes
the group's commit rule for granted (a new owner starts at the committed record; only a commit of
the current assignment is accepted) and opens up one record's effects; `PartitionLease` is that rule
on its own, which both modules implement.
`ScanProcessor` looks at what concurrent records share inside one task, the scan slots, and opens up
the scan itself with `ClamAvClient`. `Lifecycle` sees the whole record loop as a number of tasks in
flight and opens up setup, stop and exit; `HealthServer` adds the probes that watch it.

### Semaphore

One action per synchronous stretch of `acquire` and release. `AcquireNow` takes a slot; `AcquireWait`
queues; `Release` decrements and resolves the oldest waiter, which is then *woken*: its promise is
resolved but its continuation, `Resume`, has not run. `active`, `waiters` are the fields; `woken` and
`holders` are the continuations pending and the releases not yet called.

The code tests the counter only before suspending, so a caller that runs between `Release` and
`Resume` gets in as well. Run `semaphore_capacity` shows the documented maximum exceeded (a finding);
`OverCapacityOnlyByBarging` states what does hold.

### RecordScheduler

`loop` is where the `while` of `processMessageStream` is suspended: `room` (824-834), `waiting` for
`iterator.next()`, `arrived` (resolved, not continued), `draining`, `settling`, and `returned` or
`threw`. `stage[r]` is how far a record's task is; `tail` is `partitionTails`, `previous[r]` the
promise the task was chained to, `captured[r]` the fence epoch. The semaphore is an INSTANCE of
`Semaphore`, so its barging is part of the model. `Cleanup` is the `finally` that leaves `pending`,
separate from the task's end because it is a later job. `Invalidate` is an assignment change seen by
the fence, `Stop` the abort signal.

`OrderedLane` is what the rest of the system is promised of one partition: one record at a time, each
after the one before it is committed, none under an assignment that has ended, none after a failure
or a stop. `LanesAreOrdered` is the refinement, one instance per partition; the mapping reads the
lane off `nextOffset`, `stage`, `captured` and the two flags.

### GroupCommit and AtLeastOnce

Per task: `phase`, `gen`, `assigned` (the consumer), `position`, `refresh`, `pending`, `fetch`,
`buffer` (the stream), `valid`, `epoch` (the fence), `lane`, `step`, `failing` (the scheduler). Outside:
`generation`, `owner`, `invited`, `committed`, `logEnd` (coordinator and log), `commits` (requests on
their way and unread answers).

`Fetch` records the membership a request begins in; `FetchedCurrent` and `FetchedNothing` are the two
outcomes of `discardIfStale`. `Push` labels a record with the generation of that moment, as the
client does. `Admit` is `capture`; `Begin` the last check before a handler; `Handled` the terminal
outcome and the first check of `commitFenced`; `Send` the second check, after the wait for the
coordinator connection, with the captured generation; `Replied`, `ConnectionLost` its answer.
`Down` is an exit or a crash, at any moment. `Invalidated` is `onAssignmentInvalidated` or
`onHeartbeatError`: with a rejoin, or with the stream destroyed.

`refresh` and `pending` are the two flags of the patched `refreshOffsets`: `ScheduleRefresh` (a
part of `Synced`) starts one or leaves the join pending behind the one in flight, `OffsetsAnswered`
is the coordinator's answer, `Refreshed` the callback, which runs the refresh again when a join came
in between and destroys the stream on an error. `position` already holds the answer between the two;
nothing reads it there. `group_commit_return` breaks as soon as the pending flag is cleared before
it is looked at, which is what the patch repairs in the library.

The coordinator, the client's join protocol and its stream are external and modelled from the way
`kafka.ts` uses them: the coordinator accepts a commit whose generation is current (it does not
compare assignments). One number, the generation, stands for the whole membership identity (group,
generation, member, coordinator) that the code compares field by field.

`AtLeastOnce` is the promise to the producers: records of a partition are finished in order, and the
committed offset takes in one finished record at a time. `AtLeastOnceSpec` in `GroupCommit` is the
refinement (the mapping is the identity on `logEnd`, `processed`, `committed`).

`PartitionLease` is what an assignment comes to for the handler: the owner takes the next record, the
offset moves only past a record taken since the last assignment, and a new assignment ends the work
of the one before. `LeaseIsKept` says that `GroupCommit` implements it for every partition; the
mapping collects in `Work` what is handled, about to be sent or unanswered under the current
generation.

Run `group_commit_latest` shows where the promise has a gap: with no committed offset the stream
starts at the end of the log (`fallbackMode: "latest"`), so a record that failed before the group's
first commit is passed over by the restarted task (a finding).

### ScanPipeline

`at[w]` is the await at which a task's handler is suspended; `store` is S3 (which upload a location
holds), `delivered` and `retained` are what the receiver and the dead-letter topic have. `Copy`,
`Deliver`, `Publish`, `Commit`, `Delete` each are the effect together with the code up to the next
await, so `Stops` between two of them is a crash there; an effect that happened before its answer was
lost is the effect followed by `Stops`. `Join` moves the partition: every record fetched before it
loses `pinned`, and its commit is refused. `DeliveryFails` covers an attempt that failed after the
receiver had accepted it.

The records of `Log` are raw messages as `EventValidation` sees them: `Begin` takes one that
`Accepted` holds of into processing and commits every other one without an effect.

`LeaseIsUsed` says that all `ScanPipeline` does to owner, offset and work in hand is what
`PartitionLease` allows. So the two modules meet in one specification: what is assumed of the group
here is what `GroupCommit` keeps (given committed offsets to start from). The lease speaks of current
work only. Two steps of a revoked task have no counterpart here: it may still begin a record it had
buffered, and a commit sent before a crash may be accepted after it. The first is the same as having
begun it before the revocation, the second as having committed before the crash, because nothing the
other tasks see depends on the order; that argument is made here and not checked.

Uploads are named by their location and no key is reused by an uploader; nothing overwrites a source
between scan and copy. `DestinationAssumption` says that file names belong to one upload: two
uploads never share a destination, and a destination is no other upload's source. The code does not
check this; it is the producer's part of the contract, and without it a copy would overwrite another
upload. `ReportedUrlResolves` leaves out two kinds of request. Where the source is already where the
result belongs, nothing is copied, and a later attempt with another verdict may move the object away.
And where the file name has a segment `.` or `..`, the property does not hold: `encodeKey`
(s3.ts:145) leaves such segments alone and every URL parser resolves them, so that of a file
`a/../b` copied to the key `a/../b` the reported URL leads to the key `b`. Validation asks only for
a non-empty `fileName` (validation.ts:146).

Verdicts may differ between attempts because clamd's signatures are updated
(`clamav/start.sh` runs freshclam). Run `scan_pipeline_repeat` shows the consequence: a retried move
may leave copies in both buckets (a finding).

### EventValidation

Operators only: `Accepted` is the decoding of `KafkaMessageHandler.handle`, the cross-field rules of
the schema in `validation.ts`, the whitelists and `parseS3Url`; `BuildS3Url` is the way back, for
names without dot segments. A URL is a form (`s3`, path or virtual style), a host bucket, a region
and the segments of its path, decoded and as they are written; `Resolved` is what `new URL(value)`
makes of `.` and `..` among them before `parseS3Url` looks for bucket and key. Slashes in front,
which `decodePath` strips, and slashes written `%2F` are left out, and so is what `buildS3Url` throws
on (a lone surrogate). Types, enum spellings and timestamps of single fields are one flag,
`wellFormed`. `Complete` says which fields the code behind the validation takes for granted;
`AcceptedRequestsAreComplete` compares the two over every combination of the optional ones.

### ClamAvClient and ScanProcessor

`step[c]` is the await at which a `scan()` or `ping()` is suspended, `link[c]` its socket, `reply[c]`
its `responsePromise`, `body[c]` the S3 stream, `outcome[c]` what the call returned or threw.
`OpenSocket` arms the deadline; `Connected`, `Written`, `Answer`, `ReplyBreaks`, `LinkBreaks` are
clamd and the network, `TakeChunk`, `BodyEnds`, `BodyBreaks` the S3 body, `WriteFails` and `Replied`
the call's own continuations. `Settle` is the `finally`, together with the close of the socket that
it awaits; `Caught` the `catch` that lets a received reply win. In the race between the next chunk
and the reply either may win when both are there. A reply and the reset of the connection behind it
may come in either order; `LinkBreaks` under a pending reply is the order in which it is lost.

`ScanProcessor` has one variable, `at`, for the await at which a request of `process` is suspended,
and its `attempt`. It acquires and releases through an INSTANCE of `Semaphore`, so barging is part
of it. A lane (a member of `Scans`) takes one record after the other; what a result does is one
await, `deliver` or `report`, that may fail. `SlotsComeBack` is a refinement with fairness: the
processor implements `Semaphore!FairSpec`, whose assumption that holders release follows here from
the deadline of the client, as far as clamd and the body are concerned, and from the assumption that
GetObject and the handling of a result end (section 4).

### Lifecycle and HealthServer

`app` is where `runApplication` stands, `race` what settled its `Promise.race`, `run` where
`KafkaConsumerRunner.run` stands, `setup` what won the race for the first stream. `offer` is the
`consume()` promise and the stream that came of it when the runner does not adopt it. `stream` and
`consumer` are the fields together with their shared close promises; `closes` are the cleanup's three
attempts. `inflight` is the size of the scheduler's pending set, bounded by `maximumPending`, so queued
records that a stop will skip count too.

The phases `listing` to `notListed` are the awaits of the dead-letter publisher's `initialize`:
list the topics, create the missing one, after a failed creation list them again, close the admin
client. `TopicAppears` is another task that creates the topic at any moment of that.

`Signal` closes the adopted stream, or the consumer when there is none; the loop's end, the
stream's and the consumer's closing, and every error are separate steps of the library.
`Adopt` and `Discard` are the two continuations after the stream arrived, `SetupStopped` the
third outcome with `closeLateStream`. `DrainDeadline` and `CloseFails` are the 100 s and 10 s timers:
time itself is not modelled, a timer may fire at any moment at which it is armed. A failing stream or
client is `IterationFails`, whoever destroyed it.

`HealthServer` runs the task beside its probes: `Probe` starts a ping on a connection of its own,
`Answered` turns the ping's outcome and the readiness latch into 200 or 503, and the server's close
waits for probes in progress, which the 10 s of `CloseFails` bound.

The second `if (stopRequested)` of `run` (just before `consume`) has no await before it and cannot
be true there; it has no action. A repeated identical signal, or any signal during cleanup, meets no
listener and kills the process; those exits are not modelled.

## 3. Runs

| Run | Instance | Shows |
|---|---|---|
| `semaphore` | 4 callers, 2 slots | accounting, no lost wake-up, no starvation, exact cause of exceeding the capacity |
| `semaphore_capacity` | 3 callers, 1 slot | violation: more than `capacity` holders |
| `record_scheduler` | 2 partitions x 2 records, 1 slot, read-ahead 3, 1 invalidation | lane order, refines `OrderedLane` (no late start), bound, nothing left running, no deadlock, termination |
| `group_commit` | 2 tasks, 1 partition, 2 records, 2 generations | types, refines `PartitionLease` and `AtLeastOnce` |
| `group_commit_return` | 2 tasks, 1 record, 3 generations | a partition that comes back: current work is the next record |
| `group_commit_lanes` | 1 task, 2 partitions x 2 records, 2 generations | nothing skipped on either lane; a healthy owner catches up |
| `group_commit_latest` | no committed offset | violation: a started record is passed over |
| `scan_pipeline` | 2 tasks, a request and its replay, 3 faults, changing verdicts | the source is kept until done, nothing is dropped, a reported URL without dot segments holds the upload |
| `scan_pipeline_mixed` | 4 kinds of record, 2 faults, every combination of optional fields | the other paths: accepted requests are complete; refines `PartitionLease`; the backlog drains |
| `scan_pipeline_repeat` | 1 task, 1 request, 2 faults | violation: copies in both buckets |
| `scan_processor` | 2 lanes, 1 slot, 2 source attempts | whole-body verdicts, the received reply decides, nothing held idly, slots come back |
| `lifecycle` | 2 records in flight, 1 probe | connection kept for commits, an exit code that is earned and leaves no stream unowned, creation race, honest probes; signal, loop end and probe come to an end |

`ReportedUrlResolves` asks for the very upload at the reported URL, in every later state, not only for
an object there.

Why the bounds are enough. Two tasks, a partition that moves and comes back, and one or two records make
every stale label, buffer and commit possible: a stale response is dangerous only when the offset moved
in between and the partition is back, which takes three generations and one record
(`group_commit_return`); order within a lane takes two records and two generations (`group_commit`).
Three generations with two records exceed what TLC finishes in minutes. One slot and two partitions give
queueing on the lane and on the semaphore; four callers and two slots give two wake-ups at once. Three
faults suffice for a crash after the copy, a lost callback answer and a rebalance in one behaviour. Two
lanes and one slot let a waiter and a barging newcomer meet; a third lane is more than TLC finishes in
minutes, and calls of the client touch each other only through the slots. Retry limits are 2: the first
attempt, the last attempt, and the step between them.

`CHECK_DEADLOCK FALSE` stands in the four `group_commit*` configurations: with the bound on
generations used up, a task that left the group waits for ever for a round that the bound forbids.

## 4. Fairness

- `Semaphore!FairSpec`: resolved continuations run (the event loop) and holders release.
- `RecordScheduler!FairSpec`: every task's next job runs, which includes that a handler settles.
  Nothing makes a handler fail, a stop arrive, or a record come.
- `GroupCommit!FairSpec`: the healthy path's steps happen, fetches strongly fairly per partition
  because one real Fetch asks for all of them. Rebalances, failures and production are not fair;
  `HealthyOwnerCatchesUp` has its premise in the formula.
- `ScanPipeline!FairSpec`: awaits settle, ECS replaces a stopped task, a partition gets an owner.
- `ScanProcessor!FairSpec`: the deadline of every client call fires, continuations run, result
  handling ends (callbacks have timeouts and bounded attempts), and GetObject is assumed to be
  answered. Nothing is assumed of clamd or of the body: they may hang for ever.
- `HealthServer!FairSpecHealth`: the fairness of the task below, the ping's deadline and
  continuations.
- `Lifecycle!Fairness`: continuations run, timers fire, and start-up calls end (bounded retries).
  The Kafka client and the handlers get no fairness at all. `LoopEndEndsTheProcess` states its
  assumption, `HandlersSettle`, in the formula.

That handlers settle is an assumption about S3: its client is created without timeouts
(s3.ts:179). After a failure the loop waits for active handlers with no deadline (kafka.ts:848),
so a hung request keeps a failed task alive until a signal arms the 100 s.

## 5. Proofs

`tlapm` checks the following for any constants that satisfy the modules' assumptions.

- `Semaphore_proofs`: `TypeCorrect`, `Ownership`, `NoLostWakeUp`, `BargingOnly` and `OneLine`
  (resolved and queued callers are one first-come-first-served line). The invariant says
  that `active` is the number of holders, that waiters and woken callers are distinct and disjoint
  from the holders, and that holders plus woken reach the capacity while somebody waits.
- `RecordScheduler_proofs`: `TypeCorrect`, `InOrder` (`LaterOffsetsWait`). `LaterOffsetsWait` is not
  inductive: nothing in it says what a queued task waits for. `IInv` adds, conjunct by conjunct, the
  shape of the loop's variables (`Shapes`, `LoopInv`), that exactly the records below `nextOffset` are
  scheduled (`AdmittedInv`, `DenseInv`), that a running record is behind settled ones (`LaneInv`,
  `OrderInv`), that `tail` is the latest record while its task is pending (`TailOwnInv`, `TailInv`),
  that `previous` is the record just before unless that one has been cleaned up (`ChainInv`), and that a
  record settled without a commit has set a flag that keeps its successors from running (`FlagInv`).
  There is one step per action of `Next` and one below it per conjunct the action can disturb.
  `ReadAhead` (`ReadAheadBounded`), `Quiet` (`QuietAfterSettling`) and `ReturnAccounts`
  (`ReturnAccountsForEveryRecord`) rest on a second invariant, `RunInv`: every task that may still run
  is pending (`PendingInv`), a loop that asks for a record has room for it (`ReadInv`), a settled run
  has settled tasks (`EndInv`), and only a task between its `acquire()` and its `release()` is in the
  semaphore (`SlotInv`), whose own invariant is taken from `Semaphore_proofs`; with `SlotsImplemented`,
  every step is one of `Semaphore` or leaves it alone. `Lanes` (`LanesAreOrdered`) is the refinement of
  `OrderedLane`: a handler starts only when every earlier record of its partition is committed, which
  follows from the chain of settled predecessors and the flag that any uncommitted one has set.
- `GroupCommit_proofs`: `TypeCorrect`, `CommittedIsFinished` (`NothingSkipped`) and `OwnerCommits`
  (`OnlyTheOwnerCommits`, which holds without the premise below; the runs check the stronger
  `LeaseIsKept` instead). For the first safety property the invariant (`Safe`) says of every place where
  a task holds an offset (lane, buffer, position, a response the fence would let through): either every
  record before it is finished, or the task holds the record just before it, further ahead. So whatever
  reaches the front of a lane, and with it every commit, has only finished records before it, in this
  generation or any earlier one. `OwnInv` says that a member that looks active in the current generation
  believes assigned what it owns; this is what the fence's own check adds to the coordinator's, which
  compares generations alone.
- `AtLeastOnce_proofs`: `CurrentWork` (`CurrentWorkIsNext`) and the refinements, `Implements`
  (`AtLeastOnceSpec`) and `Leased` (`LeaseIsKept`). The step that matters is an accepted commit, which
  must move the offset by exactly one; `Safe` alone would allow it to move back or ahead. The invariant
  (`Current`): what a task holds under the current generation continues the committed offset without a
  gap or a repetition, from the lane through the buffer to the position (`Follows`); nothing is held
  under a generation before its first refresh has ended (`QuietInv`); and an unanswered commit of the
  current generation is the next one, and its sender either waits for it or holds nothing more of the
  partition (`CurCommit`).

  The lease follows from the same invariant: work in hand is the owner's and the next record, so any
  step takes it up, commits it, drops it or assigns the partition anew.

  These theorems and `CommittedIsFinished` assume `InitialCommitted # Unset`: the group has committed
  offsets to start from. The premise is needed, as run `group_commit_latest` shows; `TypeCorrect` and
  `OwnerCommits` do without it.
- `Lifecycle_proofs`: `TypeCorrect`, `ConnectionKept` (`ActiveRecordsKeepTheConsumer`), `CleanExit`
  (`ExitZeroMeansDrained`, which includes that no stream is left unowned), `TopicFirst` (the consumer
  exists only after the topic does; not checked by a run) and `RaceLost` (`LosingTheRaceIsNotFatal`).
  The invariant ties the phases together: what an unadopted stream, a settled run and a settled race
  each imply, and `TopicInv`, in which phases the topic is known to be there.
- `HealthServer_proofs`: the probes only watch the task (`TaskSteps`), so its theorems carry over
  (`CleanExitBesideProbes`), and `Serving` (`HealthyMeansServing`). Its invariant says that what a
  probe was told stays true: the intake has run for good (`RanStays`), and a ping that returned
  PONG keeps its reply until the next one.
- `ScanPipeline_proofs`: `TypeCorrect`, `NeverDropped` (`NothingSilentlyDropped`), `SourceKeptUntilDone`
  (`SourceOutlivesRetries`), `ReportsResolve` (`ReportedUrlResolves`), `RequestsComplete`
  (`AcceptedRequestsAreComplete`) and `LeaseUsed` (`LeaseIsUsed`). What a commit or a deletion may rely
  on was established several awaits earlier, so `IInv` carries it from place to place: `PlaceInv` says
  what the await a handler is suspended at implies (at the commit the callback was accepted or there is
  none, at the commit of a retained record its dead letter exists, at the deletion the record is behind
  the committed offset); `PinInv`, that a pinned record is the owner's and the next one, so that of
  several tasks holding the same record one commits it; `MoveInv`, that what was moved is still at a
  destination. `StoreInv` is the property itself, with the destination outside all sources. `Grows` is
  what every step guarantees the other tasks: callbacks, dead letters, the committed offset and copies
  stay. The last of these is where `DestinationAssumption` is used, when a copy overwrites and when a
  source is deleted. `DrainInv` adds that the owner is alive and that a handler counts on its source
  only after having seen it. `ReportInv` ties a callback, from the moment its handler waits to make it,
  to the URL it names. `UrlNames` shows that `parseS3Url` undoes `buildS3Url` where no dot segment is
  in the way, from `UndottedStays`: `Resolved`, a recursive function, leaves such a path as it is. The
  proof exhibits the function and compares it with the defined one at the least place where they could
  differ.
- `ScanProcessor_proofs`: `SlotsImplemented`, every step is one of `Semaphore` or leaves the slots
  alone. The invariant of `Semaphore_proofs` is then instantiated for the slots (`SlotsInvNext`) and
  tells that a caller waits in at most one place, from which `PlaceInv` follows: a request holds a slot
  exactly between its grant and the end of its result. `CallInv` is the invariant of one client call: a
  reply "OK" needs the terminator (clamd's protocol, `Possible`) and so the end of the body, and a
  settled call has no socket through which its reply could change. `TypeCorrect`, `CleanIsComplete`
  (`CleanMeansWholeBody`), `ReplyDecides` (`ReceivedReplyDecides`) and `HeldOnlyWhileScanning`
  (`HoldsOnlyWhileScanning`) follow, for any number of lanes and slots. `WaitInv` (a suspended request
  is in the line) and `GoneInv` (a closed socket has rejected the reply it owed) serve the theorems on
  the slots coming back.

Every invariant, every action property and every refinement without fairness that the passing runs
check is proved. Only model-checked: the liveness properties, because fairness and ENABLED are beyond
the prover, as are the library's induction theorems and RECURSIVE operators (no module uses the last).
Where a proof needs "the first record of the lane that has not settled", or the first segment of a
path at which two functions differ, it takes the least element of a set of naturals
(`LeastNatural`), which needs no induction over an operator. What `Resolved` makes of a path with dot
segments is not stated by any theorem.

### What the liveness properties rest on

A liveness property has a part that has nothing to do with fairness: that there is always somebody
who can take a step, that the steps are bounded by a measure, and that nobody else adds to it. That
part is proved, for every value of the constants, under `Spec` alone:

| Checked by TLC | Somebody can go on | Steps are bounded |
|---|---|---|
| `RunSettles` | `NoDeadlock` (`SomeTaskCanRun`), `RunnableStaysRunnable` | `TasksTerminate`: `Rank` of a task, at most 7 |
| `SlotsComeBack` | `HoldersGoOn`, `SlotsNeverStall` | `HoldingEnds`: `Left` of a holder, at most 5 |
| `SignalEndsTheProcess`, `LoopEndEndsTheProcess` | `NothingHoldsTheExit` | `ExitComesNearer`, `ExitIsNear`: at most 13; `LoopWindsDown` |
| `BacklogDrains` | `OwnerIsAlive` | `HandlersEnd`, at most `5 + 3 * SourceAttempts`; `GivenUpForAReason`, `GoneForGood` |

For example `BacklogDrains`: a handler takes a bounded number of awaits; under the current assignment
it ends with a commit, in a fault, or because a copy finds its source gone; faults are finitely many
by assumption, and a source that is gone never comes back, so only the handlers that had seen it can
give up over it; a partition whose owner is gone is free to be assigned. `SlotsComeBack`: a holder
is at the read, at the delivery, or in a call whose deadline is armed or has already settled the
promise it waits for, so neither clamd nor the body can keep the slot; and while a request waits, some
holder or a promised waiter is there to go on.

What is left to the reader and to TLC is the last step: that weak fairness of steps which stay
enabled until taken drives a bounded measure down. `CanRun`, `OwnStepReady`, `DeadlineArmed` and
`ContinuationDue` stand for ENABLED of the steps they name; that they agree with it in every
reachable state was compared with TLC on the runs' instances and is not proved. Two liveness
properties have no such part yet: `HealthyOwnerCatchesUp` and `ProbesAreAnswered`.
`WaiterEventuallyHolds` has `OneLine` and `NoLostWakeUp`.

## 6. Not modelled

- Configuration: it is read once, before any modelled state exists, and an invalid environment
  stops the process there. The modules' CONSTANTS stand for what it supplies. The limits of Node's
  timers (a delay above 2^31 - 1 ms fires at once) are not modelled either.
- What makes a file name impossible: lone surrogates, on which `encodeURIComponent` throws, and keys
  longer than S3 allows. `BacklogDrains` holds of names that can be encoded and stored.
- Bytes: JSON, frames of the upload, reply text, authentication headers, logging. Single-field
  checks of the schema are one flag; a callback is accepted or not.
- Time: a timer may fire whenever it is armed.
- The machine token: one await of a callback attempt, which may fail like the rest of it.
- Refreshes the library schedules with `destroyOnError` false: they cannot change what a refresh
  that succeeds leaves behind.
- A task that was revoked from its partition may find the source gone because the new owner has
  finished, and report it missing although another callback said otherwise. The code promises
  callbacks at least once, not identical ones, so no property forbids this.
- Infrastructure templates, the release script, images, tools.

## 7. Plan

Done: the specification modules above, three abstract ones among them (`AtLeastOnce`,
`PartitionLease`, `OrderedLane`), and the proofs listed, which cover every property of the passing
runs but the liveness properties. What is left, by importance:

1. What `HealthyOwnerCatchesUp` rests on: that an owner which neither fails nor loses its partition
   always has a step towards its next commit, whatever stale responses and refused work are about.
   The invariant has to say of a stable owner's position, refresh, buffer and lane that one of them
   holds the next record or is about to ask for it.
2. The same for `ProbesAreAnswered`, from the deadline of the ping.
3. The two reorderings in section 2 that `PartitionLease` leaves to an argument, as a proof.
4. Larger instances of `group_commit`, whose state space grows fastest.
