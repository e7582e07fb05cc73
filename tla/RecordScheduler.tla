-------------------------- MODULE RecordScheduler --------------------------
(***************************************************************************)
(* processMessageStream of src/kafka.ts: one loop admits records from the  *)
(* stream, each partition is a chain of tasks (partitionTails), and a      *)
(* Semaphore bounds the handlers.  Every await is a point where another    *)
(* promise job may run, so each action is the code between two awaits.     *)
(*                                                                         *)
(* The handler (KafkaMessageHandler.handle) either commits its record and  *)
(* resolves, or rejects; ScanPipeline opens it up.                         *)
(***************************************************************************)
EXTENDS Integers, Sequences, FiniteSets

CONSTANTS
    Partitions,
    MaxOffset,     \* records the stream can yield per partition
    Concurrency,   \* SCAN_CONCURRENCY
    MaxPending,    \* maximumPending
    MaxEpoch,      \* assignment invalidations in a behaviour
    None           \* no record

ASSUME SchedulerAssumption ==
    /\ MaxOffset \in Nat
    /\ Concurrency \in Nat \ {0}
    /\ MaxPending \in Nat \ {0}
    /\ MaxEpoch \in Nat
    /\ None \notin Partitions \X (1 .. MaxOffset)

Records == Partitions \X (1 .. MaxOffset)

Partition(r) == r[1]
Offset(r) == r[2]

VARIABLES
    \* the loop
    loop,          \* where the admitting loop is suspended
    arrived,       \* the record iterator.next() has just resolved with
    nextOffset,    \* per partition, the stream's next record
    pending,       \* scheduled tasks not yet cleaned up
    tail,          \* partitionTails
    \* the tasks
    stage,         \* per record, how far its task is
    previous,      \* per record, the task it was chained behind
    captured,      \* per record, the assignment epoch of its fence
    \* shared flags
    failed,        \* failureRecorded
    stopped,       \* stopSignal.aborted
    epoch,         \* the fence's current assignment epoch
    \* the semaphore
    active, waiters, woken, holders

loopVars == <<loop, arrived, nextOffset, tail>>
taskVars == <<previous, captured>>
slotVars == <<active, waiters, woken, holders>>
vars == <<loop, arrived, nextOffset, pending, tail, stage, previous, captured,
          failed, stopped, epoch, active, waiters, woken, holders>>

Slots == INSTANCE Semaphore WITH Callers <- Records, Capacity <- Concurrency

\* How a task ends: its handler resolved, it returned because of the stop
\* signal, its handler rejected, or it rejected without being handled.
Settled == {"committed", "skipped", "failed", "rejected"}
Stages == {"absent", "queued", "acquiring", "handling"} \cup Settled

TypeOK ==
    /\ loop \in {"room", "waiting", "arrived", "draining", "settling",
                 "returned", "threw"}
    /\ arrived \in Records \cup {None}
    /\ nextOffset \in [Partitions -> 1 .. MaxOffset + 1]
    /\ pending \in SUBSET Records
    /\ tail \in [Partitions -> Records \cup {None}]
    /\ stage \in [Records -> Stages]
    /\ previous \in [Records -> Records \cup {None}]
    /\ captured \in [Records -> 0 .. MaxEpoch]
    /\ failed \in BOOLEAN
    /\ stopped \in BOOLEAN
    /\ epoch \in 0 .. MaxEpoch
    /\ active \in Int
    /\ waiters \in Seq(Records)
    /\ woken \in Seq(Records)
    /\ holders \in SUBSET Records

Init ==
    /\ loop = "room"
    /\ arrived = None
    /\ nextOffset = [p \in Partitions |-> 1]
    /\ pending = {}
    /\ tail = [p \in Partitions |-> None]
    /\ stage = [r \in Records |-> "absent"]
    /\ previous = [r \in Records |-> None]
    /\ captured = [r \in Records |-> 0]
    /\ failed = FALSE
    /\ stopped = FALSE
    /\ epoch = 0
    /\ Slots!Init

-----------------------------------------------------------------------------
(* The admitting loop *)

\* Mutant: `>` for `>=` in the read-ahead test.
RequestNextLate ==
    /\ loop = "room"
    /\ ~failed
    /\ Cardinality(pending) <= MaxPending
    /\ loop' = "waiting"
    /\ UNCHANGED <<arrived, nextOffset, pending, tail, stage, taskVars,
                   failed, stopped, epoch, slotVars>>

\* The read-ahead has room: the loop asks the stream for a record.
RequestNext ==
    /\ loop = "room"
    /\ ~failed
    /\ Cardinality(pending) < MaxPending
    /\ loop' = "waiting"
    /\ UNCHANGED <<arrived, nextOffset, pending, tail, stage, taskVars,
                   failed, stopped, epoch, slotVars>>

\* iterator.next() settles the race before any failure does.
Arrive(p) ==
    /\ loop = "waiting"
    /\ ~failed
    /\ nextOffset[p] <= MaxOffset
    /\ loop' = "arrived"
    /\ arrived' = <<p, nextOffset[p]>>
    /\ nextOffset' = [nextOffset EXCEPT ![p] = @ + 1]
    /\ UNCHANGED <<pending, tail, stage, taskVars, failed, stopped, epoch,
                   slotVars>>

\* The stream was closed: next.done leaves the loop.
IteratorEnds ==
    /\ loop = "waiting"
    /\ ~failed
    /\ loop' = "draining"
    /\ UNCHANGED <<arrived, nextOffset, pending, tail, stage, taskVars,
                   failed, stopped, epoch, slotVars>>

\* The stream was destroyed with an error.
IteratorFails ==
    /\ loop = "waiting"
    /\ failed' = TRUE
    /\ loop' = "settling"
    /\ UNCHANGED <<arrived, nextOffset, pending, tail, stage, taskVars,
                   stopped, epoch, slotVars>>

\* Mutant: the task is started from a resolved promise, not from the tail.
ScheduleUnchained ==
    /\ loop = "arrived"
    /\ loop' = "room"
    /\ arrived' = None
    /\ stage' = [stage EXCEPT ![arrived] = "queued"]
    /\ captured' = [captured EXCEPT ![arrived] = epoch]
    /\ tail' = [tail EXCEPT ![Partition(arrived)] = arrived]
    /\ pending' = pending \cup {arrived}
    /\ UNCHANGED <<nextOffset, previous, failed, stopped, epoch, slotVars>>

\* Mutant: the fence counts an epoch of its own when it captures a record.
ScheduleNextEpoch ==
    /\ loop = "arrived"
    /\ loop' = "room"
    /\ arrived' = None
    /\ stage' = [stage EXCEPT ![arrived] = "queued"]
    /\ captured' = [captured EXCEPT ![arrived] = epoch + 1]
    /\ previous' = [previous EXCEPT ![arrived] = tail[Partition(arrived)]]
    /\ tail' = [tail EXCEPT ![Partition(arrived)] = arrived]
    /\ pending' = pending \cup {arrived}
    /\ UNCHANGED <<nextOffset, failed, stopped, epoch, slotVars>>

\* schedule(): capture the fence and chain the task behind its lane's tail.
\* The failure may already be recorded: the race was settled before it.
Schedule ==
    /\ loop = "arrived"
    /\ loop' = "room"
    /\ arrived' = None
    /\ stage' = [stage EXCEPT ![arrived] = "queued"]
    /\ captured' = [captured EXCEPT ![arrived] = epoch]
    /\ previous' = [previous EXCEPT ![arrived] = tail[Partition(arrived)]]
    /\ tail' = [tail EXCEPT ![Partition(arrived)] = arrived]
    /\ pending' = pending \cup {arrived}
    /\ UNCHANGED <<nextOffset, failed, stopped, epoch, slotVars>>

\* schedule(): messageFence.capture throws, so no task is made.
CaptureThrows ==
    /\ loop = "arrived"
    /\ loop' = "settling"
    /\ arrived' = None
    /\ failed' = TRUE
    /\ UNCHANGED <<nextOffset, pending, tail, stage, taskVars, stopped, epoch,
                   slotVars>>

\* failureSignal wins the race the loop is suspended on.
FailureSeen ==
    /\ loop \in {"room", "waiting", "draining"}
    /\ failed
    /\ loop' = "settling"
    /\ UNCHANGED <<arrived, nextOffset, pending, tail, stage, taskVars,
                   failed, stopped, epoch, slotVars>>

\* Mutant: the error path throws without waiting for the active tasks.
ThrowAtOnce ==
    /\ loop = "settling"
    /\ loop' = "threw"
    /\ UNCHANGED <<arrived, nextOffset, pending, tail, stage, taskVars,
                   failed, stopped, epoch, slotVars>>

AllSettled == \A r \in pending : stage[r] \in Settled

\* Promise.all over what is pending resolves; Promise.allSettled does.
Drained ==
    /\ AllSettled
    /\ \/ loop = "draining" /\ ~failed /\ loop' = "returned"
       \/ loop = "settling" /\ loop' = "threw"
    /\ UNCHANGED <<arrived, nextOffset, pending, tail, stage, taskVars,
                   failed, stopped, epoch, slotVars>>

-----------------------------------------------------------------------------
(* The tasks *)

To(r, s) == stage' = [stage EXCEPT ![r] = s]

\* What the task is chained behind: a lane's first task has Promise.resolve().
Previous(r) == IF previous[r] = None THEN "committed" ELSE stage[previous[r]]

\* The task runs: it stops at once, or calls semaphore.acquire().
Begin(r) ==
    /\ stage[r] = "queued"
    /\ Previous(r) \in {"committed", "skipped"}
    /\ \/ failed /\ To(r, "rejected") /\ UNCHANGED slotVars
       \/ ~failed /\ stopped /\ To(r, "skipped") /\ UNCHANGED slotVars
       \/ ~failed /\ ~stopped /\ To(r, "acquiring") /\ Slots!Acquire(r)
    /\ UNCHANGED <<loopVars, pending, taskVars, failed, stopped, epoch>>

\* A task chained behind a rejected one rejects without running.
Inherit(r) ==
    /\ stage[r] = "queued"
    /\ Previous(r) \in {"failed", "rejected"}
    /\ To(r, "rejected")
    /\ failed' = TRUE
    /\ UNCHANGED <<loopVars, pending, taskVars, stopped, epoch, slotVars>>

\* The semaphore resumes a suspended task.
Resume(r) ==
    /\ Slots!Resume(r)
    /\ UNCHANGED <<loopVars, pending, stage, taskVars, failed, stopped, epoch>>

\* Mutant: the handler starts on the checks made before the slot was free.
StartUnchecked(r) ==
    /\ stage[r] = "acquiring"
    /\ r \in holders
    /\ To(r, "handling")
    /\ UNCHANGED <<loopVars, pending, taskVars, failed, stopped, epoch,
                   slotVars>>

\* The slot is held and every check is repeated: the handler starts.
Start(r) ==
    /\ stage[r] = "acquiring"
    /\ r \in holders
    /\ ~failed
    /\ ~stopped
    /\ captured[r] = epoch
    /\ To(r, "handling")
    /\ UNCHANGED <<loopVars, pending, taskVars, failed, stopped, epoch,
                   slotVars>>

\* The slot is held but a repeated check stops the task, which frees it.
GiveUp(r) ==
    /\ stage[r] = "acquiring"
    /\ r \in holders
    /\ \/ failed /\ To(r, "rejected") /\ UNCHANGED failed
       \/ ~failed /\ stopped /\ To(r, "skipped") /\ UNCHANGED failed
       \/ /\ ~failed /\ ~stopped
          /\ captured[r] # epoch
          /\ To(r, "rejected")
          /\ failed' = TRUE
    /\ Slots!Release(r)
    /\ UNCHANGED <<loopVars, pending, taskVars, stopped, epoch>>

\* The handler resolves: its record is committed.
HandlerResolves(r) ==
    /\ stage[r] = "handling"
    /\ To(r, "committed")
    /\ Slots!Release(r)
    /\ UNCHANGED <<loopVars, pending, taskVars, failed, stopped, epoch>>

\* Mutant: the rejected handler's error is swallowed by the task.
SwallowRejection(r) ==
    /\ stage[r] = "handling"
    /\ To(r, "skipped")
    /\ Slots!Release(r)
    /\ UNCHANGED <<loopVars, pending, taskVars, failed, stopped, epoch>>

\* Mutant: the error path leaves without its finally block.
RejectHoldingSlot(r) ==
    /\ stage[r] = "handling"
    /\ To(r, "failed")
    /\ failed' = TRUE
    /\ UNCHANGED <<loopVars, pending, taskVars, stopped, epoch, slotVars>>

\* The handler rejects: the first failure is recorded and the slot freed.
HandlerRejects(r) ==
    /\ stage[r] = "handling"
    /\ To(r, "failed")
    /\ failed' = TRUE
    /\ Slots!Release(r)
    /\ UNCHANGED <<loopVars, pending, taskVars, stopped, epoch>>

\* The finally job of a settled task.
Cleanup(r) ==
    /\ r \in pending
    /\ stage[r] \in Settled
    /\ pending' = pending \ {r}
    /\ tail' = [tail EXCEPT ![Partition(r)] = IF @ = r THEN None ELSE @]
    /\ UNCHANGED <<loop, arrived, nextOffset, stage, taskVars, failed,
                   stopped, epoch, slotVars>>

-----------------------------------------------------------------------------
(* The environment *)

\* stopIntake() aborts the stop signal.
Stop ==
    /\ ~stopped
    /\ stopped' = TRUE
    /\ UNCHANGED <<loopVars, pending, stage, taskVars, failed, epoch, slotVars>>

\* The group changed: every captured assignment is stale.
Invalidate ==
    /\ epoch < MaxEpoch
    /\ epoch' = epoch + 1
    /\ UNCHANGED <<loopVars, pending, stage, taskVars, failed, stopped, slotVars>>

Task(r) ==
    \/ Begin(r) \/ Inherit(r) \/ Resume(r) \/ Start(r) \/ GiveUp(r)
    \/ HandlerResolves(r) \/ HandlerRejects(r) \/ Cleanup(r)

Loop ==
    \/ RequestNext \/ IteratorEnds \/ IteratorFails
    \/ Schedule \/ CaptureThrows \/ FailureSeen \/ Drained
    \/ \E p \in Partitions : Arrive(p)

Finished ==
    /\ loop \in {"returned", "threw"}
    /\ pending = {}
    /\ UNCHANGED vars

Next == Loop \/ Stop \/ Invalidate \/ Finished \/ \E r \in Records : Task(r)

\* Promise jobs run, so a task or a loop that can go on does; a handler
\* settles: its clamd and callback calls have timeouts, and its S3 requests,
\* which have none, are assumed to be answered or broken off.  Nothing forces
\* a record, the end of the stream, a stop or a rebalance.
Fairness ==
    /\ \A r \in Records : WF_vars(Task(r))
    /\ WF_vars(RequestNext)
    /\ WF_vars(Schedule \/ CaptureThrows)
    /\ WF_vars(FailureSeen)
    /\ WF_vars(Drained)

Spec == Init /\ [][Next]_vars

FairSpec == Spec /\ Fairness

-----------------------------------------------------------------------------
(* Properties *)

\* "Chaining each topic-partition guarantees that later offsets cannot commit
\* past an earlier failure": whatever fails, stops or is revoked, a record is
\* handled only when every earlier record of its partition is committed.
LaterOffsetsWait ==
    \A r, q \in Records :
        /\ Partition(q) = Partition(r)
        /\ Offset(q) < Offset(r)
        /\ stage[r] \in {"handling", "committed", "failed"}
        => stage[q] = "committed"

\* The read-ahead: the tasks kept never exceed maximumPending.
ReadAheadBounded == Cardinality(pending) <= MaxPending

\* The promise settles "after the stream and scheduled work complete": no
\* task is alive, suspended in the semaphore or holding a slot, so the caller
\* may dispose the fence and close the consumer.
QuietAfterSettling ==
    loop \in {"returned", "threw"} =>
        /\ \A r \in Records : stage[r] \in Settled \cup {"absent"}
        /\ holders = {} /\ waiters = <<>> /\ woken = <<>> /\ active = 0

\* A normal return hides nothing: each record the loop took was committed, or
\* was skipped because the task is stopping.
ReturnAccountsForEveryRecord ==
    loop = "returned" =>
        \A r \in Records :
            Offset(r) < nextOffset[Partition(r)]
            => stage[r] = "committed" \/ (stage[r] = "skipped" /\ stopped)

\* What a task may be waiting for has happened: its lane let it through, the
\* slot is its own or about to be, its handler is running, or it is to be
\* cleaned up.
CanRun(r) ==
    \/ stage[r] = "queued" /\ Previous(r) \in Settled
    \/ stage[r] = "acquiring" /\ (r \in holders \/ (woken # <<>> /\ Head(woken) = r))
    \/ stage[r] = "handling"
    \/ r \in pending /\ stage[r] \in Settled

\* Lanes and slots never wait for each other in a circle: as long as a task is
\* pending, one of the pending tasks can run.  A slot nobody gives back, or a
\* lane chained behind a task that is gone, would leave the others suspended.
SomeTaskCanRun == pending # {} => \E r \in pending : CanRun(r)

\* Each partition is a lane of OrderedLane: whatever the read-ahead, the
\* semaphore and the cleanup of the tails do, records are handled one at a time
\* and in order, and none starts after a failure ("the first handler failure
\* prevents queued work from starting"), a stop or a revocation.
Lane(p) == INSTANCE OrderedLane WITH
    yielded  <- nextOffset[p] - 1,
    revoked  <- {o \in 1 .. MaxOffset : stage[<<p, o>>] # "absent" /\ captured[<<p, o>>] # epoch},
    handling <- {o \in 1 .. MaxOffset : stage[<<p, o>>] = "handling"},
    done     <- {o \in 1 .. MaxOffset : stage[<<p, o>>] = "committed"},
    closed   <- failed \/ stopped

LanesAreOrdered ==
    /\ \A p \in Partitions : Lane(p)!Init
    /\ [][\A p \in Partitions : [Lane(p)!Next]_(Lane(p)!vars)]_vars

\* The promise of the run settles: after the first failure with that error,
\* although tasks are suspended behind it in their lane or in the semaphore,
\* and once the stream is closed in any case.
RunSettles ==
    /\ failed ~> loop = "threw"
    /\ loop = "draining" ~> loop \in {"returned", "threw"}
=============================================================================
