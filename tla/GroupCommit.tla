---------------------------- MODULE GroupCommit ----------------------------
(***************************************************************************)
(* Scanner tasks sharing one Kafka consumer group: the fences that keep a  *)
(* rebalance from losing a record.  src/kafka.ts wraps consumer.fetch      *)
(* (fenceKafkaFetchResponses) and every admitted record                    *)
(* (KafkaAssignmentFence); the group coordinator and Platformatic's        *)
(* stream are external, modelled from how that file uses them.             *)
(*                                                                         *)
(* A membership identity (group, generation, member, coordinator) is       *)
(* represented by the generation a member belongs to.  Each partition is a *)
(* lane handled in order: RecordScheduler shows why.  Handling a record to *)
(* a terminal outcome is one step; ScanPipeline opens it up.               *)
(***************************************************************************)
EXTENDS Integers, Sequences, FiniteSets

CONSTANTS
    Members,           \* scanner tasks
    Partitions,
    MaxOffset,         \* bound: records per partition
    MaxGeneration,     \* bound: rebalances
    InitialEnd,        \* records already in each partition
    InitialCommitted,  \* the group's committed offsets: a number, or Unset
    Unset,
    None

ASSUME GroupAssumption ==
    /\ MaxOffset \in Nat
    /\ MaxGeneration \in Nat
    /\ InitialEnd \in 0 .. MaxOffset
    /\ Unset \notin Int
    /\ InitialCommitted \in (0 .. InitialEnd) \cup {Unset}
    /\ None \notin Members

Offsets == 0 .. MaxOffset - 1
Generations == 0 .. MaxGeneration

VARIABLES
    \* the group coordinator and the log
    generation,    \* the group's generation
    owner,         \* the assignment of that generation
    invited,       \* members of that generation not yet told so
    committed,     \* committed offset per partition
    logEnd,        \* records produced per partition
    commits,       \* OffsetCommit requests sent and not yet answered
    \* each member's consumer
    phase,         \* down, joining, syncing or stable
    gen,           \* consumer.generationId
    assigned,      \* consumer.assignments
    \* each member's stream
    position,      \* offsetsToFetch
    refresh,       \* refreshOffsetsInflight, and how far the request is
    pending,       \* refreshOffsetsPending: a join while one is in flight
    fetch,         \* the Fetch request in flight, with its snapshot
    buffer,        \* records pushed and not yet admitted
    \* each member's assignment fence and lanes
    valid,         \* fence.valid
    epoch,         \* fence.epoch
    lane,          \* admitted records per partition, with their snapshots
    step,          \* what the first record of each lane is doing
    failing,       \* failureRecorded
    \* history
    processed      \* records handled to a terminal outcome

brokerVars == <<generation, owner, invited, committed, logEnd>>
clientVars == <<phase, gen, assigned>>
streamVars == <<position, refresh, pending, fetch, buffer>>
fenceVars == <<valid, epoch>>
laneVars == <<lane, step>>
vars == <<generation, owner, invited, committed, logEnd, commits, phase, gen,
          assigned, position, refresh, pending, fetch, buffer, valid, epoch,
          lane, step, failing, processed>>

Phases == {"down", "joining", "syncing", "stable"}
Steps == {"queued", "handling", "connecting", "sent"}

\* A fetched record: pushed with the consumer's generation at that moment.
Fetched == [partition : Partitions, offset : Offsets, gen : Generations]
\* An admitted record: its offset and the snapshot its fence captured.
Admitted == [offset : Offsets, gen : Generations, epoch : Nat]
Requests == [partition : Partitions, offset : 0 .. MaxOffset,
             gen : Generations, active : BOOLEAN]
Commits == [member : Members, partition : Partitions, next : 0 .. MaxOffset,
            gen : Generations, answer : {"none", "accepted", "refused"}]

TypeOK ==
    /\ generation \in Generations
    /\ owner \in [Partitions -> Members \cup {None}]
    /\ invited \in SUBSET Members
    /\ committed \in [Partitions -> (0 .. MaxOffset) \cup {Unset}]
    /\ logEnd \in [Partitions -> 0 .. MaxOffset]
    /\ commits \in SUBSET Commits
    /\ phase \in [Members -> Phases]
    /\ gen \in [Members -> Generations]
    /\ assigned \in [Members -> SUBSET Partitions]
    /\ position \in [Members -> [Partitions -> (0 .. MaxOffset) \cup {Unset}]]
    /\ refresh \in [Members -> {"none", "asked", "answered"}]
    /\ pending \in [Members -> BOOLEAN]
    /\ fetch \in [Members -> Requests \cup {None}]
    /\ buffer \in [Members -> Seq(Fetched)]
    /\ valid \in [Members -> BOOLEAN]
    /\ epoch \in [Members -> Nat]
    /\ lane \in [Members -> [Partitions -> Seq(Admitted)]]
    /\ step \in [Members -> [Partitions -> Steps]]
    /\ failing \in [Members -> BOOLEAN]
    /\ processed \in SUBSET (Partitions \X Offsets)

\* A process that has just started, or has exited.
NoPosition == [p \in Partitions |-> Unset]
NoLanes == [p \in Partitions |-> <<>>]
AllQueued == [p \in Partitions |-> "queued"]

Init ==
    /\ generation = 0
    /\ owner = [p \in Partitions |-> None]
    /\ invited = {}
    /\ committed = [p \in Partitions |-> InitialCommitted]
    /\ logEnd = [p \in Partitions |-> InitialEnd]
    /\ commits = {}
    /\ phase = [m \in Members |-> "down"]
    /\ gen = [m \in Members |-> 0]
    /\ assigned = [m \in Members |-> {}]
    /\ position = [m \in Members |-> NoPosition]
    /\ refresh = [m \in Members |-> "none"]
    /\ pending = [m \in Members |-> FALSE]
    /\ fetch = [m \in Members |-> None]
    /\ buffer = [m \in Members |-> <<>>]
    /\ valid = [m \in Members |-> FALSE]
    /\ epoch = [m \in Members |-> 0]
    /\ lane = [m \in Members |-> NoLanes]
    /\ step = [m \in Members |-> AllQueued]
    /\ failing = [m \in Members |-> FALSE]
    /\ processed = IF InitialCommitted = Unset THEN {}
                   ELSE {r \in Partitions \X Offsets : r[2] < InitialCommitted}

-----------------------------------------------------------------------------
(* The process *)

\* The task starts, or is restarted by ECS, and asks to join the group.
Boot(m) ==
    /\ phase[m] = "down"
    /\ phase' = [phase EXCEPT ![m] = "joining"]
    /\ UNCHANGED <<brokerVars, commits, gen, assigned, streamVars, fenceVars,
                   laneVars, failing, processed>>

\* The process is gone: killed, or exited after a failure was recorded and
\* its active handlers settled.  What it sent is still on its way.
Down(m) ==
    /\ phase[m] # "down"
    /\ phase' = [phase EXCEPT ![m] = "down"]
    /\ gen' = [gen EXCEPT ![m] = 0]
    /\ assigned' = [assigned EXCEPT ![m] = {}]
    /\ position' = [position EXCEPT ![m] = NoPosition]
    /\ refresh' = [refresh EXCEPT ![m] = "none"]
    /\ pending' = [pending EXCEPT ![m] = FALSE]
    /\ fetch' = [fetch EXCEPT ![m] = None]
    /\ buffer' = [buffer EXCEPT ![m] = <<>>]
    /\ valid' = [valid EXCEPT ![m] = FALSE]
    /\ epoch' = [epoch EXCEPT ![m] = 0]
    /\ lane' = [lane EXCEPT ![m] = NoLanes]
    /\ step' = [step EXCEPT ![m] = AllQueued]
    /\ failing' = [failing EXCEPT ![m] = FALSE]
    /\ commits' = {c \in commits : c.member # m \/ c.answer = "none"}
    /\ invited' = invited \ {m}
    /\ UNCHANGED <<generation, owner, committed, logEnd, processed>>

-----------------------------------------------------------------------------
(* The group protocol *)

\* A record is produced to the scan topic.
Produce(p) ==
    /\ logEnd[p] < MaxOffset
    /\ logEnd' = [logEnd EXCEPT ![p] = @ + 1]
    /\ UNCHANGED <<generation, owner, invited, committed, commits, clientVars,
                   streamVars, fenceVars, laneVars, failing, processed>>

\* The coordinator completes a join round: whoever asked to join is in.
Rebalance ==
    /\ generation < MaxGeneration
    /\ \E m \in Members : phase[m] = "joining"
    /\ generation' = generation + 1
    /\ invited' = {m \in Members : phase[m] = "joining"}
    /\ owner' \in [Partitions -> invited']
    /\ UNCHANGED <<committed, logEnd, commits, clientVars, streamVars,
                   fenceVars, laneVars, failing, processed>>

\* JoinGroup is answered: the member has its new identity and no assignment.
Joined(m) ==
    /\ phase[m] = "joining"
    /\ m \in invited
    /\ phase' = [phase EXCEPT ![m] = "syncing"]
    /\ gen' = [gen EXCEPT ![m] = generation]
    /\ invited' = invited \ {m}
    /\ UNCHANGED <<generation, owner, committed, logEnd, commits, assigned,
                   streamVars, fenceVars, laneVars, failing, processed>>

\* scheduleRefreshOffsetsAndFetch: one refresh at a time, none once closed.
ScheduleRefresh(m) ==
    IF failing[m] THEN UNCHANGED <<refresh, pending>>
    ELSE IF refresh[m] = "none"
    THEN refresh' = [refresh EXCEPT ![m] = "asked"] /\ UNCHANGED pending
    ELSE pending' = [pending EXCEPT ![m] = TRUE] /\ UNCHANGED refresh

\* SyncGroup is answered: "consumer:group:join" renews the fence (onGroupJoin)
\* and makes the stream refresh its offsets before it fetches again.
Synced(m) ==
    /\ phase[m] = "syncing"
    /\ gen[m] = generation
    /\ phase' = [phase EXCEPT ![m] = "stable"]
    /\ assigned' = [assigned EXCEPT ![m] = {p \in Partitions : owner[p] = m}]
    /\ epoch' = [epoch EXCEPT ![m] = @ + 1]
    /\ valid' = [valid EXCEPT ![m] = TRUE]
    /\ ScheduleRefresh(m)
    /\ UNCHANGED <<brokerVars, commits, gen, position, fetch, buffer, laneVars,
                   failing, processed>>

\* The round moved on before SyncGroup was answered: the member joins again.
SyncRefused(m) ==
    /\ phase[m] = "syncing"
    /\ gen[m] # generation
    /\ phase' = [phase EXCEPT ![m] = "joining"]
    /\ UNCHANGED <<brokerVars, commits, gen, assigned, streamVars, fenceVars,
                   laneVars, failing, processed>>

At(m, p, s) == lane[m][p] # <<>> /\ step[m][p] = s

\* recordFailure: the stream is returned, queued tasks reject without
\* starting, and the tasks already active, except those in `ended`, settle.
Fail(m, ended) ==
    LET alive == {p \in Partitions \ ended :
                    lane[m][p] # <<>> /\ step[m][p] # "queued"}
    IN  /\ failing' = [failing EXCEPT ![m] = TRUE]
        /\ lane' = [lane EXCEPT ![m] =
              [p \in Partitions |-> IF p \in alive THEN <<Head(@[p])>> ELSE <<>>]]
        /\ step' = [step EXCEPT ![m] =
              [p \in Partitions |-> IF p \in alive THEN @[p] ELSE "queued"]]
        /\ position' = [position EXCEPT ![m] = NoPosition]
        /\ refresh' = [refresh EXCEPT ![m] = "none"]
        /\ pending' = [pending EXCEPT ![m] = FALSE]
        /\ fetch' = [fetch EXCEPT ![m] = None]
        /\ buffer' = [buffer EXCEPT ![m] = <<>>]

\* A leave or rebalance event, or a heartbeat error (onHeartbeatError): the
\* fence is invalid from here on.  An error that needs a rejoin starts one;
\* any other destroys the stream.
Invalidated(m) ==
    /\ phase[m] = "stable"
    /\ valid[m]
    /\ epoch' = [epoch EXCEPT ![m] = @ + 1]
    /\ valid' = [valid EXCEPT ![m] = FALSE]
    /\ \/ /\ phase' = [phase EXCEPT ![m] = "joining"]
          /\ UNCHANGED <<streamVars, laneVars, failing>>
       \/ Fail(m, {}) /\ UNCHANGED phase
    /\ UNCHANGED <<brokerVars, commits, gen, assigned, processed>>

-----------------------------------------------------------------------------
(* The stream and the fetch fence *)

\* consumer.isActive(): not between JoinGroup and SyncGroup.  A member that
\* is rejoining may still look active under its old generation.
Active(m) == gen[m] # 0 /\ phase[m] \in {"stable", "joining"}

\* The coordinator answers with the group's committed offsets (mode
\* "committed"), or the end of the log where there is none (fallbackMode
\* "latest").  Nothing reads `position` before the answer has arrived.
OffsetsAnswered(m) ==
    /\ refresh[m] = "asked"
    /\ position' = [position EXCEPT ![m] =
          [p \in Partitions |->
              IF p \notin assigned[m] THEN Unset
              ELSE IF committed[p] = Unset THEN logEnd[p] ELSE committed[p]]]
    /\ refresh' = [refresh EXCEPT ![m] = "answered"]
    /\ UNCHANGED <<brokerVars, commits, clientVars, pending, fetch, buffer,
                   fenceVars, laneVars, failing, processed>>

\* Mutant: the pending flag is cleared before it is looked at.
RefreshedForgettingJoin(m) ==
    /\ refresh[m] = "answered"
    /\ refresh' = [refresh EXCEPT ![m] = "none"]
    /\ pending' = [pending EXCEPT ![m] = FALSE]
    /\ UNCHANGED <<brokerVars, commits, clientVars, position, fetch, buffer,
                   fenceVars, laneVars, failing, processed>>

\* The callback of refreshOffsets: after a join in the meantime the answer is
\* out of date and a new refresh runs first.  An error destroys the stream.
Refreshed(m) ==
    /\ refresh[m] = "answered"
    /\ \/ /\ refresh' = [refresh EXCEPT ![m] = IF pending[m] THEN "asked" ELSE "none"]
          /\ pending' = [pending EXCEPT ![m] = FALSE]
          /\ UNCHANGED <<position, fetch, buffer, laneVars, failing>>
       \/ Fail(m, {})
    /\ UNCHANGED <<brokerVars, commits, clientVars, fenceVars, processed>>

\* Mutant: the membership is captured once, when the fetch is wrapped.
FetchSnapshotOnce(m, p) ==
    /\ refresh[m] = "none"
    /\ fetch[m] = None
    /\ position[m][p] # Unset
    /\ fetch' = [fetch EXCEPT ![m] =
          [partition |-> p, offset |-> position[m][p],
           gen |-> 0, active |-> FALSE]]
    /\ UNCHANGED <<brokerVars, commits, clientVars, position, refresh, pending,
                   buffer, fenceVars, laneVars, failing, processed>>

\* fenceKafkaFetchResponses: the request carries the membership it began in.
Fetch(m, p) ==
    /\ refresh[m] = "none"
    /\ fetch[m] = None
    /\ position[m][p] # Unset
    /\ fetch' = [fetch EXCEPT ![m] =
          [partition |-> p, offset |-> position[m][p],
           gen |-> gen[m], active |-> Active(m)]]
    /\ UNCHANGED <<brokerVars, commits, clientVars, position, refresh, pending,
                   buffer, fenceVars, laneVars, failing, processed>>

\* isCurrent
FetchCurrent(m) == fetch[m].active /\ Active(m) /\ fetch[m].gen = gen[m]

\* The stream pushes n records and advances: the label is the consumer's
\* generation now, not when the request was sent.
Push(m, n) ==
    LET p == fetch[m].partition
        o == fetch[m].offset
    IN  /\ o + n <= logEnd[p]
        /\ buffer' = [buffer EXCEPT ![m] =
              @ \o [i \in 1 .. n |->
                      [partition |-> p, offset |-> o + i - 1, gen |-> gen[m]]]]
        /\ position' = [position EXCEPT ![m][p] = o + n]
        /\ fetch' = [fetch EXCEPT ![m] = None]
        /\ UNCHANGED <<brokerVars, commits, clientVars, refresh, pending, fenceVars,
                       laneVars, failing, processed>>

\* A response whose request began in the current membership.
FetchedCurrent(m, n) == fetch[m] # None /\ FetchCurrent(m) /\ Push(m, n)

\* A response with no records: nothing was there, or it is stale and
\* discardIfStale emptied it, so the stream's position stays.
FetchedNothing(m) ==
    /\ fetch[m] # None
    /\ ~FetchCurrent(m) \/ fetch[m].offset = logEnd[fetch[m].partition]
    /\ fetch' = [fetch EXCEPT ![m] = None]
    /\ UNCHANGED <<brokerVars, commits, clientVars, position, refresh, pending,
                   buffer, fenceVars, laneVars, failing, processed>>

-----------------------------------------------------------------------------
(* The assignment fence and the lanes *)

\* assertSnapshotCurrent, for a snapshot taken at epoch e in generation g
SnapshotCurrent(m, p, g, e) ==
    /\ valid[m]
    /\ Active(m)
    /\ epoch[m] = e
    /\ gen[m] = g
    /\ p \in assigned[m]

\* capture: the record must have been fetched by the current membership.
Captures(m, r) ==
    SnapshotCurrent(m, r.partition, gen[m], epoch[m]) /\ r.gen = gen[m]

\* The loop takes the next record: it joins its lane, or capture throws.
Admit(m) ==
    /\ buffer[m] # <<>>
    /\ LET r == Head(buffer[m])
       IN  \/ /\ Captures(m, r)
              /\ lane' = [lane EXCEPT ![m][r.partition] =
                    Append(@, [offset |-> r.offset, gen |-> gen[m],
                               epoch |-> epoch[m]])]
              /\ buffer' = [buffer EXCEPT ![m] = Tail(@)]
              /\ UNCHANGED <<position, refresh, pending, fetch, step, failing>>
           \/ ~Captures(m, r) /\ Fail(m, {})
    /\ UNCHANGED <<brokerVars, commits, clientVars, fenceVars, processed>>

First(m, p) == Head(lane[m][p])

FirstCurrent(m, p) ==
    SnapshotCurrent(m, p, First(m, p).gen, First(m, p).epoch)

Go(m, p, s) ==
    /\ step' = [step EXCEPT ![m][p] = s]
    /\ UNCHANGED <<lane, streamVars, failing>>

\* The task's last check: a revoked record does not start.
Begin(m, p) ==
    /\ At(m, p, "queued")
    /\ \/ FirstCurrent(m, p) /\ Go(m, p, "handling")
       \/ ~FirstCurrent(m, p) /\ Fail(m, {p})
    /\ UNCHANGED <<brokerVars, commits, clientVars, fenceVars, processed>>

\* Mutant: the record is committed before it reaches a terminal outcome.
HandledEarly(m, p) ==
    /\ At(m, p, "handling")
    /\ FirstCurrent(m, p)
    /\ Go(m, p, "connecting")
    /\ UNCHANGED <<brokerVars, commits, clientVars, fenceVars, processed>>

\* The record reaches its terminal outcome; commit() then checks the fence.
Handled(m, p) ==
    /\ At(m, p, "handling")
    /\ processed' = processed \cup {<<p, First(m, p).offset>>}
    /\ \/ FirstCurrent(m, p) /\ Go(m, p, "connecting")
       \/ ~FirstCurrent(m, p) /\ Fail(m, {p})
    /\ UNCHANGED <<brokerVars, commits, clientVars, fenceVars>>

\* Leaves the lane: the task resolved and the next one may start.
Leave(m, p) ==
    /\ lane' = [lane EXCEPT ![m][p] = Tail(@)]
    /\ step' = [step EXCEPT ![m][p] = "queued"]
    /\ UNCHANGED <<streamVars, failing>>

\* Mutant: the failed record leaves its lane and the next one starts.
HandlingIgnored(m, p) ==
    /\ At(m, p, "handling")
    /\ Leave(m, p)
    /\ UNCHANGED <<brokerVars, commits, clientVars, fenceVars, processed>>

\* A dependency failed: the record stays uncommitted and the task stops.
HandlingFails(m, p) ==
    /\ At(m, p, "handling")
    /\ Fail(m, {p})
    /\ UNCHANGED <<brokerVars, commits, clientVars, fenceVars, processed>>

\* Mutant: the committed offset is one too far.
CommitPast(m, p, g) ==
    [member |-> m, partition |-> p, next |-> First(m, p).offset + 2,
     gen |-> g, answer |-> "none"]

\* The OffsetCommit request: the next offset, the captured generation.
CommitOf(m, p, g) ==
    [member |-> m, partition |-> p, next |-> First(m, p).offset + 1,
     gen |-> g, answer |-> "none"]

\* Mutant: the commit is sent with the consumer's generation of that moment
\* and without the second check, as message.commit() would.
SendUnpinned(m, p) ==
    /\ At(m, p, "connecting")
    /\ Go(m, p, "sent")
    /\ commits' = commits \cup {CommitOf(m, p, gen[m])}
    /\ UNCHANGED <<brokerVars, clientVars, fenceVars, processed>>

\* commitOffsetForCapturedGeneration: the coordinator connection is there,
\* the fence is checked again and the request sent once, or it fails.
Send(m, p) ==
    /\ At(m, p, "connecting")
    /\ \/ /\ FirstCurrent(m, p)
          /\ Go(m, p, "sent")
          /\ commits' = commits \cup {CommitOf(m, p, First(m, p).gen)}
       \/ Fail(m, {p}) /\ UNCHANGED commits
    /\ UNCHANGED <<brokerVars, clientVars, fenceVars, processed>>

\* The sender of a commit is still waiting for its answer.
Awaited(c) ==
    /\ At(c.member, c.partition, "sent")
    /\ [c EXCEPT !.answer = "none"] =
          CommitOf(c.member, c.partition, First(c.member, c.partition).gen)

\* The coordinator accepts a commit of the current generation only.
Answered(c) ==
    LET accepted == c.gen = generation
    IN  /\ c.answer = "none"
        /\ committed' = IF accepted
                        THEN [committed EXCEPT ![c.partition] = c.next]
                        ELSE committed
        /\ commits' = (commits \ {c}) \cup
              (IF Awaited(c)
               THEN {[c EXCEPT !.answer = IF accepted THEN "accepted" ELSE "refused"]}
               ELSE {})
        /\ UNCHANGED <<generation, owner, invited, logEnd, clientVars, streamVars,
                       fenceVars, laneVars, failing, processed>>

\* The answer reaches the task that waits for it: acceptance is final and the
\* lane moves on; a refusal is the task's failure.
Replied(c) ==
    /\ c.answer # "none"
    /\ Awaited(c)
    /\ commits' = commits \ {c}
    /\ \/ c.answer = "accepted" /\ Leave(c.member, c.partition)
       \/ c.answer = "refused" /\ Fail(c.member, {c.partition})
    /\ UNCHANGED <<brokerVars, clientVars, fenceVars, processed>>

\* The connection breaks under a commit: the task fails, and the request, if
\* it was not answered, is lost or still reaches the coordinator.
ConnectionLost(c) ==
    /\ Awaited(c)
    /\ Fail(c.member, {c.partition})
    /\ \/ commits' = commits \ {c}
       \/ c.answer = "none" /\ UNCHANGED commits
    /\ UNCHANGED <<brokerVars, clientVars, fenceVars, processed>>

-----------------------------------------------------------------------------

Process(m) == Boot(m) \/ Down(m)

Protocol(m) == Joined(m) \/ Synced(m) \/ SyncRefused(m) \/ Invalidated(m)

Stream(m) ==
    \/ OffsetsAnswered(m) \/ Refreshed(m)
    \/ FetchedNothing(m)
    \/ \E p \in Partitions : Fetch(m, p)
    \/ \E n \in 1 .. MaxOffset : FetchedCurrent(m, n)

Lane(m) ==
    \/ Admit(m)
    \/ \E p \in Partitions :
          Begin(m, p) \/ Handled(m, p) \/ HandlingFails(m, p) \/ Send(m, p)

Next ==
    \/ Rebalance
    \/ \E p \in Partitions : Produce(p)
    \/ \E m \in Members : Process(m) \/ Protocol(m) \/ Stream(m) \/ Lane(m)
    \/ \E c \in commits : Answered(c) \/ Replied(c) \/ ConnectionLost(c)

Spec == Init /\ [][Next]_vars

\* What the code and the coordinator keep doing while nothing breaks; nobody
\* has to boot, fail, rebalance or produce.  One real Fetch asks for every
\* partition, so no partition is passed over for ever: strong fairness.
Fairness ==
    /\ \A m \in Members :
          /\ WF_vars(OffsetsAnswered(m) \/ Refreshed(m) \/ Admit(m))
          /\ WF_vars(FetchedNothing(m) \/ \E n \in 1 .. MaxOffset : FetchedCurrent(m, n))
          /\ \A p \in Partitions : SF_vars(Fetch(m, p))
          /\ WF_vars(\E p \in Partitions :
                        Begin(m, p) \/ Handled(m, p) \/ Send(m, p))
    /\ WF_vars(\E c \in commits : Answered(c) \/ Replied(c))

FairSpec == Spec /\ Fairness

-----------------------------------------------------------------------------
(* Properties *)

\* "The input remains retryable; it is never silently dropped": whatever
\* crashes, rebalances and lost answers happen, no committed offset covers a
\* record that some task took from the log and nobody finished.
NothingSkipped ==
    \A p \in Partitions, o \in Offsets :
        committed[p] # Unset /\ o < committed[p] => <<p, o>> \in processed

\* Within a generation no record is handled twice and none is left out: what
\* a task of the current generation works on is the next record to commit.
\* Redelivery takes a rebalance or a restart.
CurrentWorkIsNext ==
    \A m \in Members, p \in Partitions :
        /\ At(m, p, "handling") \/ At(m, p, "connecting")
        /\ First(m, p).gen = generation
        => First(m, p).offset = committed[p]

\* The records of p in hand under the current generation: those a task handles
\* or is about to commit, and those whose commit is on its way.
Work(p) ==
    {<<m, First(m, p).offset>> : m \in {n \in Members :
        /\ At(n, p, "handling") \/ At(n, p, "connecting")
        /\ First(n, p).gen = generation}}
    \cup {<<c.member, c.next - 1>> : c \in {d \in commits :
             d.partition = p /\ d.gen = generation /\ d.answer = "none"}}

\* Every partition is leased as PartitionLease says: whatever crashes, stale
\* responses and late commits there are, one record is in hand at a time, it is
\* the owner's and the next one, and the offset moves only past it.
Lease(p) == INSTANCE PartitionLease
                WITH Tasks <- Members, Start <- InitialCommitted, owner <- owner[p],
                     committed <- committed[p], work <- Work(p)
LeaseIsKept ==
    /\ \A p \in Partitions : Lease(p)!Init
    /\ [][\A p \in Partitions : [Lease(p)!Next]_(Lease(p)!vars)]_vars

\* Only the partition's owner in the current generation moves its offset,
\* although the coordinator checks no more than the generation.
OnlyTheOwnerCommits ==
    [][\A p \in Partitions :
          committed'[p] # committed[p] =>
              \E c \in commits : /\ c.partition = p
                                 /\ c.gen = generation
                                 /\ c.member = owner[p]]_vars

\* A task that owns the partition and works.
Serves(m, p) ==
    /\ phase[m] = "stable"
    /\ gen[m] = generation
    /\ owner[p] = m
    /\ ~failing[m]

\* Discarding stale responses, refreshing offsets and refusing stale commits
\* never wedges a healthy assignment: a task that keeps the partition and does
\* not fail commits everything in it.
HealthyOwnerCatchesUp ==
    \A m \in Members, p \in Partitions :
        <>[]Serves(m, p) => <>(committed[p] = logEnd[p])

\* The whole of it: the crashing, rebalancing group implements the promise of
\* AtLeastOnce, in order and one record at a time.
Promise == INSTANCE AtLeastOnce
AtLeastOnceSpec == Promise!Spec
=============================================================================
