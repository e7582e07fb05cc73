----------------------- MODULE RecordScheduler_proofs -----------------------
(***************************************************************************)
(* Proofs about RecordScheduler for every set of partitions, log length,   *)
(* concurrency and read-ahead: the order promised within a partition.      *)
(***************************************************************************)
EXTENDS RecordScheduler, FiniteSetTheorems, TLAPS

SlotProofs == INSTANCE Semaphore_proofs WITH Callers <- Records, Capacity <- Concurrency

Earlier(q, r) == Partition(q) = Partition(r) /\ Offset(q) < Offset(r)

\* The part of the type invariant the order rests on.
Shapes ==
    /\ arrived \in Records \cup {None}
    /\ nextOffset \in [Partitions -> 1 .. MaxOffset + 1]
    /\ tail \in [Partitions -> Records \cup {None}]
    /\ stage \in [Records -> Stages]
    /\ previous \in [Records -> Records \cup {None}]
    /\ failed \in BOOLEAN
    /\ stopped \in BOOLEAN

\* The record the loop is holding is the last one the stream yielded.
LoopInv ==
    /\ loop = "arrived" <=> arrived # None
    /\ arrived # None => Offset(arrived) = nextOffset[Partition(arrived)] - 1

\* A task exists only for a record that was yielded and taken in.
AdmittedInv ==
    \A r \in Records :
        stage[r] # "absent" =>
            Offset(r) < nextOffset[Partition(r)] /\ r # arrived

\* Until the loop gives up, every record it took has a task.
DenseInv ==
    loop \notin {"settling", "threw"} =>
        \A r \in Records :
            Offset(r) < nextOffset[Partition(r)] /\ r # arrived
            => stage[r] # "absent"

\* A lane has no gaps, and what is past the queue has only settled tasks
\* before it.
LaneInv ==
    \A q, r \in Records :
        Earlier(q, r) =>
            /\ stage[r] # "absent" => stage[q] # "absent"
            /\ stage[r] \notin {"absent", "queued"} => stage[q] \in Settled

\* The order itself, from the moment a task asks for a slot.
OrderInv ==
    \A q, r \in Records :
        /\ Earlier(q, r)
        /\ stage[r] \in {"acquiring", "handling", "committed", "failed"}
        => stage[q] = "committed"

\* A lane's tail is one of the lane's own tasks.
TailOwnInv ==
    \A p \in Partitions :
        tail[p] # None => Partition(tail[p]) = p /\ stage[tail[p]] # "absent"

\* partitionTails: the newest task of a lane, or nothing left to wait for.
TailInv ==
    \A r \in Records :
        stage[r] # "absent" =>
            LET t == tail[Partition(r)]
            IN  IF t = None THEN stage[r] \in Settled
                ELSE /\ Partition(t) = Partition(r)
                     /\ stage[t] # "absent"
                     /\ Offset(r) <= Offset(t)

\* What a task is chained behind: its predecessor in the lane, or, when the
\* tail had been cleaned up, a lane of settled tasks.
ChainInv ==
    \A r \in Records :
        stage[r] # "absent" =>
            IF previous[r] = None
            THEN \A q \in Records : Earlier(q, r) => stage[q] \in Settled
            ELSE /\ Earlier(previous[r], r)
                 /\ \A q \in Records :
                       Earlier(q, r) => q = previous[r] \/ Earlier(q, previous[r])

\* A task that did not commit left its reason behind in a flag that stays.
FlagInv ==
    \A r \in Records :
        /\ stage[r] \in {"failed", "rejected"} => failed = TRUE
        /\ stage[r] = "skipped" => stopped = TRUE

IInv == /\ Shapes /\ LoopInv /\ AdmittedInv /\ DenseInv /\ LaneInv
        /\ OrderInv /\ TailOwnInv /\ TailInv /\ ChainInv /\ FlagInv

-----------------------------------------------------------------------------

\* A record is its partition and its offset.
LEMMA RecordEq ==
    ASSUME NEW q \in Records, NEW r \in Records,
           Partition(q) = Partition(r), Offset(q) = Offset(r)
    PROVE  q = r
BY DEF Records, Partition, Offset

LEMMA RecordType ==
    ASSUME NEW r \in Records
    PROVE  /\ Partition(r) \in Partitions
           /\ Offset(r) \in 1 .. MaxOffset
           /\ r # None
BY SchedulerAssumption DEF Records, Partition, Offset

LEMMA InitIInv == Init => IInv
<1> SUFFICES ASSUME Init PROVE IInv
    OBVIOUS
<1>0. 1 \in 1 .. MaxOffset + 1
    BY SchedulerAssumption
<1>1. Shapes
    BY <1>0 DEF Init, Shapes, Stages
<1>2. LoopInv /\ AdmittedInv /\ LaneInv /\ OrderInv /\ TailOwnInv /\ TailInv
      /\ ChainInv /\ FlagInv
    BY DEF Init, LoopInv, AdmittedInv, LaneInv, OrderInv, TailOwnInv, TailInv,
           ChainInv, FlagInv
<1>3. DenseInv
    BY RecordType, SchedulerAssumption DEF Init, DenseInv
<1> QED BY <1>1, <1>2, <1>3 DEF IInv

\* A task that leaves stage[r] for s, when every task before it in the lane
\* is settled, and committed if s is past the queue.
LEMMA TaskStep ==
    ASSUME IInv, NEW r \in Records, NEW s \in Stages \ {"absent", "queued"},
           stage[r] \notin Settled \cup {"absent"},
           stage' = [stage EXCEPT ![r] = s],
           \A q \in Records : Earlier(q, r) => stage[q] \in Settled,
           s \in {"acquiring", "handling", "committed", "failed"} =>
               \A q \in Records : Earlier(q, r) => stage[q] = "committed",
           failed' \in BOOLEAN, failed = TRUE => failed' = TRUE,
           s \in {"failed", "rejected"} => failed' = TRUE,
           s = "skipped" => stopped = TRUE,
           UNCHANGED <<loop, arrived, nextOffset, tail, previous, stopped>>
    PROVE  IInv'
<1>1. /\ stage' \in [Records -> Stages]
      /\ stage'[r] = s
      /\ \A q \in Records : q # r => stage'[q] = stage[q]
    BY DEF IInv, Shapes
<1>2. \A q \in Records : stage[q] \in Settled => stage'[q] = stage[q]
    BY <1>1
<1>3. \A q \in Records : stage'[q] = "absent" <=> stage[q] = "absent"
    BY <1>1
<1>4. Shapes'
    BY <1>1 DEF IInv, Shapes
<1>5. LoopInv' /\ AdmittedInv' /\ DenseInv'
    BY <1>3 DEF IInv, LoopInv, AdmittedInv, DenseInv
<1>6. LaneInv'
    BY <1>1, <1>2, <1>3 DEF IInv, LaneInv
<1>7. OrderInv'
    BY <1>1, <1>2 DEF IInv, OrderInv, Settled
<1>8. TailInv'
  <2> SUFFICES ASSUME NEW q \in Records, stage'[q] # "absent"
               PROVE  IF tail[Partition(q)] = None THEN stage'[q] \in Settled
                      ELSE /\ Partition(tail[Partition(q)]) = Partition(q)
                           /\ stage'[tail[Partition(q)]] # "absent"
                           /\ Offset(q) <= Offset(tail[Partition(q)])
      BY DEF TailInv
  <2>1. Partition(q) \in Partitions
      BY RecordType
  <2>2. CASE tail[Partition(q)] = None
      BY <1>2, <1>3, <2>2 DEF IInv, TailInv
  <2>3. CASE tail[Partition(q)] # None
    <3>1. tail[Partition(q)] \in Records
        BY <2>1, <2>3 DEF IInv, Shapes
    <3> QED BY <1>3, <2>3, <3>1 DEF IInv, TailInv
  <2> QED BY <2>2, <2>3
<1>9. ChainInv'
    BY <1>2, <1>3 DEF IInv, ChainInv
<1>10. FlagInv'
    BY <1>1 DEF IInv, Shapes, FlagInv
<1>11. TailOwnInv'
    BY <1>3 DEF IInv, Shapes, TailOwnInv
<1> QED BY <1>4, <1>5, <1>6, <1>7, <1>8, <1>9, <1>10, <1>11 DEF IInv

\* What a queued task may conclude from the task it is chained behind.
LEMMA BehindPrevious ==
    ASSUME IInv, NEW r \in Records, stage[r] = "queued",
           Previous(r) \in Settled
    PROVE  /\ \A q \in Records : Earlier(q, r) => stage[q] \in Settled
           /\ ~failed /\ ~stopped =>
                 \A q \in Records : Earlier(q, r) => stage[q] = "committed"
<1>1. \A q \in Records : Earlier(q, r) => stage[q] \in Settled
  <2>1. CASE previous[r] = None
      BY <2>1 DEF IInv, ChainInv
  <2>2. CASE previous[r] # None
    <3>1. previous[r] \in Records /\ stage[previous[r]] \in Settled
        BY <2>2 DEF IInv, Shapes, Previous
    <3>2. \A q \in Records : Earlier(q, previous[r]) => stage[q] \in Settled
        BY <3>1 DEF IInv, LaneInv, Settled
    <3> QED BY <2>2, <3>1, <3>2 DEF IInv, ChainInv
  <2> QED BY <2>1, <2>2
<1>2. ASSUME ~failed, ~stopped, NEW q \in Records, stage[q] \in Settled
      PROVE  stage[q] = "committed"
    BY <1>2 DEF IInv, FlagInv, Settled
<1> QED BY <1>1, <1>2

\* What a task that holds a slot, or is waiting for one, has before it.
LEMMA BehindActive ==
    ASSUME IInv, NEW r \in Records, stage[r] \in {"acquiring", "handling"}
    PROVE  /\ \A q \in Records : Earlier(q, r) => stage[q] = "committed"
           /\ \A q \in Records : Earlier(q, r) => stage[q] \in Settled
BY DEF IInv, OrderInv, Settled

LEMMA BeginIInv ==
    ASSUME IInv, NEW r \in Records, Begin(r) PROVE IInv'
<1>1. /\ stage[r] = "queued" /\ Previous(r) \in Settled
      /\ UNCHANGED <<loop, arrived, nextOffset, tail, previous, stopped, failed>>
    BY DEF Begin, Settled, loopVars, taskVars
<1>2. /\ \A q \in Records : Earlier(q, r) => stage[q] \in Settled
      /\ ~failed /\ ~stopped =>
             \A q \in Records : Earlier(q, r) => stage[q] = "committed"
    BY <1>1, BehindPrevious
<1>3. failed' \in BOOLEAN /\ (failed = TRUE => failed' = TRUE)
    BY <1>1 DEF IInv, Shapes
<1>4. stage[r] \notin Settled \cup {"absent"}
    BY <1>1 DEF Settled
<1>5. CASE failed /\ To(r, "rejected")
  <2>1. failed' = TRUE
      BY <1>1, <1>5 DEF IInv, Shapes
  <2> QED BY <1>1, <1>2, <1>3, <1>4, <1>5, <2>1, TaskStep DEF To, Stages, Settled
<1>6. CASE stopped = TRUE /\ To(r, "skipped")
    BY <1>1, <1>2, <1>3, <1>4, <1>6, TaskStep DEF To, Stages, Settled
<1>7. CASE ~failed /\ ~stopped /\ To(r, "acquiring")
  <2>1. \A q \in Records : Earlier(q, r) => stage[q] = "committed"
      BY <1>2, <1>7
  <2>2. To(r, "acquiring")
      BY <1>7
  <2> QED BY <1>1, <1>2, <1>3, <1>4, <2>1, <2>2, TaskStep DEF To, Stages, Settled
<1> QED BY <1>5, <1>6, <1>7 DEF Begin, IInv, Shapes

LEMMA InheritIInv ==
    ASSUME IInv, NEW r \in Records, Inherit(r) PROVE IInv'
<1>1. /\ stage[r] = "queued" /\ Previous(r) \in Settled
      /\ To(r, "rejected") /\ failed' = TRUE
      /\ UNCHANGED <<loop, arrived, nextOffset, tail, previous, stopped>>
    BY DEF Inherit, Settled, loopVars, taskVars
<1>2. \A q \in Records : Earlier(q, r) => stage[q] \in Settled
    BY <1>1, BehindPrevious
<1>3. failed' \in BOOLEAN /\ (failed = TRUE => failed' = TRUE) /\ failed' = TRUE
    BY <1>1
<1> QED BY <1>1, <1>2, <1>3, TaskStep DEF To, Stages, Settled

LEMMA StartIInv ==
    ASSUME IInv, NEW r \in Records, Start(r) PROVE IInv'
<1>1. /\ stage[r] = "acquiring" /\ To(r, "handling")
      /\ UNCHANGED <<loop, arrived, nextOffset, tail, previous, stopped, failed>>
    BY DEF Start, loopVars, taskVars
<1>2. failed' \in BOOLEAN /\ (failed = TRUE => failed' = TRUE)
    BY <1>1 DEF IInv, Shapes
<1>3. /\ \A q \in Records : Earlier(q, r) => stage[q] = "committed"
      /\ \A q \in Records : Earlier(q, r) => stage[q] \in Settled
    BY <1>1, BehindActive
<1> QED BY <1>1, <1>2, <1>3, TaskStep DEF To, Stages, Settled

LEMMA GiveUpIInv ==
    ASSUME IInv, NEW r \in Records, GiveUp(r) PROVE IInv'
<1>1. /\ stage[r] = "acquiring"
      /\ UNCHANGED <<loop, arrived, nextOffset, tail, previous, stopped>>
    BY DEF GiveUp, loopVars, taskVars
<1>2. \/ failed' = TRUE /\ To(r, "rejected")
      \/ stopped = TRUE /\ To(r, "skipped")
    BY DEF GiveUp, IInv, Shapes
<1>3. failed' \in BOOLEAN /\ (failed = TRUE => failed' = TRUE)
  <2>1. failed \in BOOLEAN
      BY DEF IInv, Shapes
  <2>2. failed' = TRUE \/ failed' = failed
      BY DEF GiveUp
  <2> QED BY <2>1, <2>2
<1>4. CASE failed' = TRUE /\ To(r, "rejected")
    BY <1>1, <1>3, <1>4, BehindActive, TaskStep DEF To, Stages, Settled
<1>5. CASE stopped = TRUE /\ To(r, "skipped")
    BY <1>1, <1>3, <1>5, BehindActive, TaskStep DEF To, Stages, Settled
<1> QED BY <1>2, <1>4, <1>5

LEMMA HandlerIInv ==
    ASSUME IInv, NEW r \in Records, HandlerResolves(r) \/ HandlerRejects(r)
    PROVE  IInv'
<1>1. /\ stage[r] = "handling"
      /\ UNCHANGED <<loop, arrived, nextOffset, tail, previous, stopped>>
    BY DEF HandlerResolves, HandlerRejects, loopVars, taskVars
<1>2. failed' \in BOOLEAN /\ (failed = TRUE => failed' = TRUE)
    BY DEF HandlerResolves, HandlerRejects, IInv, Shapes
<1>3. CASE HandlerResolves(r)
    BY <1>1, <1>2, <1>3, BehindActive, TaskStep
    DEF HandlerResolves, To, Stages, Settled
<1>4. CASE HandlerRejects(r)
    BY <1>1, <1>2, <1>4, BehindActive, TaskStep
    DEF HandlerRejects, To, Stages, Settled
<1> QED BY <1>3, <1>4

\* The tail of a lane is dropped only when its task is settled, and with it
\* the whole lane.
LEMMA CleanupIInv ==
    ASSUME IInv, NEW r \in Records, Cleanup(r) PROVE IInv'
<1>1. /\ stage[r] \in Settled
      /\ tail' = [tail EXCEPT ![Partition(r)] = IF @ = r THEN None ELSE @]
      /\ UNCHANGED <<loop, arrived, nextOffset, stage, previous, failed, stopped>>
    BY DEF Cleanup, taskVars
<1>2. Shapes'
    BY <1>1 DEF IInv, Shapes
<1>3. LoopInv' /\ AdmittedInv' /\ DenseInv' /\ LaneInv' /\ OrderInv'
      /\ ChainInv' /\ FlagInv'
    BY <1>1 DEF IInv, LoopInv, AdmittedInv, DenseInv, LaneInv, OrderInv,
                ChainInv, FlagInv
<1>4. TailInv'
  <2> SUFFICES ASSUME NEW q \in Records, stage[q] # "absent"
               PROVE  LET t == tail'[Partition(q)]
                      IN  IF t = None THEN stage[q] \in Settled
                          ELSE /\ Partition(t) = Partition(q)
                               /\ stage[t] # "absent"
                               /\ Offset(q) <= Offset(t)
      BY <1>1 DEF TailInv
  <2>1. Partition(q) \in Partitions /\ r # None
      BY RecordType
  <2>2. CASE Partition(q) = Partition(r) /\ tail[Partition(r)] = r
    <3>1. Offset(q) <= Offset(r)
        BY <2>1, <2>2 DEF IInv, TailInv
    <3>2. q = r \/ Earlier(q, r)
        BY <2>2, <3>1, RecordEq, RecordType DEF Earlier
    <3>3. stage[q] \in Settled
        BY <1>1, <3>2 DEF IInv, LaneInv, Settled
    <3>4. tail'[Partition(q)] = None
        BY <1>1, <2>1, <2>2 DEF IInv, Shapes
    <3> QED BY <3>3, <3>4
  <2>3. CASE ~(Partition(q) = Partition(r) /\ tail[Partition(r)] = r)
    <3>1. tail'[Partition(q)] = tail[Partition(q)]
        BY <1>1, <2>1, <2>3 DEF IInv, Shapes
    <3> QED BY <3>1 DEF IInv, TailInv
  <2> QED BY <2>2, <2>3
<1>5. TailOwnInv'
    BY <1>1, RecordType DEF IInv, Shapes, TailOwnInv
<1> QED BY <1>2, <1>3, <1>4, <1>5 DEF IInv

\* A step that touches neither the tasks nor what the stream yielded.
LEMMA QuietStep ==
    ASSUME IInv,
           failed' \in BOOLEAN, failed = TRUE => failed' = TRUE,
           stopped' \in BOOLEAN, stopped = TRUE => stopped' = TRUE,
           loop # "arrived", loop' # "arrived",
           loop \in {"settling", "threw"} => loop' \in {"settling", "threw"},
           UNCHANGED <<arrived, nextOffset, tail, stage, previous>>
    PROVE  IInv'
<1>1. Shapes' /\ LoopInv' /\ AdmittedInv'
    BY DEF IInv, Shapes, LoopInv, AdmittedInv
<1>2. DenseInv'
    BY DEF IInv, DenseInv
<1>3. LaneInv' /\ OrderInv' /\ TailOwnInv' /\ TailInv' /\ ChainInv'
    BY DEF IInv, LaneInv, OrderInv, TailOwnInv, TailInv, ChainInv
<1>4. FlagInv'
    BY DEF IInv, FlagInv
<1> QED BY <1>1, <1>2, <1>3, <1>4 DEF IInv

LEMMA LoopIInv ==
    ASSUME IInv,
           RequestNext \/ IteratorEnds \/ IteratorFails \/ FailureSeen \/ Drained
    PROVE  IInv'
<1>1. /\ UNCHANGED <<arrived, nextOffset, tail, stage, previous, stopped>>
      /\ failed' = failed \/ failed' = TRUE
      /\ loop # "arrived"
      /\ loop' \in {"waiting", "draining", "settling", "returned", "threw"}
      /\ loop \in {"settling", "threw"} => loop' \in {"settling", "threw"}
    BY DEF RequestNext, IteratorEnds, IteratorFails, FailureSeen, Drained,
           taskVars
<1>2. /\ failed' \in BOOLEAN /\ (failed = TRUE => failed' = TRUE)
      /\ stopped' \in BOOLEAN /\ (stopped = TRUE => stopped' = TRUE)
    BY <1>1 DEF IInv, Shapes
<1> QED BY <1>1, <1>2, QuietStep

\* Stop and Invalidate change neither the loop nor the tasks.
LEMMA EnvironmentIInv ==
    ASSUME IInv, Stop \/ Invalidate \/ UNCHANGED vars
                 \/ (\E r \in Records : Resume(r))
    PROVE  IInv'
<1>1. /\ UNCHANGED <<loop, arrived, nextOffset, tail, stage, previous, failed>>
      /\ stopped' = stopped \/ stopped' = TRUE
    BY DEF Stop, Invalidate, Resume, vars, loopVars, taskVars
<1>2. Shapes' /\ LoopInv' /\ AdmittedInv' /\ DenseInv'
    BY <1>1 DEF IInv, Shapes, LoopInv, AdmittedInv, DenseInv
<1>3. LaneInv' /\ OrderInv' /\ TailOwnInv' /\ TailInv' /\ ChainInv'
    BY <1>1 DEF IInv, LaneInv, OrderInv, TailOwnInv, TailInv, ChainInv
<1>4. FlagInv'
    BY <1>1 DEF IInv, FlagInv
<1> QED BY <1>2, <1>3, <1>4 DEF IInv

\* The loop gives up while it holds a record that gets no task.
LEMMA CaptureThrowsIInv == ASSUME IInv, CaptureThrows PROVE IInv'
<1>1. /\ UNCHANGED <<nextOffset, tail, stage, previous, stopped>>
      /\ failed' = TRUE /\ loop' = "settling" /\ arrived' = None
    BY DEF CaptureThrows, taskVars
<1>2. Shapes' /\ LoopInv' /\ DenseInv'
    BY <1>1 DEF IInv, Shapes, LoopInv, DenseInv
<1>3. AdmittedInv'
    BY <1>1, RecordType DEF IInv, AdmittedInv
<1>4. LaneInv' /\ OrderInv' /\ TailOwnInv' /\ TailInv' /\ ChainInv'
    BY <1>1 DEF IInv, LaneInv, OrderInv, TailOwnInv, TailInv, ChainInv
<1>5. FlagInv'
    BY <1>1 DEF IInv, FlagInv
<1> QED BY <1>2, <1>3, <1>4, <1>5 DEF IInv

\* The stream yields the next record of a lane: no task exists for it yet.
LEMMA ArriveIInv ==
    ASSUME IInv, NEW p \in Partitions, Arrive(p) PROVE IInv'
<1> DEFINE a == <<p, nextOffset[p]>>
<1>1. /\ UNCHANGED <<tail, stage, previous, failed, stopped>>
      /\ loop = "waiting" /\ loop' = "arrived" /\ nextOffset[p] <= MaxOffset
      /\ arrived' = a
      /\ nextOffset' = [nextOffset EXCEPT ![p] = @ + 1]
    BY DEF Arrive, taskVars
<1>2. nextOffset[p] \in 1 .. MaxOffset
    BY <1>1, SchedulerAssumption DEF IInv, Shapes
<1>3. a \in Records /\ Partition(a) = p /\ Offset(a) = nextOffset[p] /\ a # None
    BY <1>2, SchedulerAssumption DEF Records, Partition, Offset
<1>4. nextOffset' \in [Partitions -> 1 .. MaxOffset + 1]
    BY <1>1, <1>2, SchedulerAssumption DEF IInv, Shapes
<1>5. Shapes'
    BY <1>1, <1>3, <1>4 DEF IInv, Shapes
<1>6. LoopInv'
    BY <1>1, <1>2, <1>3 DEF IInv, LoopInv, Shapes
<1>7. \A r \in Records :
         /\ nextOffset[Partition(r)] \in Nat
         /\ nextOffset'[Partition(r)] =
               IF Partition(r) = p THEN nextOffset[p] + 1
               ELSE nextOffset[Partition(r)]
    BY <1>1, <1>2, RecordType, SchedulerAssumption DEF IInv, Shapes
<1>8. AdmittedInv'
  <2> SUFFICES ASSUME NEW r \in Records, stage[r] # "absent"
               PROVE  Offset(r) < nextOffset'[Partition(r)] /\ r # a
      BY <1>1 DEF AdmittedInv
  <2>1. Offset(r) < nextOffset[Partition(r)]
      BY DEF IInv, AdmittedInv
  <2> QED BY <1>3, <1>7, <2>1, RecordType
<1>9. DenseInv'
  <2> SUFFICES ASSUME NEW r \in Records, r # a,
                      Offset(r) < nextOffset'[Partition(r)]
               PROVE  stage[r] # "absent"
      BY <1>1 DEF DenseInv
  <2>1. Offset(r) < nextOffset[Partition(r)]
      BY <1>3, <1>7, RecordType, RecordEq
  <2>2. \A q \in Records :
           Offset(q) < nextOffset[Partition(q)] /\ q # arrived
           => stage[q] # "absent"
      BY <1>1 DEF IInv, DenseInv
  <2>3. arrived = None
      BY <1>1 DEF IInv, LoopInv
  <2> QED BY <2>1, <2>2, <2>3, RecordType
<1>10. LaneInv' /\ OrderInv' /\ TailOwnInv' /\ TailInv' /\ ChainInv'
    BY <1>1 DEF IInv, LaneInv, OrderInv, TailOwnInv, TailInv, ChainInv
<1>11. FlagInv'
    BY <1>1 DEF IInv, FlagInv
<1> QED BY <1>5, <1>6, <1>8, <1>9, <1>10, <1>11 DEF IInv

\* The record gets its task behind the lane's tail.
LEMMA ScheduleIInv == ASSUME IInv, Schedule PROVE IInv'
<1> DEFINE a == arrived
           t == tail[Partition(a)]
<1>1. /\ loop = "arrived" /\ loop' = "room" /\ arrived' = None
      /\ stage' = [stage EXCEPT ![a] = "queued"]
      /\ previous' = [previous EXCEPT ![a] = t]
      /\ tail' = [tail EXCEPT ![Partition(a)] = a]
      /\ UNCHANGED <<nextOffset, failed, stopped>>
    BY DEF Schedule
<1>2. /\ a \in Records /\ a # None
      /\ Partition(a) \in Partitions
      /\ Offset(a) = nextOffset[Partition(a)] - 1
      /\ stage[a] = "absent"
    BY <1>1, RecordType DEF IInv, Shapes, LoopInv, AdmittedInv
<1>3. /\ stage' \in [Records -> Stages] /\ stage'[a] = "queued"
      /\ \A r \in Records : r # a => stage'[r] = stage[r]
      /\ tail' \in [Partitions -> Records \cup {None}] /\ tail'[Partition(a)] = a
      /\ \A p \in Partitions : p # Partition(a) => tail'[p] = tail[p]
      /\ previous' \in [Records -> Records \cup {None}] /\ previous'[a] = t
      /\ \A r \in Records : r # a => previous'[r] = previous[r]
    BY <1>1, <1>2 DEF IInv, Shapes, Stages
<1>4. Shapes' /\ LoopInv'
    BY <1>1, <1>3 DEF IInv, Shapes, LoopInv
<1>5. \A r \in Records : Earlier(r, a) => stage[r] # "absent"
  <2> SUFFICES ASSUME NEW r \in Records, Earlier(r, a) PROVE stage[r] # "absent"
      OBVIOUS
  <2>1. /\ nextOffset[Partition(a)] \in Nat
        /\ Offset(r) < nextOffset[Partition(r)] /\ r # a
      BY <1>2, RecordType, SchedulerAssumption DEF Earlier, IInv, Shapes
  <2> QED BY <1>1, <2>1 DEF IInv, DenseInv
<1>6. \A r \in Records : stage[r] # "absent" => ~Earlier(a, r) /\ r # a
  <2> SUFFICES ASSUME NEW r \in Records, stage[r] # "absent"
               PROVE  ~Earlier(a, r) /\ r # a
      OBVIOUS
  <2>1. Offset(r) < nextOffset[Partition(r)]
      BY DEF IInv, AdmittedInv
  <2>2. nextOffset[Partition(a)] \in Nat
      BY <1>2, SchedulerAssumption DEF IInv, Shapes
  <2> QED BY <1>2, <2>1, <2>2, RecordType DEF Earlier
<1>7. AdmittedInv'
  <2>1. Offset(a) < nextOffset[Partition(a)]
      BY <1>2, RecordType, SchedulerAssumption DEF IInv, Shapes
  <2> QED BY <1>1, <1>2, <1>3, <2>1, RecordType DEF IInv, AdmittedInv
<1>8. DenseInv'
    BY <1>1, <1>3 DEF IInv, DenseInv
<1>9. LaneInv' /\ OrderInv'
    BY <1>2, <1>3, <1>5, <1>6 DEF IInv, LaneInv, OrderInv, Settled
<1>10. FlagInv'
    BY <1>1, <1>3 DEF IInv, FlagInv
<1>11. TailInv'
  <2> SUFFICES ASSUME NEW r \in Records, stage'[r] # "absent"
               PROVE  LET u == tail'[Partition(r)]
                      IN  IF u = None THEN stage'[r] \in Settled
                          ELSE /\ Partition(u) = Partition(r)
                               /\ stage'[u] # "absent"
                               /\ Offset(r) <= Offset(u)
      BY DEF TailInv
  <2>1. Partition(r) \in Partitions
      BY RecordType
  <2>2. CASE Partition(r) = Partition(a)
    <3>1. r = a \/ Earlier(r, a)
        BY <1>3, <1>6, <2>2, RecordEq, RecordType, <1>2 DEF Earlier
    <3> QED BY <1>2, <1>3, <2>2, <3>1, RecordType DEF Earlier
  <2>3. CASE Partition(r) # Partition(a)
    <3>1. r # a /\ tail'[Partition(r)] = tail[Partition(r)]
        BY <1>3, <2>1, <2>3
    <3>2. CASE tail[Partition(r)] = None
        BY <1>3, <3>1, <3>2 DEF IInv, TailInv
    <3>3. CASE tail[Partition(r)] # None
      <4>1. tail[Partition(r)] \in Records
          BY <2>1, <3>3 DEF IInv, Shapes
      <4> QED BY <1>3, <2>3, <3>1, <3>3, <4>1 DEF IInv, TailInv
    <3> QED BY <3>2, <3>3
  <2> QED BY <2>2, <2>3
<1>12. ChainInv'
  <2> SUFFICES ASSUME NEW r \in Records, stage'[r] # "absent"
               PROVE  IF previous'[r] = None
                      THEN \A q \in Records : Earlier(q, r) => stage'[q] \in Settled
                      ELSE /\ Earlier(previous'[r], r)
                           /\ \A q \in Records :
                                 Earlier(q, r) => q = previous'[r]
                                                  \/ Earlier(q, previous'[r])
      BY DEF ChainInv
  <2>1. CASE r = a
    <3>1. CASE t = None
      <4>1. \A q \in Records : Earlier(q, a) => stage[q] \in Settled
          BY <1>2, <1>5, <3>1 DEF IInv, TailInv, Earlier
      <4> QED BY <1>3, <1>6, <2>1, <3>1, <4>1 DEF Earlier, Settled
    <3>2. CASE t # None
      <4>1. t \in Records
          BY <1>2, <3>2 DEF IInv, Shapes
      <4>2. \A q \in Records : Earlier(q, a) =>
               /\ Partition(t) = Partition(a)
               /\ stage[t] # "absent"
               /\ Offset(q) <= Offset(t)
          BY <1>5, <3>2 DEF IInv, TailInv, Earlier
      <4>3. Earlier(t, a)
        <5>1. stage[t] # "absent" /\ Partition(t) = Partition(a)
            BY <1>2, <3>2 DEF IInv, TailOwnInv
        <5> QED BY <1>2, <1>6, <4>1, <5>1, RecordEq, RecordType DEF Earlier
      <4>4. \A q \in Records : Earlier(q, a) => q = t \/ Earlier(q, t)
          BY <1>2, <4>1, <4>2, RecordEq, RecordType DEF Earlier
      <4> QED BY <1>3, <2>1, <3>2, <4>3, <4>4
    <3> QED BY <3>1, <3>2
  <2>2. CASE r # a
    <3>1. stage[r] # "absent" /\ previous'[r] = previous[r]
        BY <1>3, <2>2
    <3>2. \A q \in Records : Earlier(q, r) => q # a
        BY <1>6, <3>1
    <3> QED BY <1>3, <3>1, <3>2 DEF IInv, ChainInv
  <2> QED BY <2>1, <2>2
<1>13. TailOwnInv'
    BY <1>2, <1>3 DEF IInv, Shapes, TailOwnInv
<1> QED BY <1>4, <1>7, <1>8, <1>9, <1>10, <1>11, <1>12, <1>13 DEF IInv

LEMMA NextIInv == ASSUME IInv, [Next]_vars PROVE IInv'
<1>1. CASE \E p \in Partitions : Arrive(p)
    BY <1>1, ArriveIInv
<1>2. CASE RequestNext \/ IteratorEnds \/ IteratorFails \/ FailureSeen \/ Drained
    BY <1>2, LoopIInv
<1>3. CASE Schedule
    BY <1>3, ScheduleIInv
<1>4. CASE CaptureThrows
    BY <1>4, CaptureThrowsIInv
<1>5. CASE Stop \/ Invalidate \/ UNCHANGED vars \/ (\E r \in Records : Resume(r))
    BY <1>5, EnvironmentIInv
<1>6. ASSUME NEW r \in Records, Task(r), ~Resume(r) PROVE IInv'
  <2>1. CASE Begin(r)
      BY <2>1, BeginIInv
  <2>2. CASE Inherit(r)
      BY <2>2, InheritIInv
  <2>3. CASE Start(r)
      BY <2>3, StartIInv
  <2>4. CASE GiveUp(r)
      BY <2>4, GiveUpIInv
  <2>5. CASE HandlerResolves(r) \/ HandlerRejects(r)
      BY <2>5, HandlerIInv
  <2>6. CASE Cleanup(r)
      BY <2>6, CleanupIInv
  <2> QED BY <1>6, <2>1, <2>2, <2>3, <2>4, <2>5, <2>6 DEF Task
<1>7. \/ (\E r \in Records : Task(r) /\ ~Resume(r))
      \/ Stop \/ Invalidate \/ UNCHANGED vars \/ (\E r \in Records : Resume(r))
      \/ Loop
    BY DEF Next, Finished
<1> QED BY <1>1, <1>2, <1>3, <1>4, <1>5, <1>6, <1>7 DEF Loop

LEMMA Invariance == Spec => []IInv
<1>1. Init => IInv
    BY InitIInv
<1>2. IInv /\ [Next]_vars => IInv'
    BY NextIInv
<1> QED BY <1>1, <1>2, PTL DEF Spec

-----------------------------------------------------------------------------

\* Whatever fails, stops or is revoked, the handlers of a partition run in
\* offset order, each behind committed records only (processMessageStream).
THEOREM InOrder == Spec => []LaterOffsetsWait
<1>1. IInv => LaterOffsetsWait
    BY DEF IInv, OrderInv, LaterOffsetsWait, Earlier
<1> QED BY <1>1, Invariance, PTL

\* What the semaphore's actions leave behind has the semaphore's types.
LEMMA SlotTypes ==
    ASSUME active \in Int, waiters \in Seq(Records), woken \in Seq(Records),
           holders \in SUBSET Records, NEW r \in Records,
           Slots!Acquire(r) \/ Slots!Resume(r) \/ Slots!Release(r)
                \/ UNCHANGED slotVars
    PROVE  /\ active' \in Int
           /\ waiters' \in Seq(Records)
           /\ woken' \in Seq(Records)
           /\ holders' \in SUBSET Records
<1>1. CASE Slots!AcquireNow(r)
    BY <1>1 DEF Slots!AcquireNow
<1>2. CASE Slots!AcquireWait(r)
    BY <1>2 DEF Slots!AcquireWait
<1>3. CASE Slots!Resume(r)
  <2>1. Tail(woken) \in Seq(Records)
      BY <1>3 DEF Slots!Resume
  <2> QED BY <1>3, <2>1 DEF Slots!Resume
<1>4. CASE Slots!Release(r)
  <2>1. active' \in Int /\ holders' \in SUBSET Records
      BY <1>4 DEF Slots!Release
  <2>2. waiters # <<>> => Head(waiters) \in Records /\ Tail(waiters) \in Seq(Records)
      OBVIOUS
  <2>3. CASE waiters = <<>>
      BY <1>4, <2>1, <2>3 DEF Slots!Release
  <2>4. CASE waiters # <<>>
    <3>1. waiters' = Tail(waiters) /\ woken' = Append(woken, Head(waiters))
        BY <1>4, <2>4 DEF Slots!Release
    <3> QED BY <2>1, <2>2, <2>4, <3>1
  <2> QED BY <2>3, <2>4
<1> QED BY <1>1, <1>2, <1>3, <1>4 DEF Slots!Acquire, slotVars

\* Every variable keeps its type: in particular a lane's offsets, the epochs and
\* the set of scheduled tasks stay within the bounds the constants give.
THEOREM TypeCorrect == Spec => []TypeOK
<1>1. Init => TypeOK
  <2>1. 1 \in 1 .. MaxOffset + 1 /\ 0 \in 0 .. MaxEpoch
      BY SchedulerAssumption
  <2>2. Init => Shapes
      BY InitIInv DEF IInv
  <2>3. Init => waiters \in Seq(Records) /\ woken \in Seq(Records)
                /\ active \in Int /\ holders \in SUBSET Records
      BY DEF Init, Slots!Init
  <2>4. Init => captured \in [Records -> 0 .. MaxEpoch] /\ epoch \in 0 .. MaxEpoch
      BY <2>1 DEF Init
  <2> QED BY <2>2, <2>3, <2>4 DEF Init, TypeOK, Shapes
<1>2. ASSUME TypeOK, IInv, [Next]_vars PROVE TypeOK'
  <2> DEFINE loops == {"room", "waiting", "arrived", "draining", "settling",
                       "returned", "threw"}
  <2>1. Shapes'
      BY <1>2, NextIInv DEF IInv
  <2>2. active' \in Int /\ waiters' \in Seq(Records) /\ woken' \in Seq(Records)
        /\ holders' \in SUBSET Records
    <3>1. CASE UNCHANGED slotVars
        BY <1>2, <3>1 DEF TypeOK, slotVars
    <3>2. ASSUME NEW r \in Records, Task(r)
          PROVE  Slots!Acquire(r) \/ Slots!Resume(r) \/ Slots!Release(r)
                 \/ UNCHANGED slotVars
        BY <3>2 DEF Task, Begin, Inherit, Resume, Start, GiveUp,
                    HandlerResolves, HandlerRejects, Cleanup
    <3>3. UNCHANGED slotVars \/ \E r \in Records : Task(r)
        BY <1>2 DEF Next, Loop, Finished, vars, slotVars, Stop, Invalidate,
                    RequestNext, IteratorEnds, IteratorFails, CaptureThrows,
                    FailureSeen, Drained, Arrive, Schedule
    <3>4. ASSUME NEW r \in Records, Task(r)
          PROVE  active' \in Int /\ waiters' \in Seq(Records)
                 /\ woken' \in Seq(Records) /\ holders' \in SUBSET Records
        BY <1>2, <3>2, <3>4, SlotTypes DEF TypeOK
    <3> QED BY <3>1, <3>3, <3>4
  <2>3. loop' \in loops
      BY <1>2 DEF TypeOK, Next, Loop, Task, Finished, vars, loopVars, Stop,
                  Invalidate, RequestNext, IteratorEnds, IteratorFails,
                  CaptureThrows, FailureSeen, Drained, Arrive, Schedule, Begin,
                  Inherit, Resume, Start, GiveUp, HandlerResolves,
                  HandlerRejects, Cleanup
  <2>4. epoch' \in 0 .. MaxEpoch
      BY <1>2, SchedulerAssumption
         DEF TypeOK, Next, Loop, Task, Finished, vars, Stop,
                  Invalidate, RequestNext, IteratorEnds, IteratorFails,
                  CaptureThrows, FailureSeen, Drained, Arrive, Schedule, Begin,
                  Inherit, Resume, Start, GiveUp, HandlerResolves,
                  HandlerRejects, Cleanup
  <2>5. captured' \in [Records -> 0 .. MaxEpoch]
    <3>1. captured' = captured \/ captured' = [captured EXCEPT ![arrived] = epoch]
        BY <1>2 DEF Next, Loop, Task, Finished, vars, taskVars, Stop,
                  Invalidate, RequestNext, IteratorEnds, IteratorFails,
                  CaptureThrows, FailureSeen, Drained, Arrive, Schedule, Begin,
                  Inherit, Resume, Start, GiveUp, HandlerResolves,
                  HandlerRejects, Cleanup
    <3> QED BY <1>2, <3>1 DEF TypeOK
  <2>6. pending' \in SUBSET Records
    <3>1. CASE Schedule
      <4>1. arrived \in Records
          BY <1>2, <3>1 DEF Schedule, IInv, Shapes, LoopInv
      <4> QED BY <1>2, <3>1, <4>1 DEF Schedule, TypeOK
    <3>2. CASE pending' = pending \/ \E r \in Records : pending' = pending \ {r}
        BY <1>2, <3>2 DEF TypeOK
    <3> QED
      BY <1>2, <3>1, <3>2 DEF Next, Loop, Task, Finished, vars, taskVars, Stop,
                  Invalidate, RequestNext, IteratorEnds, IteratorFails,
                  CaptureThrows, FailureSeen, Drained, Arrive, Begin,
                  Inherit, Resume, Start, GiveUp, HandlerResolves,
                  HandlerRejects, Cleanup
  <2> QED BY <2>1, <2>2, <2>3, <2>4, <2>5, <2>6 DEF TypeOK, Shapes
<1> QED BY <1>1, <1>2, Invariance, PTL DEF Spec

-----------------------------------------------------------------------------
(* The end of the run, the read-ahead and the semaphore *)

Over == Settled \cup {"absent"}

\* A task that may still run is one the loop waits for.
PendingInv == \A r \in Records : stage[r] \notin Over => r \in pending

\* The promise has settled: nothing runs, and a normal return saw no failure.
EndInv ==
    /\ loop \in {"returned", "threw"} => \A r \in Records : stage[r] \in Over
    /\ loop = "returned" => failed = FALSE

\* The loop asks for a record only while it has room for one more task.
ReadInv ==
    /\ IsFiniteSet(pending)
    /\ Cardinality(pending) <= MaxPending
    /\ loop \in {"waiting", "arrived"} => Cardinality(pending) < MaxPending

\* Only a task between its acquire() and its release() is in the semaphore.
SlotInv ==
    /\ SlotProofs!IInv
    /\ \A r \in Records : stage[r] \notin {"acquiring", "handling"} => SlotProofs!Idle(r)

LEMMA SlotsAreProofs ==
    ASSUME NEW r \in Records
    PROVE  /\ Slots!Acquire(r) => SlotProofs!Acquire(r)
           /\ Slots!Resume(r) => SlotProofs!Resume(r)
           /\ Slots!Release(r) => SlotProofs!Release(r)
BY DEF Slots!Acquire, SlotProofs!Acquire, Slots!AcquireNow, SlotProofs!AcquireNow,
       Slots!AcquireWait, SlotProofs!AcquireWait, Slots!Resume, SlotProofs!Resume,
       Slots!Release, SlotProofs!Release, Slots!Idle, SlotProofs!Idle,
       Slots!Queued, SlotProofs!Queued, Slots!Woken, SlotProofs!Woken

LEMMA SlotsCapacity == SlotProofs!CapacityAssumption
BY SchedulerAssumption DEF SlotProofs!CapacityAssumption

\* A step that calls the semaphore.
LEMMA SlotsStep ==
    ASSUME SlotProofs!IInv,
           \/ \E r \in Records : Slots!Acquire(r) \/ Slots!Resume(r) \/ Slots!Release(r)
           \/ UNCHANGED slotVars
    PROVE  SlotProofs!IInv'
<1>1. SlotProofs!IInv /\ [SlotProofs!Next]_(SlotProofs!vars) => SlotProofs!IInv'
    BY SlotProofs!NextIInv, SlotsCapacity
<1>2. [SlotProofs!Next]_(SlotProofs!vars)
    BY SlotsAreProofs DEF SlotProofs!Next, SlotProofs!vars, slotVars
<1> QED BY <1>1, <1>2

\* What a task's step does to its stage and to the semaphore.
LEMMA TaskSlots ==
    ASSUME TypeOK, NEW r \in Records, Task(r)
    PROVE  /\ \A q \in Records \ {r} : stage'[q] = stage[q]
           /\ \/ UNCHANGED slotVars
                 /\ (stage[r] \in {"queued", "acquiring"} \/ stage'[r] = stage[r])
                 /\ (stage[r] = "queued" => stage'[r] \in Settled)
                 /\ (stage[r] = "acquiring" => stage'[r] \in {"acquiring", "handling"})
              \/ Slots!Acquire(r) /\ stage[r] = "queued" /\ stage'[r] = "acquiring"
              \/ Slots!Resume(r) /\ stage'[r] = stage[r]
              \/ Slots!Release(r) /\ stage[r] \in {"acquiring", "handling"} /\ stage'[r] \in Settled
<1>1. stage \in [Records -> Stages]
    BY DEF TypeOK
<1>2. CASE Begin(r)
    BY <1>1, <1>2 DEF Begin, To, Settled
<1>3. CASE Inherit(r)
    BY <1>1, <1>3 DEF Inherit, To, Settled
<1>4. CASE Resume(r) \/ Cleanup(r)
  <2>1. UNCHANGED stage
      BY <1>4 DEF Resume, Cleanup
  <2>2. Slots!Resume(r) \/ (UNCHANGED slotVars /\ stage[r] \in Settled)
      BY <1>4 DEF Resume, Cleanup
  <2> QED BY <2>1, <2>2 DEF Settled
<1>5. CASE Start(r)
    BY <1>1, <1>5 DEF Start, To
<1>6. CASE GiveUp(r) \/ HandlerResolves(r) \/ HandlerRejects(r)
    BY <1>1, <1>6 DEF GiveUp, HandlerResolves, HandlerRejects, To, Settled
<1> QED BY <1>2, <1>3, <1>4, <1>5, <1>6 DEF Task

\* Every other step leaves the semaphore alone, and every stage but the one of
\* the record it schedules.
LEMMA LoopStages ==
    ASSUME TypeOK, IInv, [Next]_vars
    PROVE  \/ \E r \in Records : Task(r)
           \/ /\ UNCHANGED slotVars
              /\ \A q \in Records : stage'[q] = stage[q] \/ (Schedule /\ q = arrived /\ stage'[q] = "queued")
<1>1. CASE Schedule
  <2>1. arrived \in Records
      BY <1>1 DEF Schedule, IInv, Shapes, LoopInv
  <2> QED BY <1>1, <2>1 DEF Schedule, TypeOK
<1>2. UNCHANGED <<stage, slotVars>> \/ Schedule \/ \E r \in Records : Task(r)
    BY DEF Next, Loop, Finished, vars, slotVars, Stop, Invalidate, RequestNext, IteratorEnds,
           IteratorFails, CaptureThrows, FailureSeen, Drained, Arrive
<1> QED BY <1>1, <1>2

LEMMA SlotInvNext ==
    ASSUME TypeOK, IInv, SlotInv, [Next]_vars PROVE SlotInv'
<1>1. ASSUME NEW r \in Records, Task(r) PROVE SlotInv'
  <2>1. /\ \A q \in Records \ {r} : stage'[q] = stage[q]
        /\ \/ UNCHANGED slotVars
              /\ (stage[r] \in {"queued", "acquiring"} \/ stage'[r] = stage[r])
              /\ (stage[r] = "queued" => stage'[r] \in Settled)
              /\ (stage[r] = "acquiring" => stage'[r] \in {"acquiring", "handling"})
           \/ Slots!Acquire(r) /\ stage[r] = "queued" /\ stage'[r] = "acquiring"
           \/ Slots!Resume(r) /\ stage'[r] = stage[r]
           \/ Slots!Release(r) /\ stage[r] \in {"acquiring", "handling"} /\ stage'[r] \in Settled
      BY <1>1, TaskSlots
  <2>2. SlotProofs!IInv'
      BY <2>1, SlotsStep DEF SlotInv
  <2>3. ASSUME NEW q \in Records, stage'[q] \notin {"acquiring", "handling"}
        PROVE  SlotProofs!Idle(q)'
    <3>1. q # r => SlotProofs!Idle(q)
        BY <2>1, <2>3 DEF SlotInv
    <3>2. CASE /\ UNCHANGED slotVars
               /\ stage[r] \in {"queued", "acquiring"} \/ stage'[r] = stage[r]
               /\ stage[r] = "acquiring" => stage'[r] \in {"acquiring", "handling"}
      <4>1. SlotProofs!Idle(q)
          BY <2>3, <3>1, <3>2 DEF SlotInv
      <4> QED BY <3>2, <4>1 DEF SlotProofs!Idle, SlotProofs!Queued, SlotProofs!Woken, slotVars
    <3>3. CASE Slots!Acquire(r) /\ stage'[r] = "acquiring"
      <4>1. SlotProofs!Acquire(r) /\ q \in Records \ {r} /\ SlotProofs!Idle(q)
          BY <2>3, <3>1, <3>3, SlotsAreProofs
      <4> QED BY <4>1, SlotProofs!AcquireIdle, SlotsCapacity DEF SlotInv
    <3>4. CASE Slots!Resume(r) /\ stage'[r] = stage[r]
      <4>1. SlotProofs!Resume(r) /\ SlotProofs!Idle(q)
          BY <2>3, <3>1, <3>4, SlotsAreProofs DEF SlotInv
      <4> QED BY <4>1, SlotProofs!ResumeIdle, SlotsCapacity DEF SlotInv
    <3>5. CASE Slots!Release(r)
      <4>1. SlotProofs!Release(r) /\ (SlotProofs!Idle(q) \/ q = r)
          BY <3>1, <3>5, SlotsAreProofs
      <4> QED BY <4>1, SlotProofs!ReleaseIdle, SlotsCapacity DEF SlotInv
    <3> QED BY <2>1, <3>2, <3>3, <3>4, <3>5
  <2> QED BY <2>2, <2>3 DEF SlotInv
<1>2. CASE /\ UNCHANGED slotVars
           /\ \A q \in Records : stage'[q] = stage[q] \/ (Schedule /\ q = arrived /\ stage'[q] = "queued")
  <2>1. \A q \in Records : stage'[q] \notin {"acquiring", "handling"} => SlotProofs!Idle(q)
    <3>1. Schedule => stage[arrived] = "absent"
        BY DEF Schedule, IInv, AdmittedInv, LoopInv, Shapes, TypeOK, Stages
    <3> QED BY <1>2, <3>1 DEF SlotInv
  <2>2. \A q \in Records : SlotProofs!Idle(q) => SlotProofs!Idle(q)'
      BY <1>2 DEF SlotProofs!Idle, SlotProofs!Queued, SlotProofs!Woken, slotVars
  <2>3. SlotProofs!IInv'
      BY <1>2, SlotsStep DEF SlotInv
  <2> QED BY <2>1, <2>2, <2>3 DEF SlotInv
<1> QED BY <1>1, <1>2, LoopStages

LEMMA EndInvNext ==
    ASSUME TypeOK, IInv, PendingInv, EndInv, [Next]_vars PROVE PendingInv' /\ EndInv'
<1>1. ASSUME NEW r \in Records, Task(r) PROVE PendingInv' /\ EndInv'
  <2>1. \A q \in Records \ {r} : stage'[q] = stage[q]
      BY <1>1, TaskSlots
  <2>2. stage[r] \in Over => stage'[r] = stage[r] /\ UNCHANGED failed
      BY <1>1 DEF Task, Begin, Inherit, Resume, Start, GiveUp, HandlerResolves, HandlerRejects,
                  Cleanup, Over, Settled, Slots!Resume
  <2>3. \A q \in pending \ {r} : q \in pending'
      BY <1>1 DEF Task, Begin, Inherit, Resume, Start, GiveUp, HandlerResolves, HandlerRejects, Cleanup
  <2>4. r \in pending \ pending' => stage[r] \in Settled
      BY <1>1 DEF Task, Begin, Inherit, Resume, Start, GiveUp, HandlerResolves, HandlerRejects, Cleanup
  <2>5. PendingInv'
      BY <2>1, <2>2, <2>3, <2>4 DEF PendingInv, Over
  <2>6. loop' = loop
      BY <1>1 DEF Task, Begin, Inherit, Resume, Start, GiveUp, HandlerResolves, HandlerRejects,
                  Cleanup, loopVars
  <2>7. EndInv'
      BY <2>1, <2>2, <2>6 DEF EndInv
  <2> QED BY <2>5, <2>7
<1>2. CASE Schedule
  <2>1. /\ arrived \in Records /\ pending' = pending \cup {arrived} /\ loop' = "room"
        /\ \A q \in Records \ {arrived} : stage'[q] = stage[q]
      BY <1>2 DEF Schedule, IInv, Shapes, LoopInv, TypeOK
  <2> QED BY <2>1 DEF PendingInv, EndInv
<1>3. CASE Drained
  <2>1. UNCHANGED <<pending, stage, failed>> /\ \A r \in Records : stage[r] \in Over
      BY <1>3 DEF Drained, AllSettled, PendingInv, Over
  <2>2. loop' = "returned" => failed = FALSE
      BY <1>3 DEF Drained, TypeOK
  <2> QED BY <2>1, <2>2 DEF PendingInv, EndInv
<1>4. CASE /\ UNCHANGED <<pending, stage>>
           /\ loop' \notin {"returned", "threw"} \/ UNCHANGED <<loop, failed>>
    BY <1>4 DEF PendingInv, EndInv
<1>5. \/ \E r \in Records : Task(r)
      \/ Schedule \/ Drained
      \/ /\ UNCHANGED <<pending, stage>>
         /\ loop' \notin {"returned", "threw"} \/ UNCHANGED <<loop, failed>>
    BY DEF Next, Loop, Finished, vars, loopVars, Stop, Invalidate, RequestNext, IteratorEnds,
           IteratorFails, CaptureThrows, FailureSeen, Arrive
<1> QED BY <1>1, <1>2, <1>3, <1>4, <1>5

LEMMA ReadInvNext ==
    ASSUME TypeOK, ReadInv, [Next]_vars PROVE ReadInv'
<1>0. Cardinality(pending) \in Nat /\ MaxPending \in Nat
    BY FS_CardinalityType, SchedulerAssumption DEF ReadInv
<1>1. CASE Schedule
  <2>1. pending' = pending \cup {arrived} /\ loop = "arrived" /\ loop' = "room"
      BY <1>1 DEF Schedule
  <2>2. IsFiniteSet(pending') /\ Cardinality(pending') <= Cardinality(pending) + 1
      BY <1>0, <2>1, FS_AddElement DEF ReadInv
  <2>3. Cardinality(pending') \in Nat
      BY <2>2, FS_CardinalityType
  <2> QED BY <1>0, <2>1, <2>2, <2>3 DEF ReadInv
<1>2. ASSUME NEW r \in Records, Task(r) PROVE ReadInv'
  <2>1. loop' = loop /\ (pending' = pending \/ pending' = pending \ {r})
      BY <1>2 DEF Task, Begin, Inherit, Resume, Start, GiveUp, HandlerResolves, HandlerRejects,
                  Cleanup, loopVars
  <2>2. IsFiniteSet(pending') /\ Cardinality(pending') <= Cardinality(pending)
    <3>1. pending' \in SUBSET pending
        BY <2>1
    <3> QED BY <3>1, FS_Subset DEF ReadInv
  <2>3. Cardinality(pending') \in Nat
      BY <2>2, FS_CardinalityType
  <2> QED BY <1>0, <2>1, <2>2, <2>3 DEF ReadInv
<1>3. CASE RequestNext
    BY <1>3 DEF RequestNext, ReadInv
<1>4. CASE UNCHANGED pending /\ (loop' \in {"waiting", "arrived"} => loop \in {"waiting", "arrived"})
    BY <1>4 DEF ReadInv
<1>5. \/ \E r \in Records : Task(r)
      \/ Schedule \/ RequestNext
      \/ UNCHANGED pending /\ (loop' \in {"waiting", "arrived"} => loop \in {"waiting", "arrived"})
    BY DEF Next, Loop, Finished, vars, loopVars, Stop, Invalidate, IteratorEnds,
           IteratorFails, CaptureThrows, FailureSeen, Arrive, Drained
<1> QED BY <1>1, <1>2, <1>3, <1>4, <1>5

RunInv == PendingInv /\ EndInv /\ ReadInv /\ SlotInv

LEMMA RunInvariance == Spec => [](TypeOK /\ IInv /\ RunInv)
<1>1. Init => RunInv
  <2> SUFFICES ASSUME Init PROVE RunInv
      OBVIOUS
  <2>1. PendingInv /\ EndInv
      BY DEF Init, PendingInv, EndInv, Over, Settled
  <2>2. ReadInv
      BY FS_EmptySet, SchedulerAssumption DEF Init, ReadInv
  <2>3. SlotProofs!Init => SlotProofs!IInv
      BY SlotProofs!InitIInv, SlotsCapacity
  <2>4. SlotInv
      BY <2>3 DEF Init, Slots!Init, SlotProofs!Init, SlotInv, SlotProofs!Idle, SlotProofs!Queued,
                  SlotProofs!Woken
  <2> QED BY <2>1, <2>2, <2>4 DEF RunInv
<1>2. TypeOK /\ IInv /\ RunInv /\ [Next]_vars => RunInv'
    BY SlotInvNext, EndInvNext, ReadInvNext DEF RunInv
<1> QED BY <1>1, <1>2, TypeCorrect, Invariance, PTL DEF Spec

\* The tasks kept never exceed maximumPending: the test before the loop asks
\* for a record still holds when the record has arrived and is scheduled.
THEOREM ReadAhead == Spec => []ReadAheadBounded
<1>1. RunInv => ReadAheadBounded
    BY DEF RunInv, ReadInv, ReadAheadBounded
<1> QED BY <1>1, RunInvariance, PTL

\* Once the promise of processMessageStream has settled no task is alive, and
\* none holds a slot or is suspended in the semaphore.
THEOREM Quiet == Spec => []QuietAfterSettling
<1>1. TypeOK /\ RunInv => QuietAfterSettling
  <2> SUFFICES ASSUME TypeOK, RunInv, loop \in {"returned", "threw"}
               PROVE  /\ \A r \in Records : stage[r] \in Over
                      /\ holders = {} /\ waiters = <<>> /\ woken = <<>> /\ active = 0
      BY DEF QuietAfterSettling, Over
  <2>1. \A r \in Records : stage[r] \in Over
      BY DEF RunInv, EndInv
  <2>2. \A r \in Records : SlotProofs!Idle(r)
      BY <2>1 DEF RunInv, SlotInv, Over, Settled
  <2>3. holders = {}
      BY <2>2 DEF TypeOK, SlotProofs!Idle
  <2>4. waiters = <<>>
    <3> SUFFICES ASSUME waiters # <<>> PROVE FALSE
        OBVIOUS
    <3>1. 1 \in DOMAIN waiters /\ waiters[1] \in Records
        BY DEF TypeOK
    <3> QED BY <2>2, <3>1 DEF SlotProofs!Idle, SlotProofs!Queued
  <2>5. woken = <<>>
    <3> SUFFICES ASSUME woken # <<>> PROVE FALSE
        OBVIOUS
    <3>1. 1 \in DOMAIN woken /\ woken[1] \in Records
        BY DEF TypeOK
    <3> QED BY <2>2, <3>1 DEF SlotProofs!Idle, SlotProofs!Woken
  <2>6. active = 0
      BY <2>3, SlotProofs!NothingHeld, SlotsCapacity DEF RunInv, SlotInv
  <2> QED BY <2>1, <2>3, <2>4, <2>5, <2>6
<1> QED BY <1>1, RunInvariance, PTL

\* A normal return of processMessageStream means that every record the loop
\* took is committed, or skipped by a stopping task.
THEOREM ReturnAccounts == Spec => []ReturnAccountsForEveryRecord
<1>1. TypeOK /\ IInv /\ RunInv => ReturnAccountsForEveryRecord
  <2> SUFFICES ASSUME TypeOK, IInv, RunInv, loop = "returned",
                      NEW r \in Records, Offset(r) < nextOffset[Partition(r)]
               PROVE  stage[r] = "committed" \/ (stage[r] = "skipped" /\ stopped)
      BY DEF ReturnAccountsForEveryRecord
  <2>1. r # arrived
      BY RecordType DEF IInv, LoopInv
  <2>2. stage[r] \in Settled
      BY <2>1 DEF IInv, DenseInv, RunInv, EndInv, Over
  <2>3. failed = FALSE
      BY DEF RunInv, EndInv
  <2> QED BY <2>2, <2>3 DEF IInv, FlagInv, Settled
<1> QED BY <1>1, RunInvariance, PTL

-----------------------------------------------------------------------------
(* Deadlock freedom, and the work a task has left *)

\* A task that is past its queue and not settled is in the semaphore, a
\* scheduled one is a task, and no fence is ahead of the assignment.
WaitInv ==
    /\ \A r \in pending : stage[r] # "absent"
    /\ \A r \in Records :
          /\ stage[r] = "acquiring" => ~SlotProofs!Idle(r)
          /\ stage[r] = "handling" => r \in holders
          /\ captured[r] <= epoch

\* Semaphore_proofs!StaysIn for the tasks.
LEMMA TasksStayIn ==
    ASSUME SlotInv, NEW r \in Records,
           \/ UNCHANGED slotVars
           \/ Slots!Acquire(r) \/ Slots!Resume(r) \/ Slots!Release(r),
           NEW q \in Records, Slots!Release(r) /\ ~UNCHANGED slotVars => q # r
    PROVE  /\ q \in holders => q \in holders'
           /\ SlotProofs!Woken(q) => SlotProofs!Woken(q)' \/ q \in holders'
           /\ ~SlotProofs!Idle(q) => ~SlotProofs!Idle(q)'
<1>1. CASE UNCHANGED slotVars
    BY <1>1 DEF slotVars, SlotProofs!Woken, SlotProofs!Idle, SlotProofs!Queued
<1>2. CASE ~UNCHANGED slotVars
  <2>1. /\ SlotProofs!Acquire(r) \/ SlotProofs!Resume(r) \/ SlotProofs!Release(r)
        /\ SlotProofs!Release(r) => q # r
      BY <1>2, SlotsAreProofs DEF Slots!Release, SlotProofs!Release
  <2>2. /\ q \in holders => q \in holders'
        /\ SlotProofs!Woken(q) => SlotProofs!Woken(q)' \/ q \in holders'
        /\ SlotProofs!Queued(q) => SlotProofs!Queued(q)' \/ SlotProofs!Woken(q)'
      BY <2>1, SlotProofs!StaysIn, SlotsCapacity DEF SlotInv
  <2> QED BY <2>2 DEF SlotProofs!Idle
<1> QED BY <1>1, <1>2

LEMMA WaitInvNext ==
    ASSUME TypeOK, IInv, SlotInv, WaitInv, [Next]_vars PROVE WaitInv'
<1>1. ASSUME NEW r \in Records, Task(r) PROVE WaitInv'
  <2>1. /\ \A q \in Records \ {r} : stage'[q] = stage[q]
        /\ \/ UNCHANGED slotVars
              /\ (stage[r] \in {"queued", "acquiring"} \/ stage'[r] = stage[r])
              /\ (stage[r] = "queued" => stage'[r] \in Settled)
              /\ (stage[r] = "acquiring" => stage'[r] \in {"acquiring", "handling"})
           \/ Slots!Acquire(r) /\ stage[r] = "queued" /\ stage'[r] = "acquiring"
           \/ Slots!Resume(r) /\ stage'[r] = stage[r]
           \/ Slots!Release(r) /\ stage[r] \in {"acquiring", "handling"} /\ stage'[r] \in Settled
      BY <1>1, TaskSlots
  <2>2. pending' \subseteq pending /\ UNCHANGED <<captured, epoch>>
      BY <1>1 DEF Task, Begin, Inherit, Resume, Start, GiveUp, HandlerResolves, HandlerRejects,
                  Cleanup, taskVars
  <2>3. stage[r] = "acquiring" /\ stage'[r] = "handling" => r \in holders /\ UNCHANGED slotVars
      BY <1>1, <2>1 DEF Task, Begin, Inherit, Resume, Start, GiveUp, HandlerResolves,
                        HandlerRejects, Cleanup, Settled
  <2>4. \A q \in pending' : stage'[q] # "absent"
    <3>1. stage'[r] = "absent" => stage[r] = "absent"
        BY <2>1 DEF Settled
    <3>2. pending \subseteq Records
        BY DEF TypeOK
    <3> QED BY <2>1, <2>2, <3>1, <3>2 DEF WaitInv
  <2>5. ASSUME NEW q \in Records \ {r}
        PROVE  /\ stage'[q] = "acquiring" => ~SlotProofs!Idle(q)'
               /\ stage'[q] = "handling" => q \in holders'
    <3>1. /\ q \in holders => q \in holders'
          /\ ~SlotProofs!Idle(q) => ~SlotProofs!Idle(q)'
        BY <2>1, TasksStayIn
    <3> QED BY <2>1, <3>1 DEF WaitInv
  <2>6. /\ stage'[r] = "acquiring" => ~SlotProofs!Idle(r)'
        /\ stage'[r] = "handling" => r \in holders'
    <3>1. CASE UNCHANGED slotVars
                /\ (stage[r] \in {"queued", "acquiring"} \/ stage'[r] = stage[r])
                /\ (stage[r] = "queued" => stage'[r] \in Settled)
                /\ (stage[r] = "acquiring" => stage'[r] \in {"acquiring", "handling"})
      <4>1. /\ r \in holders => r \in holders'
            /\ ~SlotProofs!Idle(r) => ~SlotProofs!Idle(r)'
          BY <3>1, TasksStayIn
      <4>2. stage'[r] = "acquiring" => stage[r] = "acquiring"
          BY <3>1 DEF Settled
      <4>3. stage'[r] = "handling" => r \in holders
          BY <2>3, <3>1 DEF WaitInv, Settled
      <4> QED BY <4>1, <4>2, <4>3 DEF WaitInv
    <3>2. CASE Slots!Acquire(r) /\ stage'[r] = "acquiring"
      <4>1. SlotProofs!Acquire(r) /\ (SlotProofs!Release(r) => r # r)
          BY <3>2, SlotsAreProofs DEF SlotProofs!Acquire, SlotProofs!AcquireNow,
             SlotProofs!AcquireWait, SlotProofs!Idle, SlotProofs!Release
      <4>2. ~SlotProofs!Idle(r)'
          BY <4>1, SlotProofs!StaysIn, SlotsCapacity DEF SlotInv
      <4> QED BY <3>2, <4>2
    <3>3. CASE Slots!Resume(r)
      <4>1. r \in holders'
          BY <3>3 DEF Slots!Resume
      <4> QED BY <4>1 DEF SlotProofs!Idle
    <3>4. CASE stage'[r] \in Settled
        BY <3>4 DEF Settled
    <3> QED BY <2>1, <3>1, <3>2, <3>3, <3>4
  <2> QED BY <2>2, <2>4, <2>5, <2>6 DEF WaitInv
<1>2. CASE /\ UNCHANGED slotVars
           /\ \A q \in Records : stage'[q] = stage[q] \/ (Schedule /\ q = arrived /\ stage'[q] = "queued")
           /\ ~ \E r \in Records : Task(r)
  <2>1. \A r \in Records : SlotProofs!Idle(r)' <=> SlotProofs!Idle(r)
      BY <1>2 DEF SlotProofs!Idle, SlotProofs!Queued, SlotProofs!Woken, slotVars
  <2>2. \A r \in Records : /\ stage'[r] = "acquiring" => ~SlotProofs!Idle(r)'
                           /\ stage'[r] = "handling" => r \in holders'
      BY <1>2, <2>1 DEF WaitInv, slotVars
  <2>3. \/ UNCHANGED <<captured, pending>> /\ (epoch' = epoch \/ epoch' = epoch + 1)
        \/ Schedule
      BY <1>2 DEF Next, Loop, Finished, vars, taskVars, Stop, Invalidate, RequestNext,
            IteratorEnds, IteratorFails, CaptureThrows, FailureSeen, Drained, Arrive
  <2>4. \A r \in Records : captured[r] \in Int /\ captured[r] <= epoch
      BY DEF WaitInv, TypeOK
  <2>5. epoch \in Int
      BY DEF TypeOK
  <2>6. \A r \in Records : captured'[r] <= epoch'
    <3>1. CASE Schedule
        BY <2>4, <2>5, <3>1 DEF Schedule, TypeOK
    <3>2. CASE UNCHANGED <<captured, pending>> /\ (epoch' = epoch \/ epoch' = epoch + 1)
        BY <2>4, <2>5, <3>2
    <3> QED BY <2>3, <3>1, <3>2
  <2>7. \A r \in pending' : stage'[r] # "absent"
    <3>1. CASE Schedule
      <4>1. /\ arrived \in Records /\ pending' = pending \cup {arrived} /\ stage'[arrived] = "queued"
            /\ \A r \in pending : stage[r] # "absent"
          BY <3>1 DEF Schedule, IInv, Shapes, LoopInv, TypeOK, WaitInv
      <4> QED BY <1>2, <4>1 DEF TypeOK
    <3>2. CASE UNCHANGED <<captured, pending>>
        BY <1>2, <3>2 DEF WaitInv, TypeOK
    <3> QED BY <2>3, <3>1, <3>2
  <2> QED BY <2>2, <2>6, <2>7 DEF WaitInv
<1> QED BY <1>1, <1>2, LoopStages

LEMMA WaitInvariance == Spec => []WaitInv
<1>1. Init => WaitInv
    BY SchedulerAssumption DEF Init, WaitInv
<1>2. TypeOK /\ IInv /\ RunInv /\ WaitInv /\ [Next]_vars => WaitInv'
    BY WaitInvNext DEF RunInv
<1> QED BY <1>1, <1>2, RunInvariance, PTL DEF Spec

\* A non-empty set of naturals has a least element: the intervals 1 .. n are
\* finite sets, and those are well-founded under strict inclusion.
LEMMA LeastNatural ==
    ASSUME NEW T, T \subseteq Nat, T # {}
    PROVE  \E m \in T : \A n \in T : m <= n
<1> DEFINE I == {1 .. n : n \in T}
<1>1. I \subseteq FiniteSubsetsOf(Nat) /\ I # {}
  <2>1. \A n \in T : 1 .. n \in SUBSET Nat /\ IsFiniteSet(1 .. n)
      BY FS_Interval
  <2>2. ASSUME NEW t \in I PROVE t \in FiniteSubsetsOf(Nat)
      BY <2>1 DEF FiniteSubsetsOf
  <2> QED BY <2>2
<1>2. PICK s \in I : \A t \in I : ~(<<t, s>> \in StrictSubsetOrdering(Nat))
  <2> HIDE DEF I
  <2> QED BY <1>1, FS_StrictSubsetOrderingWellFounded, WFMin
<1>3. PICK m \in T : s = 1 .. m
    OBVIOUS
<1>4. ASSUME NEW n \in T PROVE m <= n
  <2> SUFFICES ASSUME n < m PROVE FALSE
      OBVIOUS
  <2>1. m \in 1 .. m /\ m \notin 1 .. n /\ 1 .. n \subseteq 1 .. m
      OBVIOUS
  <2>2. 1 .. n \in SUBSET Nat /\ 1 .. m \in SUBSET Nat /\ 1 .. n # 1 .. m
      BY <2>1
  <2>3. <<1 .. n, 1 .. m>> \in StrictSubsetOrdering(Nat)
      BY <2>1, <2>2 DEF StrictSubsetOrdering
  <2> QED BY <1>2, <1>3, <2>3
<1> QED BY <1>4

\* A task in the semaphore is one the loop still keeps.
LEMMA InSlotsPending ==
    ASSUME TypeOK, RunInv, NEW r \in Records, ~SlotProofs!Idle(r)
    PROVE  r \in pending /\ stage[r] \in {"acquiring", "handling"}
BY DEF RunInv, SlotInv, PendingInv, Over, Settled

\* The least task of a lane whose tasks are all queued is chained behind
\* nothing, or behind a settled task.
LEMMA LeastQueuedRuns ==
    ASSUME TypeOK, IInv, RunInv, NEW r \in pending, stage[r] = "queued",
           \A q \in pending : Offset(r) <= Offset(q)
    PROVE  CanRun(r)
<1>1. r \in Records
    BY DEF TypeOK
<1>2. CASE previous[r] = None
    BY <1>2 DEF CanRun, Previous, Settled
<1>3. CASE previous[r] # None
  <2>1. PICK t \in Records : t = previous[r]
      BY <1>1, <1>3 DEF IInv, Shapes
  <2>2. Earlier(t, r)
      BY <1>1, <1>3, <2>1 DEF IInv, ChainInv
  <2>3. stage[t] # "absent"
      BY <1>1, <2>2 DEF IInv, LaneInv
  <2>4. Offset(t) < Offset(r) /\ Offset(t) \in Nat /\ Offset(r) \in Nat
      BY <1>1, <2>2, RecordType DEF Earlier
  <2>5. stage[t] \in Settled
      BY <2>3, <2>4 DEF RunInv, PendingInv, Over
  <2> QED BY <1>3, <2>1, <2>5 DEF CanRun, Previous
<1> QED BY <1>2, <1>3

\* No deadlock, for any number of partitions, slots and tasks kept: as long as
\* a task is pending, one of the pending tasks can run.
THEOREM NoDeadlock == Spec => []SomeTaskCanRun
<1>1. TypeOK /\ IInv /\ RunInv /\ WaitInv => SomeTaskCanRun
  <2> SUFFICES ASSUME TypeOK, IInv, RunInv, WaitInv, pending # {},
                      \A r \in pending : ~CanRun(r)
               PROVE  FALSE
      BY DEF SomeTaskCanRun
  <2>1. \A r \in pending : r \in Records
      BY DEF TypeOK
  <2>2. \A r \in Records : SlotProofs!Idle(r)
    <3> SUFFICES ASSUME NEW r \in Records, ~SlotProofs!Idle(r) PROVE FALSE
        OBVIOUS
    <3>1. holders = {}
      <4> SUFFICES ASSUME NEW h \in holders PROVE FALSE
          OBVIOUS
      <4>1. h \in Records /\ ~SlotProofs!Idle(h)
          BY DEF TypeOK, SlotProofs!Idle
      <4> QED BY <4>1, InSlotsPending DEF CanRun
    <3>2. woken = <<>>
      <4> SUFFICES ASSUME woken # <<>> PROVE FALSE
          OBVIOUS
      <4>1. Head(woken) \in Records /\ 1 \in DOMAIN woken /\ woken[1] = Head(woken)
          BY DEF TypeOK
      <4>2. ~SlotProofs!Idle(Head(woken))
          BY <4>1 DEF SlotProofs!Idle, SlotProofs!Woken
      <4>3. CanRun(Head(woken)) /\ Head(woken) \in pending
          BY <4>1, <4>2, InSlotsPending DEF CanRun
      <4> QED BY <4>3
    <3>3. waiters # <<>>
      <4>1. SlotProofs!Queued(r) \/ SlotProofs!Woken(r)
          BY <3>1 DEF SlotProofs!Idle
      <4> QED BY <3>2, <4>1 DEF SlotProofs!Queued, SlotProofs!Woken
    <3> QED BY <3>1, <3>2, <3>3, SlotProofs!SomebodyHolds, SlotsCapacity DEF RunInv, SlotInv
  <2>3. \A r \in pending : stage[r] = "queued"
    <3> SUFFICES ASSUME NEW r \in pending PROVE stage[r] = "queued"
        OBVIOUS
    <3>1. stage[r] \in Stages /\ stage[r] # "absent" /\ stage[r] \notin Settled /\ stage[r] # "handling"
        BY <2>1 DEF TypeOK, WaitInv, CanRun
    <3>2. stage[r] # "acquiring"
        BY <2>1, <2>2 DEF WaitInv
    <3> QED BY <3>1, <3>2 DEF Stages
  <2>4. PICK r \in pending : \A q \in pending : Offset(r) <= Offset(q)
    <3> DEFINE T == {Offset(q) : q \in pending}
    <3>1. T \subseteq Nat /\ T # {}
        BY <2>1, RecordType
    <3>2. \E m \in T : \A n \in T : m <= n
      <4> HIDE DEF T
      <4> QED BY <3>1, LeastNatural
    <3> QED BY <3>2
  <2> QED BY <2>3, <2>4, LeastQueuedRuns
<1> QED BY <1>1, RunInvariance, WaitInvariance, TypeCorrect, PTL

\* The work left for a record: what its task still has to do before it is
\* cleaned up.
Rank(r) ==
    IF stage[r] = "absent" THEN 7
    ELSE IF stage[r] = "queued" THEN 6
    ELSE IF stage[r] = "acquiring"
         THEN IF r \in holders THEN 3 ELSE IF SlotProofs!Woken(r) THEN 4 ELSE 5
    ELSE IF stage[r] = "handling" THEN 2
    ELSE IF r \in pending THEN 1 ELSE 0

\* No task goes back: a step of a task leaves it less to do, and no other step
\* gives a task more to do.  A record's task takes at most six steps.
THEOREM TasksTerminate ==
    Spec => [][\A r \in Records :
                  /\ Rank(r)' <= Rank(r)
                  /\ Task(r) => Rank(r)' < Rank(r)]_vars
<1>1. ASSUME TypeOK, IInv, RunInv, WaitInv, NEW r \in Records, Task(r)
      PROVE  \A q \in Records : Rank(q)' <= Rank(q) /\ (q = r => Rank(q)' < Rank(q))
  <2>1. /\ \A q \in Records \ {r} : stage'[q] = stage[q]
        /\ \/ UNCHANGED slotVars
              /\ (stage[r] \in {"queued", "acquiring"} \/ stage'[r] = stage[r])
              /\ (stage[r] = "queued" => stage'[r] \in Settled)
              /\ (stage[r] = "acquiring" => stage'[r] \in {"acquiring", "handling"})
           \/ Slots!Acquire(r) /\ stage[r] = "queued" /\ stage'[r] = "acquiring"
           \/ Slots!Resume(r) /\ stage'[r] = stage[r]
           \/ Slots!Release(r) /\ stage[r] \in {"acquiring", "handling"} /\ stage'[r] \in Settled
      BY <1>1, TaskSlots
  <2>2. pending' \subseteq pending
      BY <1>1 DEF Task, Begin, Inherit, Resume, Start, GiveUp, HandlerResolves, HandlerRejects,
                  Cleanup
  <2>3. ASSUME NEW q \in Records \ {r} PROVE Rank(q)' <= Rank(q)
    <3>1. /\ q \in holders => q \in holders'
          /\ SlotProofs!Woken(q) => SlotProofs!Woken(q)' \/ q \in holders'
        BY <1>1, <2>1, TasksStayIn DEF RunInv
    <3> QED BY <2>1, <2>2, <3>1 DEF Rank
  <2>4. Rank(r)' < Rank(r)
    <3>1. CASE Begin(r) \/ Inherit(r)
      <4>1. stage[r] = "queued" /\ stage'[r] \in Settled \cup {"acquiring"}
          BY <1>1, <3>1 DEF Begin, Inherit, To, TypeOK, Settled
      <4> QED BY <4>1 DEF Rank, Settled
    <3>2. CASE Resume(r)
      <4>1. SlotProofs!Resume(r) /\ SlotProofs!IInv /\ SlotProofs!CapacityAssumption
          BY <1>1, <3>2, SlotsAreProofs, SlotsCapacity DEF Resume, RunInv, SlotInv
      <4>2. 1 \in DOMAIN woken /\ woken[1] = r
          BY <4>1, SlotProofs!ResumeQueue
      <4>3. SlotProofs!Woken(r) /\ r \notin holders
          BY <4>1, <4>2 DEF SlotProofs!Woken, SlotProofs!IInv, SlotProofs!OnePlace
      <4>4. stage[r] = "acquiring"
          BY <1>1, <4>3, InSlotsPending DEF WaitInv, SlotProofs!Idle
      <4>5. stage' = stage /\ r \in holders'
          BY <3>2 DEF Resume, Slots!Resume
      <4> QED BY <4>3, <4>4, <4>5 DEF Rank
    <3>3. CASE Start(r)
      <4>1. stage[r] = "acquiring" /\ r \in holders /\ stage'[r] = "handling"
          BY <1>1, <3>3 DEF Start, To, TypeOK
      <4> QED BY <4>1 DEF Rank
    <3>4. CASE GiveUp(r) \/ HandlerResolves(r) \/ HandlerRejects(r)
      <4>1. /\ stage[r] = "handling" \/ (stage[r] = "acquiring" /\ r \in holders)
            /\ stage'[r] \in Settled
          BY <1>1, <3>4 DEF GiveUp, HandlerResolves, HandlerRejects, To, TypeOK, Settled
      <4> QED BY <4>1 DEF Rank, Settled
    <3>5. CASE Cleanup(r)
      <4>1. stage' = stage /\ stage[r] \in Settled /\ r \in pending /\ r \notin pending'
          BY <3>5 DEF Cleanup
      <4> QED BY <4>1 DEF Rank, Settled
    <3> QED BY <1>1, <3>1, <3>2, <3>3, <3>4, <3>5 DEF Task
  <2>5. Rank(r) \in Nat /\ Rank(r)' \in Nat
      BY DEF Rank
  <2> HIDE DEF Rank
  <2>6. Rank(r)' <= Rank(r)
      BY <2>4, <2>5
  <2> QED BY <2>3, <2>4, <2>6
<1>2. ASSUME TypeOK, IInv, [Next]_vars, ~ \E r \in Records : Task(r), NEW q \in Records
      PROVE  Rank(q)' <= Rank(q)
  <2>1. /\ UNCHANGED slotVars
        /\ \A s \in Records : stage'[s] = stage[s] \/ (Schedule /\ s = arrived /\ stage'[s] = "queued")
      BY <1>2, LoopStages
  <2>2. Schedule => stage[arrived] = "absent" /\ pending' = pending \cup {arrived}
      BY <1>2 DEF Schedule, IInv, AdmittedInv, LoopInv, Shapes, TypeOK, Stages
  <2>3. ~Schedule => UNCHANGED pending
      BY <1>2 DEF Next, Loop, Finished, vars, Stop, Invalidate, RequestNext, IteratorEnds,
                  IteratorFails, CaptureThrows, FailureSeen, Drained, Arrive
  <2>4. SlotProofs!Woken(q)' <=> SlotProofs!Woken(q)
      BY <2>1 DEF slotVars, SlotProofs!Woken
  <2>5. CASE Schedule /\ q = arrived
      BY <1>2, <2>1, <2>2, <2>5 DEF Rank
  <2>6. CASE ~(Schedule /\ q = arrived)
    <3>1. stage'[q] = stage[q] /\ (q \in pending' <=> q \in pending) /\ holders' = holders
        BY <1>2, <2>1, <2>2, <2>3, <2>6 DEF slotVars
    <3> QED BY <2>4, <3>1 DEF Rank
  <2> QED BY <2>5, <2>6
<1>3. TypeOK /\ IInv /\ RunInv /\ WaitInv /\ [Next]_vars
      => [\A r \in Records :
             /\ Rank(r)' <= Rank(r)
             /\ Task(r) => Rank(r)' < Rank(r)]_vars
    BY <1>1, <1>2
<1> QED BY <1>3, RunInvariance, WaitInvariance, PTL DEF Spec

\* What lets a task run is not taken away from it: no step of the loop, of
\* another task, of a stop, a failure or a rebalance disables it.  Scheduling
\* each task whenever it can run is therefore enough for it to end.
THEOREM RunnableStaysRunnable ==
    Spec => [][\A r \in Records : CanRun(r) => CanRun(r)' \/ Task(r)]_vars
<1>1. ASSUME TypeOK, IInv, RunInv, NEW t \in Records, Task(t), NEW r \in Records \ {t}, CanRun(r)
      PROVE  CanRun(r)'
  <2>1. /\ \A q \in Records \ {t} : stage'[q] = stage[q]
        /\ \/ UNCHANGED slotVars
              /\ (stage[t] \in {"queued", "acquiring"} \/ stage'[t] = stage[t])
              /\ (stage[t] = "queued" => stage'[t] \in Settled)
              /\ (stage[t] = "acquiring" => stage'[t] \in {"acquiring", "handling"})
           \/ Slots!Acquire(t) /\ stage[t] = "queued" /\ stage'[t] = "acquiring"
           \/ Slots!Resume(t) /\ stage'[t] = stage[t]
           \/ Slots!Release(t) /\ stage[t] \in {"acquiring", "handling"} /\ stage'[t] \in Settled
      BY <1>1, TaskSlots
  <2>2. UNCHANGED previous /\ \A q \in pending \ {t} : q \in pending'
      BY <1>1 DEF Task, Begin, Inherit, Resume, Start, GiveUp, HandlerResolves, HandlerRejects,
                  Cleanup, taskVars
  <2>3. \A q \in Records : stage[q] \in Settled => stage'[q] = stage[q]
      BY <2>1 DEF Settled
  <2>4. CASE stage[r] = "queued" /\ Previous(r) \in Settled
    <3>1. previous[r] = None \/ previous[r] \in Records
        BY <1>1 DEF IInv, Shapes
    <3>2. Previous(r)' \in Settled
        BY <2>2, <2>3, <2>4, <3>1 DEF Previous, Settled
    <3> QED BY <1>1, <2>1, <2>4, <3>2 DEF CanRun
  <2>5. CASE stage[r] = "acquiring" /\ r \in holders
    <3>1. r \in holders'
        BY <1>1, <2>1, <2>5, TasksStayIn DEF RunInv
    <3> QED BY <1>1, <2>1, <2>5, <3>1 DEF CanRun
  <2>6. CASE stage[r] = "acquiring" /\ woken # <<>> /\ Head(woken) = r
    <3>1. CASE UNCHANGED slotVars
        BY <1>1, <2>1, <2>6, <3>1 DEF CanRun, slotVars
    <3>2. CASE Slots!Acquire(t) \/ Slots!Resume(t) \/ Slots!Release(t)
      <4>1. SlotProofs!Acquire(t) \/ SlotProofs!Resume(t) \/ SlotProofs!Release(t)
          BY <3>2, SlotsAreProofs
      <4>2. woken' # <<>> /\ Head(woken') = r
          BY <1>1, <2>6, <4>1, SlotProofs!HeadStays, SlotsCapacity DEF RunInv, SlotInv
      <4> QED BY <1>1, <2>1, <2>6, <4>2 DEF CanRun
    <3> QED BY <2>1, <3>1, <3>2
  <2>7. CASE stage[r] = "handling" \/ (r \in pending /\ stage[r] \in Settled)
      BY <1>1, <2>1, <2>2, <2>7 DEF CanRun
  <2> QED BY <1>1, <2>4, <2>5, <2>6, <2>7 DEF CanRun
<1>2. ASSUME TypeOK, IInv, [Next]_vars, ~ \E t \in Records : Task(t), NEW r \in Records, CanRun(r)
      PROVE  CanRun(r)'
  <2>1. /\ UNCHANGED slotVars
        /\ \A s \in Records : stage'[s] = stage[s] \/ (Schedule /\ s = arrived /\ stage'[s] = "queued")
      BY <1>2, LoopStages
  <2>2. Schedule => /\ arrived \in Records /\ stage[arrived] = "absent"
                    /\ pending' = pending \cup {arrived}
                    /\ \A q \in Records \ {arrived} : previous'[q] = previous[q]
      BY <1>2 DEF Schedule, IInv, AdmittedInv, LoopInv, Shapes, TypeOK, Stages
  <2>3. ~Schedule => UNCHANGED <<pending, previous>>
      BY <1>2 DEF Next, Loop, Finished, vars, taskVars, Stop, Invalidate, RequestNext, IteratorEnds,
                  IteratorFails, CaptureThrows, FailureSeen, Drained, Arrive
  <2>4. ~(Schedule /\ r = arrived)
      BY <1>2, <2>2 DEF CanRun, Settled
  <2>5. stage'[r] = stage[r] /\ previous'[r] = previous[r] /\ (r \in pending => r \in pending')
      BY <1>2, <2>1, <2>2, <2>3, <2>4
  <2>6. \A q \in Records : stage[q] \in Settled => stage'[q] \in Settled
    <3>1. Schedule => stage[arrived] \notin Settled
        BY <2>2 DEF Settled
    <3> QED BY <2>1, <3>1
  <2>7. Previous(r) \in Settled => Previous(r)' \in Settled
    <3>1. previous[r] = None \/ previous[r] \in Records
        BY <1>2 DEF IInv, Shapes
    <3> QED BY <2>5, <2>6, <3>1 DEF Previous, Settled
  <2> QED BY <1>2, <2>1, <2>5, <2>7 DEF CanRun, slotVars
<1>3. TypeOK /\ IInv /\ RunInv /\ [Next]_vars
      => [\A r \in Records : CanRun(r) => CanRun(r)' \/ Task(r)]_vars
    BY <1>1, <1>2
<1> QED BY <1>3, RunInvariance, PTL DEF Spec

-----------------------------------------------------------------------------
(* Refinement *)

\* The scheduler uses its semaphore as Semaphore says it works: an acquisition
\* only by a task outside it, a release only by a task that holds a slot.
THEOREM SlotsImplemented == Spec => Slots!Spec
<1>1. Init => Slots!Init
    BY DEF Init
<1>2. TypeOK /\ IInv /\ [Next]_vars => [Slots!Next]_(Slots!vars)
  <2> SUFFICES ASSUME TypeOK, IInv, [Next]_vars PROVE [Slots!Next]_(Slots!vars)
      OBVIOUS
  <2>1. \/ \E r \in Records : Slots!Acquire(r) \/ Slots!Resume(r) \/ Slots!Release(r)
        \/ UNCHANGED slotVars
      BY TaskSlots, LoopStages
  <2> QED BY <2>1 DEF Slots!Next, Slots!vars, slotVars
<1> QED BY <1>1, <1>2, RunInvariance, PTL DEF Spec, Slots!Spec

\* The records of a lane: p's records are the pairs <<p, o>>.
LEMMA LaneRecord ==
    ASSUME NEW p \in Partitions, NEW o \in 1 .. MaxOffset
    PROVE  <<p, o>> \in Records /\ Partition(<<p, o>>) = p /\ Offset(<<p, o>>) = o
BY DEF Records, Partition, Offset

LEMMA RecordIsPair ==
    ASSUME NEW r \in Records
    PROVE  r = <<Partition(r), Offset(r)>>
BY DEF Records, Partition, Offset

\* At most one handler of a lane runs, and all before it is committed.
LEMMA LaneHandling ==
    ASSUME TypeOK, IInv, NEW q \in Records, NEW r \in Records,
           Partition(q) = Partition(r), stage[q] = "handling",
           stage[r] \in {"acquiring", "handling"}
    PROVE  q = r
<1>1. Offset(q) \in Int /\ Offset(r) \in Int
    BY RecordType
<1>2. ~Earlier(q, r) /\ ~Earlier(r, q)
    BY DEF IInv, OrderInv
<1> QED BY <1>1, <1>2, RecordEq DEF Earlier

LaneStep(p) == [Lane(p)!Next]_(Lane(p)!vars)

\* A step that changes nothing a lane shows but, perhaps, that it is closed.
LEMMA LaneQuiet ==
    ASSUME NEW p \in Partitions,
           nextOffset'[p] = nextOffset[p],
           \A o \in 1 .. MaxOffset : /\ stage'[<<p, o>>] = "absent" <=> stage[<<p, o>>] = "absent"
                                     /\ stage'[<<p, o>>] = "handling" <=> stage[<<p, o>>] = "handling"
                                     /\ stage'[<<p, o>>] = "committed" <=> stage[<<p, o>>] = "committed"
                                     /\ captured'[<<p, o>>] = captured[<<p, o>>],
           epoch' = epoch,
           failed \in BOOLEAN, failed' \in BOOLEAN, stopped \in BOOLEAN, stopped' \in BOOLEAN,
           failed = TRUE => failed' = TRUE, stopped = TRUE => stopped' = TRUE
    PROVE  LaneStep(p)
<1>1. CASE (failed' \/ stopped') = (failed \/ stopped)
    BY <1>1 DEF LaneStep, Lane!vars
<1>2. CASE (failed' \/ stopped') = TRUE
  <2>1. Lane(p)!Close
      BY <1>2 DEF Lane!Close
  <2> QED BY <2>1 DEF LaneStep, Lane!Next
<1> QED BY <1>1, <1>2

LEMMA LaneStart ==
    ASSUME TypeOK, IInv, NEW r \in Records, Start(r) PROVE LaneStep(Partition(r))
<1> DEFINE p == Partition(r)
           o == Offset(r)
<1>1. p \in Partitions /\ o \in 1 .. MaxOffset /\ r = <<p, o>>
    BY RecordType, RecordIsPair
<1>2. /\ stage[r] = "acquiring" /\ ~failed /\ ~stopped /\ captured[r] = epoch
      /\ stage' = [stage EXCEPT ![r] = "handling"]
      /\ UNCHANGED <<nextOffset, captured, epoch, failed, stopped>>
    BY DEF Start, To, loopVars, taskVars
<1>3. /\ stage'[r] = "handling"
      /\ \A q \in Records \ {r} : stage'[q] = stage[q]
    BY <1>2 DEF TypeOK
<1>4. \A j \in 1 .. MaxOffset : <<p, j>> \in Records /\ Partition(<<p, j>>) = p /\ Offset(<<p, j>>) = j
    BY <1>1, LaneRecord
<1>5. \A j \in 1 .. MaxOffset : stage[<<p, j>>] # "handling"
    BY <1>2, <1>4, LaneHandling
<1>6. \A j \in 1 .. MaxOffset : stage'[<<p, j>>] = "handling" <=> j = o
    BY <1>1, <1>3, <1>4, <1>5
<1>7. \A j \in 1 .. MaxOffset : /\ stage'[<<p, j>>] = "absent" <=> stage[<<p, j>>] = "absent"
                                /\ stage'[<<p, j>>] = "committed" <=> stage[<<p, j>>] = "committed"
    BY <1>2, <1>3, <1>4
<1>8. \A j \in 1 .. MaxOffset : j < o => stage[<<p, j>>] = "committed"
    BY <1>2, <1>4 DEF IInv, OrderInv, Earlier
<1>9. o < nextOffset[p] /\ nextOffset[p] \in Int
    BY <1>1, <1>2 DEF IInv, AdmittedInv, TypeOK
<1>10. Lane(p)!Start(o)
  <2>1. {j \in 1 .. MaxOffset : stage[<<p, j>>] = "handling"} = {}
      BY <1>5
  <2>2. {j \in 1 .. MaxOffset : stage'[<<p, j>>] = "handling"} = {o}
      BY <1>1, <1>6
  <2>3. o \in 1 .. nextOffset[p] - 1
      BY <1>1, <1>9
  <2>4. o \notin {j \in 1 .. MaxOffset : stage[<<p, j>>] = "committed"}
      BY <1>1, <1>2
  <2>5. o \notin {j \in 1 .. MaxOffset : stage[<<p, j>>] # "absent" /\ captured[<<p, j>>] # epoch}
      BY <1>1, <1>2
  <2>6. 1 .. o - 1 \subseteq {j \in 1 .. MaxOffset : stage[<<p, j>>] = "committed"}
    <3> SUFFICES ASSUME NEW j \in 1 .. o - 1
                 PROVE  j \in 1 .. MaxOffset /\ stage[<<p, j>>] = "committed"
        OBVIOUS
    <3>1. j \in 1 .. MaxOffset /\ j < o
        BY <1>1, SchedulerAssumption
    <3> QED BY <1>8, <3>1
  <2>7. {j \in 1 .. MaxOffset : stage'[<<p, j>>] = "committed"}
        = {j \in 1 .. MaxOffset : stage[<<p, j>>] = "committed"}
      BY <1>7
  <2>8. {j \in 1 .. MaxOffset : stage'[<<p, j>>] # "absent" /\ captured'[<<p, j>>] # epoch'}
        = {j \in 1 .. MaxOffset : stage[<<p, j>>] # "absent" /\ captured[<<p, j>>] # epoch}
      BY <1>2, <1>7
  <2> HIDE DEF p, o
  <2> QED BY <1>2, <2>1, <2>2, <2>3, <2>4, <2>5, <2>6, <2>7, <2>8 DEF Lane!Start
<1>11. \E j \in 1 .. nextOffset[p] - 1 : Lane(p)!Start(j)
    BY <1>1, <1>9, <1>10
<1> QED BY <1>11 DEF LaneStep, Lane!Next

LEMMA LaneHandlerEnds ==
    ASSUME TypeOK, IInv, NEW r \in Records, HandlerResolves(r) \/ HandlerRejects(r)
    PROVE  LaneStep(Partition(r))
<1> DEFINE p == Partition(r)
           o == Offset(r)
<1>1. p \in Partitions /\ o \in 1 .. MaxOffset /\ r = <<p, o>>
    BY RecordType, RecordIsPair
<1>2. /\ stage[r] = "handling"
      /\ \/ HandlerResolves(r) /\ stage' = [stage EXCEPT ![r] = "committed"] /\ failed' = failed
         \/ stage' = [stage EXCEPT ![r] = "failed"] /\ failed' = TRUE
      /\ UNCHANGED <<nextOffset, captured, epoch, stopped>>
    BY DEF HandlerResolves, HandlerRejects, To, loopVars, taskVars
<1>3. /\ stage'[r] \in {"committed", "failed"}
      /\ stage'[r] = "failed" => failed' = TRUE
      /\ stage'[r] = "committed" => failed' = failed
      /\ \A q \in Records \ {r} : stage'[q] = stage[q]
    BY <1>2 DEF TypeOK
<1>4. \A j \in 1 .. MaxOffset : <<p, j>> \in Records /\ Partition(<<p, j>>) = p /\ Offset(<<p, j>>) = j
    BY <1>1, LaneRecord
<1>5. \A j \in 1 .. MaxOffset : stage[<<p, j>>] = "handling" <=> j = o
    BY <1>1, <1>2, <1>4, LaneHandling
<1>6. \A j \in 1 .. MaxOffset : stage'[<<p, j>>] # "handling"
    BY <1>1, <1>3, <1>4, <1>5
<1>7. \A j \in 1 .. MaxOffset :
          /\ stage'[<<p, j>>] = "absent" <=> stage[<<p, j>>] = "absent"
          /\ stage'[<<p, j>>] = "committed" <=>
                 stage[<<p, j>>] = "committed" \/ (j = o /\ stage'[r] = "committed")
    BY <1>1, <1>2, <1>3, <1>4
<1>8. o < nextOffset[p] /\ nextOffset[p] \in Int
    BY <1>1, <1>2 DEF IInv, AdmittedInv, TypeOK
<1>9. {j \in 1 .. MaxOffset : stage[<<p, j>>] = "handling"} = {o}
    BY <1>1, <1>5
<1>10. {j \in 1 .. MaxOffset : stage'[<<p, j>>] = "handling"} = {}
    BY <1>6
<1>11. {j \in 1 .. MaxOffset : stage'[<<p, j>>] # "absent" /\ captured'[<<p, j>>] # epoch'}
       = {j \in 1 .. MaxOffset : stage[<<p, j>>] # "absent" /\ captured[<<p, j>>] # epoch}
    BY <1>2, <1>7
<1>12. CASE stage'[r] = "committed"
  <2>1. {j \in 1 .. MaxOffset : stage'[<<p, j>>] = "committed"}
        = {j \in 1 .. MaxOffset : stage[<<p, j>>] = "committed"} \cup {o}
      BY <1>1, <1>7, <1>12
  <2>2. Lane(p)!Resolve(o)
    <3> HIDE DEF p, o
    <3> QED BY <1>2, <1>3, <1>9, <1>10, <1>11, <1>12, <2>1 DEF Lane!Resolve
  <2>3. \E j \in 1 .. nextOffset[p] - 1 : Lane(p)!Resolve(j)
      BY <1>1, <1>8, <2>2
  <2> QED BY <2>3 DEF LaneStep, Lane!Next
<1>13. CASE stage'[r] = "failed"
  <2>1. {j \in 1 .. MaxOffset : stage'[<<p, j>>] = "committed"}
        = {j \in 1 .. MaxOffset : stage[<<p, j>>] = "committed"}
      BY <1>7, <1>13
  <2>2. Lane(p)!Reject
    <3> HIDE DEF p, o
    <3> QED BY <1>2, <1>3, <1>10, <1>11, <1>13, <2>1 DEF Lane!Reject
  <2> QED BY <2>2 DEF LaneStep, Lane!Next
<1> QED BY <1>3, <1>12, <1>13

\* The steps that show in no lane but by closing it.
LEMMA LaneTaskQuiet ==
    ASSUME TypeOK, NEW r \in Records, NEW p \in Partitions,
           \/ Begin(r) \/ Inherit(r) \/ Resume(r) \/ GiveUp(r) \/ Cleanup(r)
           \/ Partition(r) # p /\ (Start(r) \/ HandlerResolves(r) \/ HandlerRejects(r))
    PROVE  LaneStep(p)
<1>1. /\ UNCHANGED <<nextOffset, captured, epoch, stopped>>
      /\ failed' = failed \/ failed' = TRUE
      /\ \A q \in Records \ {r} : stage'[q] = stage[q]
    BY DEF Begin, Inherit, Resume, GiveUp, Cleanup, Start, HandlerResolves, HandlerRejects,
           To, loopVars, taskVars, TypeOK
<1>2. \A j \in 1 .. MaxOffset : <<p, j>> \in Records /\ Partition(<<p, j>>) = p
    BY LaneRecord
<1>3. CASE Partition(r) # p
  <2>1. \A j \in 1 .. MaxOffset : stage'[<<p, j>>] = stage[<<p, j>>]
      BY <1>1, <1>2, <1>3
  <2> QED BY <1>1, <2>1, LaneQuiet DEF TypeOK
<1>4. CASE Begin(r) \/ Inherit(r) \/ Resume(r) \/ GiveUp(r) \/ Cleanup(r)
  <2>1. \/ stage'[r] = stage[r]
        \/ /\ stage[r] \in {"queued", "acquiring"}
           /\ stage'[r] \in {"acquiring", "skipped", "rejected"}
      BY <1>4 DEF Begin, Inherit, Resume, GiveUp, Cleanup, To, TypeOK
  <2>2. \A j \in 1 .. MaxOffset :
            /\ stage'[<<p, j>>] = "absent" <=> stage[<<p, j>>] = "absent"
            /\ stage'[<<p, j>>] = "handling" <=> stage[<<p, j>>] = "handling"
            /\ stage'[<<p, j>>] = "committed" <=> stage[<<p, j>>] = "committed"
      BY <1>1, <1>2, <2>1
  <2> QED BY <1>1, <2>2, LaneQuiet DEF TypeOK
<1> QED BY <1>3, <1>4

\* A record is scheduled under the current assignment, so it is not revoked.
LEMMA LaneSchedule ==
    ASSUME TypeOK, IInv, Schedule, NEW p \in Partitions PROVE LaneStep(p)
<1>1. /\ arrived \in Records /\ stage[arrived] = "absent"
      /\ stage'[arrived] = "queued" /\ captured'[arrived] = epoch
      /\ \A q \in Records \ {arrived} : stage'[q] = stage[q] /\ captured'[q] = captured[q]
      /\ UNCHANGED <<nextOffset, epoch, failed, stopped>>
    BY DEF Schedule, IInv, AdmittedInv, LoopInv, Shapes, TypeOK, Stages
<1>2. \A j \in 1 .. MaxOffset : <<p, j>> \in Records
    BY LaneRecord
<1>3. \A j \in 1 .. MaxOffset :
          /\ stage'[<<p, j>>] = "handling" <=> stage[<<p, j>>] = "handling"
          /\ stage'[<<p, j>>] = "committed" <=> stage[<<p, j>>] = "committed"
          /\ stage'[<<p, j>>] # "absent" /\ captured'[<<p, j>>] # epoch'
                 <=> stage[<<p, j>>] # "absent" /\ captured[<<p, j>>] # epoch
    BY <1>1, <1>2
<1>4. /\ {j \in 1 .. MaxOffset : stage'[<<p, j>>] = "handling"}
            = {j \in 1 .. MaxOffset : stage[<<p, j>>] = "handling"}
      /\ {j \in 1 .. MaxOffset : stage'[<<p, j>>] = "committed"}
            = {j \in 1 .. MaxOffset : stage[<<p, j>>] = "committed"}
      /\ {j \in 1 .. MaxOffset : stage'[<<p, j>>] # "absent" /\ captured'[<<p, j>>] # epoch'}
            = {j \in 1 .. MaxOffset : stage[<<p, j>>] # "absent" /\ captured[<<p, j>>] # epoch}
    BY <1>3
<1>5. UNCHANGED Lane(p)!vars
    BY <1>1, <1>4 DEF Lane!vars
<1> QED BY <1>5 DEF LaneStep

\* The epoch only moves forward, so a revoked record stays revoked.
LEMMA LaneInvalidate ==
    ASSUME TypeOK, IInv, WaitInv, Invalidate, NEW p \in Partitions PROVE LaneStep(p)
<1>1. epoch' = epoch + 1 /\ UNCHANGED <<nextOffset, stage, captured, failed, stopped>>
    BY DEF Invalidate, loopVars, taskVars
<1>2. \A j \in 1 .. MaxOffset :
          /\ <<p, j>> \in Records
          /\ captured[<<p, j>>] \in Int /\ captured[<<p, j>>] <= epoch
          /\ stage[<<p, j>>] # "absent" => j < nextOffset[p]
    BY LaneRecord DEF WaitInv, TypeOK, IInv, AdmittedInv
<1>3. epoch \in Int /\ nextOffset[p] \in Int
    BY DEF TypeOK
<1> DEFINE Rev == {j \in 1 .. MaxOffset : stage[<<p, j>>] # "absent" /\ captured[<<p, j>>] # epoch}
           RevNext == {j \in 1 .. MaxOffset : stage'[<<p, j>>] # "absent" /\ captured'[<<p, j>>] # epoch'}
<1>4. Rev \subseteq RevNext
    BY <1>1, <1>2, <1>3
<1>5. RevNext \in SUBSET (1 .. nextOffset[p] - 1)
    BY <1>1, <1>2, <1>3
<1>6. Lane(p)!Revoke
    BY <1>1, <1>4, <1>5 DEF Lane!Revoke
<1> QED BY <1>6 DEF LaneStep, Lane!Next

LEMMA LaneArrive ==
    ASSUME TypeOK, NEW q \in Partitions, Arrive(q), NEW p \in Partitions PROVE LaneStep(p)
<1>1. /\ nextOffset' = [nextOffset EXCEPT ![q] = @ + 1]
      /\ UNCHANGED <<stage, captured, epoch, failed, stopped>>
    BY DEF Arrive, taskVars
<1>2. CASE p = q
  <2>1. nextOffset'[p] - 1 = (nextOffset[p] - 1) + 1
      BY <1>1, <1>2 DEF TypeOK
  <2>2. Lane(p)!Yield
      BY <1>1, <2>1 DEF Lane!Yield
  <2> QED BY <2>2 DEF LaneStep, Lane!Next
<1>3. CASE p # q
  <2>1. nextOffset'[p] = nextOffset[p]
      BY <1>1, <1>3 DEF TypeOK
  <2> QED BY <1>1, <2>1, LaneQuiet DEF TypeOK
<1> QED BY <1>2, <1>3

LEMMA LaneNext ==
    ASSUME TypeOK, IInv, WaitInv, [Next]_vars, NEW p \in Partitions PROVE LaneStep(p)
<1>1. ASSUME NEW r \in Records, Task(r) PROVE LaneStep(p)
  <2>1. CASE Start(r) /\ Partition(r) = p
      BY <2>1, LaneStart
  <2>2. CASE (HandlerResolves(r) \/ HandlerRejects(r)) /\ Partition(r) = p
      BY <2>2, LaneHandlerEnds
  <2>3. CASE \/ Begin(r) \/ Inherit(r) \/ Resume(r) \/ GiveUp(r) \/ Cleanup(r)
             \/ Partition(r) # p /\ (Start(r) \/ HandlerResolves(r) \/ HandlerRejects(r))
      BY <2>3, LaneTaskQuiet
  <2> QED BY <1>1, <2>1, <2>2, <2>3 DEF Task
<1>2. CASE Schedule
    BY <1>2, LaneSchedule
<1>3. CASE Invalidate
    BY <1>3, LaneInvalidate
<1>4. ASSUME NEW q \in Partitions, Arrive(q) PROVE LaneStep(p)
    BY <1>4, LaneArrive
<1>5. CASE /\ UNCHANGED <<nextOffset, stage, captured, epoch>>
           /\ failed' = failed \/ failed' = TRUE
           /\ stopped' = stopped \/ stopped' = TRUE
    BY <1>5, LaneQuiet DEF TypeOK
<1>6. \/ \E r \in Records : Task(r)
      \/ Schedule \/ Invalidate \/ \E q \in Partitions : Arrive(q)
      \/ /\ UNCHANGED <<nextOffset, stage, captured, epoch>>
         /\ failed' = failed \/ failed' = TRUE
         /\ stopped' = stopped \/ stopped' = TRUE
    BY DEF Next, Loop, Finished, vars, taskVars, loopVars, Stop, RequestNext, IteratorEnds,
           IteratorFails, CaptureThrows, FailureSeen, Drained
<1> QED BY <1>1, <1>2, <1>3, <1>4, <1>5, <1>6

LEMMA LaneInit == ASSUME Init, NEW p \in Partitions PROVE Lane(p)!Init
<1>1. 1 \in 1 .. MaxOffset + 1
    BY SchedulerAssumption
<1>2. \A o \in 1 .. MaxOffset : <<p, o>> \in Records
    BY LaneRecord
<1> QED BY <1>1, <1>2 DEF Init, Lane!Init

\* The read-ahead loop, the promise chains, the tails that are dropped and the
\* semaphore implement one ordered lane per partition.
THEOREM Lanes == Spec => LanesAreOrdered
<1>1. Init => \A p \in Partitions : Lane(p)!Init
    BY LaneInit
<1>2. TypeOK /\ IInv /\ WaitInv /\ [Next]_vars
      => [\A p \in Partitions : [Lane(p)!Next]_(Lane(p)!vars)]_vars
    BY LaneNext DEF LaneStep
<1> QED BY <1>1, <1>2, RunInvariance, WaitInvariance, PTL DEF Spec, LanesAreOrdered
=============================================================================
