-------------------------- MODULE GroupCommit_proofs --------------------------
(***************************************************************************)
(* Proofs about GroupCommit for every set of tasks and partitions, every   *)
(* number of records and rebalances.                                       *)
(***************************************************************************)
EXTENDS GroupCommit, SequenceTheorems, TLAPS

-----------------------------------------------------------------------------
(* Types *)

LEMMA InitTypeOK == Init => TypeOK
<1> SUFFICES ASSUME Init PROVE TypeOK
    OBVIOUS
<1> USE GroupAssumption DEF Init, NoPosition, NoLanes, AllQueued
<1>1. /\ generation \in Generations
      /\ owner \in [Partitions -> Members \cup {None}]
      /\ invited \in SUBSET Members
      /\ committed \in [Partitions -> (0 .. MaxOffset) \cup {Unset}]
      /\ logEnd \in [Partitions -> 0 .. MaxOffset]
      /\ commits \in SUBSET Commits
    BY DEF Generations
<1>2. /\ phase \in [Members -> Phases]
      /\ gen \in [Members -> Generations]
      /\ assigned \in [Members -> SUBSET Partitions]
      /\ valid \in [Members -> BOOLEAN]
      /\ epoch \in [Members -> Nat]
    BY DEF Phases, Generations
<1>3. /\ position \in [Members -> [Partitions -> (0 .. MaxOffset) \cup {Unset}]]
      /\ refresh \in [Members -> {"none", "asked", "answered"}]
      /\ pending \in [Members -> BOOLEAN]
      /\ fetch \in [Members -> Requests \cup {None}]
      /\ buffer \in [Members -> Seq(Fetched)]
    OBVIOUS
<1>4. /\ lane \in [Members -> [Partitions -> Seq(Admitted)]]
      /\ step \in [Members -> [Partitions -> Steps]]
      /\ failing \in [Members -> BOOLEAN]
      /\ processed \in SUBSET (Partitions \X Offsets)
    BY DEF Steps
<1> QED BY <1>1, <1>2, <1>3, <1>4 DEF TypeOK

\* What a failure does to the variables of its task.
LEMMA FailTypes ==
    ASSUME TypeOK, NEW m \in Members, NEW ended, Fail(m, ended)
    PROVE  /\ failing' \in [Members -> BOOLEAN]
           /\ lane' \in [Members -> [Partitions -> Seq(Admitted)]]
           /\ step' \in [Members -> [Partitions -> Steps]]
           /\ position' \in [Members -> [Partitions -> (0 .. MaxOffset) \cup {Unset}]]
           /\ refresh' \in [Members -> {"none", "asked", "answered"}]
           /\ pending' \in [Members -> BOOLEAN]
           /\ fetch' \in [Members -> Requests \cup {None}]
           /\ buffer' \in [Members -> Seq(Fetched)]
<1> USE DEF TypeOK, Fail
<1>1. failing' \in [Members -> BOOLEAN]
    OBVIOUS
<1>2. lane' \in [Members -> [Partitions -> Seq(Admitted)]]
    OBVIOUS
<1>3. step' \in [Members -> [Partitions -> Steps]]
    BY DEF Steps
<1>4. position' \in [Members -> [Partitions -> (0 .. MaxOffset) \cup {Unset}]]
    BY DEF NoPosition
<1>5. /\ refresh' \in [Members -> {"none", "asked", "answered"}]
      /\ pending' \in [Members -> BOOLEAN]
      /\ fetch' \in [Members -> Requests \cup {None}]
      /\ buffer' \in [Members -> Seq(Fetched)]
    OBVIOUS
<1> QED BY <1>1, <1>2, <1>3, <1>4, <1>5

LEMMA PushTypes ==
    ASSUME TypeOK, NEW m \in Members, NEW n \in 1 .. MaxOffset, FetchedCurrent(m, n)
    PROVE  /\ buffer' \in [Members -> Seq(Fetched)]
           /\ position' \in [Members -> [Partitions -> (0 .. MaxOffset) \cup {Unset}]]
           /\ fetch' \in [Members -> Requests \cup {None}]
<1> DEFINE p == fetch[m].partition
           o == fetch[m].offset
           new == [i \in 1 .. n |-> [partition |-> p, offset |-> o + i - 1, gen |-> gen[m]]]
<1> USE GroupAssumption
<1>1. p \in Partitions /\ o \in 0 .. MaxOffset /\ o + n <= logEnd[p] /\ logEnd[p] \in 0 .. MaxOffset
    BY DEF TypeOK, FetchedCurrent, Push, Requests
<1>2. ASSUME NEW i \in 1 .. n
      PROVE  [partition |-> p, offset |-> o + i - 1, gen |-> gen[m]] \in Fetched
  <2>1. gen[m] \in Generations
      BY DEF TypeOK
  <2>2. o + i - 1 \in Offsets
      BY <1>1 DEF Offsets
  <2> QED BY <1>1, <2>1, <2>2 DEF Fetched
<1>3. new \in Seq(Fetched)
    BY <1>2
<1>4. buffer' = [buffer EXCEPT ![m] = @ \o new] /\ fetch' = [fetch EXCEPT ![m] = None]
      /\ position' = [position EXCEPT ![m][p] = o + n]
    BY DEF FetchedCurrent, Push
<1>5. buffer[m] \o new \in Seq(Fetched)
    BY <1>3, ConcatProperties DEF TypeOK
<1>6. buffer' \in [Members -> Seq(Fetched)] /\ fetch' \in [Members -> Requests \cup {None}]
    BY <1>4, <1>5 DEF TypeOK
<1>7. o + n \in 0 .. MaxOffset
    BY <1>1
<1>8. position' \in [Members -> [Partitions -> (0 .. MaxOffset) \cup {Unset}]]
  <2> HIDE DEF p, o
  <2> QED BY <1>1, <1>4, <1>7 DEF TypeOK
<1> QED BY <1>6, <1>8

LEMMA ProcessTypes ==
    ASSUME TypeOK, NEW m \in Members, Process(m) PROVE TypeOK'
<1> USE DEF TypeOK, brokerVars, clientVars, streamVars, fenceVars, laneVars
<1>1. CASE Boot(m)
    BY <1>1 DEF Boot, Phases
<1>2. CASE Down(m)
  <2>1. /\ lane' \in [Members -> [Partitions -> Seq(Admitted)]]
        /\ step' \in [Members -> [Partitions -> Steps]]
        /\ position' \in [Members -> [Partitions -> (0 .. MaxOffset) \cup {Unset}]]
        /\ buffer' \in [Members -> Seq(Fetched)]
      BY <1>2 DEF Down, NoLanes, AllQueued, NoPosition, Steps
  <2>2. /\ phase' \in [Members -> Phases] /\ gen' \in [Members -> Generations]
        /\ epoch' \in [Members -> Nat]
      BY <1>2, GroupAssumption DEF Down, Phases, Generations
  <2> QED BY <1>2, <2>1, <2>2 DEF Down
<1> QED BY <1>1, <1>2 DEF Process

LEMMA GroupTypes ==
    ASSUME TypeOK, Rebalance \/ \E p \in Partitions : Produce(p) PROVE TypeOK'
<1> USE DEF TypeOK, brokerVars, clientVars, streamVars, fenceVars, laneVars
<1>1. CASE Rebalance
  <2>0. generation' \in Generations
      BY <1>1, GroupAssumption DEF Rebalance, Generations
  <2>1. invited' \in SUBSET Members /\ owner' \in [Partitions -> invited']
      BY <1>1 DEF Rebalance
  <2>2. owner' \in [Partitions -> Members \cup {None}]
      BY <2>1
  <2> QED BY <1>1, <2>0, <2>1, <2>2 DEF Rebalance
<1>2. ASSUME NEW p \in Partitions, Produce(p) PROVE TypeOK'
  <2>1. logEnd' \in [Partitions -> 0 .. MaxOffset]
      BY <1>2, GroupAssumption DEF Produce
  <2> QED BY <1>2, <2>1 DEF Produce
<1> QED BY <1>1, <1>2

LEMMA ProtocolTypes ==
    ASSUME TypeOK, NEW m \in Members, Protocol(m) PROVE TypeOK'
<1> USE DEF TypeOK, brokerVars, clientVars, streamVars, fenceVars, laneVars
<1>0. /\ phase' \in [Members -> Phases] /\ gen' \in [Members -> Generations]
      /\ epoch' \in [Members -> Nat] /\ valid' \in [Members -> BOOLEAN]
      /\ invited' \in SUBSET Members
  <2>1. CASE Joined(m)
      BY <2>1 DEF Joined, Phases
  <2>2. CASE SyncRefused(m)
      BY <2>2 DEF SyncRefused, Phases
  <2>3. CASE Synced(m)
      BY <2>3 DEF Synced, Phases
  <2>4. CASE Invalidated(m)
    <3>1. phase' = phase \/ phase' = [phase EXCEPT ![m] = "joining"]
        BY <2>4 DEF Invalidated
    <3>2. /\ epoch' = [epoch EXCEPT ![m] = @ + 1] /\ valid' = [valid EXCEPT ![m] = FALSE]
          /\ UNCHANGED <<gen, invited>>
        BY <2>4 DEF Invalidated
    <3>3. phase' \in [Members -> Phases]
        BY <3>1 DEF Phases
    <3>4. epoch' \in [Members -> Nat] /\ valid' \in [Members -> BOOLEAN]
        BY <3>2
    <3> QED BY <3>2, <3>3, <3>4
  <2> QED BY <2>1, <2>2, <2>3, <2>4 DEF Protocol
<1>1. CASE Joined(m) \/ SyncRefused(m)
    BY <1>0, <1>1 DEF Joined, SyncRefused
<1>2. CASE Synced(m)
  <2>1. refresh' \in [Members -> {"none", "asked", "answered"}] /\ pending' \in [Members -> BOOLEAN]
      BY <1>2 DEF Synced, ScheduleRefresh
  <2>2. assigned' \in [Members -> SUBSET Partitions]
      BY <1>2 DEF Synced
  <2> QED BY <1>0, <1>2, <2>1, <2>2 DEF Synced
<1>3. CASE Invalidated(m)
  <2>2. CASE Fail(m, {})
      BY <1>0, <1>3, <2>2, FailTypes DEF Invalidated
  <2>3. CASE UNCHANGED <<streamVars, laneVars, failing>>
      BY <1>0, <1>3, <2>3 DEF Invalidated
  <2> QED BY <1>3, <2>2, <2>3 DEF Invalidated
<1> QED BY <1>1, <1>2, <1>3 DEF Protocol

LEMMA StreamTypes ==
    ASSUME TypeOK, NEW m \in Members, Stream(m) PROVE TypeOK'
<1> USE DEF TypeOK, brokerVars, clientVars, streamVars, fenceVars, laneVars
<1>1. CASE OffsetsAnswered(m)
    BY <1>1 DEF OffsetsAnswered
<1>2. CASE Refreshed(m)
  <2>1. CASE Fail(m, {})
      BY <1>2, <2>1, FailTypes DEF Refreshed
  <2>2. CASE ~Fail(m, {})
      BY <1>2, <2>2 DEF Refreshed
  <2> QED BY <2>1, <2>2
<1>3. CASE FetchedNothing(m)
    BY <1>3 DEF FetchedNothing
<1>4. ASSUME NEW p \in Partitions, Fetch(m, p) PROVE TypeOK'
  <2>1. [partition |-> p, offset |-> position[m][p], gen |-> gen[m], active |-> Active(m)] \in Requests
      BY <1>4 DEF Fetch, Requests, Active
  <2> QED BY <1>4, <2>1 DEF Fetch
<1>5. ASSUME NEW n \in 1 .. MaxOffset, FetchedCurrent(m, n) PROVE TypeOK'
    BY <1>5, PushTypes DEF FetchedCurrent, Push
<1> QED BY <1>1, <1>2, <1>3, <1>4, <1>5 DEF Stream

LEMMA FirstType ==
    ASSUME TypeOK, NEW m \in Members, NEW p \in Partitions, lane[m][p] # <<>>
    PROVE  First(m, p) \in Admitted
BY DEF TypeOK, First

LEMMA CommitOfType ==
    ASSUME TypeOK, NEW m \in Members, NEW p \in Partitions, lane[m][p] # <<>>
    PROVE  CommitOf(m, p, First(m, p).gen) \in Commits
BY FirstType, GroupAssumption DEF CommitOf, Commits, Admitted, Offsets

LEMMA LaneTypes ==
    ASSUME TypeOK, NEW m \in Members, Lane(m) PROVE TypeOK'
<1> USE DEF TypeOK, brokerVars, clientVars, streamVars, fenceVars, laneVars
<1>1. CASE Admit(m)
  <2> DEFINE r == Head(buffer[m])
  <2>1. CASE Fail(m, {})
      BY <1>1, <2>1, FailTypes DEF Admit
  <2>2. CASE ~Fail(m, {})
    <3>1. r \in Fetched /\ Tail(buffer[m]) \in Seq(Fetched)
        BY <1>1 DEF Admit
    <3>2. [offset |-> r.offset, gen |-> gen[m], epoch |-> epoch[m]] \in Admitted
        BY <3>1 DEF Fetched, Admitted
    <3>3. /\ lane' = [lane EXCEPT ![m][r.partition] =
                         Append(@, [offset |-> r.offset, gen |-> gen[m], epoch |-> epoch[m]])]
          /\ buffer' = [buffer EXCEPT ![m] = Tail(@)]
        BY <1>1, <2>2 DEF Admit
    <3>4. lane' \in [Members -> [Partitions -> Seq(Admitted)]] /\ buffer' \in [Members -> Seq(Fetched)]
      <4>1. r.partition \in Partitions
          BY <3>1 DEF Fetched
      <4>2. Append(lane[m][r.partition],
                   [offset |-> r.offset, gen |-> gen[m], epoch |-> epoch[m]]) \in Seq(Admitted)
          BY <3>2, <4>1, AppendProperties
      <4> QED BY <3>1, <3>3, <4>1, <4>2
    <3> QED BY <1>1, <2>2, <3>4 DEF Admit
  <2> QED BY <2>1, <2>2
<1>2. ASSUME NEW p \in Partitions, Begin(m, p) \/ Handled(m, p) \/ HandlingFails(m, p) \/ Send(m, p)
      PROVE TypeOK'
  <2>0. lane[m][p] # <<>>
      BY <1>2 DEF Begin, Handled, HandlingFails, Send, At
  <2>1. processed' \in SUBSET (Partitions \X Offsets)
    <3>1. <<p, First(m, p).offset>> \in Partitions \X Offsets
        BY <2>0, FirstType DEF Admitted
    <3>2. processed' = processed \/ processed' = processed \cup {<<p, First(m, p).offset>>}
        BY <1>2 DEF Begin, Handled, HandlingFails, Send
    <3> QED BY <3>1, <3>2
  <2>2. commits' \in SUBSET Commits
      BY <1>2, CommitOfType DEF Begin, Handled, HandlingFails, Send, At
  <2>3. UNCHANGED <<brokerVars, clientVars, fenceVars>>
      BY <1>2 DEF Begin, Handled, HandlingFails, Send
  <2>4. CASE Fail(m, {p})
      BY <2>1, <2>2, <2>3, <2>4, FailTypes
  <2>5. ASSUME NEW s \in Steps, Go(m, p, s) PROVE TypeOK'
      BY <2>1, <2>2, <2>3, <2>5 DEF Go
  <2> QED BY <1>2, <2>4, <2>5 DEF Begin, Handled, HandlingFails, Send, Steps
<1> QED BY <1>1, <1>2 DEF Lane

LEMMA AnswerTypes ==
    ASSUME TypeOK, NEW c \in commits, Answered(c) \/ Replied(c) \/ ConnectionLost(c) PROVE TypeOK'
<1> USE DEF TypeOK, brokerVars, clientVars, streamVars, fenceVars, laneVars
<1>0. /\ c \in Commits /\ c.member \in Members /\ c.partition \in Partitions
      /\ c.next \in 0 .. MaxOffset
      /\ \A a \in {"accepted", "refused"} : [c EXCEPT !.answer = a] \in Commits
    BY DEF Commits
<1>1. CASE Answered(c)
    BY <1>0, <1>1 DEF Answered
<1>2. CASE Replied(c) \/ ConnectionLost(c)
  <2>1. commits' \in SUBSET Commits /\ UNCHANGED <<brokerVars, clientVars, fenceVars, processed>>
      BY <1>2 DEF Replied, ConnectionLost
  <2>2. CASE Fail(c.member, {c.partition})
      BY <1>0, <2>1, <2>2, FailTypes
  <2>3. CASE Replied(c) /\ Leave(c.member, c.partition)
    <3>1. lane[c.member][c.partition] # <<>>
        BY <2>3 DEF Replied, Awaited, At
    <3>2. lane' \in [Members -> [Partitions -> Seq(Admitted)]]
          /\ step' \in [Members -> [Partitions -> Steps]]
        BY <1>0, <2>3, <3>1 DEF Leave, Steps
    <3> QED BY <2>1, <2>3, <3>2 DEF Leave
  <2> QED BY <1>2, <2>2, <2>3 DEF Replied, ConnectionLost
<1> QED BY <1>1, <1>2

LEMMA NextTypes == TypeOK /\ [Next]_vars => TypeOK'
<1> SUFFICES ASSUME TypeOK, [Next]_vars PROVE TypeOK'
    OBVIOUS
<1>1. ASSUME NEW m \in Members, Process(m) \/ Protocol(m) \/ Stream(m) \/ Lane(m) PROVE TypeOK'
    BY <1>1, ProcessTypes, ProtocolTypes, StreamTypes, LaneTypes
<1>2. CASE UNCHANGED vars
    BY <1>2 DEF vars, TypeOK
<1> QED BY <1>1, <1>2, GroupTypes, AnswerTypes DEF Next

\* Every reachable state is well typed; in particular no task fetches, pushes
\* or commits past the end of the log.
THEOREM TypeCorrect == Spec => []TypeOK
BY InitTypeOK, NextTypes, PTL DEF Spec

-----------------------------------------------------------------------------
(* No offset passes over an unfinished record.                             *)
(*                                                                         *)
(* NothingSkipped says nothing of what tasks still hold, so it is not      *)
(* inductive.  The strengthening: wherever a task holds an offset, in a    *)
(* lane, its buffer or its position, either every record before it is      *)
(* finished or the task holds the record just before, further ahead.  A    *)
(* record leaves the front of its lane only when it is finished; a failure *)
(* drops everything but fronts.                                            *)

\* Every record of the partition before offset o is finished.
Ready(p, o) == \A e \in Offsets : e < o => <<p, e>> \in processed

\* The record just before o is ahead of it: in the lane, or in the buffer.
InLane(m, p, o) == \E i \in DOMAIN lane[m][p] : lane[m][p][i].offset + 1 = o
InBuffer(m, p, o) ==
    \E i \in DOMAIN buffer[m] : buffer[m][i].partition = p /\ buffer[m][i].offset + 1 = o

LaneInv(m) ==
    \A p \in Partitions : \A i \in DOMAIN lane[m][p] :
        \/ Ready(p, lane[m][p][i].offset)
        \/ \E j \in DOMAIN lane[m][p] : j < i /\ lane[m][p][j].offset + 1 = lane[m][p][i].offset

BufferInv(m) ==
    \A i \in DOMAIN buffer[m] :
        \/ Ready(buffer[m][i].partition, buffer[m][i].offset)
        \/ InLane(m, buffer[m][i].partition, buffer[m][i].offset)
        \/ \E j \in DOMAIN buffer[m] :
              /\ j < i
              /\ buffer[m][j].partition = buffer[m][i].partition
              /\ buffer[m][j].offset + 1 = buffer[m][i].offset

PositionInv(m) ==
    \A p \in Partitions :
        position[m][p] # Unset =>
            \/ Ready(p, position[m][p])
            \/ InLane(m, p, position[m][p])
            \/ InBuffer(m, p, position[m][p])

\* A response that the fence lets through continues the stream's position:
\* a refresh only follows a join, and a join makes earlier requests stale.
FetchInv(m) ==
    /\ fetch[m] # None => fetch[m].gen <= gen[m]
    /\ fetch[m] # None /\ fetch[m].active /\ fetch[m].gen = gen[m] =>
          /\ phase[m] # "syncing"
          /\ refresh[m] = "none"
          /\ position[m][fetch[m].partition] = fetch[m].offset

\* A record whose commit is on its way is finished.
StepInv(m) ==
    \A p \in Partitions :
        /\ At(m, p, "connecting") \/ At(m, p, "sent") => <<p, First(m, p).offset>> \in processed
        /\ lane[m][p] = <<>> => step[m][p] = "queued"

TaskInv(m) == LaneInv(m) /\ BufferInv(m) /\ PositionInv(m) /\ FetchInv(m) /\ StepInv(m)

\* Generations only grow, and a task is invited to one it is not yet in.
GenInv ==
    /\ \A m \in Members : gen[m] <= generation
    /\ \A m \in invited : phase[m] = "joining" /\ gen[m] < generation
    /\ \A c \in commits : c.gen <= generation

CommitInv ==
    /\ \A p \in Partitions : committed[p] # Unset /\ Ready(p, committed[p])
    /\ \A c \in commits : Ready(c.partition, c.next)

TasksInv == \A m \in Members : TaskInv(m)
Safe == TasksInv /\ GenInv /\ CommitInv

LEMMA InitSafe ==
    ASSUME InitialCommitted # Unset, Init PROVE Safe
<1> USE DEF Init, NoPosition, NoLanes, AllQueued
<1>1. \A m \in Members : TaskInv(m)
    BY DEF TaskInv, LaneInv, BufferInv, PositionInv, FetchInv, StepInv, At
<1>2. \A m \in Members : gen[m] <= generation
    OBVIOUS
<1>3. \A p \in Partitions : committed[p] # Unset /\ Ready(p, committed[p])
    BY DEF Ready
<1> QED BY <1>1, <1>2, <1>3, InitTypeOK DEF Safe, TasksInv, GenInv, CommitInv

\* What a step leaves alone of a task.
Same(n) ==
    /\ lane'[n] = lane[n] /\ step'[n] = step[n] /\ buffer'[n] = buffer[n]
    /\ position'[n] = position[n] /\ refresh'[n] = refresh[n] /\ fetch'[n] = fetch[n]
    /\ gen'[n] = gen[n] /\ phase'[n] = phase[n]

LEMMA ReadyStays ==
    ASSUME processed \subseteq processed' PROVE \A p, o : Ready(p, o) => Ready(p, o)'
BY DEF Ready

LEMMA SameKeeps ==
    ASSUME NEW n \in Members, TaskInv(n), Same(n), processed \subseteq processed'
    PROVE  TaskInv(n)'
<1> USE ReadyStays DEF TaskInv, Same
<1>1. LaneInv(n)'
    BY DEF LaneInv
<1>2. BufferInv(n)'
    BY DEF BufferInv, InLane
<1>3. PositionInv(n)'
    BY DEF PositionInv, InLane, InBuffer
<1>4. FetchInv(n)'
    BY DEF FetchInv
<1>5. StepInv(n)'
    BY DEF StepInv, At, First
<1> QED BY <1>1, <1>2, <1>3, <1>4, <1>5

\* The first record of a lane has nothing unfinished before it.
LEMMA FrontReady ==
    ASSUME TypeOK, NEW m \in Members, LaneInv(m), NEW p \in Partitions, lane[m][p] # <<>>
    PROVE  Ready(p, First(m, p).offset)
<1>1. lane[m][p] \in Seq(Admitted)
    BY DEF TypeOK
<1>2. 1 \in DOMAIN lane[m][p] /\ ~(\E j \in DOMAIN lane[m][p] : j < 1) /\ First(m, p) = lane[m][p][1]
    BY <1>1 DEF First
<1> QED BY <1>2 DEF LaneInv

\* A failure leaves a task its fronts.
LEMMA FailKeeps ==
    ASSUME TypeOK, NEW m \in Members, TaskInv(m), NEW ended, Fail(m, ended),
           processed \subseteq processed'
    PROVE  TaskInv(m)' /\ \A n \in Members \ {m} :
              /\ lane'[n] = lane[n] /\ step'[n] = step[n] /\ buffer'[n] = buffer[n]
              /\ position'[n] = position[n] /\ refresh'[n] = refresh[n] /\ fetch'[n] = fetch[n]
<1>1. /\ buffer'[m] = <<>> /\ fetch'[m] = None /\ position'[m] = NoPosition
      /\ \A n \in Members \ {m} :
            /\ lane'[n] = lane[n] /\ step'[n] = step[n] /\ buffer'[n] = buffer[n]
            /\ position'[n] = position[n] /\ refresh'[n] = refresh[n] /\ fetch'[n] = fetch[n]
    BY DEF Fail, TypeOK
<1>2. \A p \in Partitions :
         \/ lane'[m][p] = <<>> /\ step'[m][p] = "queued"
         \/ lane[m][p] # <<>> /\ lane'[m][p] = <<Head(lane[m][p])>> /\ step'[m][p] = step[m][p]
    BY DEF Fail, TypeOK
<1>3. LaneInv(m)'
  <2> SUFFICES ASSUME NEW p \in Partitions, NEW i \in DOMAIN lane'[m][p]
               PROVE  Ready(p, lane[m][p][i].offset)'
      BY DEF LaneInv
  <2>1. lane[m][p] # <<>> /\ lane'[m][p] = <<Head(lane[m][p])>>
      BY <1>2
  <2>2. lane'[m][p][i] = First(m, p)
      BY <2>1 DEF First
  <2> QED BY <2>1, <2>2, FrontReady DEF TaskInv, Ready
<1>4. BufferInv(m)' /\ PositionInv(m)' /\ FetchInv(m)'
    BY <1>1 DEF BufferInv, PositionInv, FetchInv, NoPosition
<1>5. StepInv(m)'
  <2> SUFFICES ASSUME NEW p \in Partitions, (At(m, p, "connecting") \/ At(m, p, "sent"))'
               PROVE  (<<p, First(m, p).offset>> \in processed)'
      BY <1>2 DEF StepInv
  <2>1. lane[m][p] # <<>> /\ lane'[m][p] = <<Head(lane[m][p])>> /\ step'[m][p] = step[m][p]
      BY <1>2 DEF At
  <2>2. First(m, p)' = First(m, p)
      BY <2>1 DEF First
  <2> QED BY <2>1, <2>2 DEF At, TaskInv, StepInv
<1> QED BY <1>1, <1>3, <1>4, <1>5 DEF TaskInv

\* A step that leaves the lanes, the buffer and the position alone.
Held(n) ==
    lane'[n] = lane[n] /\ step'[n] = step[n] /\ buffer'[n] = buffer[n] /\ position'[n] = position[n]

LEMMA HeldKeeps ==
    ASSUME NEW m \in Members, TaskInv(m), Held(m), processed' = processed, FetchInv(m)'
    PROVE  TaskInv(m)'
<1> USE ReadyStays DEF TaskInv, Held
<1>1. LaneInv(m)'
    BY DEF LaneInv
<1>2. BufferInv(m)'
    BY DEF BufferInv, InLane
<1>3. PositionInv(m)'
    BY DEF PositionInv, InLane, InBuffer
<1>4. StepInv(m)'
    BY DEF StepInv, At, First
<1> QED BY <1>1, <1>2, <1>3, <1>4

LEMMA CommitsKept ==
    ASSUME CommitInv, commits' \subseteq commits, committed' = committed,
           processed \subseteq processed'
    PROVE  CommitInv'
BY ReadyStays DEF CommitInv

\* A step of one task's consumer or stream.
LEMMA HeldStep ==
    ASSUME TypeOK, Safe, NEW m \in Members, Held(m), FetchInv(m)', GenInv',
           \A n \in Members \ {m} : Same(n),
           UNCHANGED <<commits, committed, processed>>
    PROVE  Safe'
<1>1. TaskInv(m)'
    BY HeldKeeps DEF Safe, TasksInv
<1>2. \A n \in Members \ {m} : TaskInv(n)'
    BY SameKeeps DEF Safe, TasksInv
<1>3. CommitInv'
    BY CommitsKept DEF Safe
<1> QED BY <1>1, <1>2, <1>3 DEF Safe, TasksInv

\* A failure.
LEMMA FailStep ==
    ASSUME TypeOK, Safe, NEW m \in Members, NEW ended, Fail(m, ended), GenInv', CommitInv',
           gen' = gen, \A n \in Members \ {m} : phase'[n] = phase[n],
           processed \subseteq processed'
    PROVE  Safe'
<1>1. TaskInv(m)' /\ \A n \in Members \ {m} :
              /\ lane'[n] = lane[n] /\ step'[n] = step[n] /\ buffer'[n] = buffer[n]
              /\ position'[n] = position[n] /\ refresh'[n] = refresh[n] /\ fetch'[n] = fetch[n]
    BY FailKeeps DEF Safe, TasksInv
<1>2. \A n \in Members \ {m} : TaskInv(n)'
    BY <1>1, SameKeeps DEF Same, Safe, TasksInv
<1> QED BY <1>1, <1>2 DEF Safe, TasksInv

LEMMA ProcessSafe ==
    ASSUME TypeOK, Safe, NEW m \in Members, Process(m) PROVE Safe'
<1> USE DEF brokerVars, clientVars, streamVars, fenceVars, laneVars
<1>1. \A n \in Members \ {m} : Same(n)
    BY DEF Process, Boot, Down, Same, TypeOK
<1>2. CASE Boot(m)
  <2>1. Held(m)
      BY <1>2 DEF Boot, Held
  <2>2. FetchInv(m)'
      BY <1>2 DEF Boot, FetchInv, Safe, TasksInv, TaskInv, TypeOK
  <2>3. GenInv'
      BY <1>2 DEF Boot, GenInv, Safe, TypeOK
  <2> QED BY <1>1, <1>2, <2>1, <2>2, <2>3, HeldStep DEF Boot
<1>3. CASE Down(m)
  <2>1. /\ lane'[m] = NoLanes /\ buffer'[m] = <<>> /\ position'[m] = NoPosition /\ fetch'[m] = None
        /\ processed' = processed /\ step'[m] = AllQueued
      BY <1>3 DEF Down, TypeOK
  <2>2. TaskInv(m)'
      BY <2>1 DEF TaskInv, LaneInv, BufferInv, PositionInv, FetchInv, StepInv, At, NoLanes,
                  NoPosition, AllQueued
  <2>3. \A n \in Members \ {m} : TaskInv(n)'
      BY <1>1, <2>1, SameKeeps DEF Safe, TasksInv
  <2>4. GenInv'
      BY <1>3, GroupAssumption DEF Down, GenInv, Safe, TypeOK, Generations
  <2>5. CommitInv'
      BY <1>3, CommitsKept DEF Down, Safe
  <2> QED BY <2>2, <2>3, <2>4, <2>5 DEF Safe, TasksInv
<1> QED BY <1>2, <1>3 DEF Process

LEMMA GroupSafe ==
    ASSUME TypeOK, Safe, Rebalance \/ \E p \in Partitions : Produce(p) PROVE Safe'
<1> USE DEF brokerVars, clientVars, streamVars, fenceVars, laneVars
<1>1. (\A n \in Members : Same(n)) /\ UNCHANGED <<commits, committed, processed>>
    BY DEF Rebalance, Produce, Same
<1>2. TasksInv' /\ CommitInv'
    BY <1>1, SameKeeps, CommitsKept DEF Safe, TasksInv
<1>3. CASE Rebalance
  <2>1. /\ generation' = generation + 1 /\ UNCHANGED <<gen, phase, commits>>
        /\ \A m \in invited' : m \in Members /\ phase[m] = "joining"
      BY <1>3 DEF Rebalance
  <2>2. /\ generation \in Int /\ \A m \in Members : gen[m] \in Int
        /\ \A c \in commits : c.gen \in Int
      BY DEF TypeOK, Generations, Commits
  <2>3. GenInv'
      BY <2>1, <2>2 DEF GenInv, Safe
  <2> QED BY <1>2, <2>3 DEF Safe
<1>4. CASE \E p \in Partitions : Produce(p)
  <2>1. GenInv'
      BY <1>4 DEF Produce, GenInv, Safe
  <2> QED BY <1>2, <2>1 DEF Safe
<1> QED BY <1>3, <1>4

LEMMA ProtocolSafe ==
    ASSUME TypeOK, Safe, NEW m \in Members, Protocol(m) PROVE Safe'
<1> USE DEF brokerVars, clientVars, streamVars, fenceVars, laneVars
<1>1. /\ UNCHANGED <<generation, commits, committed, processed>>
      /\ invited' \subseteq invited
      /\ \A n \in Members \ {m} : phase'[n] = phase[n] /\ gen'[n] = gen[n]
    BY DEF Protocol, Joined, Synced, SyncRefused, Invalidated, TypeOK
<1>2. GenInv'
  <2>1. gen'[m] <= generation /\ (m \in invited' => phase'[m] = "joining" /\ gen'[m] < generation)
      BY DEF Protocol, Joined, Synced, SyncRefused, Invalidated, GenInv, Safe, TypeOK, Generations
  <2> QED BY <1>1, <2>1 DEF GenInv, Safe, TypeOK
<1>3. CASE ~(Invalidated(m) /\ Fail(m, {}))
  <2>1. /\ UNCHANGED <<position, fetch, buffer, laneVars>>
        /\ refresh' = refresh \/ \E r \in {"asked"} : refresh' = [refresh EXCEPT ![m] = r]
      BY <1>3 DEF Protocol, Joined, Synced, SyncRefused, Invalidated, ScheduleRefresh
  <2>11. Held(m) /\ \A n \in Members \ {m} : Same(n)
      BY <1>1, <2>1 DEF Held, Same, TypeOK
  <2>2. FetchInv(m)
      BY DEF Safe, TasksInv, TaskInv
  <2>3. CASE Joined(m)
    <3>1. gen[m] < generation /\ gen'[m] = generation /\ fetch' = fetch
        BY <2>3 DEF Joined, GenInv, Safe, TypeOK
    <3>2. gen[m] \in Int /\ generation \in Int /\ (fetch[m] # None => fetch[m].gen \in Int)
        BY GroupAssumption DEF TypeOK, Requests, Generations
    <3>3. FetchInv(m)'
        BY <2>2, <3>1, <3>2 DEF FetchInv
    <3> QED BY <1>1, <1>2, <2>11, <3>3, HeldStep
  <2>4. CASE Synced(m)
    <3>1. phase[m] = "syncing" /\ gen' = gen /\ fetch' = fetch
        BY <2>4 DEF Synced
    <3> QED BY <1>1, <1>2, <2>11, <2>2, <3>1, HeldStep DEF FetchInv
  <2>5. CASE SyncRefused(m) \/ Invalidated(m)
    <3>1. /\ phase'[m] # "syncing" /\ gen' = gen /\ fetch' = fetch
          /\ refresh' = refresh /\ position' = position
        BY <1>3, <2>5 DEF SyncRefused, Invalidated, TypeOK
    <3> QED BY <1>1, <1>2, <2>11, <2>2, <3>1, HeldStep DEF FetchInv
  <2> QED BY <2>3, <2>4, <2>5 DEF Protocol
<1>4. CASE Invalidated(m) /\ Fail(m, {})
  <2>1. CommitInv'
      BY <1>1, CommitsKept DEF Safe
  <2>2. gen' = gen
      BY <1>4 DEF Invalidated
  <2> QED BY <1>1, <1>2, <1>4, <2>1, <2>2, FailStep
<1> QED BY <1>3, <1>4

\* What a response that the fence lets through adds: n records from offset o
\* of partition p, behind the L records in the buffer.
PushedTo(m, n, p, o, L) ==
    /\ o + n <= logEnd[p]
    /\ position[m][p] = o /\ position'[m] = [position[m] EXCEPT ![p] = o + n]
    /\ position[m] \in [Partitions -> (0 .. MaxOffset) \cup {Unset}]
    /\ fetch'[m] = None
    /\ DOMAIN buffer[m] = 1 .. L /\ n \in Nat \ {0}
    /\ DOMAIN buffer'[m] = 1 .. (L + n)
    /\ \A i \in 1 .. L : buffer'[m][i] = buffer[m][i]
    /\ \A i \in 1 .. n : buffer'[m][L + i] = [partition |-> p, offset |-> o + i - 1, gen |-> gen[m]]

LEMMA Pushed ==
    ASSUME TypeOK, NEW m \in Members, FetchInv(m), NEW n \in 1 .. MaxOffset, FetchedCurrent(m, n)
    PROVE  \E p \in Partitions, o \in 0 .. MaxOffset, L \in Nat : PushedTo(m, n, p, o, L)
<1>0. PICK p, o, L : p = fetch[m].partition /\ o = fetch[m].offset /\ L = Len(buffer[m])
    OBVIOUS
<1> DEFINE new == [i \in 1 .. n |-> [partition |-> p, offset |-> o + i - 1, gen |-> gen[m]]]
<1>1. /\ p \in Partitions /\ o \in 0 .. MaxOffset /\ position[m][p] = o
      /\ position[m] \in [Partitions -> (0 .. MaxOffset) \cup {Unset}]
      /\ buffer[m] \in Seq(Fetched)
    BY <1>0 DEF FetchedCurrent, FetchCurrent, TypeOK, Requests, FetchInv
<1>2. /\ buffer'[m] = buffer[m] \o new /\ position'[m] = [position[m] EXCEPT ![p] = o + n]
      /\ fetch'[m] = None /\ o + n <= logEnd[p] /\ logEnd[p] \in 0 .. MaxOffset
    BY <1>0, <1>1 DEF FetchedCurrent, Push, TypeOK
<1>3. L \in Nat /\ DOMAIN buffer[m] = 1 .. L /\ n \in Nat \ {0}
    BY <1>0, <1>1, GroupAssumption
<1>4. new \in Seq(Fetched)
  <2> SUFFICES ASSUME NEW i \in 1 .. n
               PROVE  [partition |-> p, offset |-> o + i - 1, gen |-> gen[m]] \in Fetched
      BY <1>3
  <2>1. o + i - 1 \in Offsets /\ gen[m] \in Generations
      BY <1>1, <1>2, <1>3, GroupAssumption DEF Offsets, TypeOK
  <2> QED BY <1>1, <2>1 DEF Fetched
<1>5. /\ DOMAIN buffer'[m] = 1 .. (L + n)
      /\ \A i \in 1 .. L : buffer'[m][i] = buffer[m][i]
      /\ \A i \in 1 .. n : buffer'[m][L + i] = [partition |-> p, offset |-> o + i - 1, gen |-> gen[m]]
  <2>1. Len(new) = n /\ Len(buffer[m] \o new) = L + n /\ buffer[m] \o new \in Seq(Fetched)
      BY <1>0, <1>1, <1>3, <1>4, ConcatProperties
  <2>2. \A i \in 1 .. L + n : (buffer[m] \o new)[i] = IF i <= L THEN buffer[m][i] ELSE new[i - L]
      BY <1>0, <1>1, <1>3, <1>4, <2>1, ConcatProperties
  <2> HIDE DEF new
  <2>3. DOMAIN buffer'[m] = 1 .. (L + n)
      BY <1>2, <1>3, <2>1
  <2>4. \A i \in 1 .. L : buffer'[m][i] = buffer[m][i]
      BY <1>2, <1>3, <2>2
  <2>5. ASSUME NEW i \in 1 .. n PROVE buffer'[m][L + i] = new[i]
    <3>1. L + i \in 1 .. L + n /\ ~(L + i <= L) /\ (L + i) - L = i
        BY <1>3
    <3> QED BY <1>2, <2>2, <3>1
  <2> QED BY <2>3, <2>4, <2>5 DEF new
<1>6. PushedTo(m, n, p, o, L)
    BY <1>1, <1>2, <1>3, <1>5 DEF PushedTo
<1> QED BY <1>1, <1>3, <1>6

LEMMA StreamSafe ==
    ASSUME TypeOK, Safe, NEW m \in Members, Stream(m) PROVE Safe'
<1> USE DEF brokerVars, clientVars, streamVars, fenceVars, laneVars
<1>1. /\ UNCHANGED <<generation, invited, commits, committed, processed, gen, phase>>
      /\ GenInv'
    BY DEF Stream, OffsetsAnswered, Refreshed, FetchedNothing, Fetch, FetchedCurrent, Push, GenInv, Safe
<1>2. TaskInv(m)
    BY DEF Safe, TasksInv
<1>3. CASE OffsetsAnswered(m)
  <2>1. /\ UNCHANGED <<lane, step, buffer, fetch>> /\ refresh[m] = "asked" /\ refresh'[m] = "answered"
        /\ \A p \in Partitions : position'[m][p] # Unset => Ready(p, position'[m][p])
    <3>1. \A p \in Partitions : committed[p] # Unset /\ Ready(p, committed[p])
        BY DEF Safe, CommitInv
    <3>2. position'[m] = [p \in Partitions |->
              IF p \notin assigned[m] THEN Unset
              ELSE IF committed[p] = Unset THEN logEnd[p] ELSE committed[p]]
        BY <1>3 DEF OffsetsAnswered, TypeOK
    <3>3. \A p \in Partitions : position'[m][p] = Unset \/ position'[m][p] = committed[p]
        BY <3>1, <3>2
    <3> QED BY <1>3, <3>1, <3>3 DEF OffsetsAnswered, TypeOK
  <2>2. \A n \in Members \ {m} : Same(n)
      BY <1>1, <1>3 DEF OffsetsAnswered, Same, TypeOK
  <2>3. \A p \in Partitions : position'[m][p] # Unset => Ready(p, position[m][p])'
      BY <1>1, <2>1 DEF Ready
  <2>4. LaneInv(m)' /\ BufferInv(m)' /\ StepInv(m)'
      BY <1>1, <1>2, <2>1, ReadyStays DEF TaskInv, LaneInv, BufferInv, StepInv, InLane, At, First
  <2>5. PositionInv(m)' /\ FetchInv(m)'
      BY <1>1, <1>2, <2>1, <2>3 DEF TaskInv, PositionInv, FetchInv
  <2>6. \A n \in Members \ {m} : TaskInv(n)'
      BY <1>1, <2>2, SameKeeps DEF Safe, TasksInv
  <2>7. CommitInv'
      BY <1>1, CommitsKept DEF Safe
  <2> QED BY <1>1, <2>4, <2>5, <2>6, <2>7 DEF Safe, TasksInv, TaskInv
<1>4. CASE Refreshed(m)
  <2>1. CASE Fail(m, {})
    <3>1. CommitInv'
        BY <1>1, CommitsKept DEF Safe
    <3> QED BY <1>1, <2>1, <3>1, FailStep
  <2>2. CASE ~Fail(m, {})
    <3>1. /\ UNCHANGED <<position, fetch, buffer, lane, step>> /\ refresh[m] = "answered"
          /\ \E r \in {"asked", "none"} : refresh' = [refresh EXCEPT ![m] = r]
        BY <1>4, <2>2 DEF Refreshed
    <3>2. Held(m) /\ \A n \in Members \ {m} : Same(n)
        BY <1>1, <3>1 DEF Held, Same, TypeOK
    <3>3. FetchInv(m)'
        BY <1>1, <1>2, <3>1 DEF TaskInv, FetchInv
    <3> QED BY <1>1, <3>2, <3>3, HeldStep
  <2> QED BY <2>1, <2>2
<1>5. CASE FetchedNothing(m)
  <2>1. Held(m) /\ (\A n \in Members \ {m} : Same(n)) /\ fetch'[m] = None
      BY <1>5 DEF FetchedNothing, Held, Same, TypeOK
  <2> QED BY <1>1, <2>1, HeldStep DEF FetchInv
<1>6. ASSUME NEW p \in Partitions, Fetch(m, p) PROVE Safe'
  <2>1. /\ UNCHANGED <<position, refresh, buffer, lane, step>> /\ refresh[m] = "none"
        /\ fetch' = [fetch EXCEPT ![m] =
              [partition |-> p, offset |-> position[m][p], gen |-> gen[m], active |-> Active(m)]]
      BY <1>6 DEF Fetch
  <2>2. Held(m) /\ \A n \in Members \ {m} : Same(n)
      BY <1>1, <2>1 DEF Held, Same, TypeOK
  <2>3. /\ fetch'[m].partition = p /\ fetch'[m].offset = position[m][p] /\ fetch'[m].gen = gen[m]
        /\ fetch'[m].active = Active(m)
      BY <2>1 DEF TypeOK
  <2>4. FetchInv(m)'
    <3>1. gen[m] \in Int /\ gen[m] <= gen[m]
        BY GroupAssumption DEF TypeOK, Generations
    <3>2. Active(m) => phase[m] # "syncing"
        BY DEF Active
    <3>3. fetch'[m] # None => fetch'[m].gen <= gen'[m]
        BY <1>1, <2>3, <3>1
    <3>4. fetch'[m].active => phase'[m] # "syncing"
        BY <1>1, <2>3, <3>2
    <3>5. refresh'[m] = "none" /\ position'[m][fetch'[m].partition] = fetch'[m].offset
        BY <2>1, <2>3
    <3> QED BY <3>3, <3>4, <3>5 DEF FetchInv
  <2> QED BY <1>1, <2>2, <2>4, HeldStep
<1>7. ASSUME NEW n \in 1 .. MaxOffset, FetchedCurrent(m, n) PROVE Safe'
  <2>0. PICK p \in Partitions, o \in 0 .. MaxOffset, L \in Nat : PushedTo(m, n, p, o, L)
      BY <1>2, <1>7, Pushed DEF TaskInv
  <2>1. /\ p \in Partitions /\ o \in 0 .. MaxOffset /\ position[m][p] = o
        /\ position'[m] = [position[m] EXCEPT ![p] = o + n] /\ fetch'[m] = None
        /\ position[m] \in [Partitions -> (0 .. MaxOffset) \cup {Unset}]
      BY <2>0 DEF PushedTo
  <2>2. /\ fetch'[m] = None
        /\ UNCHANGED <<lane, step, refresh>>
        /\ \A k \in Members \ {m} : Same(k)
      BY <1>1, <1>7, <2>1 DEF FetchedCurrent, Push, Same, TypeOK
  <2>3. L \in Nat /\ DOMAIN buffer[m] = 1 .. L /\ n \in Nat \ {0}
      BY <2>0 DEF PushedTo
  <2>5. /\ DOMAIN buffer'[m] = 1 .. (L + n)
        /\ \A i \in 1 .. L : buffer'[m][i] = buffer[m][i]
        /\ \A i \in 1 .. n : buffer'[m][L + i] = [partition |-> p, offset |-> o + i - 1, gen |-> gen[m]]
      BY <2>0 DEF PushedTo
  <2>6. LaneInv(m)' /\ StepInv(m)' /\ FetchInv(m)'
      BY <1>1, <1>2, <2>2, ReadyStays DEF TaskInv, LaneInv, StepInv, FetchInv, At, First
  <2>7. \A q, x : (Ready(q, x)' <=> Ready(q, x)) /\ (InLane(m, q, x)' <=> InLane(m, q, x))
      BY <1>1, <2>2 DEF Ready, InLane
  <2>8. \A q, x : InBuffer(m, q, x) => InBuffer(m, q, x)'
    <3>1. \A j \in DOMAIN buffer[m] : j \in DOMAIN buffer'[m] /\ buffer'[m][j] = buffer[m][j]
      <4>1. \A j \in 1 .. L : j \in 1 .. (L + n)
          BY <2>3
      <4> QED BY <2>3, <2>5, <4>1
    <3> QED BY <3>1 DEF InBuffer
  <2>9. BufferInv(m)'
    <3> SUFFICES ASSUME NEW i \in DOMAIN buffer'[m]
                 PROVE  (\/ Ready(buffer[m][i].partition, buffer[m][i].offset)
                         \/ InLane(m, buffer[m][i].partition, buffer[m][i].offset)
                         \/ \E j \in DOMAIN buffer[m] :
                               /\ j < i
                               /\ buffer[m][j].partition = buffer[m][i].partition
                               /\ buffer[m][j].offset + 1 = buffer[m][i].offset)'
        BY DEF BufferInv
    <3>1. CASE i \in 1 .. L
      <4>1. /\ buffer'[m][i] = buffer[m][i]
            /\ \A j \in DOMAIN buffer[m] : j \in DOMAIN buffer'[m] /\ buffer'[m][j] = buffer[m][j]
          BY <2>3, <2>5, <3>1
      <4>2. \/ Ready(buffer[m][i].partition, buffer[m][i].offset)
            \/ InLane(m, buffer[m][i].partition, buffer[m][i].offset)
            \/ \E j \in DOMAIN buffer[m] :
                  /\ j < i
                  /\ buffer[m][j].partition = buffer[m][i].partition
                  /\ buffer[m][j].offset + 1 = buffer[m][i].offset
          BY <1>2, <2>3, <3>1 DEF TaskInv, BufferInv
      <4>3. \A q, x : (Ready(q, x) => Ready(q, x)') /\ (InLane(m, q, x) => InLane(m, q, x)')
          BY <2>7
      <4>4. \/ Ready(buffer[m][i].partition, buffer[m][i].offset)'
            \/ InLane(m, buffer[m][i].partition, buffer[m][i].offset)'
            \/ \E j \in DOMAIN buffer'[m] :
                  /\ j < i
                  /\ buffer'[m][j].partition = buffer'[m][i].partition
                  /\ buffer'[m][j].offset + 1 = buffer'[m][i].offset
          BY <1>1, <2>2, <4>1, <4>2 DEF Ready, InLane
      <4> QED BY <4>4
    <3>2. CASE i = L + 1
      <4>1. buffer'[m][i].partition = p /\ buffer'[m][i].offset = o
        <5>1. 1 \in 1 .. n /\ o + 1 - 1 = o
            BY <2>1, <2>3
        <5>2. buffer'[m][L + 1] = [partition |-> p, offset |-> o + 1 - 1, gen |-> gen[m]]
            BY <2>5, <5>1
        <5> QED BY <3>2, <5>1, <5>2
      <4>2. Ready(p, o) \/ InLane(m, p, o) \/ InBuffer(m, p, o)
          BY <1>2, <2>1, GroupAssumption DEF TaskInv, PositionInv
      <4>3. InBuffer(m, p, o) => \E j \in DOMAIN buffer'[m] :
                  /\ j < i
                  /\ buffer'[m][j].partition = p /\ buffer'[m][j].offset + 1 = o
        <5>1. \A j \in 1 .. L : j \in 1 .. (L + n) /\ j < L + 1
            BY <2>3
        <5> QED BY <2>3, <2>5, <3>2, <5>1 DEF InBuffer
      <4> QED BY <1>1, <2>2, <4>1, <4>2, <4>3 DEF Ready, InLane
    <3>3. CASE i \in (L + 2) .. (L + n)
      <4>1. PICK k \in 2 .. n : i = L + k
        <5>1. i \in Int /\ i - L \in 2 .. n /\ i = L + (i - L)
            BY <2>3, <3>3
        <5> QED BY <5>1
      <4>2. /\ buffer'[m][i].partition = p /\ buffer'[m][i].offset = o + k - 1
            /\ buffer'[m][L + (k - 1)].partition = p /\ buffer'[m][L + (k - 1)].offset = o + (k - 1) - 1
        <5>1. k \in 1 .. n /\ k - 1 \in 1 .. n
            BY <2>3, <4>1
        <5>2. /\ buffer'[m][L + k] = [partition |-> p, offset |-> o + k - 1, gen |-> gen[m]]
              /\ buffer'[m][L + (k - 1)] =
                    [partition |-> p, offset |-> o + (k - 1) - 1, gen |-> gen[m]]
            BY <2>5, <5>1
        <5> QED BY <4>1, <5>2
      <4>3. L + (k - 1) \in DOMAIN buffer'[m] /\ L + (k - 1) < i
            /\ buffer'[m][L + (k - 1)].offset + 1 = buffer'[m][i].offset
        <5>1. L + (k - 1) \in 1 .. (L + n) /\ L + (k - 1) < L + k
            BY <2>3, <4>1
        <5>2. o + (k - 1) - 1 + 1 = o + k - 1
            BY <2>1, <4>1
        <5> QED BY <2>5, <4>1, <4>2, <5>1, <5>2
      <4> QED BY <4>2, <4>3
    <3> QED BY <2>3, <2>5, <3>1, <3>2, <3>3
  <2>10. PositionInv(m)'
    <3> SUFFICES ASSUME NEW q \in Partitions, position'[m][q] # Unset
                 PROVE  (\/ Ready(q, position[m][q]) \/ InLane(m, q, position[m][q])
                         \/ InBuffer(m, q, position[m][q]))'
        BY DEF PositionInv
    <3>1. CASE q = p
      <4>1. position'[m][q] = o + n
          BY <2>1, <2>2, <3>1
      <4>2. L + n \in DOMAIN buffer'[m] /\ buffer'[m][L + n].partition = p
            /\ buffer'[m][L + n].offset + 1 = o + n
        <5>1. n \in 1 .. n /\ L + n \in 1 .. (L + n) /\ o + n - 1 + 1 = o + n
            BY <2>1, <2>3
        <5>2. buffer'[m][L + n] = [partition |-> p, offset |-> o + n - 1, gen |-> gen[m]]
            BY <2>5, <5>1
        <5> QED BY <2>5, <5>1, <5>2
      <4> QED BY <3>1, <4>1, <4>2 DEF InBuffer
    <3>2. CASE q # p
      <4>1. position'[m][q] = position[m][q]
          BY <2>1, <2>2, <3>2
      <4>2. \/ Ready(q, position[m][q]) \/ InLane(m, q, position[m][q]) \/ InBuffer(m, q, position[m][q])
          BY <1>2, <4>1 DEF TaskInv, PositionInv
      <4> QED BY <1>1, <2>2, <2>3, <2>5, <4>1, <4>2 DEF Ready, InLane, InBuffer
    <3> QED BY <3>1, <3>2
  <2>11. \A k \in Members \ {m} : TaskInv(k)'
      BY <1>1, <2>2, SameKeeps DEF Safe, TasksInv
  <2>12. CommitInv'
      BY <1>1, CommitsKept DEF Safe
  <2> QED BY <1>1, <2>6, <2>9, <2>10, <2>11, <2>12 DEF Safe, TasksInv, TaskInv
<1> QED BY <1>3, <1>4, <1>5, <1>6, <1>7 DEF Stream

\* A record that is finished, with nothing unfinished before it.
LEMMA NextReady ==
    ASSUME NEW p \in Partitions, NEW o \in Offsets, Ready(p, o), <<p, o>> \in processed
    PROVE  Ready(p, o + 1)
<1> SUFFICES ASSUME NEW e \in Offsets, e < o + 1 PROVE <<p, e>> \in processed
    BY DEF Ready
<1>1. e < o \/ e = o
    BY GroupAssumption DEF Offsets
<1> QED BY <1>1 DEF Ready

\* What the loop's next record is and where it goes: from the front of a
\* buffer of B records behind the L records of lane p.
AdmittedTo(m, p, L, B) ==
    /\ buffer[m][1].partition = p /\ buffer[m][1].gen = gen[m] /\ Captures(m, buffer[m][1])
    /\ DOMAIN buffer[m] = 1 .. B /\ DOMAIN buffer'[m] = 1 .. (B - 1)
    /\ \A i \in 1 .. (B - 1) : buffer'[m][i] = buffer[m][i + 1]
    /\ lane[m][p] \in Seq(Admitted) /\ lane'[m][p] \in Seq(Admitted)
    /\ DOMAIN lane[m][p] = 1 .. L /\ DOMAIN lane'[m][p] = 1 .. (L + 1)
    /\ \A i \in 1 .. L : lane'[m][p][i] = lane[m][p][i]
    /\ lane'[m][p][L + 1].offset = buffer[m][1].offset /\ lane'[m][p][L + 1].gen = gen[m]
    /\ \A q \in Partitions \ {p} : lane'[m][q] = lane[m][q]

LEMMA AdmitShape ==
    ASSUME TypeOK, NEW m \in Members, Admit(m), ~Fail(m, {})
    PROVE  /\ \E p \in Partitions, L \in Nat, B \in Nat \ {0} : AdmittedTo(m, p, L, B)
           /\ UNCHANGED <<position, refresh, pending, fetch, step, failing>>
           /\ \A n \in Members \ {m} : lane'[n] = lane[n] /\ buffer'[n] = buffer[n]
<1> DEFINE r == Head(buffer[m])
<1>1. buffer[m] # <<>> /\ buffer[m] \in Seq(Fetched) /\ Captures(m, r)
    BY DEF Admit, TypeOK
<1>2. r \in Fetched /\ r = buffer[m][1]
    BY <1>1
<1>3. PICK p \in Partitions : p = r.partition
    BY <1>2 DEF Fetched
<1> DEFINE rec == [offset |-> r.offset, gen |-> gen[m], epoch |-> epoch[m]]
<1>4. rec \in Admitted /\ rec.offset = r.offset /\ rec.gen = gen[m]
  <2>1. r.offset \in Offsets
      BY <1>2 DEF Fetched
  <2> QED BY <2>1 DEF TypeOK, Admitted
<1>5. PICK L \in Nat, B \in Nat \ {0} : L = Len(lane[m][p]) /\ B = Len(buffer[m])
  <2>1. lane[m][p] \in Seq(Admitted)
      BY DEF TypeOK
  <2> QED BY <1>1, <2>1
<1>6. /\ lane' = [lane EXCEPT ![m][p] = Append(@, rec)]
      /\ buffer' = [buffer EXCEPT ![m] = Tail(@)]
      /\ UNCHANGED <<position, refresh, pending, fetch, step, failing>>
    BY <1>3 DEF Admit
<1>7. /\ lane[m] \in [Partitions -> Seq(Admitted)] /\ lane[m][p] \in Seq(Admitted)
      /\ DOMAIN lane[m][p] = 1 .. L /\ DOMAIN buffer[m] = 1 .. B
    BY <1>1, <1>5 DEF TypeOK
<1>8. /\ lane'[m][p] = Append(lane[m][p], rec) /\ buffer'[m] = Tail(buffer[m])
      /\ \A q \in Partitions \ {p} : lane'[m][q] = lane[m][q]
      /\ \A n \in Members \ {m} : lane'[n] = lane[n] /\ buffer'[n] = buffer[n]
    BY <1>6, <1>7 DEF TypeOK
<1>9. /\ Append(lane[m][p], rec) \in Seq(Admitted) /\ Len(Append(lane[m][p], rec)) = L + 1
      /\ (\A i \in 1 .. L : Append(lane[m][p], rec)[i] = lane[m][p][i])
      /\ Append(lane[m][p], rec)[L + 1] = rec
    BY <1>4, <1>5, <1>7, AppendProperties
<1>10. DOMAIN Append(lane[m][p], rec) = 1 .. (L + 1)
    BY <1>9
<1>11. DOMAIN buffer'[m] = 1 .. (B - 1) /\ \A i \in 1 .. (B - 1) : buffer'[m][i] = buffer[m][i + 1]
    BY <1>1, <1>5, <1>8, HeadTailProperties
<1>12. r.gen = gen[m]
    BY <1>1 DEF Captures
<1> HIDE DEF rec, r
<1>13. AdmittedTo(m, p, L, B)
    BY <1>1, <1>2, <1>3, <1>4, <1>7, <1>8, <1>9, <1>10, <1>11, <1>12 DEF AdmittedTo
<1> QED BY <1>5, <1>6, <1>8, <1>13

LEMMA AdmitSafe ==
    ASSUME TypeOK, Safe, NEW m \in Members, Admit(m) PROVE Safe'
<1> USE DEF brokerVars, clientVars, streamVars, fenceVars, laneVars
<1>1. UNCHANGED <<generation, invited, commits, committed, processed, gen, phase>>
    BY DEF Admit
<1>2. GenInv' /\ CommitInv'
  <2>1. GenInv'
      BY <1>1 DEF GenInv, Safe
  <2>2. CommitInv'
      BY <1>1, CommitsKept DEF Safe
  <2> QED BY <2>1, <2>2
<1>3. CASE Fail(m, {})
    BY <1>1, <1>2, <1>3, FailStep
<1>4. CASE ~Fail(m, {})
  <2>0. PICK p \in Partitions, L \in Nat, B \in Nat \ {0} : AdmittedTo(m, p, L, B)
      BY <1>4, AdmitShape
  <2> DEFINE r == buffer[m][1]
  <2>1. buffer[m] \in Seq(Fetched) /\ p = r.partition
      BY <2>0 DEF AdmittedTo, TypeOK
  <2>2. lane[m][p] \in Seq(Admitted) /\ DOMAIN lane[m][p] = 1 .. L /\ DOMAIN buffer[m] = 1 .. B
      BY <2>0 DEF AdmittedTo
  <2>3. UNCHANGED <<position, refresh, fetch, step>>
      BY <1>4, AdmitShape
  <2>4. \A n \in Members \ {m} : Same(n)
      BY <1>1, <1>4, AdmitShape DEF Same
  <2>5. /\ DOMAIN lane'[m][p] = 1 .. (L + 1) /\ lane'[m][p] \in Seq(Admitted)
        /\ (\A i \in 1 .. L : lane'[m][p][i] = lane[m][p][i])
        /\ lane'[m][p][L + 1].offset = r.offset
        /\ \A q \in Partitions \ {p} : lane'[m][q] = lane[m][q]
      BY <2>0 DEF AdmittedTo
  <2>6. DOMAIN buffer'[m] = 1 .. (B - 1) /\ \A i \in 1 .. (B - 1) : buffer'[m][i] = buffer[m][i + 1]
      BY <2>0 DEF AdmittedTo
  <2> HIDE DEF r
  <2>8. ASSUME NEW q \in Partitions, NEW x PROVE
          /\ Ready(q, x) => Ready(q, x)'
          /\ InLane(m, q, x) => InLane(m, q, x)'
          /\ q = p /\ r.offset + 1 = x => InLane(m, q, x)'
    <3>1. Ready(q, x) => Ready(q, x)'
        BY <1>1 DEF Ready
    <3>2. InLane(m, q, x) => InLane(m, q, x)'
      <4>1. CASE q = p
        <5>0. \A j \in 1 .. L : j \in 1 .. (L + 1)
            BY <2>2
        <5>1. \A j \in DOMAIN lane[m][q] : j \in DOMAIN lane'[m][q] /\ lane'[m][q][j] = lane[m][q][j]
            BY <2>2, <2>5, <4>1, <5>0
        <5> QED BY <5>1 DEF InLane
      <4>2. CASE q # p
          BY <2>5, <4>2 DEF InLane
      <4> QED BY <4>1, <4>2
    <3>3. q = p /\ r.offset + 1 = x => InLane(m, q, x)'
      <4>1. L + 1 \in 1 .. (L + 1)
          BY <2>2
      <4> QED BY <2>5, <4>1 DEF InLane
    <3> QED BY <3>1, <3>2, <3>3
  <2>9. Ready(p, r.offset) \/ InLane(m, p, r.offset)
    <3>1. 1 \in DOMAIN buffer[m] /\ ~(\E j \in DOMAIN buffer[m] : j < 1)
        BY <2>2
    <3> QED BY <2>1, <3>1 DEF Safe, TasksInv, TaskInv, BufferInv, r
  <2>10. LaneInv(m)'
    <3> SUFFICES ASSUME NEW q \in Partitions, NEW i \in DOMAIN lane'[m][q]
                 PROVE  (\/ Ready(q, lane[m][q][i].offset)
                         \/ \E j \in DOMAIN lane[m][q] :
                               j < i /\ lane[m][q][j].offset + 1 = lane[m][q][i].offset)'
        BY DEF LaneInv
    <3>0. LaneInv(m)
        BY DEF Safe, TasksInv, TaskInv
    <3>1. CASE q # p
        BY <1>1, <2>5, <3>0, <3>1 DEF LaneInv, Ready
    <3>2. CASE q = p /\ i \in 1 .. L
      <4>1. \/ Ready(q, lane[m][q][i].offset)
            \/ \E j \in 1 .. L : j < i /\ lane[m][q][j].offset + 1 = lane[m][q][i].offset
          BY <2>2, <3>0, <3>2 DEF LaneInv
      <4>2. \A j \in 1 .. L : j \in DOMAIN lane'[m][q] /\ lane'[m][q][j] = lane[m][q][j]
        <5>1. \A j \in 1 .. L : j \in 1 .. (L + 1)
            BY <2>2
        <5> QED BY <2>5, <3>2, <5>1
      <4> QED BY <1>1, <3>2, <4>1, <4>2 DEF Ready
    <3>3. CASE q = p /\ i = L + 1
      <4>1. lane'[m][q][i].offset = r.offset
          BY <2>5, <3>3
      <4>2. InLane(m, p, r.offset) => \E j \in DOMAIN lane'[m][q] :
                j < i /\ lane'[m][q][j].offset + 1 = r.offset
          BY <2>2, <2>5, <3>3 DEF InLane
      <4>3. Ready(p, r.offset) => Ready(q, lane[m][q][i].offset)'
          BY <1>1, <3>3, <4>1 DEF Ready
      <4> QED BY <2>9, <4>1, <4>2, <4>3
    <3>4. q = p => i \in 1 .. L \/ i = L + 1
        BY <2>2, <2>5
    <3> QED BY <3>1, <3>2, <3>3, <3>4
  <2>11. ASSUME NEW q \in Partitions, NEW x, NEW k \in 1 .. B,
                \E j \in DOMAIN buffer[m] : j < k /\ buffer[m][j].partition = q
                                                  /\ buffer[m][j].offset + 1 = x
         PROVE  \/ InLane(m, q, x)'
                \/ \E j \in DOMAIN buffer'[m] : j < k - 1 /\ buffer'[m][j].partition = q
                                                        /\ buffer'[m][j].offset + 1 = x
    <3>1. PICK j \in 1 .. B : j < k /\ buffer[m][j].partition = q /\ buffer[m][j].offset + 1 = x
        BY <2>2, <2>11
    <3>2. CASE j = 1
        BY <2>1, <2>8, <3>1, <3>2 DEF r
    <3>3. CASE j # 1
      <4>1. j - 1 \in 1 .. (B - 1) /\ j - 1 < k - 1 /\ (j - 1) + 1 = j
          BY <2>2, <3>1, <3>3
      <4> QED BY <2>6, <3>1, <4>1
    <3> QED BY <3>2, <3>3
  <2>12. BufferInv(m)'
    <3> SUFFICES ASSUME NEW i \in DOMAIN buffer'[m]
                 PROVE  (\/ Ready(buffer[m][i].partition, buffer[m][i].offset)
                         \/ InLane(m, buffer[m][i].partition, buffer[m][i].offset)
                         \/ \E j \in DOMAIN buffer[m] :
                               /\ j < i
                               /\ buffer[m][j].partition = buffer[m][i].partition
                               /\ buffer[m][j].offset + 1 = buffer[m][i].offset)'
        BY DEF BufferInv
    <3>1. i + 1 \in 1 .. B /\ (i + 1) - 1 = i /\ buffer'[m][i] = buffer[m][i + 1]
        BY <2>2, <2>6
    <3>2. PICK q \in Partitions, x \in Offsets :
              q = buffer[m][i + 1].partition /\ x = buffer[m][i + 1].offset
      <4>1. buffer[m][i + 1] \in Fetched
          BY <2>1, <2>2, <3>1
      <4> QED BY <4>1 DEF Fetched
    <3>3. \/ Ready(q, x) \/ InLane(m, q, x)
          \/ \E j \in DOMAIN buffer[m] : j < i + 1 /\ buffer[m][j].partition = q
                                                   /\ buffer[m][j].offset + 1 = x
        BY <2>2, <3>1, <3>2 DEF Safe, TasksInv, TaskInv, BufferInv
    <3>4. buffer'[m][i].partition = q /\ buffer'[m][i].offset = x
        BY <3>1, <3>2
    <3>5. \/ Ready(q, x)' \/ InLane(m, q, x)'
          \/ \E j \in DOMAIN buffer'[m] : j < i /\ buffer'[m][j].partition = q
                                                /\ buffer'[m][j].offset + 1 = x
      <4>1. CASE \E j \in DOMAIN buffer[m] : j < i + 1 /\ buffer[m][j].partition = q
                                                       /\ buffer[m][j].offset + 1 = x
        <5>1. \/ InLane(m, q, x)'
              \/ \E j \in DOMAIN buffer'[m] : j < (i + 1) - 1 /\ buffer'[m][j].partition = q
                                                    /\ buffer'[m][j].offset + 1 = x
            BY <2>11, <3>1, <3>2, <4>1
        <5> QED BY <3>1, <5>1
      <4>2. CASE Ready(q, x) \/ InLane(m, q, x)
          BY <2>8, <3>2, <4>2
      <4> QED BY <3>3, <4>1, <4>2
    <3>6. Ready(q, x)' => Ready(buffer[m][i].partition, buffer[m][i].offset)'
        BY <3>4 DEF Ready
    <3>7. InLane(m, q, x)' => InLane(m, buffer[m][i].partition, buffer[m][i].offset)'
        BY <3>4 DEF InLane
    <3> QED BY <3>4, <3>5, <3>6, <3>7
  <2>13. PositionInv(m)'
    <3> SUFFICES ASSUME NEW q \in Partitions, position'[m][q] # Unset
                 PROVE  (\/ Ready(q, position[m][q]) \/ InLane(m, q, position[m][q])
                         \/ InBuffer(m, q, position[m][q]))'
        BY DEF PositionInv
    <3> DEFINE x == position[m][q]
    <3>1. position'[m][q] = x
        BY <2>3
    <3>2. Ready(q, x) \/ InLane(m, q, x) \/ InBuffer(m, q, x)
        BY <3>1 DEF Safe, TasksInv, TaskInv, PositionInv
    <3>3. InBuffer(m, q, x) => InLane(m, q, x)' \/ \E j \in DOMAIN buffer'[m] :
              buffer'[m][j].partition = q /\ buffer'[m][j].offset + 1 = x
      <4> SUFFICES ASSUME NEW j \in 1 .. B, buffer[m][j].partition = q, buffer[m][j].offset + 1 = x
                   PROVE  InLane(m, q, x)' \/ \E k \in DOMAIN buffer'[m] :
                              buffer'[m][k].partition = q /\ buffer'[m][k].offset + 1 = x
          BY <2>2 DEF InBuffer
      <4>1. CASE j = 1
          BY <2>1, <2>3, <2>8, <4>1 DEF r
      <4>2. CASE j # 1
        <5>1. j - 1 \in 1 .. (B - 1) /\ (j - 1) + 1 = j
            BY <2>2, <4>2
        <5> QED BY <2>6, <5>1
      <4> QED BY <4>1, <4>2
    <3> QED BY <1>1, <2>3, <2>8, <3>1, <3>2, <3>3 DEF InBuffer
  <2>14. FetchInv(m)'
      BY <1>1, <2>3 DEF Safe, TasksInv, TaskInv, FetchInv
  <2>15. StepInv(m)'
    <3> SUFFICES ASSUME NEW q \in Partitions
                 PROVE  (/\ At(m, q, "connecting") \/ At(m, q, "sent") =>
                               <<q, First(m, q).offset>> \in processed
                         /\ lane[m][q] = <<>> => step[m][q] = "queued")'
        BY DEF StepInv
    <3>0. StepInv(m)
        BY DEF Safe, TasksInv, TaskInv
    <3>1. CASE q # p
        BY <1>1, <2>3, <2>5, <3>0, <3>1 DEF StepInv, At, First
    <3>2. CASE q = p /\ lane[m][p] = <<>>
        BY <2>2, <2>3, <2>5, <3>0, <3>2 DEF StepInv, At
    <3>3. CASE q = p /\ lane[m][p] # <<>>
      <4>1. lane'[m][p] # <<>> /\ First(m, p)' = First(m, p)
        <5>1. L >= 1 /\ First(m, p) = lane[m][p][1]
            BY <2>2, <3>3 DEF First
        <5>2. lane'[m][p] \in Seq(Admitted) /\ lane'[m][p] # <<>>
            BY <2>2, <2>5
        <5>3. Head(lane'[m][p]) = lane'[m][p][1] /\ 1 \in 1 .. L
            BY <2>2, <5>1, <5>2
        <5>4. Head(lane'[m][p]) = First(m, p)
            BY <2>5, <5>1, <5>3
        <5> QED BY <5>2, <5>4 DEF First
      <4>2. p \in Partitions /\ step' = step /\ processed' = processed
          BY <1>1, <2>1, <2>3
      <4>3. At(m, p, "connecting") \/ At(m, p, "sent") => <<p, First(m, p).offset>> \in processed
          BY <3>0, <4>2 DEF StepInv
      <4>4. (At(m, p, "connecting") \/ At(m, p, "sent"))' =>
                <<p, First(m, p)'.offset>> \in processed'
          BY <3>3, <4>1, <4>2, <4>3 DEF At
      <4> QED BY <3>3, <4>1, <4>4
    <3> QED BY <3>1, <3>2, <3>3
  <2>16. \A n \in Members \ {m} : TaskInv(n)'
      BY <1>1, <2>4, SameKeeps DEF Safe, TasksInv
  <2> QED BY <1>2, <2>10, <2>12, <2>13, <2>14, <2>15, <2>16 DEF Safe, TasksInv, TaskInv
<1> QED BY <1>3, <1>4

\* The record at the front of a lane moves on.
LEMMA GoStep ==
    ASSUME TypeOK, Safe, NEW m \in Members, NEW p \in Partitions, NEW s \in Steps,
           lane[m][p] # <<>>, Go(m, p, s), UNCHANGED <<gen, phase>>,
           s \in {"connecting", "sent"} => <<p, First(m, p).offset>> \in processed',
           processed \subseteq processed', GenInv', CommitInv'
    PROVE  Safe'
<1> USE DEF streamVars
<1>1. /\ UNCHANGED <<lane, position, refresh, fetch, buffer>>
      /\ step' = [step EXCEPT ![m][p] = s]
    BY DEF Go
<1>2. \A n \in Members \ {m} : Same(n)
    BY <1>1 DEF Same, TypeOK
<1>3. \A n \in Members \ {m} : TaskInv(n)'
    BY <1>2, SameKeeps DEF Safe, TasksInv
<1>4. TaskInv(m)
    BY DEF Safe, TasksInv
<1>5. LaneInv(m)' /\ BufferInv(m)' /\ PositionInv(m)' /\ FetchInv(m)'
    BY <1>1, <1>4, ReadyStays DEF TaskInv, LaneInv, BufferInv, PositionInv, FetchInv, InLane, InBuffer
<1>6. StepInv(m)'
  <2>1. \A q \in Partitions \ {p} : step'[m][q] = step[m][q]
      BY <1>1 DEF TypeOK
  <2>2. step'[m][p] = s
      BY <1>1 DEF TypeOK
  <2> QED BY <1>1, <1>4, <2>1, <2>2 DEF TaskInv, StepInv, At, First
<1> QED BY <1>3, <1>5, <1>6 DEF Safe, TasksInv, TaskInv

LEMMA LaneSafe ==
    ASSUME TypeOK, Safe, NEW m \in Members, Lane(m) PROVE Safe'
<1> USE DEF brokerVars, clientVars, streamVars, fenceVars, laneVars
<1> SUFFICES ASSUME NEW p \in Partitions,
                    Begin(m, p) \/ Handled(m, p) \/ HandlingFails(m, p) \/ Send(m, p)
             PROVE  Safe'
    BY AdmitSafe DEF Lane
<1>1. /\ UNCHANGED <<generation, invited, committed, gen, phase>>
      /\ processed \subseteq processed' /\ lane[m][p] # <<>>
    BY DEF Begin, Handled, HandlingFails, Send, At
<1>2. First(m, p) \in Admitted /\ Ready(p, First(m, p).offset)
    BY <1>1, FirstType, FrontReady DEF Safe, TasksInv, TaskInv
<1>3. CASE UNCHANGED commits
  <2>1. GenInv'
      BY <1>1, <1>3 DEF GenInv, Safe
  <2>2. CommitInv'
      BY <1>1, <1>3, CommitsKept DEF Safe
  <2>3. CASE Fail(m, {p})
      BY <1>1, <2>1, <2>2, <2>3, FailStep
  <2>4. CASE Begin(m, p) /\ Go(m, p, "handling")
      BY <1>1, <2>1, <2>2, <2>4, GoStep DEF Steps
  <2>5. CASE Handled(m, p) /\ Go(m, p, "connecting")
    <3>1. <<p, First(m, p).offset>> \in processed'
        BY <2>5 DEF Handled
    <3> QED BY <1>1, <2>1, <2>2, <2>5, <3>1, GoStep DEF Steps
  <2>6. CASE Send(m, p) /\ Go(m, p, "sent")
    <3>1. <<p, First(m, p).offset>> \in processed /\ processed' = processed
        BY <2>6 DEF Send, Safe, TasksInv, TaskInv, StepInv
    <3> QED BY <1>1, <2>1, <2>2, <2>6, <3>1, GoStep DEF Steps
  <2> QED BY <2>3, <2>4, <2>5, <2>6 DEF Begin, Handled, HandlingFails, Send
<1>4. CASE ~UNCHANGED commits
  <2> DEFINE g == First(m, p).gen
  <2>1. /\ At(m, p, "connecting") /\ Go(m, p, "sent") /\ processed' = processed
        /\ gen[m] = g /\ commits' = commits \cup {CommitOf(m, p, g)}
      BY <1>4 DEF Begin, Handled, HandlingFails, Send, FirstCurrent, SnapshotCurrent
  <2>2. <<p, First(m, p).offset>> \in processed
      BY <2>1 DEF Safe, TasksInv, TaskInv, StepInv
  <2>3. GenInv'
    <3>1. CommitOf(m, p, g).gen = gen[m]
        BY <2>1 DEF CommitOf
    <3> QED BY <1>1, <2>1, <3>1 DEF GenInv, Safe
  <2>4. CommitInv'
    <3>1. Ready(p, First(m, p).offset + 1)
        BY <1>2, <2>2, NextReady DEF Admitted
    <3>2. CommitOf(m, p, g).partition = p /\ CommitOf(m, p, g).next = First(m, p).offset + 1
        BY DEF CommitOf
    <3>3. \A c \in commits \cup {CommitOf(m, p, g)} : Ready(c.partition, c.next)
        BY <3>1, <3>2 DEF Safe, CommitInv
    <3>4. \A q, x : Ready(q, x) => Ready(q, x)'
        BY <2>1 DEF Ready
    <3>5. \A q \in Partitions : (committed[q] # Unset /\ Ready(q, committed[q]))'
        BY <1>1, <3>4 DEF Safe, CommitInv, Ready
    <3> QED BY <2>1, <3>3, <3>4, <3>5 DEF CommitInv
  <2> QED BY <1>1, <2>1, <2>2, <2>3, <2>4, GoStep DEF Steps
<1> QED BY <1>3, <1>4

\* What is left of a lane of L records when its front leaves.
LeftWith(m, p, L) ==
    /\ DOMAIN lane[m][p] = 1 .. L /\ DOMAIN lane'[m][p] = 1 .. (L - 1)
    /\ \A i \in 1 .. (L - 1) : lane'[m][p][i] = lane[m][p][i + 1]
    /\ First(m, p) = lane[m][p][1] /\ First(m, p) \in Admitted
    /\ step'[m][p] = "queued"
    /\ \A q \in Partitions \ {p} : lane'[m][q] = lane[m][q] /\ step'[m][q] = step[m][q]
    /\ \A n \in Members \ {m} : lane'[n] = lane[n] /\ step'[n] = step[n]

LEMMA LeaveShape ==
    ASSUME TypeOK, NEW m \in Members, NEW p \in Partitions, lane[m][p] # <<>>, Leave(m, p)
    PROVE  \E L \in Nat \ {0} : LeftWith(m, p, L)
<1>1. /\ lane[m] \in [Partitions -> Seq(Admitted)] /\ lane[m][p] \in Seq(Admitted)
      /\ First(m, p) = lane[m][p][1] /\ First(m, p) \in Admitted
    BY FirstType DEF TypeOK, First
<1>2. PICK L \in Nat \ {0} : L = Len(lane[m][p]) /\ DOMAIN lane[m][p] = 1 .. L
    BY <1>1
<1>3. /\ lane'[m][p] = Tail(lane[m][p]) /\ step'[m][p] = "queued"
      /\ \A q \in Partitions \ {p} : lane'[m][q] = lane[m][q] /\ step'[m][q] = step[m][q]
      /\ \A n \in Members \ {m} : lane'[n] = lane[n] /\ step'[n] = step[n]
    BY <1>1 DEF Leave, TypeOK
<1>4. DOMAIN lane'[m][p] = 1 .. (L - 1) /\ \A i \in 1 .. (L - 1) : lane'[m][p][i] = lane[m][p][i + 1]
    BY <1>1, <1>2, <1>3, HeadTailProperties
<1> QED BY <1>1, <1>2, <1>3, <1>4 DEF LeftWith

\* The front of a lane is finished and leaves.
LEMMA LeaveSafe ==
    ASSUME TypeOK, Safe, NEW m \in Members, NEW p \in Partitions, At(m, p, "sent"), Leave(m, p),
           UNCHANGED <<gen, phase, processed>>, GenInv', CommitInv'
    PROVE  Safe'
<1> USE DEF streamVars
<1>0. PICK L \in Nat \ {0} : LeftWith(m, p, L)
    BY LeaveShape DEF At
<1> DEFINE f == First(m, p).offset
<1>1. /\ DOMAIN lane[m][p] = 1 .. L /\ f = lane[m][p][1].offset /\ f \in Offsets
      /\ lane[m][p] # <<>>
    BY <1>0 DEF LeftWith, Admitted, At
<1>2. /\ UNCHANGED <<position, refresh, fetch, buffer>>
      /\ step'[m][p] = "queued"
      /\ \A q \in Partitions \ {p} : lane'[m][q] = lane[m][q] /\ step'[m][q] = step[m][q]
      /\ \A n \in Members \ {m} : lane'[n] = lane[n] /\ step'[n] = step[n]
    BY <1>0 DEF LeftWith, Leave
<1>3. \A n \in Members \ {m} : TaskInv(n)'
  <2>1. \A n \in Members \ {m} : Same(n)
      BY <1>2 DEF Same
  <2> QED BY <2>1, SameKeeps DEF Safe, TasksInv
<1>4. TaskInv(m)
    BY DEF Safe, TasksInv
<1>5. Ready(p, f + 1)
  <2>1. Ready(p, f) /\ <<p, f>> \in processed
      BY <1>1, <1>4, FrontReady DEF TaskInv, StepInv
  <2> QED BY <1>1, <2>1, NextReady
<1>6. DOMAIN lane'[m][p] = 1 .. (L - 1) /\ \A i \in 1 .. (L - 1) : lane'[m][p][i] = lane[m][p][i + 1]
    BY <1>0 DEF LeftWith
<1> HIDE DEF f
<1>7. ASSUME NEW q, NEW x PROVE Ready(q, x) => Ready(q, x)'
    BY DEF Ready
<1>8. ASSUME NEW q \in Partitions, NEW x PROVE InLane(m, q, x) => InLane(m, q, x)' \/ Ready(q, x)'
  <2>1. CASE q # p
      BY <1>2, <2>1 DEF InLane
  <2>2. CASE q = p
    <3> SUFFICES ASSUME NEW i \in 1 .. L, lane[m][p][i].offset + 1 = x
                 PROVE  InLane(m, p, x)' \/ Ready(p, x)'
        BY <1>1, <2>2 DEF InLane
    <3>1. CASE i = 1
        BY <1>1, <1>5, <1>7, <3>1
    <3>2. CASE i # 1
      <4>1. i - 1 \in 1 .. (L - 1) /\ (i - 1) + 1 = i
          BY <1>1, <3>2
      <4>2. lane'[m][p][i - 1] = lane[m][p][i]
          BY <1>6, <4>1
      <4> QED BY <1>6, <4>1, <4>2 DEF InLane
    <3> QED BY <3>1, <3>2
  <2> QED BY <2>1, <2>2
<1>9. LaneInv(m)'
  <2> SUFFICES ASSUME NEW q \in Partitions, NEW i \in DOMAIN lane'[m][q]
               PROVE  (\/ Ready(q, lane[m][q][i].offset)
                       \/ \E j \in DOMAIN lane[m][q] :
                             j < i /\ lane[m][q][j].offset + 1 = lane[m][q][i].offset)'
      BY DEF LaneInv
  <2>1. CASE q # p
      BY <1>2, <1>4, <2>1 DEF TaskInv, LaneInv, Ready
  <2>2. CASE q = p
    <3>1. i \in 1 .. (L - 1) /\ i + 1 \in 1 .. L
        BY <1>1, <1>6, <2>2
    <3>2. PICK x \in Offsets : x = lane[m][p][i + 1].offset /\ lane'[m][p][i].offset = x
      <4>1. lane[m][p][i + 1] \in Admitted
          BY <1>1, <3>1 DEF TypeOK
      <4> QED BY <1>6, <3>1, <4>1 DEF Admitted
    <3>3. CASE Ready(p, x)
        BY <2>2, <3>2, <3>3 DEF Ready
    <3>4. ASSUME NEW j \in 1 .. L, j < i + 1, lane[m][p][j].offset + 1 = x
          PROVE  Ready(p, x)' \/ \E k \in DOMAIN lane'[m][p] : k < i /\ lane'[m][p][k].offset + 1 = x
      <4>1. CASE j = 1
          BY <1>1, <1>5, <1>7, <3>4, <4>1
      <4>2. CASE j # 1
        <5>1. j - 1 \in 1 .. (L - 1) /\ (j - 1) + 1 = j /\ j - 1 < i
            BY <1>1, <3>1, <3>4, <4>2
        <5>2. lane'[m][p][j - 1] = lane[m][p][j]
            BY <1>6, <5>1
        <5> QED BY <1>6, <3>4, <5>1, <5>2
      <4> QED BY <4>1, <4>2
    <3>5. Ready(p, x) \/ \E j \in 1 .. L : j < i + 1 /\ lane[m][p][j].offset + 1 = x
        BY <1>1, <1>4, <3>1, <3>2 DEF TaskInv, LaneInv
    <3>6. Ready(p, x)' \/ \E k \in DOMAIN lane'[m][p] : k < i /\ lane'[m][p][k].offset + 1 = x
        BY <1>7, <3>4, <3>5
    <3>7. Ready(p, x)' => Ready(q, lane[m][q][i].offset)'
        BY <2>2, <3>2 DEF Ready
    <3> QED BY <2>2, <3>2, <3>6, <3>7
  <2> QED BY <2>1, <2>2
<1>10. BufferInv(m)'
  <2> SUFFICES ASSUME NEW i \in DOMAIN buffer[m]
               PROVE  \/ Ready(buffer[m][i].partition, buffer[m][i].offset)'
                      \/ InLane(m, buffer[m][i].partition, buffer[m][i].offset)'
                      \/ \E j \in DOMAIN buffer[m] :
                            /\ j < i
                            /\ buffer[m][j].partition = buffer[m][i].partition
                            /\ buffer[m][j].offset + 1 = buffer[m][i].offset
      BY <1>2 DEF BufferInv
  <2>1. PICK q \in Partitions, x \in Offsets : q = buffer[m][i].partition /\ x = buffer[m][i].offset
    <3>1. buffer[m][i] \in Fetched
        BY DEF TypeOK
    <3> QED BY <3>1 DEF Fetched
  <2>2. \/ Ready(q, x) \/ InLane(m, q, x)
        \/ \E j \in DOMAIN buffer[m] : j < i /\ buffer[m][j].partition = q /\ buffer[m][j].offset + 1 = x
      BY <1>4, <2>1 DEF TaskInv, BufferInv
  <2>3. Ready(q, x)' => Ready(buffer[m][i].partition, buffer[m][i].offset)'
      BY <1>2, <2>1 DEF Ready
  <2>4. InLane(m, q, x)' => InLane(m, buffer[m][i].partition, buffer[m][i].offset)'
      BY <1>2, <2>1 DEF InLane
  <2>5. Ready(q, x)' \/ InLane(m, q, x)'
        \/ \E j \in DOMAIN buffer[m] : j < i /\ buffer[m][j].partition = q /\ buffer[m][j].offset + 1 = x
      BY <1>7, <1>8, <2>2
  <2> QED BY <2>1, <2>3, <2>4, <2>5
<1>11. PositionInv(m)'
  <2> SUFFICES ASSUME NEW q \in Partitions, position[m][q] # Unset
               PROVE  (\/ Ready(q, position[m][q]) \/ InLane(m, q, position[m][q])
                       \/ InBuffer(m, q, position[m][q]))'
      BY <1>2 DEF PositionInv
  <2>1. Ready(q, position[m][q]) \/ InLane(m, q, position[m][q]) \/ InBuffer(m, q, position[m][q])
      BY <1>4 DEF TaskInv, PositionInv
  <2>2. PICK x : x = position[m][q]
      OBVIOUS
  <2>3. (Ready(q, x) \/ InLane(m, q, x) \/ InBuffer(m, q, x))'
      BY <1>2, <1>7, <1>8, <2>1, <2>2 DEF InBuffer
  <2>4. position'[m][q] = x
      BY <1>2, <2>2
  <2> QED BY <2>3, <2>4 DEF Ready, InLane, InBuffer
<1>12. FetchInv(m)'
    BY <1>2, <1>4 DEF TaskInv, FetchInv
<1>13. StepInv(m)'
    BY <1>2, <1>4 DEF TaskInv, StepInv, At, First
<1> QED BY <1>3, <1>9, <1>10, <1>11, <1>12, <1>13 DEF Safe, TasksInv, TaskInv

LEMMA AnswerSafe ==
    ASSUME TypeOK, Safe, NEW c \in commits, Answered(c) \/ Replied(c) \/ ConnectionLost(c)
    PROVE  Safe'
<1> USE DEF brokerVars, clientVars, streamVars, fenceVars, laneVars
<1>1. /\ c.member \in Members /\ c.partition \in Partitions /\ c.next \in 0 .. MaxOffset
      /\ c \in Commits /\ UNCHANGED <<gen, phase, generation, invited, processed>>
    BY DEF TypeOK, Commits, Answered, Replied, ConnectionLost
<1>2. \A q, x : Ready(q, x) => Ready(q, x)'
    BY <1>1, ReadyStays
<1>3. CASE Answered(c)
  <2>1. TasksInv'
    <3>1. \A n \in Members : Same(n)
        BY <1>3 DEF Answered, Same
    <3> QED BY <1>1, <3>1, SameKeeps DEF Safe, TasksInv
  <2>2. \A d \in commits' : d \in commits \/ (d.gen = c.gen /\ d.partition = c.partition /\ d.next = c.next)
      BY <1>1, <1>3 DEF Answered, Commits
  <2>3. GenInv'
      BY <1>1, <2>2 DEF GenInv, Safe
  <2>4. \A q \in Partitions : committed'[q] = committed[q] \/ (q = c.partition /\ committed'[q] = c.next)
      BY <1>3 DEF Answered, TypeOK
  <2>5. c.next # Unset /\ Ready(c.partition, c.next)
      BY <1>1, GroupAssumption DEF Safe, CommitInv
  <2>6. \A q \in Partitions : committed'[q] # Unset /\ Ready(q, committed'[q])
      BY <2>4, <2>5 DEF Safe, CommitInv
  <2>7. \A q \in Partitions : (committed[q] # Unset /\ Ready(q, committed[q]))'
      BY <1>1, <2>6 DEF Ready
  <2>8. \A d \in commits' : Ready(d.partition, d.next)'
      BY <1>2, <2>2, <2>5 DEF Safe, CommitInv
  <2> QED BY <2>1, <2>3, <2>7, <2>8 DEF Safe, CommitInv
<1>4. CASE Replied(c) \/ ConnectionLost(c)
  <2>1. commits' \subseteq commits /\ committed' = committed
      BY <1>4 DEF Replied, ConnectionLost
  <2>2. CommitInv'
      BY <1>1, <2>1, CommitsKept DEF Safe
  <2>3. GenInv'
      BY <1>1, <2>1 DEF GenInv, Safe
  <2>4. CASE Fail(c.member, {c.partition})
      BY <1>1, <2>2, <2>3, <2>4, FailStep
  <2>5. CASE Replied(c) /\ Leave(c.member, c.partition)
    <3>1. At(c.member, c.partition, "sent")
        BY <2>5 DEF Replied, Awaited
    <3> QED BY <1>1, <2>2, <2>3, <2>5, <3>1, LeaveSafe
  <2> QED BY <1>4, <2>4, <2>5 DEF Replied, ConnectionLost
<1> QED BY <1>3, <1>4

LEMMA NextSafe == TypeOK /\ Safe /\ [Next]_vars => Safe'
<1> SUFFICES ASSUME TypeOK, Safe, [Next]_vars PROVE Safe'
    OBVIOUS
<1>1. ASSUME NEW m \in Members, Process(m) \/ Protocol(m) \/ Stream(m) \/ Lane(m) PROVE Safe'
    BY <1>1, ProcessSafe, ProtocolSafe, StreamSafe, LaneSafe
<1>2. CASE UNCHANGED vars
  <2>1. \A n \in Members : Same(n)
      BY <1>2 DEF vars, Same
  <2>2. UNCHANGED <<generation, invited, phase, gen, commits, committed, processed>>
      BY <1>2 DEF vars
  <2>3. TasksInv' /\ CommitInv'
      BY <2>1, <2>2, SameKeeps, CommitsKept DEF Safe, TasksInv
  <2>4. GenInv'
      BY <2>2 DEF GenInv, Safe
  <2> QED BY <2>3, <2>4 DEF Safe
<1> QED BY <1>1, <1>2, GroupSafe, AnswerSafe DEF Next

\* No committed offset covers an unfinished record, whatever the tasks, the
\* partitions, the records, the crashes and the rebalances, provided the
\* group starts with a committed offset for every partition.
THEOREM CommittedIsFinished ==
    ASSUME InitialCommitted # Unset PROVE Spec => []NothingSkipped
<1>1. Init => TypeOK /\ Safe
    BY InitTypeOK, InitSafe
<1>2. TypeOK /\ Safe /\ [Next]_vars => (TypeOK /\ Safe)'
    BY NextTypes, NextSafe
<1>3. TypeOK /\ Safe => NothingSkipped
    BY DEF Safe, CommitInv, NothingSkipped, Ready
<1> QED BY <1>1, <1>2, <1>3, PTL DEF Spec

-----------------------------------------------------------------------------
(* Only the owner commits.                                                 *)
(*                                                                         *)
(* The coordinator looks at a commit's generation and nothing else, so the *)
(* property rests on the task's own check: while its fence is valid in the *)
(* current generation, what it believes assigned is what it owns.          *)

KnowsItsOwn(m) ==
    Active(m) /\ gen[m] = generation =>
        assigned[m] = {p \in Partitions : owner[p] = m}

OwnInv ==
    /\ \A m \in Members : gen[m] <= generation
    /\ \A m \in Members : valid[m] => phase[m] = "stable"
    /\ \A m \in Members : phase[m] = "down" => gen[m] = 0
    /\ \A m \in Members : KnowsItsOwn(m)
    /\ \A c \in commits : c.gen <= generation
                          /\ (c.gen = generation => owner[c.partition] = c.member)

\* Commits that are some earlier ones, with another answer at most.
Older(c, d) == c.gen = d.gen /\ c.partition = d.partition /\ c.member = d.member

LEMMA OwnKeeps ==
    ASSUME OwnInv, UNCHANGED <<generation, owner>>,
           \A n \in Members :
              /\ gen'[n] <= generation
              /\ valid'[n] => phase'[n] = "stable"
              /\ phase'[n] = "down" => gen'[n] = 0
              /\ Active(n)' /\ gen'[n] = generation =>
                    \/ assigned'[n] = {p \in Partitions : owner[p] = n}
                    \/ Active(n) /\ gen[n] = generation /\ assigned'[n] = assigned[n],
           \A c \in commits' : \E d \in commits : Older(c, d)
    PROVE  OwnInv'
<1>1. \A n \in Members : KnowsItsOwn(n)'
    BY DEF OwnInv, KnowsItsOwn
<1>2. \A c \in commits' : c.gen <= generation
                          /\ (c.gen = generation => owner[c.partition] = c.member)
    BY DEF OwnInv, Older
<1> QED BY <1>1, <1>2 DEF OwnInv

LEMMA OwnSame ==
    ASSUME OwnInv, UNCHANGED <<generation, owner, phase, gen, assigned, valid, commits>>
    PROVE  OwnInv'
BY DEF OwnInv, KnowsItsOwn, Active

LEMMA InitOwn == Init => OwnInv
BY DEF Init, OwnInv, KnowsItsOwn, Active

LEMMA ProcessOwn ==
    ASSUME TypeOK, OwnInv, NEW m \in Members, Process(m) PROVE OwnInv'
<1> USE DEF brokerVars, clientVars, fenceVars
<1>1. commits' \subseteq commits /\ UNCHANGED <<generation, owner>>
    BY DEF Process, Boot, Down
<1>2. \A c \in commits' : \E d \in commits : Older(c, d)
    BY <1>1 DEF Older
<1>3. ~Active(m)' /\ ~valid'[m] /\ gen'[m] <= generation /\ gen'[m] = 0
  <2>1. CASE Boot(m)
      BY <2>1 DEF Boot, OwnInv, TypeOK, Active
  <2>2. CASE Down(m)
      BY <2>2, GroupAssumption DEF Down, TypeOK, Generations, Active
  <2> QED BY <2>1, <2>2 DEF Process
<1>4. \A n \in Members \ {m} : phase'[n] = phase[n] /\ gen'[n] = gen[n]
                               /\ assigned'[n] = assigned[n] /\ valid'[n] = valid[n]
    BY DEF Process, Boot, Down, TypeOK
<1> QED BY <1>1, <1>2, <1>3, <1>4, OwnKeeps DEF OwnInv, Active

LEMMA RebalanceOwn ==
    ASSUME TypeOK, OwnInv, Rebalance PROVE OwnInv'
<1> USE DEF clientVars, fenceVars
<1>1. generation' = generation + 1 /\ UNCHANGED <<phase, gen, assigned, valid, commits>>
    BY DEF Rebalance
<1>2. generation \in Int /\ (\A n \in Members : gen[n] \in Int) /\ (\A c \in commits : c.gen \in Int)
    BY GroupAssumption DEF TypeOK, Generations, Commits
<1>3. (\A n \in Members : gen[n] <= generation' /\ gen[n] # generation')
      /\ \A c \in commits : c.gen <= generation' /\ c.gen # generation'
    BY <1>1, <1>2 DEF OwnInv
<1> QED BY <1>1, <1>3 DEF OwnInv, KnowsItsOwn, Active

LEMMA ProtocolOwn ==
    ASSUME TypeOK, OwnInv, NEW m \in Members, Protocol(m) PROVE OwnInv'
<1> USE DEF brokerVars, clientVars, fenceVars
<1>1. UNCHANGED <<generation, owner, commits>>
    BY DEF Protocol, Joined, Synced, SyncRefused, Invalidated
<1>2. \A c \in commits' : \E d \in commits : Older(c, d)
    BY <1>1 DEF Older
<1>3. \A n \in Members \ {m} : phase'[n] = phase[n] /\ gen'[n] = gen[n]
                               /\ assigned'[n] = assigned[n] /\ valid'[n] = valid[n]
    BY DEF Protocol, Joined, Synced, SyncRefused, Invalidated, TypeOK
<1>4. /\ gen'[m] <= generation /\ (valid'[m] => phase'[m] = "stable") /\ phase'[m] # "down"
      /\ Active(m)' /\ gen'[m] = generation =>
            \/ assigned'[m] = {p \in Partitions : owner[p] = m}
            \/ Active(m) /\ gen[m] = generation /\ assigned'[m] = assigned[m]
  <2>1. CASE Joined(m)
    <3>1. gen'[m] = generation /\ phase'[m] = "syncing" /\ phase[m] = "joining" /\ valid' = valid
        BY <2>1 DEF Joined, TypeOK
    <3>2. generation <= generation
        BY GroupAssumption DEF TypeOK, Generations
    <3> QED BY <3>1, <3>2 DEF OwnInv, Active
  <2>2. CASE Synced(m)
      BY <2>2 DEF Synced, OwnInv, TypeOK
  <2>3. CASE SyncRefused(m)
      BY <2>3 DEF SyncRefused, OwnInv, TypeOK
  <2>4. CASE Invalidated(m)
    <3>1. gen' = gen /\ assigned' = assigned /\ ~valid'[m] /\ phase[m] = "stable" /\ phase'[m] # "down"
        BY <2>4 DEF Invalidated, TypeOK
    <3> QED BY <3>1 DEF OwnInv, Active
  <2> QED BY <2>1, <2>2, <2>3, <2>4 DEF Protocol
<1> QED BY <1>1, <1>2, <1>3, <1>4, OwnKeeps DEF OwnInv, Active

LEMMA LaneOwn ==
    ASSUME TypeOK, OwnInv, NEW m \in Members, Lane(m) PROVE OwnInv'
<1> USE DEF brokerVars, clientVars, fenceVars
<1>1. UNCHANGED <<generation, owner, phase, gen, assigned, valid>>
    BY DEF Lane, Admit, Begin, Handled, HandlingFails, Send
<1>2. CASE UNCHANGED commits
    BY <1>1, <1>2, OwnSame
<1>3. CASE ~UNCHANGED commits
  <2>1. PICK p \in Partitions : FirstCurrent(m, p) /\ At(m, p, "connecting")
                                /\ commits' = commits \cup {CommitOf(m, p, First(m, p).gen)}
      BY <1>3 DEF Lane, Admit, Begin, Handled, HandlingFails, Send
  <2> DEFINE c == CommitOf(m, p, First(m, p).gen)
  <2>2. c.member = m /\ c.partition = p /\ c.gen = gen[m]
      BY <2>1 DEF CommitOf, FirstCurrent, SnapshotCurrent
  <2>3. gen[m] <= generation /\ (gen[m] = generation => owner[p] = m)
      BY <2>1 DEF FirstCurrent, SnapshotCurrent, OwnInv, KnowsItsOwn
  <2>4. \A d \in commits' : d.gen <= generation /\ (d.gen = generation => owner[d.partition] = d.member)
      BY <2>1, <2>2, <2>3 DEF OwnInv
  <2> QED BY <1>1, <2>4 DEF OwnInv, KnowsItsOwn, Active
<1> QED BY <1>2, <1>3

LEMMA AnswerOwn ==
    ASSUME TypeOK, OwnInv, NEW c \in commits, Answered(c) \/ Replied(c) \/ ConnectionLost(c)
    PROVE  OwnInv'
<1> USE DEF brokerVars, clientVars, fenceVars
<1>1. UNCHANGED <<generation, owner, phase, gen, assigned, valid>> /\ c \in Commits
    BY DEF Answered, Replied, ConnectionLost, TypeOK
<1>2. \A d \in commits' : \E e \in commits : Older(d, e)
  <2>1. CASE Answered(c)
    <3>1. \A d \in commits' : d \in commits \/ \E a \in {"accepted", "refused"} :
                                                   d = [c EXCEPT !.answer = a]
        BY <2>1 DEF Answered
    <3>2. \A a \in {"accepted", "refused"} : Older([c EXCEPT !.answer = a], c)
        BY <1>1 DEF Commits, Older
    <3> QED BY <3>1, <3>2 DEF Older
  <2>2. CASE Replied(c) \/ ConnectionLost(c)
      BY <2>2 DEF Replied, ConnectionLost, Older
  <2> QED BY <2>1, <2>2
<1> QED BY <1>1, <1>2, OwnKeeps DEF OwnInv, Active

LEMMA NextOwn == TypeOK /\ OwnInv /\ [Next]_vars => OwnInv'
<1> SUFFICES ASSUME TypeOK, OwnInv, [Next]_vars PROVE OwnInv'
    OBVIOUS
<1>1. ASSUME NEW m \in Members, Stream(m) PROVE OwnInv'
  <2>1. UNCHANGED <<generation, owner, phase, gen, assigned, valid, commits>>
      BY <1>1 DEF Stream, OffsetsAnswered, Refreshed, FetchedNothing, Fetch, FetchedCurrent, Push,
                  brokerVars, clientVars, fenceVars
  <2> QED BY <2>1, OwnSame
<1>2. ASSUME NEW p \in Partitions, Produce(p) PROVE OwnInv'
    BY <1>2, OwnSame DEF Produce, clientVars, fenceVars
<1>3. CASE UNCHANGED vars
    BY <1>3, OwnSame DEF vars
<1> QED BY <1>1, <1>2, <1>3, ProcessOwn, RebalanceOwn, ProtocolOwn, LaneOwn, AnswerOwn DEF Next

\* A committed offset moves only on the request of the partition's owner in
\* the group's current generation, for every number of tasks and rebalances,
\* with or without a committed offset to start from.
THEOREM OwnerCommits == Spec => OnlyTheOwnerCommits
<1>1. Init => TypeOK /\ OwnInv
    BY InitTypeOK, InitOwn
<1>2. TypeOK /\ OwnInv /\ [Next]_vars => (TypeOK /\ OwnInv)'
    BY NextTypes, NextOwn
<1>3. TypeOK /\ OwnInv /\ [Next]_vars =>
          [\A p \in Partitions : committed'[p] # committed[p] =>
              \E c \in commits : /\ c.partition = p
                                 /\ c.gen = generation
                                 /\ c.member = owner[p]]_vars
  <2> SUFFICES ASSUME TypeOK, OwnInv, [Next]_vars, NEW p \in Partitions, committed'[p] # committed[p]
               PROVE  \E c \in commits : c.partition = p /\ c.gen = generation /\ c.member = owner[p]
      OBVIOUS
  <2> USE DEF brokerVars, clientVars, fenceVars
  <2>1. ASSUME NEW m \in Members, Process(m) \/ Protocol(m) \/ Stream(m) \/ Lane(m)
        PROVE  committed' = committed
    <3>1. CASE Process(m) \/ Protocol(m)
        BY <3>1 DEF Process, Boot, Down, Protocol, Joined, Synced, SyncRefused, Invalidated
    <3>2. CASE Stream(m)
        BY <3>2 DEF Stream, OffsetsAnswered, Refreshed, FetchedNothing, Fetch, FetchedCurrent, Push
    <3>3. CASE Lane(m)
        BY <3>3 DEF Lane, Admit, Begin, Handled, HandlingFails, Send
    <3> QED BY <2>1, <3>1, <3>2, <3>3
  <2>2. Rebalance \/ (\E q \in Partitions : Produce(q)) \/ UNCHANGED vars => committed' = committed
      BY DEF Rebalance, Produce, vars
  <2>3. \A c \in commits : Replied(c) \/ ConnectionLost(c) => committed' = committed
      BY DEF Replied, ConnectionLost
  <2>4. PICK c \in commits : Answered(c)
      BY <2>1, <2>2, <2>3 DEF Next
  <2>5. c.gen = generation /\ c.partition = p
      BY <2>4 DEF Answered, TypeOK
  <2> QED BY <2>5 DEF OwnInv
<1> QED BY <1>1, <1>2, <1>3, PTL DEF Spec, OnlyTheOwnerCommits
=============================================================================
