------------------------- MODULE AtLeastOnce_proofs -------------------------
(***************************************************************************)
(* The consumer group of GroupCommit implements AtLeastOnce, for every set *)
(* of tasks and partitions, every number of records and rebalances.        *)
(*                                                                         *)
(* The step that matters is an accepted commit: it has to move the offset  *)
(* by exactly one.  The invariant: what a task holds for the group's       *)
(* current generation continues the committed offset without a gap or a    *)
(* repetition, from its lane through its buffer to its position, and the   *)
(* one commit of the generation that is on its way is the next.            *)
(***************************************************************************)
EXTENDS GroupCommit_proofs

-----------------------------------------------------------------------------
(* The invariant *)

\* The offsets of partition p that a lane or a buffer holds for the current
\* generation, and those of them before place i.
LaneBefore(m, p, i) ==
    {e \in Offsets : \E j \in DOMAIN lane[m][p] :
        j < i /\ lane[m][p][j].gen = generation /\ lane[m][p][j].offset = e}
LaneNow(m, p) ==
    {e \in Offsets : \E j \in DOMAIN lane[m][p] :
        lane[m][p][j].gen = generation /\ lane[m][p][j].offset = e}
BufferBefore(m, p, i) ==
    {e \in Offsets : \E j \in DOMAIN buffer[m] :
        j < i /\ buffer[m][j].partition = p /\ buffer[m][j].gen = generation
              /\ buffer[m][j].offset = e}
BufferNow(m, p) ==
    {e \in Offsets : \E j \in DOMAIN buffer[m] :
        buffer[m][j].partition = p /\ buffer[m][j].gen = generation /\ buffer[m][j].offset = e}

\* With k committed, offset x is the one that follows the held offsets E.
Follows(k, x, E) ==
    /\ k <= x
    /\ \A e \in Offsets : k <= e /\ e < x => e \in E
    /\ \A e \in E : e < x

CurLane(m) ==
    \A p \in Partitions : \A i \in DOMAIN lane[m][p] :
        lane[m][p][i].gen = generation =>
            /\ owner[p] = m
            /\ i # 1 \/ step[m][p] # "sent" =>
                  Follows(committed[p], lane[m][p][i].offset, LaneBefore(m, p, i))

CurBuffer(m) ==
    \A i \in DOMAIN buffer[m] : \A p \in Partitions :
        buffer[m][i].gen = generation /\ buffer[m][i].partition = p =>
            /\ owner[p] = m
            /\ Follows(committed[p], buffer[m][i].offset, LaneNow(m, p) \cup BufferBefore(m, p, i))

\* The position was read, or advanced, in the current generation.
PositionCurrent(m) ==
    /\ Active(m) /\ gen[m] = generation
    /\ refresh[m] = "none" \/ (refresh[m] = "answered" /\ ~pending[m])

CurPosition(m) ==
    PositionCurrent(m) => \A p \in Partitions : position[m][p] # Unset =>
        /\ owner[p] = m
        /\ Follows(committed[p], position[m][p], LaneNow(m, p) \cup BufferNow(m, p))

\* Nothing is held for a generation before its first refresh has ended, and
\* nothing is fetched any more after a failure.
QuietInv(m) ==
    /\ \A p \in Partitions : \A i \in DOMAIN lane[m][p] : lane[m][p][i].gen <= gen[m]
    /\ \A i \in DOMAIN buffer[m] : buffer[m][i].gen <= gen[m]
    /\ gen[m] = generation /\ (refresh[m] # "none" \/ phase[m] = "syncing") =>
          /\ \A p \in Partitions : \A i \in DOMAIN lane[m][p] : lane[m][p][i].gen # generation
          /\ \A i \in DOMAIN buffer[m] : buffer[m][i].gen # generation
    /\ failing[m] => /\ refresh[m] = "none" /\ fetch[m] = None
                     /\ position[m] = NoPosition /\ buffer[m] = <<>>

CurTask(m) == CurLane(m) /\ CurBuffer(m) /\ CurPosition(m) /\ QuietInv(m)

\* The task that sent a commit in this generation and does not wait for it
\* has nothing more of that partition.
Idle(m, p) == gen[m] # generation \/ (failing[m] /\ lane[m][p] = <<>>)

CurCommit(c) ==
    /\ c.gen # 0
    /\ c.gen = generation =>
          /\ c.member \notin invited
          /\ c.answer = "accepted" => c.next <= committed[c.partition]
          /\ c.answer = "none" => /\ c.next = committed[c.partition] + 1
                                  /\ Awaited(c) \/ Idle(c.member, c.partition)

Current == (\A m \in Members : CurTask(m)) /\ \A c \in commits : CurCommit(c)

\* What the steps below start from.
Known == TypeOK /\ Safe /\ OwnInv /\ Current

LEMMA InitCurrent == Init => Current
BY DEF Init, Current, CurTask, CurLane, CurBuffer, CurPosition, PositionCurrent, Active, QuietInv,
       NoLanes

-----------------------------------------------------------------------------
(* What leaves the invariant alone *)

LEMMA Numbers ==
    ASSUME TypeOK
    PROVE  /\ generation \in Int /\ Offsets \subseteq Int /\ (0 .. MaxOffset) \subseteq Int
           /\ \A m \in Members : gen[m] \in Int
           /\ \A c \in commits : c.gen \in Int /\ c.next \in Int
           /\ \A m \in Members, p \in Partitions : \A i \in DOMAIN lane[m][p] :
                 lane[m][p][i].offset \in Offsets /\ lane[m][p][i].gen \in Int
           /\ \A m \in Members : \A i \in DOMAIN buffer[m] :
                 /\ buffer[m][i].offset \in Offsets /\ buffer[m][i].gen \in Int
                 /\ buffer[m][i].partition \in Partitions
<1>1. generation \in Int /\ Offsets \subseteq Int /\ (0 .. MaxOffset) \subseteq Int
      /\ \A m \in Members : gen[m] \in Int
    BY GroupAssumption DEF TypeOK, Generations, Offsets
<1>2. \A c \in commits : c.gen \in Int /\ c.next \in Int
    BY GroupAssumption DEF TypeOK, Commits, Generations
<1>3. ASSUME NEW m \in Members, NEW p \in Partitions, NEW i \in DOMAIN lane[m][p]
      PROVE  lane[m][p][i].offset \in Offsets /\ lane[m][p][i].gen \in Int
  <2>1. lane[m][p][i] \in Admitted
      BY DEF TypeOK
  <2> QED BY <2>1, GroupAssumption DEF Admitted, Generations
<1>4. ASSUME NEW m \in Members, NEW i \in DOMAIN buffer[m]
      PROVE  /\ buffer[m][i].offset \in Offsets /\ buffer[m][i].gen \in Int
             /\ buffer[m][i].partition \in Partitions
  <2>1. buffer[m][i] \in Fetched
      BY DEF TypeOK
  <2> QED BY <2>1, GroupAssumption DEF Fetched, Generations
<1> QED BY <1>1, <1>2, <1>3, <1>4

\* What a task holds, and what it holds it against.
Holds(n) ==
    /\ UNCHANGED <<generation, owner>>
    /\ lane'[n] = lane[n] /\ step'[n] = step[n] /\ buffer'[n] = buffer[n] /\ position'[n] = position[n]
    /\ \A p \in Partitions : owner[p] = n => committed'[p] = committed[p]

LEMMA HoldsKeeps ==
    ASSUME NEW n \in Members, CurTask(n), Holds(n), QuietInv(n)',
           PositionCurrent(n)' => PositionCurrent(n) \/ \A p \in Partitions : position[n][p] = Unset
    PROVE  CurTask(n)'
<1>1. /\ \A p, i : LaneBefore(n, p, i)' = LaneBefore(n, p, i) /\ BufferBefore(n, p, i)' = BufferBefore(n, p, i)
      /\ \A p : LaneNow(n, p)' = LaneNow(n, p) /\ BufferNow(n, p)' = BufferNow(n, p)
    BY DEF Holds, LaneBefore, BufferBefore, LaneNow, BufferNow
<1>2. CurLane(n)'
    BY <1>1 DEF CurTask, CurLane, Holds
<1>3. CurBuffer(n)'
    BY <1>1 DEF CurTask, CurBuffer, Holds
<1>4. CurPosition(n)'
    BY <1>1 DEF CurTask, CurPosition, Holds
<1> QED BY <1>2, <1>3, <1>4 DEF CurTask

\* A task that a step does not touch.
Untouched(n) ==
    Holds(n) /\ Same(n) /\ pending'[n] = pending[n] /\ failing'[n] = failing[n]

LEMMA UntouchedKeeps ==
    ASSUME NEW n \in Members, CurTask(n), Untouched(n)
    PROVE  CurTask(n)'
<1>1. QuietInv(n)'
    BY DEF CurTask, QuietInv, Untouched, Holds, Same
<1>2. PositionCurrent(n)' => PositionCurrent(n)
    BY DEF PositionCurrent, Active, Untouched, Holds, Same
<1> QED BY <1>1, <1>2, HoldsKeeps DEF Untouched

\* Commits on their way while the offsets stay.
LEMMA CommitsStay ==
    ASSUME Current, UNCHANGED <<generation, committed>>, invited' \subseteq invited,
           \A c \in commits' : c \in commits /\
              (/\ CurCommit(c) /\ c.gen = generation /\ c.answer = "none"
               /\ Awaited(c) \/ Idle(c.member, c.partition)
               => (Awaited(c) \/ Idle(c.member, c.partition))')
    PROVE  \A c \in commits' : CurCommit(c)'
BY DEF Current, CurCommit

LEMMA AwaitedStays ==
    ASSUME NEW c, lane'[c.member][c.partition] = lane[c.member][c.partition],
           step'[c.member][c.partition] = step[c.member][c.partition]
    PROVE  Awaited(c)' = Awaited(c)
BY DEF Awaited, At, First, CommitOf

\* A failure leaves a task what its lanes' fronts were.
LEMMA FailCur ==
    ASSUME Known, NEW m \in Members, NEW ended, Fail(m, ended),
           UNCHANGED <<generation, owner, committed, gen, phase>>
    PROVE  CurTask(m)'
<1> USE DEF Known
<1>1. /\ buffer'[m] = <<>> /\ fetch'[m] = None /\ position'[m] = NoPosition /\ refresh'[m] = "none"
    BY DEF Fail, TypeOK
<1>2. \A p \in Partitions :
         \/ lane'[m][p] = <<>>
         \/ lane[m][p] # <<>> /\ lane'[m][p] = <<Head(lane[m][p])>> /\ step'[m][p] = step[m][p]
    BY DEF Fail, TypeOK
<1>3. ASSUME NEW p \in Partitions, NEW i \in DOMAIN lane'[m][p]
      PROVE  /\ i = 1 /\ 1 \in DOMAIN lane[m][p] /\ lane'[m][p][i] = lane[m][p][1]
             /\ step'[m][p] = step[m][p]
  <2>1. lane[m][p] # <<>> /\ lane'[m][p] = <<Head(lane[m][p])>> /\ step'[m][p] = step[m][p]
      BY <1>2, <1>3
  <2>2. lane[m][p] \in Seq(Admitted)
      BY DEF TypeOK
  <2> QED BY <2>1, <2>2
<1>4. CurLane(m)'
  <2> SUFFICES ASSUME NEW p \in Partitions, NEW i \in DOMAIN lane'[m][p],
                      lane'[m][p][i].gen = generation
               PROVE  /\ owner[p] = m
                      /\ step'[m][p] # "sent" =>
                            Follows(committed[p], lane'[m][p][i].offset, LaneBefore(m, p, i)')
      BY <1>3 DEF CurLane
  <2>1. LaneBefore(m, p, i)' = {} /\ LaneBefore(m, p, 1) = {}
    <3>1. \A j \in DOMAIN lane'[m][p] : j = 1
        BY <1>3
    <3>2. lane[m][p] \in Seq(Admitted)
        BY DEF TypeOK
    <3>3. \A j \in DOMAIN lane[m][p] : ~(j < 1)
        BY <3>2
    <3> QED BY <1>3, <3>1, <3>3 DEF LaneBefore
  <2>2. 1 \in DOMAIN lane[m][p] /\ lane'[m][p][i] = lane[m][p][1] /\ step'[m][p] = step[m][p]
      BY <1>3
  <2>3. CurLane(m) /\ lane[m][p][1].gen = generation
      BY <2>2 DEF Current, CurTask
  <2>4. owner[p] = m /\ (step[m][p] # "sent" =>
                Follows(committed[p], lane[m][p][1].offset, LaneBefore(m, p, 1)))
      BY <2>2, <2>3 DEF CurLane
  <2> QED BY <2>1, <2>2, <2>4
<1>5. CurBuffer(m)' /\ CurPosition(m)'
    BY <1>1 DEF CurBuffer, CurPosition, NoPosition
<1>6. QuietInv(m)'
    BY <1>1, <1>3 DEF Current, CurTask, QuietInv
<1> QED BY <1>4, <1>5, <1>6 DEF CurTask

LEMMA FailOthers ==
    ASSUME TypeOK, NEW m \in Members, NEW ended, Fail(m, ended),
           UNCHANGED <<generation, owner, committed, gen, phase>>, NEW n \in Members \ {m}
    PROVE  Untouched(n)
BY DEF Fail, TypeOK, Untouched, Holds, Same

\* A commit on its way stays awaited, or its task has let go of the record.
LEMMA FailCommit ==
    ASSUME TypeOK, NEW m \in Members, NEW ended, Fail(m, ended), UNCHANGED <<generation, gen>>,
           NEW c \in commits, Awaited(c) \/ Idle(c.member, c.partition)
    PROVE  (Awaited(c) \/ Idle(c.member, c.partition))'
<1>0. c.member \in Members /\ c.partition \in Partitions
    BY DEF TypeOK, Commits
<1>1. CASE c.member # m
  <2>1. lane'[c.member] = lane[c.member] /\ step'[c.member] = step[c.member]
        /\ failing'[c.member] = failing[c.member]
      BY <1>0, <1>1 DEF Fail, TypeOK
  <2> QED BY <2>1, AwaitedStays DEF Idle
<1>2. CASE c.member = m
  <2> DEFINE p == c.partition
  <2>1. failing'[m] = TRUE
      BY DEF Fail, TypeOK
  <2>2. \/ lane'[m][p] = <<>>
        \/ lane[m][p] # <<>> /\ lane'[m][p] = <<Head(lane[m][p])>> /\ step'[m][p] = step[m][p]
      BY <1>0 DEF Fail, TypeOK
  <2>3. CASE lane'[m][p] = <<>>
      BY <1>2, <2>1, <2>3 DEF Idle
  <2>4. CASE lane[m][p] # <<>> /\ lane'[m][p] = <<Head(lane[m][p])>> /\ step'[m][p] = step[m][p]
    <3>1. First(m, p)' = First(m, p) /\ lane'[m][p] # <<>>
        BY <2>4 DEF First
    <3>2. Awaited(c) => Awaited(c)'
        BY <1>2, <2>4, <3>1 DEF Awaited, At, CommitOf
    <3>3. ~Awaited(c) => Idle(c.member, c.partition)'
        BY <1>2, <2>4 DEF Idle
    <3> QED BY <3>2, <3>3
  <2> QED BY <2>2, <2>3, <2>4
<1> QED BY <1>1, <1>2

\* A step that ends in a failure of task m.
LEMMA FailStepCur ==
    ASSUME Known, NEW m \in Members, NEW ended, Fail(m, ended), commits' \subseteq commits,
           UNCHANGED <<generation, owner, invited, committed, gen, phase>>
    PROVE  Current'
<1>1. \A n \in Members \ {m} : CurTask(n)'
    BY FailOthers, UntouchedKeeps DEF Known, Current
<1>2. CurTask(m)'
    BY FailCur
<1>3. \A c \in commits' : CurCommit(c)'
    BY FailCommit, CommitsStay DEF Known
<1> QED BY <1>1, <1>2, <1>3 DEF Current

\* A step of one task's consumer or stream that leaves what it holds alone.
LEMMA HoldsStep ==
    ASSUME Known, NEW m \in Members, Holds(m), QuietInv(m)',
           PositionCurrent(m)' => PositionCurrent(m) \/ \A p \in Partitions : position[m][p] = Unset,
           \A n \in Members \ {m} : Untouched(n),
           UNCHANGED <<commits, committed, gen, failing>>, invited' \subseteq invited
    PROVE  Current'
<1>1. \A n \in Members : CurTask(n)'
    BY HoldsKeeps, UntouchedKeeps DEF Known, Current
<1>2. \A c \in commits : c.member \in Members /\ lane'[c.member] = lane[c.member]
                         /\ step'[c.member] = step[c.member]
    BY DEF Known, TypeOK, Commits, Untouched, Holds
<1>3. \A c \in commits : (Awaited(c)' = Awaited(c))
                         /\ (Idle(c.member, c.partition)' = Idle(c.member, c.partition))
    BY <1>2, AwaitedStays DEF Idle, Holds
<1>4. \A c \in commits' : CurCommit(c)'
    BY <1>3, CommitsStay DEF Known, Holds
<1> QED BY <1>1, <1>4 DEF Current

LEMMA ProcessCur ==
    ASSUME Known, NEW m \in Members, Process(m) PROVE Current'
<1> USE DEF brokerVars, clientVars, streamVars, laneVars, Known
<1>1. \A n \in Members \ {m} : Untouched(n)
    BY DEF Process, Boot, Down, Untouched, Holds, Same, TypeOK
<1>2. CASE Boot(m)
  <2>1. Holds(m) /\ UNCHANGED <<commits, committed, gen, failing, invited>>
      BY <1>2 DEF Boot, Holds
  <2>2. phase'[m] = "joining" /\ gen[m] = 0 /\ UNCHANGED <<refresh, fetch, position, buffer, generation>>
      BY <1>2 DEF Boot, TypeOK, OwnInv
  <2>3. QuietInv(m)'
      BY <2>1, <2>2 DEF QuietInv, Holds, Current, CurTask
  <2>4. ~PositionCurrent(m)'
      BY <2>1, <2>2 DEF PositionCurrent, Active
  <2> QED BY <1>1, <2>1, <2>3, <2>4, HoldsStep
<1>3. CASE Down(m)
  <2>1. /\ lane'[m] = NoLanes /\ buffer'[m] = <<>> /\ position'[m] = NoPosition /\ gen'[m] = 0
        /\ failing'[m] = FALSE
      BY <1>3 DEF Down, TypeOK
  <2>2. CurTask(m)'
      BY <2>1 DEF CurTask, CurLane, CurBuffer, CurPosition, QuietInv, NoLanes, NoPosition
  <2>3. \A n \in Members \ {m} : CurTask(n)'
      BY <1>1, UntouchedKeeps DEF Current
  <2>4. /\ commits' \subseteq commits /\ invited' \subseteq invited
        /\ UNCHANGED <<generation, committed>>
        /\ \A n \in Members \ {m} : lane'[n] = lane[n] /\ step'[n] = step[n] /\ failing'[n] = failing[n]
                                    /\ gen'[n] = gen[n]
      BY <1>3 DEF Down, TypeOK
  <2>5. ASSUME NEW c \in commits, c.gen # 0, c.gen = generation,
               Awaited(c) \/ Idle(c.member, c.partition)
        PROVE  (Awaited(c) \/ Idle(c.member, c.partition))'
    <3>1. c.member \in Members
        BY DEF TypeOK, Commits
    <3>2. CASE c.member = m
        BY <2>1, <2>4, <2>5, <3>2 DEF Idle
    <3>3. CASE c.member # m
        BY <2>4, <2>5, <3>1, <3>3, AwaitedStays DEF Idle
    <3> QED BY <3>2, <3>3
  <2>6. \A c \in commits' : CurCommit(c)'
      BY <2>4, <2>5, CommitsStay DEF CurCommit
  <2> QED BY <2>2, <2>3, <2>6 DEF Current
<1> QED BY <1>2, <1>3 DEF Process

LEMMA RebalanceCur ==
    ASSUME Known, Rebalance PROVE Current'
<1> USE DEF clientVars, streamVars, laneVars, Known
<1>1. generation' = generation + 1
      /\ UNCHANGED <<committed, commits, phase, gen, position, refresh, pending, fetch, buffer, lane,
                     step, failing>>
    BY DEF Rebalance
<1>2. \A m \in Members : gen[m] <= generation /\ gen[m] \in Int /\ generation \in Int
    BY Numbers DEF OwnInv
<1>3. ASSUME NEW m \in Members PROVE CurTask(m)'
  <2>1. QuietInv(m)
      BY DEF Current, CurTask
  <2>2. gen'[m] # generation'
      BY <1>1, <1>2
  <2>3. \A p \in Partitions : \A i \in DOMAIN lane'[m][p] : lane'[m][p][i].gen # generation'
      BY <1>1, <1>2, <2>1, Numbers DEF QuietInv
  <2>4. \A i \in DOMAIN buffer'[m] : buffer'[m][i].gen # generation'
      BY <1>1, <1>2, <2>1, Numbers DEF QuietInv
  <2>5. QuietInv(m)'
      BY <1>1, <2>1, <2>2 DEF QuietInv
  <2>6. CurLane(m)' /\ CurBuffer(m)' /\ CurPosition(m)'
      BY <2>2, <2>3, <2>4 DEF CurLane, CurBuffer, CurPosition, PositionCurrent
  <2> QED BY <2>5, <2>6 DEF CurTask
<1>4. ASSUME NEW c \in commits' PROVE CurCommit(c)'
  <2>1. c \in commits /\ c.gen # 0 /\ c.gen # generation'
      BY <1>1, Numbers DEF OwnInv, Current, CurCommit
  <2> QED BY <2>1 DEF CurCommit
<1> QED BY <1>3, <1>4 DEF Current

LEMMA ProtocolCur ==
    ASSUME Known, NEW m \in Members, Protocol(m) PROVE Current'
<1> USE DEF brokerVars, clientVars, streamVars, laneVars, Known
<1>1. UNCHANGED <<generation, owner, committed, commits>> /\ invited' \subseteq invited
    BY DEF Protocol, Joined, Synced, SyncRefused, Invalidated
<1>2. CASE Invalidated(m) /\ Fail(m, {}) /\ UNCHANGED phase
  <2>1. UNCHANGED <<gen, invited>>
      BY <1>2 DEF Invalidated
  <2> QED BY <1>1, <1>2, <2>1, FailStepCur
<1>3. CASE ~(Invalidated(m) /\ Fail(m, {}) /\ UNCHANGED phase)
  <2>1. /\ UNCHANGED <<lane, step, buffer, position, fetch, failing>>
        /\ \A n \in Members \ {m} : Untouched(n)
      BY <1>1, <1>3 DEF Protocol, Joined, Synced, SyncRefused, Invalidated, ScheduleRefresh,
                        Untouched, Holds, Same, TypeOK
  <2>2. Holds(m) /\ QuietInv(m)
      BY <1>1, <2>1 DEF Holds, Current, CurTask
  <2>3. CASE Joined(m)
    <3>1. gen[m] < generation /\ gen'[m] = generation /\ phase'[m] = "syncing" /\ m \in invited
          /\ gen' = [gen EXCEPT ![m] = generation] /\ UNCHANGED refresh
        BY <2>3 DEF Joined, TypeOK, Safe, GenInv
    <3>2. /\ \A p \in Partitions : \A i \in DOMAIN lane[m][p] :
                lane[m][p][i].gen < generation /\ lane[m][p][i].gen # generation
          /\ \A i \in DOMAIN buffer[m] : buffer[m][i].gen < generation /\ buffer[m][i].gen # generation
        BY <2>2, <3>1, Numbers DEF QuietInv
    <3>3. QuietInv(m)'
        BY <1>1, <2>1, <2>2, <3>1, <3>2, Numbers DEF QuietInv
    <3>4. ~PositionCurrent(m)'
        BY <3>1 DEF PositionCurrent, Active
    <3>5. \A n \in Members : CurTask(n)'
        BY <2>1, <2>2, <3>3, <3>4, HoldsKeeps, UntouchedKeeps DEF Current
    <3>6. ASSUME NEW c \in commits, c.member \notin invited
          PROVE  (Awaited(c)' = Awaited(c))
                 /\ (Idle(c.member, c.partition)' = Idle(c.member, c.partition))
      <4>1. c.member \in Members /\ gen'[c.member] = gen[c.member]
          BY <3>1, <3>6 DEF TypeOK, Commits
      <4> QED BY <1>1, <2>1, <4>1, AwaitedStays DEF Idle
    <3>7. \A c \in commits' : CurCommit(c)'
        BY <1>1, <3>6, CommitsStay DEF CurCommit
    <3> QED BY <3>5, <3>7 DEF Current
  <2>4. CASE Synced(m)
    <3>1. gen[m] = generation /\ phase[m] = "syncing" /\ UNCHANGED <<gen, invited>>
          /\ ScheduleRefresh(m) /\ phase'[m] = "stable"
        BY <2>4 DEF Synced, TypeOK
    <3>2. QuietInv(m)'
      <4>1. /\ \A p \in Partitions : \A i \in DOMAIN lane[m][p] : lane[m][p][i].gen # generation
            /\ \A i \in DOMAIN buffer[m] : buffer[m][i].gen # generation
          BY <2>2, <3>1 DEF QuietInv
      <4>2. failing[m] => refresh'[m] = "none"
          BY <2>2, <3>1 DEF QuietInv, ScheduleRefresh
      <4> QED BY <1>1, <2>1, <2>2, <3>1, <4>1, <4>2 DEF QuietInv
    <3>3. PositionCurrent(m)' => \A p \in Partitions : position[m][p] = Unset
      <4>1. CASE failing[m]
          BY <2>2, <4>1 DEF QuietInv, NoPosition
      <4>2. CASE ~failing[m]
          BY <3>1, <4>2 DEF ScheduleRefresh, PositionCurrent, TypeOK
      <4> QED BY <4>1, <4>2
    <3> QED BY <1>1, <2>1, <2>2, <3>1, <3>2, <3>3, HoldsStep
  <2>5. CASE SyncRefused(m) \/ Invalidated(m)
    <3>1. /\ UNCHANGED <<gen, invited, refresh, pending>> /\ phase'[m] = "joining"
          /\ gen[m] = generation => phase[m] = "stable"
        BY <1>3, <2>5 DEF SyncRefused, Invalidated, TypeOK
    <3>2. QuietInv(m)'
        BY <1>1, <2>1, <2>2, <3>1 DEF QuietInv
    <3>3. PositionCurrent(m)' => PositionCurrent(m)
        BY <1>1, <3>1 DEF PositionCurrent, Active
    <3> QED BY <1>1, <2>1, <2>2, <3>1, <3>2, <3>3, HoldsStep
  <2> QED BY <2>3, <2>4, <2>5 DEF Protocol
<1> QED BY <1>2, <1>3

LEMMA ProduceCur ==
    ASSUME Known, NEW p \in Partitions, Produce(p) PROVE Current'
<1> USE DEF clientVars, streamVars, laneVars, Known
<1>1. (\A n \in Members : Untouched(n)) /\ UNCHANGED <<generation, committed, commits, invited>>
    BY DEF Produce, Untouched, Holds, Same
<1>2. \A c \in commits : c.member \in Members
    BY DEF TypeOK, Commits
<1>3. \A c \in commits : Awaited(c)' = Awaited(c)
                         /\ Idle(c.member, c.partition)' = Idle(c.member, c.partition)
    BY <1>1, <1>2, AwaitedStays DEF Idle, Untouched, Holds, Same
<1>4. \A c \in commits' : CurCommit(c)'
    BY <1>1, <1>3, CommitsStay
<1> QED BY <1>1, <1>4, UntouchedKeeps DEF Current

-----------------------------------------------------------------------------
(* The stream *)

\* k offsets more, from x on, are held.
LEMMA FollowsOn ==
    ASSUME NEW k \in Int, NEW x \in Int, NEW E, NEW F, NEW n \in Nat, Follows(k, x, E),
           Offsets \subseteq Int, F \subseteq Offsets,
           \A e \in Offsets : e \in F <=> e \in E \/ (x <= e /\ e < x + n)
    PROVE  Follows(k, x + n, F)
BY DEF Follows

LEMMA OffsetsAnsweredCur ==
    ASSUME Known, NEW m \in Members, OffsetsAnswered(m) PROVE Current'
<1> USE DEF brokerVars, clientVars, laneVars, Known
<1>1. /\ UNCHANGED <<generation, owner, committed, commits, invited, phase, gen, pending, fetch, buffer,
                     lane, step, failing>>
      /\ refresh[m] = "asked" /\ refresh'[m] = "answered"
      /\ \A n \in Members \ {m} : position'[n] = position[n] /\ refresh'[n] = refresh[n]
    BY DEF OffsetsAnswered, TypeOK
<1>2. \A n \in Members \ {m} : CurTask(n)'
  <2>1. \A n \in Members \ {m} : Untouched(n)
      BY <1>1 DEF Untouched, Holds, Same
  <2> QED BY <2>1, UntouchedKeeps DEF Current
<1>3. CurTask(m)
    BY DEF Current
<1>4. QuietInv(m)'
    BY <1>1, <1>3 DEF CurTask, QuietInv
<1>5. /\ \A p, i : LaneBefore(m, p, i)' = LaneBefore(m, p, i) /\ BufferBefore(m, p, i)' = BufferBefore(m, p, i)
      /\ \A p : LaneNow(m, p)' = LaneNow(m, p) /\ BufferNow(m, p)' = BufferNow(m, p)
    BY <1>1 DEF LaneBefore, BufferBefore, LaneNow, BufferNow
<1>6. CurLane(m)' /\ CurBuffer(m)'
    BY <1>1, <1>3, <1>5 DEF CurTask, CurLane, CurBuffer
<1>7. CurPosition(m)'
  <2> SUFFICES ASSUME PositionCurrent(m)', NEW p \in Partitions, position'[m][p] # Unset
               PROVE  /\ owner[p] = m
                      /\ Follows(committed[p], position'[m][p], LaneNow(m, p) \cup BufferNow(m, p))
      BY <1>1, <1>5 DEF CurPosition
  <2>1. Active(m) /\ gen[m] = generation
      BY <1>1 DEF PositionCurrent, Active
  <2>2. position'[m][p] = committed[p] /\ p \in assigned[m]
    <3>1. committed[p] # Unset
        BY DEF Safe, CommitInv
    <3>2. position'[m] = [q \in Partitions |->
              IF q \notin assigned[m] THEN Unset
              ELSE IF committed[q] = Unset THEN logEnd[q] ELSE committed[q]]
        BY DEF OffsetsAnswered, TypeOK
    <3> QED BY <3>1, <3>2
  <2>3. owner[p] = m
      BY <2>1, <2>2 DEF OwnInv, KnowsItsOwn
  <2>4. LaneNow(m, p) = {} /\ BufferNow(m, p) = {}
      BY <1>1, <1>3, <2>1 DEF CurTask, QuietInv, LaneNow, BufferNow
  <2>5. committed[p] \in Int
      BY GroupAssumption DEF TypeOK, Safe, CommitInv
  <2>6. \A e \in Offsets : ~(committed[p] <= e /\ e < committed[p])
      BY <2>5, Numbers
  <2> QED BY <2>2, <2>3, <2>4, <2>5, <2>6 DEF Follows
<1>8. \A c \in commits' : CurCommit(c)'
  <2>1. \A c \in commits : Awaited(c)' = Awaited(c)
                           /\ Idle(c.member, c.partition)' = Idle(c.member, c.partition)
      BY <1>1, AwaitedStays DEF Idle
  <2> QED BY <1>1, <2>1, CommitsStay
<1> QED BY <1>2, <1>4, <1>6, <1>7, <1>8 DEF Current, CurTask

LEMMA FetchedCur ==
    ASSUME Known, NEW m \in Members, NEW n \in 1 .. MaxOffset, FetchedCurrent(m, n) PROVE Current'
<1> USE DEF brokerVars, clientVars, laneVars, Known
<1>1. /\ UNCHANGED <<generation, owner, committed, commits, invited, phase, gen, refresh, pending,
                     lane, step, failing>>
      /\ Active(m) /\ refresh[m] = "none" /\ phase[m] # "syncing" /\ ~failing[m]
    BY DEF FetchedCurrent, Push, FetchCurrent, Safe, TasksInv, TaskInv, FetchInv, Current, CurTask, QuietInv
<1>2. PICK p \in Partitions, o \in 0 .. MaxOffset, L \in Nat : PushedTo(m, n, p, o, L)
    BY Pushed DEF Safe, TasksInv, TaskInv
<1>3. /\ position[m][p] = o /\ position'[m] = [position[m] EXCEPT ![p] = o + n]
      /\ position[m] \in [Partitions -> (0 .. MaxOffset) \cup {Unset}]
      /\ fetch'[m] = None /\ o \in Int /\ o # Unset /\ n \in Nat \ {0}
    BY <1>2, GroupAssumption DEF PushedTo
<1>4. /\ DOMAIN buffer[m] = 1 .. L /\ DOMAIN buffer'[m] = 1 .. (L + n)
      /\ \A i \in 1 .. L : buffer'[m][i] = buffer[m][i]
      /\ \A i \in 1 .. n : /\ buffer'[m][L + i].partition = p
                           /\ buffer'[m][L + i].offset = o + i - 1
                           /\ buffer'[m][L + i].gen = gen[m]
  <2>1. ASSUME NEW i \in 1 .. n
        PROVE  /\ buffer'[m][L + i].partition = p /\ buffer'[m][L + i].offset = o + i - 1
               /\ buffer'[m][L + i].gen = gen[m]
    <3>1. buffer'[m][L + i] = [partition |-> p, offset |-> o + i - 1, gen |-> gen[m]]
        BY <1>2 DEF PushedTo
    <3> QED BY <3>1
  <2>2. /\ DOMAIN buffer[m] = 1 .. L /\ DOMAIN buffer'[m] = 1 .. (L + n)
        /\ \A i \in 1 .. L : buffer'[m][i] = buffer[m][i]
      BY <1>2 DEF PushedTo
  <2> QED BY <2>1, <2>2
<1>5. \A i \in 1 .. (L + n) : i \in 1 .. L \/ \E k \in 1 .. n : i = L + k
  <2> SUFFICES ASSUME NEW i \in 1 .. (L + n), i \notin 1 .. L PROVE \E k \in 1 .. n : i = L + k
      OBVIOUS
  <2>1. i - L \in 1 .. n /\ i = L + (i - L)
      BY <1>3
  <2> QED BY <2>1
<1>6. CurTask(m)
    BY DEF Current
<1>7. QuietInv(m)'
  <2>1. gen[m] <= gen[m]
      BY Numbers
  <2>2. ASSUME NEW i \in DOMAIN buffer'[m] PROVE buffer'[m][i].gen <= gen[m]
    <3>1. CASE i \in 1 .. L
        BY <1>4, <1>6, <3>1 DEF CurTask, QuietInv
    <3>2. CASE \E k \in 1 .. n : i = L + k
        BY <1>4, <2>1, <3>2
    <3> QED BY <1>4, <1>5, <3>1, <3>2
  <2> QED BY <1>1, <1>6, <2>2 DEF CurTask, QuietInv
<1>8. CurLane(m)'
  <2>1. \A q, i : LaneBefore(m, q, i)' = LaneBefore(m, q, i)
      BY <1>1 DEF LaneBefore
  <2> QED BY <1>1, <1>6, <2>1 DEF CurTask, CurLane
<1>9. \A q : LaneNow(m, q)' = LaneNow(m, q)
    BY <1>1 DEF LaneNow
\* What precedes a place in the longer buffer.
<1>10. ASSUME NEW q \in Partitions, NEW i \in 1 .. L
       PROVE  BufferBefore(m, q, i)' = BufferBefore(m, q, i)
  <2>1. \A j \in 1 .. (L + n) : j < i => j \in 1 .. L
      BY <1>3
  <2>2. \A j \in 1 .. L : j \in 1 .. (L + n)
      BY <1>3
  <2> QED BY <1>1, <1>4, <2>1, <2>2 DEF BufferBefore
<1>11. ASSUME gen[m] = generation, NEW k \in 1 .. (n + 1), NEW e \in Offsets
       PROVE  (\E j \in DOMAIN buffer'[m] : /\ j < L + k
                                            /\ buffer'[m][j].partition = p
                                            /\ buffer'[m][j].gen = generation
                                            /\ buffer'[m][j].offset = e)
              <=> e \in BufferNow(m, p) \/ (o <= e /\ e < o + (k - 1))
  <2>1. ASSUME NEW j \in DOMAIN buffer'[m], j < L + k, buffer'[m][j].partition = p,
               buffer'[m][j].gen = generation, buffer'[m][j].offset = e
        PROVE  e \in BufferNow(m, p) \/ (o <= e /\ e < o + (k - 1))
    <3>1. CASE j \in 1 .. L
        BY <1>4, <2>1, <3>1 DEF BufferNow
    <3>2. ASSUME NEW h \in 1 .. n, j = L + h PROVE o <= e /\ e < o + (k - 1)
      <4>1. e = o + h - 1
          BY <1>4, <2>1, <3>2
      <4>2. h < k
          BY <2>1, <3>2
      <4> QED BY <1>3, <4>1, <4>2
    <3> QED BY <1>4, <1>5, <3>1, <3>2
  <2>2. ASSUME e \in BufferNow(m, p)
        PROVE  \E j \in DOMAIN buffer'[m] : /\ j < L + k
                                            /\ buffer'[m][j].partition = p
                                            /\ buffer'[m][j].gen = generation
                                            /\ buffer'[m][j].offset = e
    <3>1. PICK j \in 1 .. L : buffer[m][j].partition = p /\ buffer[m][j].gen = generation
                              /\ buffer[m][j].offset = e
        BY <1>4, <2>2 DEF BufferNow
    <3>2. j \in 1 .. (L + n) /\ j < L + k
        BY <1>3
    <3> QED BY <1>4, <3>1, <3>2
  <2>3. ASSUME o <= e, e < o + (k - 1)
        PROVE  \E j \in DOMAIN buffer'[m] : /\ j < L + k
                                            /\ buffer'[m][j].partition = p
                                            /\ buffer'[m][j].gen = generation
                                            /\ buffer'[m][j].offset = e
    <3> DEFINE h == e - o + 1
    <3>1. h \in 1 .. n /\ h < k /\ o + h - 1 = e
        BY <1>3, <2>3, Numbers
    <3> HIDE DEF h
    <3>2. L + h \in 1 .. (L + n) /\ L + h < L + k
        BY <1>3, <3>1
    <3>3. /\ buffer'[m][L + h].partition = p /\ buffer'[m][L + h].offset = o + h - 1
          /\ buffer'[m][L + h].gen = gen[m]
        BY <1>4, <3>1
    <3> QED BY <1>4, <1>11, <3>1, <3>2, <3>3
  <2> QED BY <2>1, <2>2, <2>3
\* The position was current, so what is pushed follows what is held.
<1>12. gen[m] = generation =>
          /\ owner[p] = m /\ Follows(committed[p], o, LaneNow(m, p) \cup BufferNow(m, p))
          /\ committed[p] \in Int
  <2>1. gen[m] = generation => PositionCurrent(m)
      BY <1>1 DEF PositionCurrent
  <2>2. committed[p] \in Int
      BY GroupAssumption DEF TypeOK, Safe, CommitInv
  <2> QED BY <1>3, <1>6, <2>1, <2>2 DEF CurTask, CurPosition
<1>13. CurBuffer(m)'
  <2> SUFFICES ASSUME NEW i \in DOMAIN buffer'[m], NEW q \in Partitions,
                      buffer'[m][i].gen = generation, buffer'[m][i].partition = q
               PROVE  /\ owner[q] = m
                      /\ Follows(committed[q], buffer'[m][i].offset,
                                 LaneNow(m, q) \cup BufferBefore(m, q, i)')
      BY <1>1, <1>9 DEF CurBuffer
  <2>1. CASE i \in 1 .. L
      BY <1>4, <1>6, <1>10, <2>1 DEF CurTask, CurBuffer
  <2>2. ASSUME NEW k \in 1 .. n, i = L + k
        PROVE  /\ owner[q] = m
               /\ Follows(committed[q], buffer'[m][i].offset,
                          LaneNow(m, q) \cup BufferBefore(m, q, i)')
    <3>1. /\ buffer'[m][i].partition = p /\ buffer'[m][i].offset = o + k - 1
          /\ buffer'[m][i].gen = gen[m]
        BY <1>4, <2>2
    <3>2. q = p /\ gen[m] = generation /\ buffer'[m][i].offset = o + (k - 1)
        BY <1>3, <3>1
    <3>3. k \in 1 .. (n + 1) /\ k - 1 \in Nat
        BY <1>3
    <3> DEFINE F == LaneNow(m, p) \cup BufferBefore(m, p, i)'
    <3>4. \A e \in Offsets : e \in F <=>
              e \in LaneNow(m, p) \cup BufferNow(m, p) \/ (o <= e /\ e < o + (k - 1))
      <4> SUFFICES ASSUME NEW e \in Offsets
                   PROVE  e \in BufferBefore(m, p, i)' <=>
                              e \in BufferNow(m, p) \/ (o <= e /\ e < o + (k - 1))
          OBVIOUS
      <4>1. e \in BufferBefore(m, p, i)' <=>
                \E j \in DOMAIN buffer'[m] : /\ j < L + k
                                             /\ buffer'[m][j].partition = p
                                             /\ buffer'[m][j].gen = generation
                                             /\ buffer'[m][j].offset = e
          BY <1>1, <2>2 DEF BufferBefore
      <4> QED BY <1>11, <3>2, <3>3, <4>1
    <3>5. F \subseteq Offsets
        BY DEF LaneNow, BufferBefore
    <3> HIDE DEF F
    <3>6. Follows(committed[p], o + (k - 1), F)
        BY <1>3, <1>12, <3>2, <3>3, <3>4, <3>5, FollowsOn, Numbers
    <3> QED BY <1>12, <3>2, <3>6 DEF F
  <2> QED BY <1>4, <1>5, <2>1, <2>2
<1>14. CurPosition(m)'
  <2> SUFFICES ASSUME PositionCurrent(m)', NEW q \in Partitions, position'[m][q] # Unset
               PROVE  /\ owner[q] = m
                      /\ Follows(committed[q], position'[m][q], LaneNow(m, q) \cup BufferNow(m, q)')
      BY <1>1, <1>9 DEF CurPosition
  <2>1. gen[m] = generation /\ PositionCurrent(m)
      BY <1>1 DEF PositionCurrent, Active
  <2>2. CASE q = p
    <3> DEFINE F == LaneNow(m, p) \cup BufferNow(m, p)'
    <3>0. n + 1 \in 1 .. (n + 1) /\ (n + 1) - 1 = n /\ \A j \in 1 .. (L + n) : j < L + (n + 1)
        BY <1>3
    <3>1. \A e \in Offsets : e \in F <=>
              e \in LaneNow(m, p) \cup BufferNow(m, p) \/ (o <= e /\ e < o + n)
      <4> SUFFICES ASSUME NEW e \in Offsets
                   PROVE  e \in BufferNow(m, p)' <=>
                              e \in BufferNow(m, p) \/ (o <= e /\ e < o + n)
          OBVIOUS
      <4>1. e \in BufferNow(m, p)' <=>
                \E j \in DOMAIN buffer'[m] : /\ j < L + (n + 1)
                                             /\ buffer'[m][j].partition = p
                                             /\ buffer'[m][j].gen = generation
                                             /\ buffer'[m][j].offset = e
          BY <1>1, <1>4, <3>0 DEF BufferNow
      <4>2. e \in BufferNow(m, p)' <=> e \in BufferNow(m, p) \/ (o <= e /\ e < o + ((n + 1) - 1))
          BY <1>11, <2>1, <3>0, <4>1
      <4> QED BY <3>0, <4>2
    <3>2. F \subseteq Offsets
        BY DEF LaneNow, BufferNow
    <3> HIDE DEF F
    <3>3. Follows(committed[p], o + n, F)
        BY <1>3, <1>12, <2>1, <3>1, <3>2, FollowsOn, Numbers
    <3>4. position'[m][q] = o + n
        BY <1>3, <2>2
    <3> QED BY <1>12, <2>1, <2>2, <3>3, <3>4 DEF F
  <2>3. CASE q # p
    <3>1. position'[m][q] = position[m][q]
        BY <1>3, <2>3
    <3>2. \A j \in 1 .. n : buffer'[m][L + j].partition # q
        BY <1>4, <2>3
    <3>3. \A j \in 1 .. L : j \in 1 .. (L + n)
        BY <1>3
    <3>4. BufferNow(m, q)' = BufferNow(m, q)
      <4>1. ASSUME NEW e PROVE e \in BufferNow(m, q)' <=> e \in BufferNow(m, q)
        <5>1. ASSUME e \in BufferNow(m, q)' PROVE e \in BufferNow(m, q)
          <6>1. PICK j \in 1 .. (L + n) : buffer'[m][j].partition = q /\ buffer'[m][j].gen = generation
                                         /\ buffer'[m][j].offset = e
              BY <1>1, <1>4, <5>1 DEF BufferNow
          <6>2. j \in 1 .. L
              BY <1>5, <3>2, <6>1
          <6> QED BY <1>4, <5>1, <6>1, <6>2 DEF BufferNow
        <5>2. ASSUME e \in BufferNow(m, q) PROVE e \in BufferNow(m, q)'
            BY <1>1, <1>4, <3>3, <5>2 DEF BufferNow
        <5> QED BY <5>1, <5>2
      <4> QED BY <4>1
    <3> QED BY <1>6, <2>1, <3>1, <3>4 DEF CurTask, CurPosition
  <2> QED BY <2>2, <2>3
<1>15. \A k \in Members \ {m} : CurTask(k)'
  <2>1. \A k \in Members \ {m} : Untouched(k)
      BY <1>1 DEF FetchedCurrent, Push, Untouched, Holds, Same, TypeOK
  <2> QED BY <2>1, UntouchedKeeps DEF Current
<1>16. \A c \in commits' : CurCommit(c)'
  <2>1. \A c \in commits : Awaited(c)' = Awaited(c)
                           /\ Idle(c.member, c.partition)' = Idle(c.member, c.partition)
      BY <1>1, AwaitedStays DEF Idle
  <2> QED BY <1>1, <2>1, CommitsStay
<1> QED BY <1>7, <1>8, <1>13, <1>14, <1>15, <1>16 DEF Current, CurTask

LEMMA StreamCur ==
    ASSUME Known, NEW m \in Members, Stream(m) PROVE Current'
<1> USE DEF brokerVars, clientVars, streamVars, laneVars, Known
<1>1. CASE Refreshed(m) /\ Fail(m, {})
  <2>1. UNCHANGED <<generation, owner, invited, committed, gen, phase, commits>>
      BY <1>1 DEF Refreshed
  <2> QED BY <1>1, <2>1, FailStepCur
<1>2. CASE (Refreshed(m) /\ ~Fail(m, {})) \/ FetchedNothing(m) \/ \E p \in Partitions : Fetch(m, p)
  <2>1. /\ UNCHANGED <<generation, owner, invited, committed, gen, phase, commits, failing,
                       position, buffer, lane, step>>
        /\ \A n \in Members \ {m} : Untouched(n)
      BY <1>2 DEF Refreshed, FetchedNothing, Fetch, Untouched, Holds, Same, TypeOK
  <2>2. Holds(m) /\ QuietInv(m)
      BY <2>1 DEF Holds, Current, CurTask
  <2>3. CASE Refreshed(m) /\ ~Fail(m, {})
    <3>1. /\ refresh[m] = "answered" /\ UNCHANGED fetch
          /\ (refresh'[m] = "none" /\ ~pending[m]) \/ refresh'[m] = "asked"
        BY <2>3 DEF Refreshed, TypeOK
    <3>2. QuietInv(m)'
        BY <2>1, <2>2, <3>1 DEF QuietInv
    <3>3. PositionCurrent(m)' => PositionCurrent(m)
        BY <2>1, <3>1 DEF PositionCurrent, Active
    <3> QED BY <2>1, <2>2, <3>2, <3>3, HoldsStep
  <2>4. CASE FetchedNothing(m)
    <3>1. fetch'[m] = None /\ UNCHANGED <<refresh, pending>>
        BY <2>4 DEF FetchedNothing, TypeOK
    <3>2. QuietInv(m)'
        BY <2>1, <2>2, <3>1 DEF QuietInv
    <3>3. PositionCurrent(m)' => PositionCurrent(m)
        BY <2>1, <3>1 DEF PositionCurrent, Active
    <3> QED BY <2>1, <2>2, <3>2, <3>3, HoldsStep
  <2>5. CASE \E p \in Partitions : Fetch(m, p)
    <3>1. UNCHANGED <<refresh, pending>> /\ \E p \in Partitions : position[m][p] # Unset
        BY <2>5 DEF Fetch
    <3>2. ~failing[m]
        BY <2>2, <3>1 DEF QuietInv, NoPosition
    <3>3. QuietInv(m)'
        BY <2>1, <2>2, <3>1, <3>2 DEF QuietInv
    <3>4. PositionCurrent(m)' => PositionCurrent(m)
        BY <2>1, <3>1 DEF PositionCurrent, Active
    <3> QED BY <2>1, <2>2, <3>3, <3>4, HoldsStep
  <2> QED BY <1>2, <2>3, <2>4, <2>5
<1> QED BY <1>1, <1>2, OffsetsAnsweredCur, FetchedCur DEF Stream

-----------------------------------------------------------------------------
(* The lanes *)

LEMMA AdmitCur ==
    ASSUME Known, NEW m \in Members, Admit(m) PROVE Current'
<1> USE DEF brokerVars, clientVars, streamVars, laneVars, Known
<1>1. UNCHANGED <<generation, owner, invited, commits, committed, gen, phase>>
    BY DEF Admit
<1>2. CASE Fail(m, {})
    BY <1>1, <1>2, FailStepCur
<1>3. CASE ~Fail(m, {})
  <2>0. PICK p \in Partitions, L \in Nat, B \in Nat \ {0} : AdmittedTo(m, p, L, B)
      BY <1>3, AdmitShape
  <2>1. /\ UNCHANGED <<position, refresh, pending, fetch, step, failing>>
        /\ \A n \in Members \ {m} : lane'[n] = lane[n] /\ buffer'[n] = buffer[n]
      BY <1>3, AdmitShape
  <2> DEFINE r == buffer[m][1]
  <2>2. /\ DOMAIN lane[m][p] = 1 .. L /\ DOMAIN lane'[m][p] = 1 .. (L + 1)
        /\ \A i \in 1 .. L : lane'[m][p][i] = lane[m][p][i]
        /\ lane'[m][p][L + 1].offset = r.offset /\ lane'[m][p][L + 1].gen = gen[m]
        /\ \A q \in Partitions \ {p} : lane'[m][q] = lane[m][q]
      BY <2>0 DEF AdmittedTo
  <2>3. /\ DOMAIN buffer[m] = 1 .. B /\ DOMAIN buffer'[m] = 1 .. (B - 1)
        /\ \A i \in 1 .. (B - 1) : buffer'[m][i] = buffer[m][i + 1]
        /\ r.partition = p /\ r.gen = gen[m] /\ Captures(m, r)
      BY <2>0 DEF AdmittedTo
  <2>4. Active(m) /\ valid[m] /\ p \in assigned[m] /\ buffer[m] # <<>> /\ ~failing[m]
      BY <2>3 DEF Captures, SnapshotCurrent, Admit, Current, CurTask, QuietInv
  <2>5. r.offset \in Offsets /\ r.partition = p /\ 1 \in 1 .. B
    <3>1. 1 \in DOMAIN buffer[m]
        BY <2>3
    <3> QED BY <2>3, <3>1, Numbers
  <2> HIDE DEF r
  <2>6. CurTask(m)
      BY DEF Current
  <2>7. \A i \in 1 .. (L + 1) : i \in 1 .. L \/ i = L + 1
      OBVIOUS
  <2>8. \A i \in 1 .. L : i \in 1 .. (L + 1) /\ i < L + 1
      OBVIOUS
  \* The record moves from one end of what is held to the other.
  <2>9. ASSUME NEW q \in Partitions
        PROVE  /\ q # p => LaneNow(m, q)' = LaneNow(m, q)
               /\ \A e \in Offsets : e \in LaneNow(m, p)' <=>
                      e \in LaneNow(m, p) \/ (gen[m] = generation /\ e = r.offset)
    <3>1. q # p => LaneNow(m, q)' = LaneNow(m, q)
        BY <1>1, <2>2 DEF LaneNow
    <3>2. ASSUME NEW e \in Offsets, e \in LaneNow(m, p)'
          PROVE  e \in LaneNow(m, p) \/ (gen[m] = generation /\ e = r.offset)
      <4>1. PICK j \in 1 .. (L + 1) : lane'[m][p][j].gen = generation /\ lane'[m][p][j].offset = e
          BY <1>1, <2>2, <3>2 DEF LaneNow
      <4>2. CASE j \in 1 .. L
          BY <2>2, <4>1, <4>2 DEF LaneNow
      <4>3. CASE j = L + 1
          BY <2>2, <4>1, <4>3
      <4> QED BY <2>7, <4>2, <4>3
    <3>3. ASSUME NEW e \in Offsets, e \in LaneNow(m, p) \/ (gen[m] = generation /\ e = r.offset)
          PROVE  e \in LaneNow(m, p)'
      <4>1. CASE e \in LaneNow(m, p)
          BY <1>1, <2>2, <2>8, <4>1 DEF LaneNow
      <4>2. CASE gen[m] = generation /\ e = r.offset
        <5>1. L + 1 \in 1 .. (L + 1)
            OBVIOUS
        <5> QED BY <1>1, <2>2, <4>2, <5>1 DEF LaneNow
      <4> QED BY <3>3, <4>1, <4>2
    <3> QED BY <3>1, <3>2, <3>3
  <2>10. ASSUME NEW q \in Partitions, NEW i \in 1 .. (B - 1), NEW e \in Offsets
         PROVE  e \in BufferBefore(m, q, i + 1) <=>
                    e \in BufferBefore(m, q, i)' \/ (q = p /\ gen[m] = generation /\ e = r.offset)
    <3>1. ASSUME e \in BufferBefore(m, q, i + 1)
          PROVE  e \in BufferBefore(m, q, i)' \/ (q = p /\ gen[m] = generation /\ e = r.offset)
      <4>1. PICK j \in 1 .. B : /\ j < i + 1 /\ buffer[m][j].partition = q
                                /\ buffer[m][j].gen = generation /\ buffer[m][j].offset = e
          BY <2>3, <3>1 DEF BufferBefore
      <4>2. CASE j = 1
          BY <2>3, <4>1, <4>2 DEF r
      <4>3. CASE j # 1
        <5>1. j - 1 \in 1 .. (B - 1) /\ (j - 1) + 1 = j /\ j - 1 < i
            BY <4>1, <4>3
        <5> QED BY <1>1, <2>3, <4>1, <5>1 DEF BufferBefore
      <4> QED BY <4>2, <4>3
    <3>2. ASSUME e \in BufferBefore(m, q, i)'
          PROVE  e \in BufferBefore(m, q, i + 1)
      <4>1. PICK j \in 1 .. (B - 1) : /\ j < i /\ buffer'[m][j].partition = q
                                      /\ buffer'[m][j].gen = generation /\ buffer'[m][j].offset = e
          BY <1>1, <2>3, <3>2 DEF BufferBefore
      <4>2. j + 1 \in 1 .. B /\ j + 1 < i + 1
          BY <4>1
      <4> QED BY <2>3, <4>1, <4>2 DEF BufferBefore
    <3>3. ASSUME q = p, gen[m] = generation, e = r.offset
          PROVE  e \in BufferBefore(m, q, i + 1)
      <4>1. 1 < i + 1
          OBVIOUS
      <4> QED BY <2>3, <2>5, <3>3, <4>1 DEF BufferBefore, r
    <3> QED BY <3>1, <3>2, <3>3
  <2>11. ASSUME NEW q \in Partitions, NEW e \in Offsets
         PROVE  e \in BufferNow(m, q) <=>
                    e \in BufferNow(m, q)' \/ (q = p /\ gen[m] = generation /\ e = r.offset)
    <3>1. ASSUME e \in BufferNow(m, q)
          PROVE  e \in BufferNow(m, q)' \/ (q = p /\ gen[m] = generation /\ e = r.offset)
      <4>1. PICK j \in 1 .. B : /\ buffer[m][j].partition = q
                                /\ buffer[m][j].gen = generation /\ buffer[m][j].offset = e
          BY <2>3, <3>1 DEF BufferNow
      <4>2. CASE j = 1
          BY <2>3, <4>1, <4>2 DEF r
      <4>3. CASE j # 1
        <5>1. j - 1 \in 1 .. (B - 1) /\ (j - 1) + 1 = j
            BY <4>1, <4>3
        <5> QED BY <1>1, <2>3, <4>1, <5>1 DEF BufferNow
      <4> QED BY <4>2, <4>3
    <3>2. ASSUME e \in BufferNow(m, q)' PROVE e \in BufferNow(m, q)
      <4>1. PICK j \in 1 .. (B - 1) : /\ buffer'[m][j].partition = q
                                      /\ buffer'[m][j].gen = generation /\ buffer'[m][j].offset = e
          BY <1>1, <2>3, <3>2 DEF BufferNow
      <4>2. j + 1 \in 1 .. B
          BY <4>1
      <4> QED BY <2>3, <4>1, <4>2 DEF BufferNow
    <3>3. ASSUME q = p, gen[m] = generation, e = r.offset PROVE e \in BufferNow(m, q)
        BY <2>3, <2>5, <3>3 DEF BufferNow, r
    <3> QED BY <3>1, <3>2, <3>3
  \* Together nothing changes.
  <2>12. ASSUME NEW q \in Partitions
         PROVE  /\ (LaneNow(m, q) \cup BufferNow(m, q))' = LaneNow(m, q) \cup BufferNow(m, q)
                /\ \A i \in 1 .. (B - 1) :
                      (LaneNow(m, q) \cup BufferBefore(m, q, i))' =
                          LaneNow(m, q) \cup BufferBefore(m, q, i + 1)
    <3>1. /\ LaneNow(m, q) \subseteq Offsets /\ BufferNow(m, q) \subseteq Offsets
          /\ LaneNow(m, q)' \subseteq Offsets /\ BufferNow(m, q)' \subseteq Offsets
          /\ \A i : BufferBefore(m, q, i) \subseteq Offsets /\ BufferBefore(m, q, i)' \subseteq Offsets
        BY DEF LaneNow, BufferNow, BufferBefore
    <3>2. \A e \in Offsets : e \in LaneNow(m, q)' <=>
              e \in LaneNow(m, q) \/ (q = p /\ gen[m] = generation /\ e = r.offset)
        BY <2>9
    <3> QED BY <2>10, <2>11, <3>1, <3>2
  <2>13. CurLane(m)'
    <3> SUFFICES ASSUME NEW q \in Partitions, NEW i \in DOMAIN lane'[m][q],
                        lane'[m][q][i].gen = generation
                 PROVE  /\ owner[q] = m
                        /\ i # 1 \/ step[m][q] # "sent" =>
                              Follows(committed[q], lane'[m][q][i].offset, LaneBefore(m, q, i)')
        BY <1>1, <2>1 DEF CurLane
    <3>1. CASE q # p
      <4>1. LaneBefore(m, q, i)' = LaneBefore(m, q, i)
          BY <1>1, <2>2, <3>1 DEF LaneBefore
      <4> QED BY <2>2, <2>6, <3>1, <4>1 DEF CurTask, CurLane
    <3>2. CASE q = p /\ i \in 1 .. L
      <4>1. \A j \in 1 .. (L + 1) : j < i => j \in 1 .. L
          BY <3>2
      <4>2. LaneBefore(m, q, i)' = LaneBefore(m, q, i)
          BY <1>1, <2>2, <2>8, <3>2, <4>1 DEF LaneBefore
      <4> QED BY <2>2, <2>6, <3>2, <4>2 DEF CurTask, CurLane
    <3>3. CASE q = p /\ i = L + 1
      <4>1. gen[m] = generation /\ lane'[m][q][i].offset = r.offset
          BY <2>2, <3>3
      <4>2. \A j \in 1 .. (L + 1) : j < i <=> j \in 1 .. L
          BY <3>3
      <4>3. LaneBefore(m, q, i)' = LaneNow(m, p)
          BY <1>1, <2>2, <2>8, <3>3, <4>2 DEF LaneBefore, LaneNow
      <4>4. BufferBefore(m, p, 1) = {}
        <5>1. \A j \in 1 .. B : ~(j < 1)
            OBVIOUS
        <5> QED BY <2>3, <5>1 DEF BufferBefore
      <4>5. owner[p] = m /\ Follows(committed[p], r.offset, LaneNow(m, p) \cup BufferBefore(m, p, 1))
          BY <2>3, <2>5, <2>6, <4>1 DEF CurTask, CurBuffer, r
      <4>6. LaneNow(m, p) \cup BufferBefore(m, p, 1) = LaneNow(m, p)
          BY <4>4
      <4> QED BY <3>3, <4>1, <4>3, <4>5, <4>6
    <3> QED BY <2>2, <2>7, <3>1, <3>2, <3>3
  <2>14. CurBuffer(m)'
    <3> SUFFICES ASSUME NEW i \in DOMAIN buffer'[m], NEW q \in Partitions,
                        buffer'[m][i].gen = generation, buffer'[m][i].partition = q
                 PROVE  /\ owner[q] = m
                        /\ Follows(committed[q], buffer'[m][i].offset,
                                   (LaneNow(m, q) \cup BufferBefore(m, q, i))')
        BY <1>1 DEF CurBuffer
    <3>1. i \in 1 .. (B - 1) /\ i + 1 \in 1 .. B /\ buffer'[m][i] = buffer[m][i + 1]
        BY <2>3
    <3> QED BY <2>3, <2>6, <2>12, <3>1 DEF CurTask, CurBuffer
  <2>15. CurPosition(m)'
    <3>1. PositionCurrent(m)' => PositionCurrent(m)
        BY <1>1, <2>1 DEF PositionCurrent, Active
    <3> QED BY <1>1, <2>1, <2>6, <2>12, <3>1 DEF CurTask, CurPosition
  <2>16. QuietInv(m)'
    <3>1. gen[m] <= gen[m] /\ r.gen = gen[m]
        BY <2>3, Numbers
    <3>2. ASSUME NEW q \in Partitions, NEW i \in DOMAIN lane'[m][q]
          PROVE  /\ lane'[m][q][i].gen <= gen[m]
                 /\ lane'[m][q][i].gen = gen[m] \/ \E j \in DOMAIN lane[m][q] : lane[m][q][j] = lane'[m][q][i]
      <4>1. (q = p /\ i = L + 1) \/ (i \in DOMAIN lane[m][q] /\ lane'[m][q][i] = lane[m][q][i])
          BY <2>2, <2>7
      <4> QED BY <2>2, <2>6, <3>1, <4>1 DEF CurTask, QuietInv
    <3>3. ASSUME NEW i \in DOMAIN buffer'[m]
          PROVE  \E j \in DOMAIN buffer[m] : buffer'[m][i] = buffer[m][j]
      <4>1. i + 1 \in 1 .. B /\ buffer'[m][i] = buffer[m][i + 1]
          BY <2>3
      <4> QED BY <2>3, <4>1
    <3>4. gen[m] = generation => refresh[m] = "none" /\ phase[m] # "syncing"
        BY <2>3, <2>5, <2>6, <3>1 DEF CurTask, QuietInv, r
    <3> QED BY <1>1, <2>1, <2>4, <2>6, <3>2, <3>3, <3>4 DEF CurTask, QuietInv
  <2>17. \A n \in Members \ {m} : CurTask(n)'
    <3>1. \A n \in Members \ {m} : Untouched(n)
        BY <1>1, <2>1 DEF Untouched, Holds, Same
    <3> QED BY <3>1, UntouchedKeeps DEF Current
  <2>18. \A c \in commits' : CurCommit(c)'
    <3>1. ASSUME NEW c \in commits, Awaited(c) \/ Idle(c.member, c.partition)
          PROVE  (Awaited(c) \/ Idle(c.member, c.partition))'
      <4>0. c.member \in Members /\ c.partition \in Partitions
          BY DEF TypeOK, Commits
      <4>1. CASE c.member # m \/ c.partition # p
        <5>1. lane'[c.member][c.partition] = lane[c.member][c.partition]
            BY <2>1, <2>2, <4>0, <4>1
        <5> QED BY <1>1, <2>1, <3>1, <5>1, AwaitedStays DEF Idle
      <4>2. CASE c.member = m /\ c.partition = p /\ Awaited(c)
        <5>1. lane[m][p] # <<>> /\ lane[m][p] \in Seq(Admitted) /\ lane'[m][p] \in Seq(Admitted)
            BY <2>0, <4>2 DEF Awaited, At, AdmittedTo
        <5>2. 1 \in 1 .. L /\ First(m, p) = lane[m][p][1]
            BY <2>2, <5>1 DEF First
        <5>3. lane'[m][p] # <<>> /\ First(m, p)' = lane'[m][p][1]
            BY <2>2, <5>1, <5>2 DEF First
        <5>4. First(m, p)' = First(m, p)
            BY <2>2, <5>2, <5>3
        <5> QED BY <2>1, <4>2, <5>3, <5>4 DEF Awaited, At, CommitOf
      <4>3. CASE c.member = m /\ Idle(c.member, c.partition)
          BY <1>1, <2>4, <4>3 DEF Idle
      <4> QED BY <3>1, <4>1, <4>2, <4>3
    <3> QED BY <1>1, <3>1, CommitsStay
  <2> QED BY <2>13, <2>14, <2>15, <2>16, <2>17, <2>18 DEF Current, CurTask
<1> QED BY <1>2, <1>3

\* What a task of the current generation works on is the next to commit.
LEMMA FrontNext ==
    ASSUME Known, NEW m \in Members, NEW p \in Partitions, lane[m][p] # <<>>, step[m][p] # "sent",
           First(m, p).gen = generation
    PROVE  First(m, p).offset = committed[p] /\ committed[p] \in Int
<1> USE DEF Known
<1>1. lane[m][p] \in Seq(Admitted)
    BY DEF TypeOK
<1>2. 1 \in DOMAIN lane[m][p] /\ First(m, p) = lane[m][p][1] /\ \A j \in DOMAIN lane[m][p] : ~(j < 1)
    BY <1>1 DEF First
<1>3. LaneBefore(m, p, 1) = {}
    BY <1>2 DEF LaneBefore
<1>4. Follows(committed[p], First(m, p).offset, {})
  <2>1. CurLane(m) /\ lane[m][p][1].gen = generation
      BY <1>2 DEF Current, CurTask
  <2>2. Follows(committed[p], lane[m][p][1].offset, LaneBefore(m, p, 1))
      BY <1>2, <2>1 DEF CurLane
  <2> QED BY <1>2, <1>3, <2>2
<1>5. committed[p] \in 0 .. MaxOffset /\ First(m, p).offset \in Offsets
    BY <1>2, Numbers DEF TypeOK, Safe, CommitInv
<1>6. committed[p] < First(m, p).offset => committed[p] \in Offsets
    BY <1>5, GroupAssumption DEF Offsets
<1> QED BY <1>4, <1>5, <1>6, GroupAssumption DEF Follows, Offsets

\* The record at the front of a lane moves on.
LEMMA GoCur ==
    ASSUME Known, NEW m \in Members, NEW p \in Partitions, NEW s \in Steps, lane[m][p] # <<>>,
           step[m][p] # "sent", Go(m, p, s), UNCHANGED <<generation, owner, invited, committed, gen, phase>>,
           \/ commits' = commits
           \/ /\ s = "sent" /\ First(m, p).gen = gen[m] /\ gen[m] # 0
              /\ commits' = commits \cup {CommitOf(m, p, First(m, p).gen)}
    PROVE  Current'
<1> USE DEF streamVars, Known
<1>1. /\ UNCHANGED <<lane, position, refresh, pending, fetch, buffer, failing>>
      /\ step' = [step EXCEPT ![m][p] = s]
    BY DEF Go
<1>2. /\ step'[m][p] = s /\ \A q \in Partitions \ {p} : step'[m][q] = step[m][q]
      /\ \A n \in Members \ {m} : step'[n] = step[n]
    BY <1>1 DEF TypeOK
<1>3. \A n \in Members \ {m} : CurTask(n)'
  <2>1. \A n \in Members \ {m} : Untouched(n)
      BY <1>1, <1>2 DEF Untouched, Holds, Same
  <2> QED BY <2>1, UntouchedKeeps DEF Current
<1>4. CurTask(m)'
  <2>0. CurTask(m)
      BY DEF Current
  <2>1. /\ \A q, i : LaneBefore(m, q, i)' = LaneBefore(m, q, i) /\ BufferBefore(m, q, i)' = BufferBefore(m, q, i)
        /\ \A q : LaneNow(m, q)' = LaneNow(m, q) /\ BufferNow(m, q)' = BufferNow(m, q)
      BY <1>1 DEF LaneBefore, BufferBefore, LaneNow, BufferNow
  <2>2. CurLane(m)'
      BY <1>1, <1>2, <2>0, <2>1 DEF CurTask, CurLane
  <2>3. CurBuffer(m)'
      BY <1>1, <2>0, <2>1 DEF CurTask, CurBuffer
  <2>4. CurPosition(m)'
      BY <1>1, <2>0, <2>1 DEF CurTask, CurPosition, PositionCurrent, Active
  <2>5. QuietInv(m)'
      BY <1>1, <2>0 DEF CurTask, QuietInv
  <2> QED BY <2>2, <2>3, <2>4, <2>5 DEF CurTask
<1>5. ASSUME NEW c \in commits PROVE CurCommit(c)'
  <2>1. Awaited(c) \/ Idle(c.member, c.partition) => (Awaited(c) \/ Idle(c.member, c.partition))'
    <3>0. c.member \in Members /\ c.partition \in Partitions
        BY DEF TypeOK, Commits
    <3>1. CASE c.member # m \/ c.partition # p
      <4>1. step'[c.member][c.partition] = step[c.member][c.partition]
          BY <1>2, <3>0, <3>1
      <4> QED BY <1>1, <4>1, AwaitedStays DEF Idle
    <3>2. CASE c.member = m /\ c.partition = p
        BY <1>1, <3>2 DEF Idle, Awaited, At
    <3> QED BY <3>1, <3>2
  <2> QED BY <2>1 DEF Current, CurCommit
<1>6. ASSUME s = "sent", First(m, p).gen = gen[m], gen[m] # 0,
             NEW c, c = CommitOf(m, p, First(m, p).gen)
      PROVE  CurCommit(c)'
  <2>1. /\ c.member = m /\ c.partition = p /\ c.gen = gen[m] /\ c.answer = "none"
        /\ c.next = First(m, p).offset + 1
      BY <1>6 DEF CommitOf
  <2>2. gen[m] = generation => m \notin invited
      BY Numbers DEF Safe, GenInv
  <2>3. gen[m] = generation => c.next = committed[p] + 1
      BY <1>6, <2>1, FrontNext
  <2>4. Awaited(c)'
    <3>1. First(m, p)' = First(m, p)
        BY <1>1 DEF First
    <3>2. [c EXCEPT !.answer = "none"] = c
        BY <1>6 DEF CommitOf
    <3>3. CommitOf(m, p, First(m, p).gen)' = c
        BY <1>6, <3>1 DEF CommitOf
    <3> QED BY <1>1, <1>2, <1>6, <2>1, <3>2, <3>3 DEF Awaited, At
  <2> QED BY <1>6, <2>1, <2>2, <2>3, <2>4 DEF CurCommit
<1>7. \A c \in commits' : CurCommit(c)'
    BY <1>5, <1>6
<1> QED BY <1>3, <1>4, <1>7 DEF Current

LEMMA LaneCur ==
    ASSUME Known, NEW m \in Members, Lane(m) PROVE Current'
<1> USE DEF brokerVars, clientVars, Known
<1> SUFFICES ASSUME NEW p \in Partitions,
                    Begin(m, p) \/ Handled(m, p) \/ HandlingFails(m, p) \/ Send(m, p)
             PROVE  Current'
    BY AdmitCur DEF Lane
<1>1. /\ UNCHANGED <<generation, owner, invited, committed, gen, phase>>
      /\ lane[m][p] # <<>> /\ step[m][p] # "sent"
    BY DEF Begin, Handled, HandlingFails, Send, At
<1>2. CASE Fail(m, {p})
  <2>1. commits' = commits
      BY <1>2 DEF Begin, Handled, HandlingFails, Send, Fail, Go, At, TypeOK
  <2> QED BY <1>1, <1>2, <2>1, FailStepCur
<1>3. CASE ~Fail(m, {p})
  <2>1. PICK s \in {"handling", "connecting"} : (Go(m, p, s) /\ commits' = commits) \/ Send(m, p)
      BY <1>3 DEF Begin, Handled, HandlingFails, Send
  <2>2. CASE Send(m, p)
    <3>1. /\ Go(m, p, "sent") /\ First(m, p).gen = gen[m] /\ gen[m] # 0
          /\ commits' = commits \cup {CommitOf(m, p, First(m, p).gen)}
        BY <1>3, <2>2 DEF Send, FirstCurrent, SnapshotCurrent, Active
    <3> QED BY <1>1, <3>1, GoCur DEF Steps
  <2>3. CASE Go(m, p, s) /\ commits' = commits
      BY <1>1, <2>3, GoCur DEF Steps
  <2> QED BY <2>1, <2>2, <2>3
<1> QED BY <1>2, <1>3

-----------------------------------------------------------------------------
(* The answers *)

\* Offsets that are committed already need not be held.
LEMMA FollowsLess ==
    ASSUME NEW k \in Int, NEW x, NEW E, NEW F, Follows(k, x, E), Offsets \subseteq Int,
           F \subseteq E, \A e \in E : e \in F \/ (e \in Offsets /\ e < k)
    PROVE  Follows(k, x, F)
BY DEF Follows

\* The front of a lane leaves, committed.
LEMMA LeaveCur ==
    ASSUME Known, NEW m \in Members, NEW p \in Partitions, At(m, p, "sent"), Leave(m, p),
           First(m, p).gen = generation => First(m, p).offset < committed[p],
           commits' \subseteq commits,
           UNCHANGED <<generation, owner, invited, committed, gen, phase>>
    PROVE  Current'
<1> USE DEF streamVars, Known
<1>0. PICK L \in Nat \ {0} : LeftWith(m, p, L)
    BY LeaveShape DEF At
<1>1. /\ UNCHANGED <<position, refresh, pending, fetch, buffer, failing>>
      /\ DOMAIN lane[m][p] = 1 .. L /\ DOMAIN lane'[m][p] = 1 .. (L - 1)
      /\ \A i \in 1 .. (L - 1) : lane'[m][p][i] = lane[m][p][i + 1]
      /\ First(m, p) = lane[m][p][1] /\ step'[m][p] = "queued" /\ lane[m][p] # <<>>
      /\ \A q \in Partitions \ {p} : lane'[m][q] = lane[m][q] /\ step'[m][q] = step[m][q]
      /\ \A n \in Members \ {m} : lane'[n] = lane[n] /\ step'[n] = step[n]
    BY <1>0 DEF LeftWith, Leave, At
<1>2. CurTask(m)
    BY DEF Current
<1>3. \A q \in Partitions : committed[q] \in Int
    BY GroupAssumption DEF TypeOK, Safe, CommitInv
<1>4. ASSUME NEW i \in 1 .. (L - 1)
      PROVE  /\ LaneBefore(m, p, i)' \subseteq LaneBefore(m, p, i + 1)
             /\ \A e \in LaneBefore(m, p, i + 1) :
                   e \in LaneBefore(m, p, i)' \/ (e \in Offsets /\ e < committed[p])
  <2>1. ASSUME NEW e \in LaneBefore(m, p, i)' PROVE e \in LaneBefore(m, p, i + 1)
    <3>1. PICK j \in 1 .. (L - 1) : j < i /\ lane'[m][p][j].gen = generation
                                    /\ lane'[m][p][j].offset = e /\ e \in Offsets
        BY <1>1 DEF LaneBefore
    <3>2. j + 1 \in 1 .. L /\ j + 1 < i + 1 /\ lane'[m][p][j] = lane[m][p][j + 1]
        BY <1>1, <3>1
    <3> QED BY <1>1, <3>1, <3>2 DEF LaneBefore
  <2>2. ASSUME NEW e \in LaneBefore(m, p, i + 1)
        PROVE  e \in LaneBefore(m, p, i)' \/ (e \in Offsets /\ e < committed[p])
    <3>1. PICK j \in 1 .. L : j < i + 1 /\ lane[m][p][j].gen = generation
                              /\ lane[m][p][j].offset = e /\ e \in Offsets
        BY <1>1 DEF LaneBefore
    <3>2. CASE j = 1
        BY <1>1, <3>1, <3>2
    <3>3. CASE j # 1
      <4>1. j - 1 \in 1 .. (L - 1) /\ (j - 1) + 1 = j /\ j - 1 < i
          BY <3>1, <3>3
      <4>2. lane'[m][p][j - 1] = lane[m][p][j]
          BY <1>1, <4>1
      <4> QED BY <1>1, <3>1, <4>1, <4>2 DEF LaneBefore
    <3> QED BY <3>2, <3>3
  <2> QED BY <2>1, <2>2
<1>5. ASSUME NEW q \in Partitions
      PROVE  /\ LaneNow(m, q)' \subseteq LaneNow(m, q)
             /\ \A e \in LaneNow(m, q) :
                   e \in LaneNow(m, q)' \/ (e \in Offsets /\ e < committed[q])
  <2>1. CASE q # p
      BY <1>1, <2>1 DEF LaneNow
  <2>2. ASSUME NEW e \in LaneNow(m, p)' PROVE e \in LaneNow(m, p)
    <3>1. PICK j \in 1 .. (L - 1) : lane'[m][p][j].gen = generation
                                    /\ lane'[m][p][j].offset = e /\ e \in Offsets
        BY <1>1 DEF LaneNow
    <3>2. j + 1 \in 1 .. L /\ lane'[m][p][j] = lane[m][p][j + 1]
        BY <1>1, <3>1
    <3> QED BY <1>1, <3>1, <3>2 DEF LaneNow
  <2>3. ASSUME NEW e \in LaneNow(m, p)
        PROVE  e \in LaneNow(m, p)' \/ (e \in Offsets /\ e < committed[p])
    <3>1. PICK j \in 1 .. L : lane[m][p][j].gen = generation
                              /\ lane[m][p][j].offset = e /\ e \in Offsets
        BY <1>1 DEF LaneNow
    <3>2. CASE j = 1
        BY <1>1, <3>1, <3>2
    <3>3. CASE j # 1
      <4>1. j - 1 \in 1 .. (L - 1) /\ (j - 1) + 1 = j
          BY <3>1, <3>3
      <4>2. lane'[m][p][j - 1] = lane[m][p][j]
          BY <1>1, <4>1
      <4> QED BY <1>1, <3>1, <4>1, <4>2 DEF LaneNow
    <3> QED BY <3>2, <3>3
  <2> QED BY <2>1, <2>2, <2>3
<1>6. CurLane(m)'
  <2> SUFFICES ASSUME NEW q \in Partitions, NEW i \in DOMAIN lane'[m][q],
                      lane'[m][q][i].gen = generation
               PROVE  /\ owner[q] = m
                      /\ i # 1 \/ step'[m][q] # "sent" =>
                            Follows(committed[q], lane'[m][q][i].offset, LaneBefore(m, q, i)')
      BY DEF CurLane
  <2>1. CASE q # p
    <3>1. LaneBefore(m, q, i)' = LaneBefore(m, q, i)
        BY <1>1, <2>1 DEF LaneBefore
    <3> QED BY <1>1, <1>2, <2>1, <3>1 DEF CurTask, CurLane
  <2>2. CASE q = p
    <3>1. i \in 1 .. (L - 1) /\ i + 1 \in 1 .. L /\ i + 1 # 1
          /\ lane'[m][p][i] = lane[m][p][i + 1]
        BY <1>1, <2>2
    <3>2. CurLane(m) /\ i + 1 \in DOMAIN lane[m][p] /\ lane[m][p][i + 1].gen = generation
        BY <1>1, <1>2, <2>2, <3>1 DEF CurTask
    <3>3. owner[p] = m /\ Follows(committed[p], lane[m][p][i + 1].offset, LaneBefore(m, p, i + 1))
        BY <3>1, <3>2 DEF CurLane
    <3>4. Follows(committed[p], lane[m][p][i + 1].offset, LaneBefore(m, p, i)')
        BY <1>3, <1>4, <3>1, <3>3, FollowsLess, Numbers
    <3> QED BY <2>2, <3>1, <3>3, <3>4
  <2> QED BY <2>1, <2>2
<1>7. \A q, i : BufferBefore(m, q, i)' = BufferBefore(m, q, i) /\ BufferNow(m, q)' = BufferNow(m, q)
    BY <1>1 DEF BufferBefore, BufferNow
<1>8. CurBuffer(m)'
  <2> SUFFICES ASSUME NEW i \in DOMAIN buffer[m], NEW q \in Partitions,
                      buffer[m][i].gen = generation, buffer[m][i].partition = q
               PROVE  /\ owner[q] = m
                      /\ Follows(committed[q], buffer[m][i].offset,
                                 LaneNow(m, q)' \cup BufferBefore(m, q, i))
    <3>1. /\ \A q, i : BufferBefore(m, q, i)' = BufferBefore(m, q, i)
          /\ UNCHANGED <<buffer, generation, owner, committed>>
        BY <1>1, <1>7
    <3> QED BY <3>1 DEF CurBuffer
  <2>1. owner[q] = m /\ Follows(committed[q], buffer[m][i].offset, LaneNow(m, q) \cup BufferBefore(m, q, i))
      BY <1>2 DEF CurTask, CurBuffer
  <2> QED BY <1>3, <1>5, <2>1, FollowsLess, Numbers
<1>9. CurPosition(m)'
  <2> SUFFICES ASSUME PositionCurrent(m), NEW q \in Partitions, position[m][q] # Unset
               PROVE  /\ owner[q] = m
                      /\ Follows(committed[q], position[m][q], LaneNow(m, q)' \cup BufferNow(m, q))
      BY <1>1, <1>7 DEF CurPosition, PositionCurrent, Active
  <2>1. owner[q] = m /\ Follows(committed[q], position[m][q], LaneNow(m, q) \cup BufferNow(m, q))
      BY <1>2 DEF CurTask, CurPosition
  <2> QED BY <1>3, <1>5, <2>1, FollowsLess, Numbers
<1>10. QuietInv(m)'
  <2>1. ASSUME NEW q \in Partitions, NEW i \in DOMAIN lane'[m][q]
        PROVE  \E j \in DOMAIN lane[m][q] : lane'[m][q][i] = lane[m][q][j]
    <3>1. CASE q # p
        BY <1>1, <3>1
    <3>2. CASE q = p
      <4>1. i \in 1 .. (L - 1) /\ i + 1 \in 1 .. L
          BY <1>1, <3>2
      <4> QED BY <1>1, <3>2, <4>1
    <3> QED BY <3>1, <3>2
  <2> QED BY <1>1, <1>2, <2>1 DEF CurTask, QuietInv
<1>11. \A n \in Members \ {m} : CurTask(n)'
  <2>1. \A n \in Members \ {m} : Untouched(n)
      BY <1>1 DEF Untouched, Holds, Same
  <2> QED BY <2>1, UntouchedKeeps DEF Current
<1>12. \A c \in commits' : CurCommit(c)'
  <2>1. ASSUME NEW c \in commits, CurCommit(c), c.gen = generation, c.answer = "none",
               Awaited(c) \/ Idle(c.member, c.partition)
        PROVE  (Awaited(c) \/ Idle(c.member, c.partition))'
    <3>0. c.member \in Members /\ c.partition \in Partitions
        BY DEF TypeOK, Commits
    <3>1. CASE c.member # m \/ c.partition # p
      <4>1. /\ lane'[c.member][c.partition] = lane[c.member][c.partition]
            /\ step'[c.member][c.partition] = step[c.member][c.partition]
          BY <1>1, <3>0, <3>1
      <4> QED BY <1>1, <2>1, <4>1, AwaitedStays DEF Idle
    <3>2. CASE c.member = m /\ c.partition = p /\ Idle(c.member, c.partition)
        BY <1>1, <3>2 DEF Idle
    <3>3. CASE c.member = m /\ c.partition = p /\ Awaited(c)
      <4>1. [c EXCEPT !.answer = "none"] = CommitOf(m, p, First(m, p).gen)
          BY <3>3 DEF Awaited
      <4>2. c.next = First(m, p).offset + 1 /\ c.gen = First(m, p).gen
          BY <4>1 DEF CommitOf, TypeOK, Commits
      <4>3. c.next = committed[p] + 1
          BY <2>1, <3>3 DEF CurCommit
      <4>4. First(m, p).offset \in Int
          BY <1>0, GroupAssumption DEF LeftWith, Admitted, Offsets
      <4> QED BY <1>3, <2>1, <4>2, <4>3, <4>4
    <3> QED BY <2>1, <3>1, <3>2, <3>3
  <2> QED BY <2>1, CommitsStay
<1> QED BY <1>6, <1>8, <1>9, <1>10, <1>11, <1>12 DEF Current, CurTask

LEMMA FollowsNext ==
    ASSUME NEW k \in Int, NEW x, NEW E, Follows(k, x, E), k \in E, E \subseteq Int, x \in Int,
           Offsets \subseteq Int
    PROVE  Follows(k + 1, x, E)
BY DEF Follows

\* The answer to the commit of another generation.
LEMMA RefusedCur ==
    ASSUME Known, NEW c \in commits, Answered(c), c.gen # generation PROVE Current'
<1> USE DEF clientVars, streamVars, laneVars, Known
<1>1. /\ UNCHANGED <<generation, owner, invited, committed>>
      /\ \A n \in Members : Untouched(n)
    BY DEF Answered, Untouched, Holds, Same
<1>2. \A n \in Members : CurTask(n)'
    BY <1>1, UntouchedKeeps DEF Current
<1>3. ASSUME NEW d \in commits PROVE CurCommit(d)'
  <2>1. d.member \in Members
      BY DEF TypeOK, Commits
  <2>2. Awaited(d)' = Awaited(d) /\ Idle(d.member, d.partition)' = Idle(d.member, d.partition)
      BY <1>1, <2>1, AwaitedStays DEF Idle, Untouched, Holds, Same
  <2> QED BY <1>1, <2>2 DEF Current, CurCommit
<1>4. ASSUME NEW a \in {"accepted", "refused"} PROVE CurCommit([c EXCEPT !.answer = a])'
  <2>1. [c EXCEPT !.answer = a].gen = c.gen
      BY DEF TypeOK, Commits
  <2> QED BY <1>1, <2>1 DEF Current, CurCommit
<1>5. \A d \in commits' : CurCommit(d)'
    BY <1>3, <1>4 DEF Answered
<1> QED BY <1>2, <1>5 DEF Current

\* The coordinator accepts a commit of the current generation: whatever its
\* task still holds comes after the record.
LEMMA AcceptedCur ==
    ASSUME Known, NEW c \in commits, Answered(c), c.gen = generation PROVE Current'
<1> USE DEF clientVars, streamVars, laneVars, Known
<1> DEFINE m == c.member
           p == c.partition
<1>1. /\ m \in Members /\ p \in Partitions /\ c \in Commits /\ c.answer = "none"
      /\ UNCHANGED <<generation, owner, invited, phase, gen, position, refresh, pending, fetch, buffer,
                     lane, step, failing>>
    BY DEF Answered, TypeOK, Commits
<1>2. /\ m \notin invited /\ c.next = committed[p] + 1 /\ owner[p] = m
      /\ Awaited(c) \/ Idle(m, p)
    BY <1>1 DEF Current, CurCommit, OwnInv
<1>3. PICK k \in Int : k = committed[p]
    BY <1>1, GroupAssumption DEF TypeOK, Safe, CommitInv
<1>4. committed'[p] = k + 1 /\ \A q \in Partitions \ {p} : committed'[q] = committed[q]
  <2>1. committed' = [committed EXCEPT ![p] = c.next]
      BY DEF Answered
  <2>2. c.next = k + 1 /\ p \in Partitions
      BY <1>1, <1>2, <1>3
  <2>3. committed \in [Partitions -> (0 .. MaxOffset) \cup {Unset}]
      BY DEF TypeOK
  <2> QED BY <2>1, <2>2, <2>3
<1> HIDE DEF m, p
<1>5. \A n \in Members \ {m} : CurTask(n)'
  <2>1. \A n \in Members \ {m} : Untouched(n)
      BY <1>1, <1>2, <1>4 DEF Untouched, Holds, Same
  <2> QED BY <2>1, UntouchedKeeps DEF Current
<1>6. CurTask(m)
    BY <1>1 DEF Current
\* The task holds the record at the front of its lane, or holds nothing more.
<1>7. /\ \A i \in DOMAIN lane[m][p] : lane[m][p][i].gen = generation =>
            (i = 1 /\ step[m][p] = "sent") \/ k \in LaneBefore(m, p, i)
      /\ \A i \in DOMAIN buffer[m] : buffer[m][i].gen = generation => k \in LaneNow(m, p)
      /\ PositionCurrent(m) /\ position[m][p] # Unset => k \in LaneNow(m, p)
  <2>1. CASE Awaited(c)
    <3>1. /\ lane[m][p] # <<>> /\ step[m][p] = "sent"
          /\ [c EXCEPT !.answer = "none"] = CommitOf(m, p, First(m, p).gen)
        BY <2>1 DEF Awaited, At, m, p
    <3>2. c.next = First(m, p).offset + 1 /\ c.gen = First(m, p).gen
        BY <1>1, <3>1 DEF CommitOf, Commits
    <3>3. lane[m][p] \in Seq(Admitted)
        BY <1>1 DEF TypeOK
    <3>4. 1 \in DOMAIN lane[m][p] /\ First(m, p) = lane[m][p][1]
        BY <3>1, <3>3 DEF First
    <3>5. First(m, p).offset \in Offsets /\ First(m, p).offset \in Int
        BY <1>1, <3>4, Numbers
    <3>6. lane[m][p][1].offset = k /\ lane[m][p][1].gen = generation /\ k \in Offsets
      <4>1. First(m, p).offset + 1 = k + 1
          BY <1>2, <1>3, <3>2
      <4>2. First(m, p).offset = k
          BY <3>5, <4>1
      <4> QED BY <3>2, <3>4, <3>5, <4>2
    <3>7. k \in LaneNow(m, p)
        BY <3>4, <3>6 DEF LaneNow
    <3>8. ASSUME NEW i \in DOMAIN lane[m][p], i # 1 PROVE k \in LaneBefore(m, p, i)
      <4>1. 1 < i
          BY <3>3, <3>8
      <4> QED BY <3>4, <3>6, <4>1 DEF LaneBefore
    <3> QED BY <3>1, <3>7, <3>8
  <2>2. CASE gen[m] # generation
    <3>1. gen[m] <= generation /\ gen[m] \in Int /\ generation \in Int
        BY <1>1, Numbers DEF OwnInv
    <3>2. \A i \in DOMAIN lane[m][p] : lane[m][p][i].gen <= gen[m] /\ lane[m][p][i].gen \in Int
        BY <1>1, <1>6, Numbers DEF CurTask, QuietInv
    <3>3. \A i \in DOMAIN buffer[m] : buffer[m][i].gen <= gen[m] /\ buffer[m][i].gen \in Int
        BY <1>1, <1>6, Numbers DEF CurTask, QuietInv
    <3> QED BY <2>2, <3>1, <3>2, <3>3 DEF PositionCurrent
  <2>3. CASE failing[m] /\ lane[m][p] = <<>>
      BY <1>1, <1>6, <2>3 DEF CurTask, QuietInv, NoPosition
  <2> QED BY <1>2, <2>1, <2>2, <2>3 DEF Idle
<1>8. CurTask(m)'
  <2>1. /\ \A q, i : LaneBefore(m, q, i)' = LaneBefore(m, q, i) /\ BufferBefore(m, q, i)' = BufferBefore(m, q, i)
        /\ \A q : LaneNow(m, q)' = LaneNow(m, q) /\ BufferNow(m, q)' = BufferNow(m, q)
      BY <1>1 DEF LaneBefore, BufferBefore, LaneNow, BufferNow
  <2>2. /\ \A q, i : LaneBefore(m, q, i) \subseteq Int /\ BufferBefore(m, q, i) \subseteq Int
        /\ \A q : LaneNow(m, q) \subseteq Int /\ BufferNow(m, q) \subseteq Int
        /\ Offsets \subseteq Int
      BY Numbers DEF LaneBefore, BufferBefore, LaneNow, BufferNow
  <2>3. CurLane(m)'
    <3> SUFFICES ASSUME NEW q \in Partitions, NEW i \in DOMAIN lane[m][q],
                        lane[m][q][i].gen = generation
                 PROVE  /\ owner[q] = m
                        /\ i # 1 \/ step[m][q] # "sent" =>
                              Follows(committed'[q], lane[m][q][i].offset, LaneBefore(m, q, i))
        BY <1>1, <2>1 DEF CurLane
    <3>1. /\ owner[q] = m
          /\ i # 1 \/ step[m][q] # "sent" =>
                Follows(committed[q], lane[m][q][i].offset, LaneBefore(m, q, i))
        BY <1>6 DEF CurTask, CurLane
    <3>2. CASE q # p
        BY <1>4, <3>1, <3>2
    <3>3. ASSUME q = p, i # 1 \/ step[m][q] # "sent"
          PROVE  Follows(k + 1, lane[m][q][i].offset, LaneBefore(m, q, i))
      <4>1. k \in LaneBefore(m, q, i) /\ Follows(k, lane[m][q][i].offset, LaneBefore(m, q, i))
          BY <1>3, <1>7, <3>1, <3>3
      <4>2. lane[m][q][i].offset \in Int
          BY <1>1, Numbers
      <4> QED BY <2>2, <4>1, <4>2, FollowsNext
    <3> QED BY <1>4, <3>1, <3>2, <3>3
  <2>4. CurBuffer(m)'
    <3> SUFFICES ASSUME NEW i \in DOMAIN buffer[m], NEW q \in Partitions,
                        buffer[m][i].gen = generation, buffer[m][i].partition = q
                 PROVE  /\ owner[q] = m
                        /\ Follows(committed'[q], buffer[m][i].offset,
                                   LaneNow(m, q) \cup BufferBefore(m, q, i))
        BY <1>1, <2>1 DEF CurBuffer
    <3>1. owner[q] = m /\ Follows(committed[q], buffer[m][i].offset, LaneNow(m, q) \cup BufferBefore(m, q, i))
        BY <1>6 DEF CurTask, CurBuffer
    <3>2. CASE q # p
        BY <1>4, <3>1, <3>2
    <3>3. CASE q = p
      <4>1. k \in LaneNow(m, q) \cup BufferBefore(m, q, i)
          BY <1>7, <3>3
      <4>2. buffer[m][i].offset \in Int
          BY <1>1, Numbers
      <4>3. Follows(k + 1, buffer[m][i].offset, LaneNow(m, q) \cup BufferBefore(m, q, i))
          BY <1>3, <2>2, <3>1, <3>3, <4>1, <4>2, FollowsNext
      <4> QED BY <1>4, <3>1, <3>3, <4>3
    <3> QED BY <3>2, <3>3
  <2>5. CurPosition(m)'
    <3> SUFFICES ASSUME PositionCurrent(m), NEW q \in Partitions, position[m][q] # Unset
                 PROVE  /\ owner[q] = m
                        /\ Follows(committed'[q], position[m][q], LaneNow(m, q) \cup BufferNow(m, q))
        BY <1>1, <2>1 DEF CurPosition, PositionCurrent, Active
    <3>1. owner[q] = m /\ Follows(committed[q], position[m][q], LaneNow(m, q) \cup BufferNow(m, q))
        BY <1>6 DEF CurTask, CurPosition
    <3>2. CASE q # p
        BY <1>4, <3>1, <3>2
    <3>3. CASE q = p
      <4>1. k \in LaneNow(m, q) \cup BufferNow(m, q)
          BY <1>7, <3>3
      <4>2. position[m][q] \in Int
          BY <1>1, GroupAssumption DEF TypeOK
      <4>3. Follows(k + 1, position[m][q], LaneNow(m, q) \cup BufferNow(m, q))
          BY <1>3, <2>2, <3>1, <3>3, <4>1, <4>2, FollowsNext
      <4> QED BY <1>4, <3>1, <3>3, <4>3
    <3> QED BY <3>2, <3>3
  <2>6. QuietInv(m)'
      BY <1>1, <1>6 DEF CurTask, QuietInv
  <2> QED BY <2>3, <2>4, <2>5, <2>6 DEF CurTask
<1>9. ASSUME NEW d \in commits, d # c PROVE CurCommit(d)'
  <2>1. d \in Commits /\ d.member \in Members /\ d.partition \in Partitions /\ d.next \in Int
      BY Numbers DEF TypeOK, Commits
  <2>2. Awaited(d)' = Awaited(d) /\ Idle(d.member, d.partition)' = Idle(d.member, d.partition)
      BY <1>1, AwaitedStays DEF Idle
  <2>3. CurCommit(d)
      BY DEF Current
  <2>4. CASE d.gen # generation
      BY <1>1, <2>3, <2>4 DEF CurCommit
  <2>5. CASE d.gen = generation /\ d.partition # p
      BY <1>1, <1>4, <2>1, <2>2, <2>3, <2>5 DEF CurCommit
  <2>6. CASE d.gen = generation /\ d.partition = p
    <3>1. d.answer # "none"
      <4> SUFFICES ASSUME d.answer = "none" PROVE FALSE
          OBVIOUS
      <4>1. d.member = c.member /\ d.partition = c.partition /\ d.next = c.next /\ d.gen = c.gen
            /\ d.answer = c.answer
        <5>1. d.next = committed[p] + 1 /\ d.answer = c.answer
            BY <1>1, <2>3, <2>6 DEF CurCommit
        <5>2. d.member = owner[p]
            BY <2>6 DEF OwnInv
        <5>3. d.partition = c.partition /\ c.member = m
            BY <2>6 DEF m, p
        <5> QED BY <1>2, <2>6, <5>1, <5>2, <5>3
      <4> QED BY <1>1, <1>9, <2>1, <4>1 DEF Commits
    <3>2. d.answer = "accepted" => d.next <= k + 1
        BY <1>3, <2>1, <2>3, <2>6 DEF CurCommit
    <3> QED BY <1>1, <1>4, <2>3, <2>6, <3>1, <3>2 DEF CurCommit
  <2> QED BY <2>4, <2>5, <2>6
<1>10. CurCommit([c EXCEPT !.answer = "accepted"])'
  <2> DEFINE d == [c EXCEPT !.answer = "accepted"]
  <2>1. d.gen = c.gen /\ d.member = m /\ d.partition = p /\ d.next = c.next /\ d.answer = "accepted"
      BY <1>1 DEF Commits, m, p
  <2>2. c.gen # 0 /\ c.next <= k + 1
    <3>1. c.next = k + 1 /\ k + 1 <= k + 1
        BY <1>2, <1>3
    <3> QED BY <3>1 DEF Current, CurCommit
  <2> HIDE DEF d
  <2>3. CurCommit(d)'
    <3>1. d.gen # 0 /\ m \notin invited' /\ d.next <= committed'[p] /\ d.answer # "none"
        BY <1>1, <1>2, <1>4, <2>1, <2>2
    <3>2. (d.gen # 0)' /\ (d.member \notin invited)' /\ (d.next <= committed[d.partition])' /\ d.answer # "none"
        BY <2>1, <3>1
    <3> QED BY <3>2 DEF CurCommit
  <2> QED BY <2>3 DEF d
<1>11. \A d \in commits' : CurCommit(d)'
  <2>1. \A d \in commits' : (d \in commits /\ d # c) \/ d = [c EXCEPT !.answer = "accepted"]
      BY DEF Answered
  <2> QED BY <1>9, <1>10, <2>1
<1> QED BY <1>5, <1>8, <1>11 DEF Current

\* The answer comes back, or the connection breaks.
LEMMA ReplyCur ==
    ASSUME Known, NEW c \in commits, Replied(c) \/ ConnectionLost(c) PROVE Current'
<1> USE DEF brokerVars, clientVars, Known
<1>1. /\ c.member \in Members /\ c.partition \in Partitions /\ c \in Commits
      /\ UNCHANGED <<generation, owner, invited, committed, gen, phase>> /\ commits' \subseteq commits
    BY DEF Replied, ConnectionLost, TypeOK, Commits
<1>2. CASE Fail(c.member, {c.partition})
    BY <1>1, <1>2, FailStepCur
<1>3. CASE ~Fail(c.member, {c.partition})
  <2>1. c.answer = "accepted" /\ Leave(c.member, c.partition) /\ Awaited(c)
      BY <1>3 DEF Replied, ConnectionLost
  <2>2. /\ At(c.member, c.partition, "sent")
        /\ c.next = First(c.member, c.partition).offset + 1
        /\ c.gen = First(c.member, c.partition).gen
      BY <1>1, <2>1 DEF Awaited, CommitOf, Commits
  <2>3. First(c.member, c.partition).offset \in Int
    <3>1. First(c.member, c.partition) \in Admitted
        BY <1>1, <2>2, FirstType DEF At
    <3> QED BY <3>1, GroupAssumption DEF Admitted, Offsets
  <2>4. c.gen = generation => c.next <= committed[c.partition]
      BY <2>1 DEF Current, CurCommit
  <2>5. committed[c.partition] \in Int
      BY <1>1, GroupAssumption DEF TypeOK, Safe, CommitInv
  <2>6. First(c.member, c.partition).gen = generation =>
            First(c.member, c.partition).offset < committed[c.partition]
      BY <2>2, <2>3, <2>4, <2>5
  <2> QED BY <1>1, <2>1, <2>2, <2>6, LeaveCur
<1> QED BY <1>2, <1>3

LEMMA NextCurrent == Known /\ [Next]_vars => Current'
<1> SUFFICES ASSUME Known, [Next]_vars PROVE Current'
    OBVIOUS
<1>1. ASSUME NEW m \in Members, Process(m) \/ Protocol(m) \/ Stream(m) \/ Lane(m) PROVE Current'
    BY <1>1, ProcessCur, ProtocolCur, StreamCur, LaneCur
<1>2. ASSUME NEW c \in commits, Answered(c) \/ Replied(c) \/ ConnectionLost(c) PROVE Current'
    BY <1>2, RefusedCur, AcceptedCur, ReplyCur
<1>3. CASE UNCHANGED vars
  <2>1. /\ UNCHANGED <<generation, owner, invited, committed, commits>>
        /\ \A n \in Members : Untouched(n)
      BY <1>3 DEF vars, Untouched, Holds, Same
  <2>2. \A c \in commits : Awaited(c)' = Awaited(c)
                           /\ Idle(c.member, c.partition)' = Idle(c.member, c.partition)
      BY <1>3, AwaitedStays DEF vars, Idle
  <2>3. \A c \in commits' : CurCommit(c)'
      BY <2>1, <2>2, CommitsStay DEF Known
  <2> QED BY <2>1, <2>3, UntouchedKeeps DEF Known, Current
<1> QED BY <1>1, <1>2, <1>3, RebalanceCur, ProduceCur DEF Next

\* Within a generation no record is handled twice and none is left out, for
\* every number of tasks, partitions, records, crashes and rebalances,
\* provided the group starts with a committed offset for every partition.
THEOREM CurrentWork ==
    ASSUME InitialCommitted # Unset PROVE Spec => []CurrentWorkIsNext
<1>1. Init => Known
    BY InitTypeOK, InitSafe, InitOwn, InitCurrent DEF Known
<1>2. Known /\ [Next]_vars => Known'
    BY NextTypes, NextSafe, NextOwn, NextCurrent DEF Known
<1>3. Known => CurrentWorkIsNext
  <2> SUFFICES ASSUME Known, NEW m \in Members, NEW p \in Partitions,
                      At(m, p, "handling") \/ At(m, p, "connecting"),
                      First(m, p).gen = generation
               PROVE  First(m, p).offset = committed[p]
      BY DEF CurrentWorkIsNext
  <2> QED BY FrontNext DEF At
<1> QED BY <1>1, <1>2, <1>3, PTL DEF Spec

-----------------------------------------------------------------------------
(* The refinement *)

\* A task holds record o of partition p.
Has(n, p, o) ==
    \/ \E i \in DOMAIN lane[n][p] : lane[n][p][i].offset = o
    \/ \E i \in DOMAIN buffer[n] : buffer[n][i].partition = p /\ buffer[n][i].offset = o

\* What a task holds was produced.
Produced ==
    \A n \in Members, p \in Partitions, o \in Offsets : Has(n, p, o) => o < logEnd[p]

LEMMA InitProduced == Init => Produced
BY DEF Init, Produced, Has, NoLanes

\* A step in which task m takes nothing new that was not produced.
LEMMA ProducedKeeps ==
    ASSUME Produced, UNCHANGED logEnd, NEW m \in Members,
           \A n \in Members \ {m} : lane'[n] = lane[n] /\ buffer'[n] = buffer[n],
           \A p \in Partitions, o \in Offsets : Has(m, p, o)' => Has(m, p, o) \/ o < logEnd[p]
    PROVE  Produced'
<1> SUFFICES ASSUME NEW n \in Members, NEW p \in Partitions, NEW o \in Offsets, Has(n, p, o)'
             PROVE  o < logEnd[p]
    BY DEF Produced
<1>1. CASE n = m
    BY <1>1 DEF Produced
<1>2. CASE n # m
    BY <1>2 DEF Produced, Has
<1> QED BY <1>1, <1>2

LEMMA FailProduced ==
    ASSUME TypeOK, Produced, UNCHANGED logEnd, NEW m \in Members, NEW ended, Fail(m, ended)
    PROVE  Produced'
<1>1. \A n \in Members \ {m} : lane'[n] = lane[n] /\ buffer'[n] = buffer[n]
    BY DEF Fail, TypeOK
<1>2. ASSUME NEW p \in Partitions, NEW o \in Offsets, Has(m, p, o)' PROVE Has(m, p, o)
  <2>1. buffer'[m] = <<>> /\ (lane'[m][p] = <<>> \/ (lane[m][p] # <<>> /\ lane'[m][p] = <<Head(lane[m][p])>>))
      BY DEF Fail, TypeOK
  <2>2. PICK i \in DOMAIN lane'[m][p] : lane'[m][p][i].offset = o
      BY <1>2, <2>1 DEF Has
  <2>3. lane[m][p] # <<>> /\ lane[m][p] \in Seq(Admitted) /\ lane'[m][p][i] = Head(lane[m][p])
      BY <2>1, <2>2 DEF TypeOK
  <2>4. 1 \in DOMAIN lane[m][p] /\ lane'[m][p][i] = lane[m][p][1]
      BY <2>3
  <2> QED BY <2>2, <2>4 DEF Has
<1> QED BY <1>1, <1>2, ProducedKeeps

LEMMA TakenProduced ==
    ASSUME Known, Produced, NEW m \in Members, Admit(m) \/ \E n \in 1 .. MaxOffset : FetchedCurrent(m, n)
    PROVE  Produced'
<1> USE DEF brokerVars, clientVars, fenceVars, laneVars, Known
<1>1. CASE Admit(m)
  <2>0. logEnd' = logEnd
      BY <1>1 DEF Admit
  <2>1. CASE Fail(m, {})
      BY <2>0, <2>1, FailProduced
  <2>2. CASE ~Fail(m, {})
    <3>1. \A n \in Members \ {m} : lane'[n] = lane[n] /\ buffer'[n] = buffer[n]
        BY <1>1, <2>2, AdmitShape
    <3>2. PICK p \in Partitions, L \in Nat, B \in Nat \ {0} : AdmittedTo(m, p, L, B)
        BY <1>1, <2>2, AdmitShape
    <3>3. /\ DOMAIN lane[m][p] = 1 .. L /\ DOMAIN lane'[m][p] = 1 .. (L + 1)
          /\ \A i \in 1 .. L : lane'[m][p][i] = lane[m][p][i]
          /\ lane'[m][p][L + 1].offset = buffer[m][1].offset
          /\ \A q \in Partitions \ {p} : lane'[m][q] = lane[m][q]
        BY <3>2 DEF AdmittedTo
    <3>4. /\ DOMAIN buffer[m] = 1 .. B /\ DOMAIN buffer'[m] = 1 .. (B - 1)
          /\ \A i \in 1 .. (B - 1) : buffer'[m][i] = buffer[m][i + 1]
          /\ buffer[m][1].partition = p /\ 1 \in 1 .. B
        BY <3>2 DEF AdmittedTo
    <3>5. ASSUME NEW q \in Partitions, NEW o \in Offsets, Has(m, q, o)' PROVE Has(m, q, o)
      <4>1. ASSUME NEW i \in DOMAIN buffer'[m], buffer'[m][i].partition = q, buffer'[m][i].offset = o
            PROVE  Has(m, q, o)
        <5>1. i \in 1 .. (B - 1) /\ i + 1 \in 1 .. B /\ buffer'[m][i] = buffer[m][i + 1]
            BY <3>4
        <5> QED BY <3>4, <4>1, <5>1 DEF Has
      <4>2. ASSUME q # p, NEW i \in DOMAIN lane'[m][q], lane'[m][q][i].offset = o
            PROVE  Has(m, q, o)
          BY <3>3, <4>2 DEF Has
      <4>3. ASSUME q = p, NEW i \in DOMAIN lane'[m][p], lane'[m][p][i].offset = o
            PROVE  Has(m, q, o)
        <5>1. i \in 1 .. L \/ i = L + 1
            BY <3>3
        <5> QED BY <3>3, <3>4, <4>3, <5>1 DEF Has
      <4> QED BY <3>5, <4>1, <4>2, <4>3 DEF Has
    <3> QED BY <2>0, <3>1, <3>5, ProducedKeeps
  <2> QED BY <2>1, <2>2
<1>2. ASSUME NEW n \in 1 .. MaxOffset, FetchedCurrent(m, n) PROVE Produced'
  <2>0. UNCHANGED <<logEnd, lane>> /\ \A k \in Members \ {m} : buffer'[k] = buffer[k]
      BY <1>2 DEF FetchedCurrent, Push, TypeOK
  <2>1. PICK p \in Partitions, o \in 0 .. MaxOffset, L \in Nat : PushedTo(m, n, p, o, L)
      BY <1>2, Pushed DEF Safe, TasksInv, TaskInv
  <2>2. /\ DOMAIN buffer[m] = 1 .. L /\ n \in Nat \ {0} /\ o + n <= logEnd[p]
        /\ DOMAIN buffer'[m] = 1 .. (L + n)
        /\ \A i \in 1 .. L : buffer'[m][i] = buffer[m][i]
        /\ \A i \in 1 .. n : buffer'[m][L + i] = [partition |-> p, offset |-> o + i - 1, gen |-> gen[m]]
      BY <2>1 DEF PushedTo
  <2>3. logEnd[p] \in Int /\ o \in Int
      BY GroupAssumption DEF TypeOK
  <2>4. ASSUME NEW q \in Partitions, NEW x \in Offsets, Has(m, q, x)'
        PROVE  Has(m, q, x) \/ x < logEnd[q]
    <3>1. ASSUME NEW i \in 1 .. L, buffer'[m][i].partition = q, buffer'[m][i].offset = x
          PROVE  Has(m, q, x)
        BY <2>2, <3>1 DEF Has
    <3>2. ASSUME NEW i \in 1 .. n, buffer'[m][L + i].partition = q, buffer'[m][L + i].offset = x
          PROVE  x < logEnd[q]
      <4>1. buffer'[m][L + i] = [partition |-> p, offset |-> o + i - 1, gen |-> gen[m]]
          BY <2>2
      <4>2. q = p /\ x = o + i - 1
          BY <3>2, <4>1
      <4> QED BY <2>2, <2>3, <4>2
    <3>3. \A i \in 1 .. (L + n) : i \in 1 .. L \/ (i - L \in 1 .. n /\ L + (i - L) = i)
        BY <2>2
    <3>4. \/ \E i \in DOMAIN lane[m][q] : lane[m][q][i].offset = x
          \/ \E i \in 1 .. (L + n) : buffer'[m][i].partition = q /\ buffer'[m][i].offset = x
        BY <2>0, <2>2, <2>4 DEF Has
    <3> QED BY <3>1, <3>2, <3>3, <3>4 DEF Has
  <2> QED BY <2>0, <2>4, ProducedKeeps
<1> QED BY <1>1, <1>2

LEMMA NextProduced == Known /\ Produced /\ [Next]_vars => Produced'
<1> SUFFICES ASSUME Known, Produced, [Next]_vars PROVE Produced'
    OBVIOUS
<1> USE DEF brokerVars, clientVars, streamVars, fenceVars, laneVars, Known
<1>0. UNCHANGED <<logEnd, lane, buffer>> => Produced'
    BY DEF Produced, Has
<1>1. ASSUME NEW m \in Members, Process(m) PROVE Produced'
  <2>1. CASE Boot(m)
      BY <1>0, <2>1 DEF Boot
  <2>2. CASE Down(m)
    <3>1. /\ lane'[m] = NoLanes /\ buffer'[m] = <<>> /\ logEnd' = logEnd
          /\ \A n \in Members \ {m} : lane'[n] = lane[n] /\ buffer'[n] = buffer[n]
        BY <2>2 DEF Down, TypeOK
    <3>2. \A p \in Partitions, o \in Offsets : ~Has(m, p, o)'
        BY <3>1 DEF Has, NoLanes
    <3> QED BY <3>1, <3>2, ProducedKeeps
  <2> QED BY <1>1, <2>1, <2>2 DEF Process
<1>2. CASE Rebalance \/ UNCHANGED vars
    BY <1>0, <1>2 DEF Rebalance, vars
<1>3. ASSUME NEW p \in Partitions, Produce(p) PROVE Produced'
  <2>1. \A q \in Partitions : logEnd[q] \in Int /\ logEnd[q] <= logEnd'[q] /\ logEnd'[q] \in Int
      BY <1>3, GroupAssumption DEF Produce, TypeOK
  <2>2. \A n, q, o : Has(n, q, o)' = Has(n, q, o)
      BY <1>3 DEF Produce, Has
  <2> QED BY <2>1, <2>2, Numbers DEF Produced
<1>4. ASSUME NEW m \in Members, Protocol(m) PROVE Produced'
  <2>1. logEnd' = logEnd /\ (UNCHANGED <<lane, buffer>> \/ Fail(m, {}))
      BY <1>4 DEF Protocol, Joined, Synced, SyncRefused, Invalidated
  <2> QED BY <1>0, <2>1, FailProduced
<1>5. ASSUME NEW m \in Members, Stream(m) PROVE Produced'
  <2>1. \/ logEnd' = logEnd /\ (UNCHANGED <<lane, buffer>> \/ Fail(m, {}))
        \/ \E n \in 1 .. MaxOffset : FetchedCurrent(m, n)
      BY <1>5 DEF Stream, OffsetsAnswered, Refreshed, FetchedNothing, Fetch
  <2> QED BY <1>0, <2>1, FailProduced, TakenProduced
<1>6. ASSUME NEW m \in Members, Lane(m) PROVE Produced'
  <2>1. \/ Admit(m)
        \/ logEnd' = logEnd /\ (UNCHANGED <<lane, buffer>> \/ \E p \in Partitions : Fail(m, {p}))
      BY <1>6 DEF Lane, Begin, Handled, HandlingFails, Send, Go
  <2> QED BY <1>0, <2>1, FailProduced, TakenProduced
<1>7. ASSUME NEW c \in commits, Answered(c) \/ Replied(c) \/ ConnectionLost(c) PROVE Produced'
  <2>0. c.member \in Members /\ c.partition \in Partitions
      BY DEF TypeOK, Commits
  <2>1. /\ logEnd' = logEnd
        /\ \/ UNCHANGED <<lane, buffer>> \/ Fail(c.member, {c.partition})
           \/ At(c.member, c.partition, "sent") /\ Leave(c.member, c.partition)
      BY <1>7 DEF Answered, Replied, ConnectionLost, Awaited
  <2>2. CASE At(c.member, c.partition, "sent") /\ Leave(c.member, c.partition)
    <3>1. PICK m \in Members, p \in Partitions : m = c.member /\ p = c.partition
        BY <2>0
    <3>2. PICK L \in Nat \ {0} : LeftWith(m, p, L)
        BY <2>2, <3>1, LeaveShape DEF At
    <3>3. /\ DOMAIN lane[m][p] = 1 .. L /\ DOMAIN lane'[m][p] = 1 .. (L - 1)
          /\ \A i \in 1 .. (L - 1) : lane'[m][p][i] = lane[m][p][i + 1]
          /\ \A q \in Partitions \ {p} : lane'[m][q] = lane[m][q]
          /\ \A n \in Members \ {m} : lane'[n] = lane[n]
        BY <3>2 DEF LeftWith
    <3>4. buffer' = buffer
        BY <2>2 DEF Leave
    <3>5. \A i \in 1 .. (L - 1) : i + 1 \in 1 .. L
        OBVIOUS
    <3>6. \A q \in Partitions, o \in Offsets : Has(m, q, o)' => Has(m, q, o)
        BY <3>3, <3>4, <3>5 DEF Has
    <3> QED BY <2>1, <3>3, <3>4, <3>6, ProducedKeeps
  <2> QED BY <1>0, <2>0, <2>1, <2>2, FailProduced
<1> QED BY <1>1, <1>2, <1>3, <1>4, <1>5, <1>6, <1>7 DEF Next

\* A first finish finishes the next unfinished record.
LEMMA HandledFinishes ==
    ASSUME Known, Produced, NEW m \in Members, NEW p \in Partitions, Handled(m, p)
    PROVE  \E o \in Offsets : Promise!Finish(p, o)
<1> USE DEF Known, brokerVars
<1>1. /\ lane[m][p] # <<>> /\ lane[m][p] \in Seq(Admitted)
      /\ processed' = processed \cup {<<p, First(m, p).offset>>}
      /\ UNCHANGED <<logEnd, committed>>
    BY DEF Handled, At, TypeOK
<1>2. First(m, p).offset \in Offsets /\ Has(m, p, First(m, p).offset)
    BY <1>1, FirstType DEF Has, First, Admitted
<1>3. Ready(p, First(m, p).offset)
    BY <1>1, FrontReady DEF Safe, TasksInv, TaskInv
<1>4. First(m, p).offset < logEnd[p]
    BY <1>2 DEF Produced
<1> QED BY <1>1, <1>2, <1>3, <1>4 DEF Promise!Finish, Promise!Offsets, Offsets, Ready

\* An accepted commit takes in the next record, and it is finished.
LEMMA AcceptedCommitsNext ==
    ASSUME Known, NEW c \in commits, Answered(c), c.gen = generation
    PROVE  Promise!CommitNext(c.partition)
<1> USE DEF Known
<1>1. /\ c.partition \in Partitions /\ c.next \in 0 .. MaxOffset /\ c.answer = "none"
      /\ committed' = [committed EXCEPT ![c.partition] = c.next] /\ UNCHANGED <<logEnd, processed>>
    BY DEF Answered, TypeOK, Commits
<1>2. c.next = committed[c.partition] + 1
    BY <1>1 DEF Current, CurCommit
<1>3. committed[c.partition] \in 0 .. MaxOffset
    BY <1>1 DEF TypeOK, Safe, CommitInv
<1>4. committed[c.partition] \in Offsets /\ committed[c.partition] < c.next
    BY <1>1, <1>2, <1>3, GroupAssumption DEF Offsets
<1>5. <<c.partition, committed[c.partition]>> \in processed
    BY <1>4 DEF Safe, CommitInv, Ready
<1> QED BY <1>1, <1>2, <1>5 DEF Promise!CommitNext

LEMMA NextImplements ==
    Known /\ Produced /\ [Next]_vars => [Promise!Next]_(Promise!vars)
<1> SUFFICES ASSUME Known, Produced, [Next]_vars PROVE [Promise!Next]_(Promise!vars)
    OBVIOUS
<1> USE DEF brokerVars, Known
<1>0. UNCHANGED <<logEnd, processed, committed>> => UNCHANGED Promise!vars
    BY DEF Promise!vars
<1>1. ASSUME NEW m \in Members, Process(m) \/ Protocol(m) \/ Stream(m)
      PROVE  UNCHANGED <<logEnd, processed, committed>>
  <2>1. CASE Process(m) \/ Protocol(m)
      BY <2>1 DEF Process, Boot, Down, Protocol, Joined, Synced, SyncRefused, Invalidated
  <2>2. CASE Stream(m)
      BY <2>2 DEF Stream, OffsetsAnswered, Refreshed, FetchedNothing, Fetch, FetchedCurrent, Push
  <2> QED BY <1>1, <2>1, <2>2
<1>2. ASSUME NEW m \in Members, Lane(m) PROVE Promise!Next \/ UNCHANGED Promise!vars
  <2>1. CASE \E p \in Partitions : Handled(m, p)
      BY <2>1, HandledFinishes DEF Promise!Next, Promise!Offsets, Offsets
  <2>2. CASE ~\E p \in Partitions : Handled(m, p)
      BY <1>0, <1>2, <2>2 DEF Lane, Admit, Begin, HandlingFails, Send
  <2> QED BY <2>1, <2>2
<1>3. ASSUME NEW c \in commits, Answered(c) \/ Replied(c) \/ ConnectionLost(c)
      PROVE  Promise!Next \/ UNCHANGED Promise!vars
  <2>0. c.partition \in Partitions
      BY DEF TypeOK, Commits
  <2>1. CASE Answered(c) /\ c.gen = generation
      BY <2>0, <2>1, AcceptedCommitsNext DEF Promise!Next
  <2>2. CASE ~(Answered(c) /\ c.gen = generation)
      BY <1>0, <1>3, <2>2 DEF Answered, Replied, ConnectionLost
  <2> QED BY <2>1, <2>2
<1>4. ASSUME NEW p \in Partitions, Produce(p) PROVE Promise!Next
    BY <1>4 DEF Produce, Promise!Next, Promise!Produce
<1>5. CASE Rebalance \/ UNCHANGED vars
    BY <1>0, <1>5 DEF Rebalance, vars
<1> QED BY <1>0, <1>1, <1>2, <1>3, <1>4, <1>5 DEF Next

\* The group, with its crashes, rebalances, stale responses and lost answers,
\* implements AtLeastOnce: records reach their terminal outcomes in order and
\* the committed offset follows one record at a time.
THEOREM Implements ==
    ASSUME InitialCommitted # Unset PROVE Spec => AtLeastOnceSpec
<1>1. Init => Known /\ Produced
    BY InitTypeOK, InitSafe, InitOwn, InitCurrent, InitProduced DEF Known
<1>2. Known /\ Produced /\ [Next]_vars => (Known /\ Produced)'
    BY NextTypes, NextSafe, NextOwn, NextCurrent, NextProduced DEF Known
<1>3. Init => Promise!Init
    BY DEF Init, Promise!Init, Promise!Offsets, Offsets
<1> QED BY <1>1, <1>2, <1>3, NextImplements, PTL DEF Spec, AtLeastOnceSpec, Promise!Spec

-----------------------------------------------------------------------------
(* The lease                                                               *)
(*                                                                         *)
(* Of what is in hand for the current generation, FrontNext and CurCommit  *)
(* leave a single possibility: the owner's work on the next record.  A     *)
(* step that keeps the owner and the offset can then do no more than take  *)
(* or drop it; the offset moves only with it; and a rebalance leaves       *)
(* nothing of the new generation in hand.                                  *)

\* What is in hand is the owner's, and the next record.
LEMMA WorkIsNext ==
    ASSUME Known, NEW p \in Partitions
    PROVE  /\ Work(p) \subseteq {<<owner[p], committed[p]>>}
           /\ Work(p) # {} => owner[p] \in Members
<1> USE DEF Known
<1>1. ASSUME NEW m \in Members, At(m, p, "handling") \/ At(m, p, "connecting"),
             First(m, p).gen = generation
      PROVE  owner[p] = m /\ First(m, p).offset = committed[p]
  <2>1. lane[m][p] # <<>> /\ step[m][p] # "sent" /\ lane[m][p] \in Seq(Admitted)
      BY <1>1 DEF At, TypeOK
  <2>2. 1 \in DOMAIN lane[m][p] /\ First(m, p) = lane[m][p][1]
      BY <2>1 DEF First
  <2>3. CurLane(m) /\ lane[m][p][1].gen = generation
      BY <1>1, <2>2 DEF Current, CurTask
  <2>4. owner[p] = m
      BY <2>2, <2>3 DEF CurLane
  <2> QED BY <1>1, <2>1, <2>4, FrontNext
<1>2. ASSUME NEW c \in commits, c.partition = p, c.gen = generation, c.answer = "none"
      PROVE  owner[p] = c.member /\ c.next - 1 = committed[p] /\ c.member \in Members
  <2>1. c \in Commits /\ CurCommit(c) /\ owner[c.partition] = c.member
      BY <1>2 DEF TypeOK, Current, OwnInv
  <2>2. c.next = committed[p] + 1 /\ committed[p] \in 0 .. MaxOffset
      BY <1>2, <2>1 DEF CurCommit, TypeOK, Safe, CommitInv
  <2>3. committed[p] \in Int
      BY <2>2, GroupAssumption
  <2> QED BY <1>2, <2>1, <2>2, <2>3 DEF Commits
<1>3. ASSUME NEW w \in Work(p) PROVE w = <<owner[p], committed[p]>> /\ owner[p] \in Members
  <2>1. CASE \E m \in Members : /\ At(m, p, "handling") \/ At(m, p, "connecting")
                                /\ First(m, p).gen = generation
                                /\ w = <<m, First(m, p).offset>>
      BY <1>1, <2>1
  <2>2. CASE \E c \in commits : /\ c.partition = p /\ c.gen = generation /\ c.answer = "none"
                                /\ w = <<c.member, c.next - 1>>
      BY <1>2, <2>2
  <2> QED BY <1>3, <2>1, <2>2 DEF Work
<1> QED BY <1>3

\* The same of the next state.
LEMMA NextWork ==
    Known' => \A p \in Partitions :
        /\ Work(p)' \subseteq {<<owner'[p], committed'[p]>>}
        /\ Work(p)' # {} => owner'[p] \in Members
        /\ \A m \in Members : At(m, p, "handling")' \/ At(m, p, "connecting")' =>
              (First(m, p)'.gen = generation' => First(m, p)'.offset = committed'[p])
<1> DEFINE Front ==
        \A p \in Partitions, m \in Members : At(m, p, "handling") \/ At(m, p, "connecting") =>
              (First(m, p).gen = generation => First(m, p).offset = committed[p])
           WorkIsFirst == \A p \in Partitions :
              Work(p) \subseteq {<<owner[p], committed[p]>>} /\ (Work(p) # {} => owner[p] \in Members)
<1>1. Known => Front
    BY FrontNext DEF At
<1>2. Known => WorkIsFirst
    BY WorkIsNext
<1>3. Known' => Front' /\ WorkIsFirst'
    BY <1>1, <1>2, PTL
<1> QED BY <1>3

\* While a partition keeps its owner and its offset, its record is taken or dropped.
LEMMA LeaseStays ==
    ASSUME Known, Known', NEW p \in Partitions, owner'[p] = owner[p], committed'[p] = committed[p]
    PROVE  [Lease(p)!Next]_(Lease(p)!vars)
<1>1. PICK k : k = <<owner[p], committed[p]>>
    OBVIOUS
<1>2. Work(p) \subseteq {k} /\ Work(p)' \subseteq {k}
    BY <1>1, WorkIsNext, NextWork
<1>3. Work(p)' # {} => owner[p] # None
    BY NextWork, GroupAssumption
<1>4. CASE Work(p)' = {}
    BY <1>4 DEF Lease!Next, Lease!Drop
<1>5. CASE Work(p)' # {} /\ Work(p) = {}
  <2>1. Work(p)' = {<<owner[p], committed[p]>>}
      BY <1>1, <1>2, <1>5
  <2> QED BY <1>3, <1>5, <2>1 DEF Lease!Next, Lease!Take
<1>6. CASE Work(p)' # {} /\ Work(p) # {}
  <2>1. Work(p)' = Work(p)
      BY <1>2, <1>6
  <2> QED BY <2>1 DEF Lease!vars
<1> QED BY <1>4, <1>5, <1>6

\* A new generation has nothing in hand.
LEMMA LeaseRebalance ==
    ASSUME Known, Rebalance, NEW p \in Partitions
    PROVE  Lease(p)!Next
<1> USE DEF Known, clientVars, laneVars
<1>1. /\ generation' = generation + 1 /\ UNCHANGED <<commits, committed, lane, step>>
      /\ owner'[p] \in Members /\ generation \in Int
    BY Numbers DEF Rebalance
<1>2. ASSUME NEW m \in Members, lane[m][p] # <<>> PROVE First(m, p).gen # generation'
  <2>1. lane[m][p] \in Seq(Admitted)
      BY DEF TypeOK
  <2>2. 1 \in DOMAIN lane[m][p] /\ First(m, p) = lane[m][p][1]
      BY <1>2, <2>1 DEF First
  <2>3. First(m, p).gen <= gen[m] /\ gen[m] <= generation
      BY <2>2 DEF Current, CurTask, QuietInv, OwnInv
  <2>4. First(m, p).gen \in Int /\ gen[m] \in Int
      BY <2>2, Numbers
  <2> QED BY <1>1, <2>3, <2>4
<1>3. \A c \in commits : c.gen # generation'
  <2>1. \A c \in commits : c.gen <= generation /\ c.gen \in Int
      BY Numbers DEF OwnInv
  <2> QED BY <1>1, <2>1
<1>4. \A m \in Members : At(m, p, "handling")' \/ At(m, p, "connecting")' => First(m, p)'.gen # generation'
    BY <1>1, <1>2 DEF At, First
<1>5. Work(p)' = {}
    BY <1>1, <1>3, <1>4 DEF Work
<1> QED BY <1>1, <1>5 DEF Lease!Next, Lease!Assign

\* An accepted commit is the work in hand, and leaves none.
LEMMA LeaseCommits ==
    ASSUME Known, Known', NEW c \in commits, Answered(c), c.gen = generation
    PROVE  Lease(c.partition)!Next
<1> USE DEF Known, clientVars, laneVars
<1>0. PICK p \in Partitions : p = c.partition
    BY DEF TypeOK, Commits
<1>1. /\ c.answer = "none" /\ committed' = [committed EXCEPT ![p] = c.next]
      /\ UNCHANGED <<generation, owner, lane, step>>
      /\ \A d \in commits' : d.answer = "none" => d \in commits
  <2>1. c \in Commits
      BY DEF TypeOK
  <2>2. \A a \in {"accepted", "refused"} : [c EXCEPT !.answer = a].answer # "none"
      BY <2>1 DEF Commits
  <2>3. \A d \in commits' : d \in commits \/ \E a \in {"accepted", "refused"} : d = [c EXCEPT !.answer = a]
      BY DEF Answered
  <2> QED BY <1>0, <2>2, <2>3 DEF Answered
<1>2. c.next = committed[p] + 1 /\ committed[p] \in Int /\ committed'[p] = committed[p] + 1
  <2>1. CurCommit(c)
      BY DEF Current
  <2>2. c.next = committed[p] + 1
      BY <1>0, <1>1, <2>1 DEF CurCommit
  <2>3. committed[p] \in 0 .. MaxOffset /\ committed'[p] = c.next
      BY <1>1 DEF TypeOK, Safe, CommitInv
  <2> QED BY <2>2, <2>3, GroupAssumption
<1>3. Work(p) = {<<owner[p], committed[p]>>}
  <2>1. <<c.member, c.next - 1>> \in Work(p)
      BY <1>0, <1>1 DEF Work
  <2> QED BY <2>1, WorkIsNext
<1>4. ASSUME NEW m \in Members, At(m, p, "handling")' \/ At(m, p, "connecting")',
             First(m, p)'.gen = generation
      PROVE  FALSE
  <2>1. /\ lane[m][p] # <<>> /\ step[m][p] # "sent" /\ First(m, p)' = First(m, p)
      BY <1>1, <1>4 DEF At, First
  <2>2. First(m, p).offset = committed[p]
      BY <1>4, <2>1, FrontNext
  <2>3. First(m, p).offset = committed'[p]
      BY <1>1, <1>4, <2>1, NextWork
  <2> QED BY <1>2, <2>2, <2>3
<1>5. ASSUME NEW d \in commits', d.partition = p, d.gen = generation, d.answer = "none" PROVE FALSE
  <2>1. d \in commits /\ CurCommit(d) /\ CurCommit(d)'
      BY <1>1, <1>5 DEF Current
  <2>2. d.next = committed[p] + 1
      BY <1>5, <2>1 DEF CurCommit
  <2>3. d.next = committed'[p] + 1
      BY <1>1, <1>5, <2>1 DEF CurCommit
  <2> QED BY <1>2, <2>2, <2>3
<1>6. Work(p)' = {}
    BY <1>1, <1>4, <1>5 DEF Work
<1>7. Lease(p)!Commit
    BY <1>1, <1>2, <1>3, <1>6 DEF Lease!Commit
<1> QED BY <1>0, <1>7 DEF Lease!Next

LEMMA LeaseNext ==
    ASSUME Known, Known', [Next]_vars, NEW p \in Partitions
    PROVE  [Lease(p)!Next]_(Lease(p)!vars)
<1> USE DEF brokerVars, clientVars, streamVars, fenceVars, laneVars
<1>1. ASSUME NEW m \in Members, Process(m) \/ Protocol(m) \/ Stream(m) \/ Lane(m)
      PROVE  UNCHANGED <<owner, committed>>
  <2>1. CASE Process(m) \/ Protocol(m)
      BY <2>1 DEF Process, Boot, Down, Protocol, Joined, Synced, SyncRefused, Invalidated
  <2>2. CASE Stream(m)
      BY <2>2 DEF Stream, OffsetsAnswered, Refreshed, FetchedNothing, Fetch, FetchedCurrent, Push
  <2>3. CASE Lane(m)
      BY <2>3 DEF Lane, Admit, Begin, Handled, HandlingFails, Send
  <2> QED BY <1>1, <2>1, <2>2, <2>3
<1>2. ASSUME NEW c \in commits, Answered(c) \/ Replied(c) \/ ConnectionLost(c)
      PROVE  [Lease(p)!Next]_(Lease(p)!vars)
  <2>0. c.partition \in Partitions
      BY DEF Known, TypeOK, Commits
  <2>1. CASE Answered(c) /\ c.gen = generation /\ c.partition = p
      BY <2>1, LeaseCommits
  <2>2. CASE ~(Answered(c) /\ c.gen = generation /\ c.partition = p)
    <3>1. owner' = owner /\ committed'[p] = committed[p]
        BY <1>2, <2>0, <2>2 DEF Answered, Replied, ConnectionLost, Known, TypeOK
    <3> QED BY <3>1, LeaseStays
  <2> QED BY <2>1, <2>2
<1>3. CASE UNCHANGED <<owner, committed>>
    BY <1>3, LeaseStays
<1>4. CASE (\E q \in Partitions : Produce(q)) \/ UNCHANGED vars
    BY <1>3, <1>4 DEF Produce, vars
<1> QED BY <1>1, <1>2, <1>3, <1>4, LeaseRebalance DEF Next

\* Every partition of the group is a lease on its next record: one piece of
\* work at a time, the owner's, and the offset moves only past it, whatever
\* tasks crash, generations pass and commits arrive late.
THEOREM Leased ==
    ASSUME InitialCommitted # Unset PROVE Spec => LeaseIsKept
<1>1. Init => Known
    BY InitTypeOK, InitSafe, InitOwn, InitCurrent DEF Known
<1>2. Known /\ [Next]_vars => Known'
    BY NextTypes, NextSafe, NextOwn, NextCurrent DEF Known
<1>3. Init => \A p \in Partitions : Lease(p)!Init
    BY DEF Init, Lease!Init, Work, At, NoLanes
<1>4. Known /\ Known' /\ [Next]_vars => \A p \in Partitions : [Lease(p)!Next]_(Lease(p)!vars)
    BY LeaseNext
<1> QED BY <1>1, <1>2, <1>3, <1>4, PTL DEF Spec, LeaseIsKept
=============================================================================
