-------------------------- MODULE Semaphore_proofs --------------------------
(***************************************************************************)
(* Proofs about Semaphore for every set of callers and every capacity.     *)
(***************************************************************************)
EXTENDS Semaphore, FiniteSetTheorems, SequenceTheorems, TLAPS

\* A caller is in at most one place: holding, suspended or resolved.
OnePlace ==
    /\ \A i, j \in DOMAIN waiters : waiters[i] = waiters[j] => i = j
    /\ \A i, j \in DOMAIN woken : woken[i] = woken[j] => i = j
    /\ \A i \in DOMAIN waiters, j \in DOMAIN woken : waiters[i] # woken[j]
    /\ \A i \in DOMAIN waiters : waiters[i] \notin holders
    /\ \A i \in DOMAIN woken : woken[i] \notin holders

\* The shapes of the variables, without the bound active >= 0, which follows
\* from ownership.
Shapes ==
    /\ active \in Int
    /\ waiters \in Seq(Callers)
    /\ woken \in Seq(Callers)
    /\ holders \in SUBSET Callers

\* The inductive invariant.  OnePlace is what makes a resumed caller a new
\* holder, so that counting it once keeps `active` equal to the holders.
IInv ==
    /\ Shapes
    /\ OnePlace
    /\ IsFiniteSet(holders)
    /\ SlotsAreOwned
    /\ NoIdleSlotWhileWaiting

LEMMA InitIInv == Init => IInv
<1> SUFFICES ASSUME Init PROVE IInv
    OBVIOUS
<1>1. Shapes /\ OnePlace
    BY DEF Init, Shapes, OnePlace
<1>2. IsFiniteSet(holders) /\ Cardinality(holders) = 0
    BY FS_EmptySet DEF Init
<1>3. SlotsAreOwned /\ NoIdleSlotWhileWaiting
    BY <1>2 DEF Init, SlotsAreOwned, NoIdleSlotWhileWaiting
<1> QED BY <1>1, <1>2, <1>3 DEF IInv

\* The caller becomes a new holder and is counted.
LEMMA HolderAdded ==
    ASSUME IInv, NEW c \in Callers, c \notin holders,
           active' = active + 1, holders' = holders \cup {c}
    PROVE  IsFiniteSet(holders') /\ SlotsAreOwned'
BY FS_AddElement DEF IInv, SlotsAreOwned

LEMMA AcquireNowIInv ==
    ASSUME IInv, NEW c \in Callers, AcquireNow(c) PROVE IInv'
<1>1. c \notin holders /\ ~Queued(c) /\ ~Woken(c)
    BY DEF AcquireNow, Idle
<1>2. active' = active + 1 /\ holders' = holders \cup {c}
      /\ waiters' = waiters /\ woken' = woken
    BY DEF AcquireNow
<1>3. Shapes'
    BY <1>2 DEF IInv, Shapes
<1>4. OnePlace'
    BY <1>1, <1>2 DEF IInv, OnePlace, Queued, Woken
<1>5. IsFiniteSet(holders') /\ SlotsAreOwned'
    BY <1>1, <1>2, HolderAdded
<1>6. NoIdleSlotWhileWaiting'
    BY <1>2, LenProperties, CapacityAssumption DEF IInv, Shapes, NoIdleSlotWhileWaiting, Claims
<1> QED BY <1>3, <1>4, <1>5, <1>6 DEF IInv

LEMMA AcquireWaitIInv ==
    ASSUME IInv, NEW c \in Callers, AcquireWait(c) PROVE IInv'
<1>1. c \notin holders /\ ~Queued(c) /\ ~Woken(c) /\ active >= Capacity
    BY DEF AcquireWait, Idle
<1>2. waiters' = Append(waiters, c) /\ active' = active
      /\ woken' = woken /\ holders' = holders
    BY DEF AcquireWait
<1>3. /\ Len(waiters') = Len(waiters) + 1
      /\ \A i \in DOMAIN waiters' :
            waiters'[i] = IF i = Len(waiters) + 1 THEN c ELSE waiters[i]
    BY <1>2 DEF IInv, Shapes
<1>4. Shapes'
    BY <1>2 DEF IInv, Shapes
<1>5. OnePlace'
    BY <1>1, <1>2, <1>3 DEF IInv, Shapes, OnePlace, Queued, Woken
<1>6. NoIdleSlotWhileWaiting'
    BY <1>1, <1>2, LenProperties, CapacityAssumption DEF IInv, Shapes, NoIdleSlotWhileWaiting, Claims
<1>7. IsFiniteSet(holders') /\ SlotsAreOwned'
    BY <1>2 DEF IInv, SlotsAreOwned
<1> QED BY <1>4, <1>5, <1>6, <1>7 DEF IInv

LEMMA ResumeIInv ==
    ASSUME IInv, NEW c \in Callers, Resume(c) PROVE IInv'
<1>1. woken # <<>> /\ Head(woken) = c /\ woken' = Tail(woken)
      /\ active' = active + 1 /\ holders' = holders \cup {c}
      /\ waiters' = waiters
    BY DEF Resume
<1>2. /\ 1 \in DOMAIN woken /\ woken[1] = c
      /\ woken' \in Seq(Callers)
      /\ Len(woken) \in Nat \ {0} /\ Len(woken') = Len(woken) - 1
      /\ \A i \in DOMAIN woken' : i + 1 \in DOMAIN woken /\ woken'[i] = woken[i + 1]
    BY <1>1 DEF IInv, Shapes
<1>3. c \notin holders
    BY <1>2 DEF IInv, OnePlace
<1>4. Shapes'
    BY <1>1, <1>2 DEF IInv, Shapes
<1>5. OnePlace'
  <2>1. \A i, j \in DOMAIN woken' : woken'[i] = woken'[j] => i = j
      BY <1>2 DEF IInv, Shapes, OnePlace
  <2>2. \A i \in DOMAIN woken' : woken'[i] \notin holders'
    <3> SUFFICES ASSUME NEW i \in DOMAIN woken' PROVE woken'[i] \notin holders'
        OBVIOUS
    <3>1. i \in Nat \ {0}
        BY <1>2
    <3>2. woken[i + 1] # woken[1]
        BY <1>2, <3>1 DEF IInv, OnePlace
    <3> QED BY <1>1, <1>2, <3>2 DEF IInv, OnePlace
  <2>3. \A i \in DOMAIN waiters', j \in DOMAIN woken' : waiters'[i] # woken'[j]
      BY <1>1, <1>2 DEF IInv, OnePlace
  <2>4. \A i \in DOMAIN waiters' : waiters'[i] \notin holders'
      BY <1>1, <1>2 DEF IInv, OnePlace
  <2> QED BY <1>1, <2>1, <2>2, <2>3, <2>4 DEF IInv, OnePlace
<1>6. IsFiniteSet(holders') /\ SlotsAreOwned'
    BY <1>1, <1>3, HolderAdded
<1>7. NoIdleSlotWhileWaiting'
    BY <1>1, <1>2, CapacityAssumption DEF IInv, Shapes, NoIdleSlotWhileWaiting, Claims
<1> QED BY <1>4, <1>5, <1>6, <1>7 DEF IInv

LEMMA ReleaseIInv ==
    ASSUME IInv, NEW c \in Callers, Release(c) PROVE IInv'
<1>1. c \in holders /\ holders' = holders \ {c} /\ active' = active - 1
    BY DEF Release
<1>2. IsFiniteSet(holders') /\ SlotsAreOwned'
    BY <1>1, FS_RemoveElement DEF IInv, SlotsAreOwned
<1>3. CASE waiters = <<>>
  <2>1. waiters' = waiters /\ woken' = woken
      BY <1>3 DEF Release
  <2>2. Shapes' /\ OnePlace'
      BY <1>1, <2>1 DEF IInv, Shapes, OnePlace
  <2>3. NoIdleSlotWhileWaiting'
      BY <1>3, <2>1 DEF NoIdleSlotWhileWaiting
  <2> QED BY <1>2, <2>2, <2>3 DEF IInv
<1>4. CASE waiters # <<>>
  <2>1. waiters' = Tail(waiters) /\ woken' = Append(woken, Head(waiters))
      BY <1>4 DEF Release
  <2>2. /\ Head(waiters) \in Callers
        /\ 1 \in DOMAIN waiters /\ Head(waiters) = waiters[1]
        /\ waiters' \in Seq(Callers)
        /\ \A i \in DOMAIN waiters' :
              i \in Nat \ {0} /\ i + 1 \in DOMAIN waiters /\ waiters'[i] = waiters[i + 1]
      BY <1>4, <2>1 DEF IInv, Shapes
  <2>3. /\ woken' \in Seq(Callers)
        /\ Len(woken) \in Nat /\ Len(woken') = Len(woken) + 1
        /\ \A i \in DOMAIN woken' :
              IF i = Len(woken) + 1 THEN woken'[i] = waiters[1]
              ELSE i \in DOMAIN woken /\ woken'[i] = woken[i]
      BY <2>1, <2>2 DEF IInv, Shapes
  <2>4. Shapes'
      BY <1>1, <2>2, <2>3 DEF IInv, Shapes
  <2>5. OnePlace'
    <3>1. \A i, j \in DOMAIN waiters' : waiters'[i] = waiters'[j] => i = j
        BY <2>2 DEF IInv, OnePlace
    <3>2. \A i, j \in DOMAIN woken' : woken'[i] = woken'[j] => i = j
        BY <2>2, <2>3 DEF IInv, OnePlace
    <3>3. \A i \in DOMAIN waiters', j \in DOMAIN woken' : waiters'[i] # woken'[j]
        BY <2>2, <2>3 DEF IInv, OnePlace
    <3>4. \A i \in DOMAIN waiters' : waiters'[i] \notin holders'
        BY <1>1, <2>2 DEF IInv, OnePlace
    <3>5. \A i \in DOMAIN woken' : woken'[i] \notin holders'
        BY <1>1, <2>2, <2>3 DEF IInv, OnePlace
    <3> QED BY <3>1, <3>2, <3>3, <3>4, <3>5 DEF OnePlace
  <2>6. NoIdleSlotWhileWaiting'
      BY <1>1, <1>4, <2>3, CapacityAssumption
      DEF IInv, Shapes, NoIdleSlotWhileWaiting, Claims
  <2> QED BY <1>2, <2>4, <2>5, <2>6 DEF IInv
<1> QED BY <1>3, <1>4

LEMMA NextIInv == IInv /\ [Next]_vars => IInv'
<1> SUFFICES ASSUME IInv, [Next]_vars PROVE IInv'
    OBVIOUS
<1>1. ASSUME NEW c \in Callers, AcquireNow(c) PROVE IInv'
    BY <1>1, AcquireNowIInv
<1>2. ASSUME NEW c \in Callers, AcquireWait(c) PROVE IInv'
    BY <1>2, AcquireWaitIInv
<1>3. ASSUME NEW c \in Callers, Resume(c) PROVE IInv'
    BY <1>3, ResumeIInv
<1>4. ASSUME NEW c \in Callers, Release(c) PROVE IInv'
    BY <1>4, ReleaseIInv
<1>5. CASE UNCHANGED vars
    BY <1>5 DEF vars, IInv, Shapes, OnePlace, SlotsAreOwned,
                NoIdleSlotWhileWaiting, Claims
<1> QED BY <1>1, <1>2, <1>3, <1>4, <1>5 DEF Next, Acquire

\* Nobody but the caller of acquire() comes into the semaphore, and who gives
\* a slot back is out of it.
LEMMA AcquireIdle ==
    ASSUME IInv, NEW c \in Callers, Acquire(c), NEW d \in Callers \ {c}, Idle(d)
    PROVE  Idle(d)'
<1>1. CASE AcquireNow(c)
    BY <1>1 DEF AcquireNow, Idle, Queued, Woken
<1>2. CASE AcquireWait(c)
  <2>1. waiters \in Seq(Callers) /\ waiters' = Append(waiters, c) /\ UNCHANGED <<woken, holders>>
      BY <1>2 DEF AcquireWait, IInv, Shapes
  <2>2. \A i \in DOMAIN waiters' : waiters'[i] # c => i \in DOMAIN waiters /\ waiters'[i] = waiters[i]
      BY <2>1
  <2> QED BY <2>1, <2>2 DEF Idle, Queued, Woken
<1> QED BY <1>1, <1>2 DEF Acquire

LEMMA ResumeIdle ==
    ASSUME IInv, NEW c \in Callers, Resume(c), NEW d \in Callers, Idle(d)
    PROVE  Idle(d)'
<1>1. /\ woken \in Seq(Callers) /\ woken # <<>> /\ Head(woken) = c /\ woken' = Tail(woken)
      /\ holders' = holders \cup {c} /\ waiters' = waiters
    BY DEF Resume, IInv, Shapes
<1>2. /\ 1 \in DOMAIN woken /\ woken[1] = c
      /\ \A i \in DOMAIN woken' : i + 1 \in DOMAIN woken /\ woken'[i] = woken[i + 1]
    BY <1>1
<1> QED BY <1>1, <1>2 DEF Idle, Queued, Woken

LEMMA ReleaseIdle ==
    ASSUME IInv, NEW c \in Callers, Release(c), NEW d \in Callers, Idle(d) \/ d = c
    PROVE  Idle(d)'
<1>1. ~Queued(d) /\ ~Woken(d) /\ d \notin holders'
    BY DEF Release, Idle, IInv, OnePlace, Queued, Woken
<1>2. CASE waiters = <<>>
    BY <1>1, <1>2 DEF Release, Idle, Queued, Woken
<1>3. CASE waiters # <<>>
  <2>1. /\ waiters \in Seq(Callers) /\ woken \in Seq(Callers)
        /\ waiters' = Tail(waiters) /\ woken' = Append(woken, Head(waiters))
      BY <1>3 DEF Release, IInv, Shapes
  <2>2. /\ 1 \in DOMAIN waiters /\ Head(waiters) = waiters[1]
        /\ \A i \in DOMAIN waiters' : i + 1 \in DOMAIN waiters /\ waiters'[i] = waiters[i + 1]
      BY <1>3, <2>1
  <2>3. \A i \in DOMAIN woken' : woken'[i] # waiters[1] => i \in DOMAIN woken /\ woken'[i] = woken[i]
      BY <2>1, <2>2
  <2> QED BY <1>1, <2>1, <2>2, <2>3 DEF Idle, Queued, Woken
<1> QED BY <1>2, <1>3

LEMMA NothingHeld == IInv /\ holders = {} => active = 0
BY FS_EmptySet DEF IInv, SlotsAreOwned

LEMMA IInvTypes == IInv => TypeOK
BY FS_CardinalityType DEF IInv, Shapes, TypeOK, SlotsAreOwned

\* The variables keep their types: release() never takes `active` below zero.
THEOREM TypeCorrect == Spec => []TypeOK
BY InitIInv, NextIInv, IInvTypes, PTL DEF Spec

\* Whatever order releases, continuations and newcomers run in, `active`
\* counts the callers that still own a release().
THEOREM Ownership == Spec => []SlotsAreOwned
<1>1. IInv => SlotsAreOwned
    BY DEF IInv
<1> QED BY InitIInv, NextIInv, <1>1, PTL DEF Spec

\* No slot is idle while a caller of acquire() is suspended.
THEOREM NoLostWakeUp == Spec => []NoIdleSlotWhileWaiting
<1>1. IInv => NoIdleSlotWhileWaiting
    BY DEF IInv
<1> QED BY InitIInv, NextIInv, <1>1, PTL DEF Spec

\* The semaphore is over its capacity only through an acquisition that runs
\* between a release() and the waiter it resolved.
THEOREM BargingOnly == Spec => OverCapacityOnlyByBarging
<1>1. IInv /\ [Next]_vars
      => [Claims' > Claims /\ Claims' > Capacity => woken # <<>>]_vars
  <2> SUFFICES ASSUME IInv, [Next]_vars, Claims' > Claims, Claims' > Capacity
               PROVE  woken # <<>> \/ UNCHANGED vars
      OBVIOUS
  <2>1. ASSUME NEW c \in Callers, AcquireNow(c) PROVE woken # <<>>
      BY <2>1, CapacityAssumption
      DEF IInv, Shapes, AcquireNow, Claims
  <2>2. ASSUME NEW c \in Callers, AcquireWait(c) PROVE FALSE
      BY <2>2 DEF IInv, Shapes, AcquireWait, Claims
  <2>3. ASSUME NEW c \in Callers, Resume(c) PROVE woken # <<>>
      BY <2>3 DEF Resume
  <2>4. ASSUME NEW c \in Callers, Release(c) PROVE FALSE
    <3>1. CASE waiters = <<>>
        BY <2>4, <3>1 DEF IInv, Shapes, Release, Claims
    <3>2. CASE waiters # <<>>
      <4>1. Head(waiters) \in Callers
          BY <3>2 DEF IInv, Shapes
      <4>2. Len(woken') = Len(woken) + 1 /\ active' = active - 1
          BY <2>4, <3>2, <4>1 DEF IInv, Shapes, Release
      <4> QED BY <4>2 DEF IInv, Shapes, Claims
    <3> QED BY <3>1, <3>2
  <2> QED BY <2>1, <2>2, <2>3, <2>4 DEF Next, Acquire
<1> QED BY InitIInv, NextIInv, <1>1, PTL DEF Spec, OverCapacityOnlyByBarging

-----------------------------------------------------------------------------
(* Who stays in the semaphore, and who goes ahead of whom *)

\* What Release does to the two queues when somebody is suspended.
LEMMA ReleaseQueues ==
    ASSUME IInv, NEW c \in Callers, Release(c), waiters # <<>>
    PROVE  /\ 1 \in DOMAIN waiters /\ Len(waiters) \in Nat \ {0} /\ Len(woken) \in Nat
           /\ Len(waiters') = Len(waiters) - 1 /\ Len(woken') = Len(woken) + 1
           /\ woken'[Len(woken) + 1] = waiters[1]
           /\ \A i \in 1 .. Len(waiters) - 1 : waiters'[i] = waiters[i + 1]
           /\ \A i \in 1 .. Len(woken) : woken'[i] = woken[i]
           /\ waiters' \in Seq(Callers) /\ woken' \in Seq(Callers)
<1>1. /\ waiters \in Seq(Callers) /\ woken \in Seq(Callers)
      /\ waiters' = Tail(waiters) /\ woken' = Append(woken, Head(waiters))
    BY DEF Release, IInv, Shapes
<1>2. 1 \in DOMAIN waiters /\ Len(waiters) \in Nat \ {0} /\ Len(woken) \in Nat
      /\ Head(waiters) = waiters[1] /\ Head(waiters) \in Callers
    BY <1>1
<1> QED BY <1>1, <1>2

\* What Resume does to the queue of resolved callers.
LEMMA ResumeQueue ==
    ASSUME IInv, NEW c \in Callers, Resume(c)
    PROVE  /\ 1 \in DOMAIN woken /\ Len(woken) \in Nat \ {0} /\ woken[1] = c
           /\ Len(woken') = Len(woken) - 1 /\ woken' \in Seq(Callers)
           /\ \A i \in 1 .. Len(woken) - 1 : woken'[i] = woken[i + 1]
<1>1. woken \in Seq(Callers) /\ woken # <<>> /\ Head(woken) = c /\ woken' = Tail(woken)
    BY DEF Resume, IInv, Shapes
<1> QED BY <1>1

\* A caller who asked and has not given its slot back stays in the semaphore,
\* and only goes forward: suspended, resolved, holding.
LEMMA StaysIn ==
    ASSUME IInv, NEW c \in Callers, Acquire(c) \/ Resume(c) \/ Release(c),
           NEW d \in Callers, Release(c) => d # c
    PROVE  /\ d \in holders => d \in holders'
           /\ Woken(d) => Woken(d)' \/ d \in holders'
           /\ Queued(d) => Queued(d)' \/ Woken(d)'
           /\ Acquire(c) => ~Idle(c)'
<1>1. CASE AcquireNow(c)
    BY <1>1 DEF AcquireNow, Woken, Queued, Idle
<1>2. CASE AcquireWait(c)
  <2>1. waiters \in Seq(Callers) /\ waiters' = Append(waiters, c) /\ UNCHANGED <<woken, holders>>
      BY <1>2 DEF AcquireWait, IInv, Shapes
  <2>2. /\ \A i \in DOMAIN waiters : i \in DOMAIN waiters' /\ waiters'[i] = waiters[i]
        /\ \E i \in DOMAIN waiters' : waiters'[i] = c
    <3>1. Len(waiters) + 1 \in DOMAIN waiters' /\ waiters'[Len(waiters) + 1] = c
        BY <2>1
    <3> QED BY <2>1, <3>1
  <2> QED BY <2>1, <2>2 DEF Woken, Queued, Idle
<1>3. CASE Resume(c)
  <2>1. /\ Len(woken) \in Nat \ {0} /\ woken[1] = c /\ Len(woken') = Len(woken) - 1
        /\ \A i \in 1 .. Len(woken) - 1 : woken'[i] = woken[i + 1]
        /\ holders' = holders \cup {c} /\ waiters' = waiters
        /\ woken \in Seq(Callers) /\ woken' \in Seq(Callers)
      BY <1>3, ResumeQueue DEF Resume, IInv, Shapes
  <2>2. ASSUME NEW i \in DOMAIN woken, woken[i] = d, d # c
        PROVE  i - 1 \in DOMAIN woken' /\ woken'[i - 1] = d
    <3>1. i \in 1 .. Len(woken) /\ i # 1
        BY <2>1, <2>2
    <3>2. i - 1 \in 1 .. Len(woken) - 1 /\ (i - 1) + 1 = i
        BY <2>1, <3>1
    <3>3. woken'[i - 1] = woken[(i - 1) + 1]
        BY <2>1, <3>2
    <3> QED BY <2>1, <2>2, <3>2, <3>3
  <2>3. Woken(d) => Woken(d)' \/ d \in holders'
      BY <2>1, <2>2 DEF Woken
  <2>4. ~Acquire(c)
    <3>1. Woken(c)
        BY <1>3, ResumeQueue DEF Woken
    <3> QED BY <3>1 DEF Acquire, AcquireNow, AcquireWait, Idle
  <2> QED BY <2>1, <2>3, <2>4 DEF Queued
<1>4. CASE Release(c)
  <2>1. ~Acquire(c) /\ holders' = holders \ {c} /\ c \in holders /\ d # c
      BY <1>4 DEF Release, Acquire, AcquireNow, AcquireWait, Idle
  <2>2. CASE waiters = <<>>
      BY <1>4, <2>1, <2>2 DEF Release, Woken, Queued
  <2>3. CASE waiters # <<>>
    <3>1. /\ Len(waiters) \in Nat \ {0} /\ Len(woken) \in Nat
          /\ Len(waiters') = Len(waiters) - 1 /\ Len(woken') = Len(woken) + 1
          /\ woken'[Len(woken) + 1] = waiters[1]
          /\ \A i \in 1 .. Len(waiters) - 1 : waiters'[i] = waiters[i + 1]
          /\ \A i \in 1 .. Len(woken) : woken'[i] = woken[i]
          /\ waiters' \in Seq(Callers) /\ woken' \in Seq(Callers)
          /\ waiters \in Seq(Callers) /\ woken \in Seq(Callers)
        BY <1>4, <2>3, ReleaseQueues DEF IInv, Shapes
    <3>2. ASSUME NEW i \in DOMAIN woken, woken[i] = d PROVE Woken(d)'
      <4>1. i \in 1 .. Len(woken) /\ i \in DOMAIN woken'
          BY <3>1
      <4>2. woken'[i] = d
          BY <3>1, <3>2, <4>1
      <4> QED BY <4>1, <4>2 DEF Woken
    <3>3. ASSUME NEW i \in DOMAIN waiters, waiters[i] = d PROVE Queued(d)' \/ Woken(d)'
      <4>1. CASE i = 1
          BY <3>1, <3>3, <4>1 DEF Woken
      <4>2. CASE i # 1
        <5>1. i - 1 \in 1 .. Len(waiters) - 1 /\ (i - 1) + 1 = i
            BY <3>1, <4>2
        <5>2. waiters'[i - 1] = waiters[(i - 1) + 1]
            BY <3>1, <5>1
        <5>3. i - 1 \in DOMAIN waiters' /\ waiters'[i - 1] = d
            BY <3>1, <3>3, <5>1, <5>2
        <5> QED BY <5>3 DEF Queued
      <4> QED BY <4>1, <4>2
    <3>4. (Woken(d) => Woken(d)') /\ (Queued(d) => Queued(d)' \/ Woken(d)')
        BY <3>2, <3>3 DEF Woken, Queued
    <3> QED BY <2>1, <3>4
  <2> QED BY <2>2, <2>3
<1> QED BY <1>1, <1>2, <1>3, <1>4 DEF Acquire

\* The first of the resolved callers stays the first until it continues.
LEMMA HeadStays ==
    ASSUME IInv, NEW c \in Callers, Acquire(c) \/ Resume(c) \/ Release(c),
           NEW d \in Callers, d # c, woken # <<>>, Head(woken) = d
    PROVE  woken' # <<>> /\ Head(woken') = d
<1>1. ~Resume(c)
    BY DEF Resume
<1>2. CASE UNCHANGED woken
    BY <1>2
<1>3. CASE Release(c) /\ waiters # <<>>
  <2>1. /\ Len(woken) \in Nat /\ Len(woken') = Len(woken) + 1 /\ woken' \in Seq(Callers)
        /\ \A i \in 1 .. Len(woken) : woken'[i] = woken[i]
        /\ woken \in Seq(Callers)
      BY <1>3, ReleaseQueues DEF IInv, Shapes
  <2>2. 1 \in 1 .. Len(woken) /\ woken[1] = d
      BY <2>1
  <2>3. woken'[1] = d /\ woken' # <<>>
      BY <2>1, <2>2
  <2> QED BY <2>1, <2>3
<1> QED BY <1>1, <1>2, <1>3 DEF Acquire, AcquireNow, AcquireWait, Release

\* While somebody is suspended and nobody has been resolved, somebody holds a
\* slot, whose release() will wake the first of them.
LEMMA SomebodyHolds ==
    ASSUME IInv, waiters # <<>>, woken = <<>> PROVE holders # {}
<1>1. Claims >= Capacity /\ Claims = active /\ active # 0
    BY CapacityAssumption DEF IInv, Shapes, NoIdleSlotWhileWaiting, Claims
<1> QED BY <1>1, NothingHeld

\* The suspended callers, those already resolved first.
Line == woken \o waiters

\* One line, first come first served: a release() and the continuation it
\* schedules never let a caller suspended later go ahead of one suspended
\* earlier, although they are two jobs and newcomers run between them.
THEOREM OneLine ==
    Spec => [][\/ UNCHANGED Line
               \/ /\ Line # <<>> /\ Line' = Tail(Line)
                  /\ Head(Line) \in holders' \ holders
               \/ \E c \in Callers : Idle(c) /\ Line' = Append(Line, c)]_vars
<1>1. ASSUME IInv, NEW c \in Callers, AcquireNow(c) PROVE UNCHANGED Line
    BY <1>1 DEF AcquireNow, Line
<1>2. ASSUME IInv, NEW c \in Callers, AcquireWait(c) PROVE Idle(c) /\ Line' = Append(Line, c)
  <2>1. /\ Idle(c) /\ waiters' = Append(waiters, c) /\ woken' = woken
        /\ waiters \in Seq(Callers) /\ woken \in Seq(Callers)
      BY <1>2 DEF AcquireWait, IInv, Shapes
  <2> QED BY <2>1 DEF Line
<1>3. ASSUME IInv, NEW c \in Callers, Resume(c)
      PROVE  Line # <<>> /\ Line' = Tail(Line) /\ Head(Line) \in holders' \ holders
  <2>1. /\ woken # <<>> /\ Head(woken) = c /\ woken' = Tail(woken) /\ waiters' = waiters
        /\ woken \in Seq(Callers) /\ waiters \in Seq(Callers)
        /\ holders' = holders \cup {c}
      BY <1>3 DEF Resume, IInv, Shapes
  <2>2. c \notin holders
    <3>1. 1 \in DOMAIN woken /\ woken[1] = c
        BY <2>1
    <3> QED BY <1>3, <3>1 DEF IInv, OnePlace
  <2>3. Line # <<>> /\ Head(Line) = c /\ Line' = Tail(Line)
      BY <2>1 DEF Line
  <2> QED BY <2>1, <2>2, <2>3
<1>4. ASSUME IInv, NEW c \in Callers, Release(c) PROVE UNCHANGED Line
  <2>1. CASE waiters = <<>>
      BY <1>4, <2>1 DEF Release, Line
  <2>2. CASE waiters # <<>>
    <3>1. /\ waiters \in Seq(Callers) /\ woken \in Seq(Callers)
          /\ waiters' = Tail(waiters) /\ woken' = Append(woken, Head(waiters))
        BY <1>4, <2>2 DEF Release, IInv, Shapes
    <3>2. Append(woken, Head(waiters)) \o Tail(waiters) = woken \o waiters
        BY <2>2, <3>1
    <3> QED BY <3>1, <3>2 DEF Line
  <2> QED BY <2>1, <2>2
<1>5. IInv /\ [Next]_vars
      => [\/ UNCHANGED Line
          \/ /\ Line # <<>> /\ Line' = Tail(Line)
             /\ Head(Line) \in holders' \ holders
          \/ \E c \in Callers : Idle(c) /\ Line' = Append(Line, c)]_vars
    BY <1>1, <1>2, <1>3, <1>4 DEF Next, Acquire
<1> QED BY InitIInv, NextIInv, <1>5, PTL DEF Spec
=============================================================================
