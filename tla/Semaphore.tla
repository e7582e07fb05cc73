----------------------------- MODULE Semaphore -----------------------------
(***************************************************************************)
(* The slot counter of src/semaphore.ts.  acquire() tests the counter      *)
(* once: when it is full the caller queues a resolver and suspends, and    *)
(* when it is resumed it counts itself WITHOUT testing again.  release()   *)
(* frees the slot and resolves the first waiter, whose continuation is a   *)
(* promise job that runs later.  Between the two any other job may call    *)
(* acquire(): the interleaving this module keeps.                          *)
(***************************************************************************)
EXTENDS Integers, Sequences, FiniteSets

CONSTANTS
    Callers,      \* the calls of acquire() that may be outstanding at once
    Capacity      \* constructor argument: slots

\* The constructor refuses anything but a positive integer.
ASSUME CapacityAssumption == Capacity \in Nat \ {0}

VARIABLES
    active,       \* this.active
    waiters,      \* this.waiters: suspended callers, oldest first
    woken,        \* resolved callers whose continuation has not run yet
    holders       \* callers that own an unreleased release() callback

vars == <<active, waiters, woken, holders>>

Queued(c) == \E i \in DOMAIN waiters : waiters[i] = c
Woken(c)  == \E i \in DOMAIN woken : woken[i] = c

TypeOK ==
    /\ active \in Nat
    /\ waiters \in Seq(Callers)
    /\ woken \in Seq(Callers)
    /\ holders \in SUBSET Callers

Init ==
    /\ active = 0
    /\ waiters = <<>>
    /\ woken = <<>>
    /\ holders = {}

-----------------------------------------------------------------------------

Idle(c) == c \notin holders /\ ~Queued(c) /\ ~Woken(c)

\* Mutant: the slot test of acquire() lets one caller too many in.
AcquireOneTooMany(c) ==
    /\ Idle(c)
    /\ active <= Capacity
    /\ active' = active + 1
    /\ holders' = holders \cup {c}
    /\ UNCHANGED <<waiters, woken>>

\* acquire() finds a free slot and counts itself in the same job.
AcquireNow(c) ==
    /\ Idle(c)
    /\ active < Capacity
    /\ active' = active + 1
    /\ holders' = holders \cup {c}
    /\ UNCHANGED <<waiters, woken>>

\* acquire() finds every slot taken and suspends.
AcquireWait(c) ==
    /\ Idle(c)
    /\ active >= Capacity
    /\ waiters' = Append(waiters, c)
    /\ UNCHANGED <<active, woken, holders>>

Acquire(c) == AcquireNow(c) \/ AcquireWait(c)

\* The continuation of a resolved waiter: promise jobs run in order.
Resume(c) ==
    /\ woken # <<>>
    /\ Head(woken) = c
    /\ woken' = Tail(woken)
    /\ active' = active + 1
    /\ holders' = holders \cup {c}
    /\ UNCHANGED waiters

\* Mutant: release() without its `released` flag, called a second time.
ReleaseAgain(c) ==
    /\ active' = active - 1
    /\ holders' = holders \ {c}
    /\ UNCHANGED <<waiters, woken>>

\* Mutant: release() frees the slot and wakes nobody.
ReleaseSilently(c) == c \in holders /\ ReleaseAgain(c)

\* Mutant: release() pops the newest waiter instead of shifting the oldest.
ReleaseNewest(c) ==
    /\ c \in holders
    /\ holders' = holders \ {c}
    /\ active' = active - 1
    /\ IF waiters = <<>>
       THEN UNCHANGED <<waiters, woken>>
       ELSE /\ waiters' = SubSeq(waiters, 1, Len(waiters) - 1)
            /\ woken' = Append(woken, waiters[Len(waiters)])

\* The first call of a holder's release(); later calls return at once.
Release(c) ==
    /\ c \in holders
    /\ holders' = holders \ {c}
    /\ active' = active - 1
    /\ IF waiters = <<>>
       THEN UNCHANGED <<waiters, woken>>
       ELSE /\ waiters' = Tail(waiters)
            /\ woken' = Append(woken, Head(waiters))

Next == \E c \in Callers : Acquire(c) \/ Resume(c) \/ Release(c)

\* Promise jobs run, and a holder's work ends: its finally block releases the
\* slot.  clamd and callback calls have timeouts; S3 requests have none, and
\* are assumed to be answered or broken off.
Fairness == \A c \in Callers : WF_vars(Resume(c)) /\ WF_vars(Release(c))

Spec == Init /\ [][Next]_vars

FairSpec == Spec /\ Fairness

-----------------------------------------------------------------------------
(* Properties *)

\* Every slot counted is owned by exactly one caller who can still give it
\* back, whatever order releases and continuations run in.
SlotsAreOwned == active = Cardinality(holders)

\* Slots taken and slots promised to a resolved waiter.
Claims == active + Len(woken)

\* No lost wake-up: while somebody is suspended, every slot is either taken
\* or already promised to a resolved waiter, so release() has somebody to wake.
NoIdleSlotWhileWaiting == waiters # <<>> => Claims >= Capacity

\* The claims grow past the capacity only in a step that runs between a
\* release() and the continuation of the waiter it resolved: the missing
\* second test in acquire() is the only way over the limit.
OverCapacityOnlyByBarging ==
    [][Claims' > Claims /\ Claims' > Capacity => woken # <<>>]_vars

\* The class's contract, "maximum number of simultaneous holders" (line 9).
AtMostCapacityHolders == Cardinality(holders) <= Capacity

\* A suspended caller gets its slot: a stream of newcomers that barge in
\* cannot starve it.
WaiterEventuallyHolds ==
    \A c \in Callers : Queued(c) ~> c \in holders
=============================================================================
