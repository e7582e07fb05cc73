---------------------------- MODULE OrderedLane ----------------------------
(***************************************************************************)
(* What the record scheduler promises the handlers of one partition, with  *)
(* no promise chain, read-ahead or semaphore in sight: one record at a     *)
(* time, each after the one before it is committed, none of them under an  *)
(* assignment that has ended, and none after a failure or a stop.          *)
(* RecordScheduler is shown to implement it for every partition.           *)
(***************************************************************************)
EXTENDS Integers

VARIABLES
    yielded,    \* records the stream has yielded
    revoked,    \* records taken under an assignment that has ended
    handling,   \* the record whose handler runs
    done,       \* records whose handler has resolved
    closed      \* a failure, or the stop signal: nothing starts any more

vars == <<yielded, revoked, handling, done, closed>>

Init ==
    /\ yielded = 0
    /\ revoked = {}
    /\ handling = {}
    /\ done = {}
    /\ closed = FALSE

Yield ==
    /\ yielded' = yielded + 1
    /\ UNCHANGED <<revoked, handling, done, closed>>

\* The assignment ends for records among those yielded so far.
Revoke ==
    /\ revoked' \in SUBSET (1 .. yielded)
    /\ revoked \subseteq revoked'
    /\ UNCHANGED <<yielded, handling, done, closed>>

Start(o) ==
    /\ ~closed
    /\ handling = {}
    /\ o \in (1 .. yielded) \ (done \cup revoked)
    /\ 1 .. o - 1 \subseteq done
    /\ handling' = {o}
    /\ UNCHANGED <<yielded, revoked, done, closed>>

Resolve(o) ==
    /\ handling = {o}
    /\ handling' = {}
    /\ done' = done \cup {o}
    /\ UNCHANGED <<yielded, revoked, closed>>

Reject ==
    /\ handling' = {}
    /\ closed' = TRUE
    /\ UNCHANGED <<yielded, revoked, done>>

\* Another partition's failure, the stream's, or the stop signal.
Close ==
    /\ closed' = TRUE
    /\ UNCHANGED <<yielded, revoked, handling, done>>

Next ==
    \/ Yield \/ Revoke \/ Reject \/ Close
    \/ \E o \in 1 .. yielded : Start(o) \/ Resolve(o)

Spec == Init /\ [][Next]_vars
=============================================================================
