---------------------------- MODULE AtLeastOnce ----------------------------
(***************************************************************************)
(* What the scanner promises the producers of its topic, with no task,     *)
(* generation or request in sight: the records of a partition reach their  *)
(* terminal outcomes in order, and the group's committed offset follows    *)
(* behind, one record at a time.  GroupCommit is shown to implement it.    *)
(***************************************************************************)
EXTENDS Integers

CONSTANTS
    Partitions,
    MaxOffset,         \* bound: records per partition
    InitialEnd,        \* records already in each partition
    InitialCommitted   \* the group's committed offset in each partition

Offsets == 0 .. MaxOffset - 1

VARIABLES
    logEnd,      \* records produced per partition
    processed,   \* records that reached a terminal outcome
    committed    \* committed offset per partition

vars == <<logEnd, processed, committed>>

Init ==
    /\ logEnd = [p \in Partitions |-> InitialEnd]
    /\ processed = {r \in Partitions \X Offsets : r[2] < InitialCommitted}
    /\ committed = [p \in Partitions |-> InitialCommitted]

Produce(p) ==
    /\ logEnd[p] < MaxOffset
    /\ logEnd' = [logEnd EXCEPT ![p] = @ + 1]
    /\ UNCHANGED <<processed, committed>>

\* A record is finished for the first time: every earlier one is.
Finish(p, o) ==
    /\ o < logEnd[p]
    /\ \A e \in Offsets : e < o => <<p, e>> \in processed
    /\ processed' = processed \cup {<<p, o>>}
    /\ UNCHANGED <<logEnd, committed>>

\* The committed offset takes in the next record, which is finished.
CommitNext(p) ==
    /\ <<p, committed[p]>> \in processed
    /\ committed' = [committed EXCEPT ![p] = @ + 1]
    /\ UNCHANGED <<logEnd, processed>>

Next ==
    \E p \in Partitions :
        Produce(p) \/ CommitNext(p) \/ \E o \in Offsets : Finish(p, o)

Spec == Init /\ [][Next]_vars
=============================================================================
