--------------------------- MODULE PartitionLease ---------------------------
(***************************************************************************)
(* What one partition's assignment comes to: a lease on its next record.   *)
(* Only the owner takes work, only the record after the committed ones,    *)
(* and the offset moves only past work taken since the last assignment.    *)
(* GroupCommit is shown to implement it for every partition; ScanPipeline  *)
(* assumes a partition of that kind and is shown to use it as one.         *)
(***************************************************************************)
EXTENDS Integers

CONSTANTS
    Tasks,
    None,
    Start      \* the record committed to begin with

VARIABLES
    owner,       \* the task of the current assignment
    committed,   \* the next record of the partition
    work         \* who works on which record, under the current assignment

vars == <<owner, committed, work>>

Init ==
    /\ owner = None
    /\ committed = Start
    /\ work = {}

\* A new assignment ends the work of the one before.
Assign(t) ==
    /\ owner' = t
    /\ work' = {}
    /\ UNCHANGED committed

Take ==
    /\ owner # None
    /\ work = {}
    /\ work' = {<<owner, committed>>}
    /\ UNCHANGED <<owner, committed>>

Commit ==
    /\ work = {<<owner, committed>>}
    /\ work' = {}
    /\ committed' = committed + 1
    /\ UNCHANGED owner

\* The work fails or is lost.
Drop ==
    /\ work' = {}
    /\ UNCHANGED <<owner, committed>>

Next ==
    \/ Take \/ Commit \/ Drop
    \/ \E t \in Tasks \cup {None} : Assign(t)

Spec == Init /\ [][Next]_vars
=============================================================================
