------------------------ MODULE MCGroupCommitLatest ------------------------
(* GroupCommit for a group that has committed nothing yet, with a history   *)
(* of the records whose handler started.                                    *)
EXTENDS GroupCommit

VARIABLE started

LatestInit == Init /\ started = {}

LatestNext ==
    /\ Next
    /\ started' = started \cup
          {r \in Partitions \X Offsets :
              \E m \in Members : /\ step'[m][r[1]] = "handling"
                                 /\ Head(lane'[m][r[1]]).offset = r[2]}

LatestSpec == LatestInit /\ [][LatestNext]_<<vars, started>>

\* README.md:215-216: an input whose publishing or commit failed "remains
\* retryable; it is never silently dropped".  A record that some task began
\* to handle is not covered by a committed offset unless it was finished.
StartedInputIsNeverDropped ==
    \A r \in started :
        committed[r[1]] # Unset /\ r[2] < committed[r[1]] => r \in processed
=============================================================================
