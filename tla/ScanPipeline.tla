---------------------------- MODULE ScanPipeline ----------------------------
(***************************************************************************)
(* One input record from KafkaMessageHandler.handle down to its effects:   *)
(* source reads and retries (ScanProcessor), result copy and callback      *)
(* (ScanResultHandler), dead letter, commit, and source cleanup.  Several  *)
(* tasks of the service share one partition: at most one of them is its    *)
(* current owner, the others may still be finishing a record they were     *)
(* revoked from.  A process may stop between any two awaits and is         *)
(* restarted; what it has done to S3, to the callback's receiver and to    *)
(* Kafka stays done.                                                       *)
(*                                                                         *)
(* GroupCommit shows what is assumed of the group here: a new owner starts *)
(* at the committed record, and only a commit pinned to the current        *)
(* assignment is accepted.  ScanProcessor adds the slots.                  *)
(***************************************************************************)
EXTENDS Naturals, FiniteSets, EventValidation

CONSTANTS
    Workers,           \* tasks of the service
    Log,               \* the partition's records, as EventValidation sees them
    Messages,          \* messages whose validation is checked
    Oversized,         \* uploads HeadObject reports as too large
    Verdicts,          \* what clamd may answer for a stream
    SourceAttempts,    \* scan.s3NotFoundMaxAttempts
    CallbackAttempts,  \* webhooks.maxAttempts
    MaxFaults          \* failures, crashes and rebalances in a behaviour

Records == 1 .. Len(Log)

\* A location is a bucket and a key.  An upload is named by its location.
Source(r) == Location(Log[r].url)
Targets(r) ==
    IF Log[r].move
    THEN {<<b, Log[r].fileName>> : b \in {Log[r].clean, Log[r].quarantine}}
    ELSE {}
Sources == {Source(r) : r \in Records}
Locations == Sources \cup UNION {Targets(r) : r \in Records}
Urls == {BuildS3Url(l[1], l[2]) : l \in Locations} \cup {Log[r].url : r \in Records}

\* "discarded": a tombstone, malformed, misaddressed or invalid event.
Results == Verdicts \cup {"oversized", "missing", "discarded"}

ASSUME PipelineAssumption ==
    /\ Len(Log) \in Nat
    /\ \A r \in Records :
          /\ Log[r].move \in BOOLEAN
          /\ Log[r].callback \in {"none", "webhook", "kafka"}
          /\ LET name == Log[r].fileName IN name \in Seq({name[i] : i \in DOMAIN name})
    /\ Verdicts \subseteq {"clean", "infected", "oversized"}
    /\ SourceAttempts \in Nat \ {0}
    /\ CallbackAttempts \in Nat \ {0}
    /\ MaxFaults \in Nat
    /\ None \notin Locations /\ None \notin Workers /\ None \notin Records

\* File names belong to one upload: a destination is no other object's source,
\* and two uploads never share one.
ASSUME DestinationAssumption ==
    \A r, q \in Records : \A d \in Targets(r) :
        /\ d \in Sources => d = Source(r)
        /\ d \in Targets(q) => Source(q) = Source(r)

VARIABLES
    \* outside the service
    uploaded,     \* source objects uploaded so far
    store,        \* S3: which upload each location holds
    delivered,    \* callbacks their receiver has accepted
    retained,     \* records of the dead-letter topic
    committed,    \* the group's committed record: the first not yet done
    owner,        \* the task the partition is assigned to
    faults,       \* failures, crashes and rebalances so far
    \* each task
    at,           \* the await its handler is suspended at
    record,       \* the record it is handling
    pinned,       \* its record was fetched under the current assignment
    attempt,      \* source attempts of this record
    tries,        \* callback attempts of this record
    result,       \* the terminal payload of this record
    moved         \* deleteSourceAfterCommit

outside == <<uploaded, store, delivered, retained, committed>>
group == <<committed, owner>>
local == <<record, attempt, tries, result, moved>>
vars == <<uploaded, store, delivered, retained, committed, owner, faults,
          at, record, pinned, attempt, tries, result, moved>>

Places == {"idle", "down", "head", "open", "scan", "copy", "callback",
           "publish", "commit", "commitRetained", "delete"}

Event(w) == Log[record[w]]

\* What a callback says: the record, its result and where the object is.
Reports == [record : Records, result : Results, url : Urls]

TypeOK ==
    /\ uploaded \in SUBSET Sources
    /\ store \in [Locations -> Sources \cup {None}]
    /\ delivered \in SUBSET Reports
    /\ retained \in SUBSET Reports
    /\ committed \in 1 .. Len(Log) + 1
    /\ owner \in Workers \cup {None}
    /\ faults \in 0 .. MaxFaults
    /\ at \in [Workers -> Places]
    /\ record \in [Workers -> Records \cup {None}]
    /\ pinned \in [Workers -> BOOLEAN]
    /\ attempt \in [Workers -> 1 .. SourceAttempts]
    /\ tries \in [Workers -> 1 .. CallbackAttempts]
    /\ result \in [Workers -> Results \cup {None}]
    /\ moved \in [Workers -> BOOLEAN]

Init ==
    /\ uploaded = {}
    /\ store = [l \in Locations |-> None]
    /\ delivered = {}
    /\ retained = {}
    /\ committed = 1
    /\ owner = None
    /\ faults = 0
    /\ at = [w \in Workers |-> "idle"]
    /\ record = [w \in Workers |-> None]
    /\ pinned = [w \in Workers |-> FALSE]
    /\ attempt = [w \in Workers |-> 1]
    /\ tries = [w \in Workers |-> 1]
    /\ result = [w \in Workers |-> None]
    /\ moved = [w \in Workers |-> FALSE]

-----------------------------------------------------------------------------

Fault == faults < MaxFaults /\ faults' = faults + 1

Go(w, place) == at' = [at EXCEPT ![w] = place]

\* The record is done with: what the handler held of it is dropped.
Forget(w) ==
    /\ record' = [record EXCEPT ![w] = None]
    /\ pinned' = [pinned EXCEPT ![w] = FALSE]
    /\ attempt' = [attempt EXCEPT ![w] = 1]
    /\ tries' = [tries EXCEPT ![w] = 1]
    /\ result' = [result EXCEPT ![w] = None]
    /\ moved' = [moved EXCEPT ![w] = FALSE]

\* The process ends; if it owned the partition the group notices.
Down(w) ==
    /\ Go(w, "down")
    /\ Forget(w)
    /\ owner' = IF owner = w THEN None ELSE owner

\* The source object appears.  Keys are not reused.
Upload(l) ==
    /\ l \in Sources \ uploaded
    /\ uploaded' = uploaded \cup {l}
    /\ store' = [store EXCEPT ![l] = l]
    /\ UNCHANGED <<delivered, retained, group, faults, at, pinned, local>>

\* The partition is assigned to w: at a rebalance, or because it has no owner.
\* Whatever was fetched before is fetched under a former assignment.
Join(w) ==
    /\ at[w] # "down"
    /\ owner' = w
    /\ pinned' = [v \in Workers |-> FALSE]
    /\ IF owner = None THEN UNCHANGED faults ELSE Fault
    /\ UNCHANGED <<outside, at, local>>

\* The owner takes the first record the group has not committed.
Begin(w) ==
    /\ at[w] = "idle"
    /\ owner = w
    /\ committed \in Records
    /\ record' = [record EXCEPT ![w] = committed]
    /\ pinned' = [pinned EXCEPT ![w] = TRUE]
    /\ IF Accepted(Log[committed])
       THEN Go(w, "head") /\ UNCHANGED result
       ELSE Go(w, "commit") /\ result' = [result EXCEPT ![w] = "discarded"]
    /\ UNCHANGED <<outside, owner, faults, attempt, tries, moved>>

-----------------------------------------------------------------------------
(* ScanProcessor: the source reads *)

\* The bucket and key a result is moved to: everything not clean is quarantined.
Destination(w, res) ==
    <<IF res = "clean" THEN Event(w).clean ELSE Event(w).quarantine, Event(w).fileName>>

\* movement is disabled for a missing source, and needless in place.
Moves(w, res) ==
    /\ Event(w).move
    /\ res # "missing"
    /\ Destination(w, res) # Source(record[w])

AfterCopy(w) == IF Event(w).callback = "none" THEN "commit" ELSE "callback"

\* ResultHandler.handle is called with a terminal payload.
Conclude(w, res) ==
    /\ result' = [result EXCEPT ![w] = res]
    /\ Go(w, IF Moves(w, res) THEN "copy" ELSE AfterCopy(w))

Present(w) == store[Source(record[w])] # None

\* Mutant: the last missing-object error is rethrown as it is.
MissingThrows(w) ==
    /\ ~Present(w)
    /\ IF attempt[w] < SourceAttempts
       THEN /\ attempt' = [attempt EXCEPT ![w] = @ + 1]
            /\ Go(w, "head")
            /\ UNCHANGED <<owner, pinned, record, tries, result, moved>>
       ELSE Down(w)

\* A 404 from either read: a whole new attempt, or the fail-closed payload.
Missing(w) ==
    /\ ~Present(w)
    /\ IF attempt[w] < SourceAttempts
       THEN /\ attempt' = [attempt EXCEPT ![w] = @ + 1]
            /\ Go(w, "head")
            /\ UNCHANGED result
       ELSE Conclude(w, "missing") /\ UNCHANGED attempt
    /\ UNCHANGED <<owner, pinned, record, tries, moved>>

\* HeadObject, and the size check before anything is opened.
GetMetadata(w) ==
    /\ at[w] = "head"
    /\ \/ Missing(w)
       \/ /\ Present(w)
          /\ IF store[Source(record[w])] \in Oversized
             THEN Conclude(w, "oversized")
             ELSE Go(w, "open") /\ UNCHANGED result
          /\ UNCHANGED <<owner, pinned, record, attempt, tries, moved>>
    /\ UNCHANGED <<outside, faults>>

\* GetObject, with a scan slot held.
OpenReadStream(w) ==
    /\ at[w] = "open"
    /\ \/ Missing(w)
       \/ /\ Present(w)
          /\ Go(w, "scan")
          /\ UNCHANGED <<owner, pinned, local>>
    /\ UNCHANGED <<outside, faults>>

\* clamd answers: its definitions are those of this moment.
Scan(w) ==
    /\ at[w] = "scan"
    /\ \E v \in Verdicts : Conclude(w, v)
    /\ UNCHANGED <<outside, owner, faults, pinned, record, attempt, tries, moved>>

-----------------------------------------------------------------------------
(* ScanResultHandler: copy and callback *)

\* Mutant: a failed copy is logged like a failed deletion.
CopyBestEffort(w) ==
    /\ at[w] = "copy"
    /\ \/ /\ Present(w)
          /\ store' = [store EXCEPT ![Destination(w, result[w])] =
                                        store[Source(record[w])]]
       \/ UNCHANGED store
    /\ moved' = [moved EXCEPT ![w] = TRUE]
    /\ Go(w, AfterCopy(w))
    /\ UNCHANGED <<uploaded, delivered, retained, group, faults, pinned, record,
                   attempt, tries, result>>

\* CopyObject.  A source that is gone by now is an operational failure, and
\* so would be a missing destination bucket.
Copy(w) ==
    /\ at[w] = "copy"
    /\ IF Present(w) /\ Destination(w, result[w])[1] # None
       THEN /\ store' = [store EXCEPT ![Destination(w, result[w])] =
                                          store[Source(record[w])]]
            /\ moved' = [moved EXCEPT ![w] = TRUE]
            /\ Go(w, AfterCopy(w))
            /\ UNCHANGED <<owner, pinned, record, attempt, tries, result>>
       ELSE Down(w) /\ UNCHANGED store
    /\ UNCHANGED <<uploaded, delivered, retained, committed, faults>>

\* result.url: the destination of a payload with movement, else the source.
Report(w) ==
    [record |-> record[w], result |-> result[w],
     url |-> IF Event(w).move /\ result[w] # "missing"
             THEN BuildS3Url(Destination(w, result[w])[1], Event(w).fileName)
             ELSE Event(w).url]

\* The callback is accepted.
Deliver(w) ==
    /\ at[w] = "callback"
    /\ delivered' = delivered \cup {Report(w)}
    /\ Go(w, "commit")
    /\ UNCHANGED <<uploaded, store, retained, group, faults, pinned, local>>

\* Mutant: `>` for `>=` in the attempt test.
DeliveryFailsOnceMore(w) ==
    /\ at[w] = "callback"
    /\ Fault
    /\ IF tries[w] > CallbackAttempts
       THEN Go(w, "publish") /\ UNCHANGED tries
       ELSE tries' = [tries EXCEPT ![w] = @ + 1] /\ UNCHANGED at
    /\ UNCHANGED <<outside, owner, pinned, record, attempt, result, moved>>

\* An attempt fails, with or without having reached the receiver: after the
\* backoff the next one, or CallbackDeliveryError.
DeliveryFails(w) ==
    /\ at[w] = "callback"
    /\ Fault
    /\ \/ UNCHANGED delivered
       \/ delivered' = delivered \cup {Report(w)}
    /\ IF tries[w] >= CallbackAttempts
       THEN Go(w, "publish") /\ UNCHANGED tries
       ELSE tries' = [tries EXCEPT ![w] = @ + 1] /\ UNCHANGED at
    /\ UNCHANGED <<uploaded, store, retained, group, pinned, record, attempt,
                   result, moved>>

-----------------------------------------------------------------------------
(* KafkaMessageHandler: dead letter, commit, cleanup *)

\* Mutant: the acknowledgement of the dead letter is not looked at.
PublishUnchecked(w) ==
    /\ at[w] = "publish"
    /\ \/ retained' = retained \cup {Report(w)} \/ UNCHANGED retained
    /\ Go(w, "commitRetained")
    /\ UNCHANGED <<uploaded, store, delivered, group, faults, pinned, local>>

\* The dead-letter record is acknowledged by all replicas.
Publish(w) ==
    /\ at[w] = "publish"
    /\ retained' = retained \cup {Report(w)}
    /\ Go(w, "commitRetained")
    /\ UNCHANGED <<uploaded, store, delivered, group, faults, pinned, local>>

\* Mutant: cleanup is also run for a record retained for replay.
CommitAndCleanUp(w) ==
    /\ at[w] \in {"commit", "commitRetained"}
    /\ IF pinned[w]
       THEN /\ committed' = record[w] + 1
            /\ IF moved[w]
               THEN Go(w, "delete") /\ UNCHANGED <<owner, pinned, local>>
               ELSE Go(w, "idle") /\ Forget(w) /\ UNCHANGED owner
       ELSE Down(w) /\ UNCHANGED committed
    /\ UNCHANGED <<uploaded, store, delivered, retained, faults>>

\* Mutant: the commit carries whatever assignment the task has by then.
CommitUnpinned(w) ==
    /\ at[w] \in {"commit", "commitRetained"}
    /\ IF owner = w
       THEN /\ committed' = record[w] + 1
            /\ IF at[w] = "commit" /\ moved[w]
               THEN Go(w, "delete") /\ UNCHANGED <<owner, pinned, local>>
               ELSE Go(w, "idle") /\ Forget(w) /\ UNCHANGED owner
       ELSE Down(w) /\ UNCHANGED committed
    /\ UNCHANGED <<uploaded, store, delivered, retained, faults>>

\* message.commit(): accepted only from the assignment the record was fetched
\* under; a refusal is fatal for the process.
Commit(w) ==
    /\ at[w] \in {"commit", "commitRetained"}
    /\ IF pinned[w]
       THEN /\ committed' = record[w] + 1
            /\ IF at[w] = "commit" /\ moved[w]
               THEN Go(w, "delete") /\ UNCHANGED <<owner, pinned, local>>
               ELSE Go(w, "idle") /\ Forget(w) /\ UNCHANGED owner
       ELSE Down(w) /\ UNCHANGED committed
    /\ UNCHANGED <<uploaded, store, delivered, retained, faults>>

\* afterCommit(): the source is deleted.
Delete(w) ==
    /\ at[w] = "delete"
    /\ store' = [store EXCEPT ![Source(record[w])] = None]
    /\ Go(w, "idle")
    /\ Forget(w)
    /\ UNCHANGED <<uploaded, delivered, retained, group, faults>>

\* A failed deletion is logged only.
DeleteFails(w) ==
    /\ at[w] = "delete"
    /\ Fault
    /\ Go(w, "idle")
    /\ Forget(w)
    /\ UNCHANGED <<outside, owner>>

\* Any other await rejects, which stops the process, or the process dies.
\* The request it was waiting for may or may not have taken effect.
Stops(w) ==
    /\ at[w] # "down"
    /\ Fault
    /\ Down(w)
    /\ UNCHANGED outside

\* The orchestrator replaces the stopped task.
Restart(w) ==
    /\ at[w] = "down"
    /\ Go(w, "idle")
    /\ UNCHANGED <<outside, owner, faults, pinned, local>>

Finished ==
    /\ committed \notin Records
    /\ \A w \in Workers : at[w] = "idle"
    /\ UNCHANGED vars

Handle(w) ==
    \/ Begin(w) \/ GetMetadata(w) \/ OpenReadStream(w) \/ Scan(w)
    \/ Copy(w) \/ Deliver(w) \/ Publish(w) \/ Commit(w) \/ Delete(w)

Next ==
    \/ \E l \in Sources : Upload(l)
    \/ \E w \in Workers :
          \/ Handle(w) \/ Join(w) \/ DeliveryFails(w) \/ DeleteFails(w)
          \/ Stops(w) \/ Restart(w)
    \/ Finished

\* Every await settles (the S3 requests by assumption: they have no timeout),
\* a stopped task is replaced and a partition without an owner gets one.
\* Failures are not fair: there are at most MaxFaults of them.
Fairness ==
    \A w \in Workers :
        /\ WF_vars(Handle(w))
        /\ WF_vars(Restart(w))
        /\ WF_vars(owner = None /\ Join(w))

Spec == Init /\ [][Next]_vars

FairSpec == Spec /\ Fairness

-----------------------------------------------------------------------------
(* Properties *)

Reported(r) == {d \in delivered : d.record = r}

\* "This ordering keeps the source available if callback delivery or commit
\* must retry", a record retained for replay keeps it, and no upload is ever
\* destroyed: a source is gone only if some record was committed after its
\* callback was accepted and its destination still holds the upload.
SourceOutlivesRetries ==
    \A l \in uploaded :
        store[l] # l =>
            \E r \in Records :
                /\ Source(r) = l
                /\ r < committed
                /\ Log[r].callback # "none" => Reported(r) # {}
                /\ \E d \in Targets(r) : store[d] = l

\* "It is never silently dropped": behind the committed offset every valid
\* record was delivered to its callback or is in the dead-letter topic.
NothingSilentlyDropped ==
    \A r \in Records :
        /\ r < committed
        /\ Accepted(Log[r])
        /\ Log[r].callback # "none"
        => \E d \in delivered \cup retained : d.record = r

\* The receiver of a callback about an object moved out of its place finds that
\* very upload at the callback's URL, whatever is retried or replayed later.
\* buildS3Url promises it only of names without dot segments: with any other
\* file name the URL is not the address of the copy.
ReportedUrlResolves ==
    \A d \in delivered :
        /\ Log[d.record].move /\ d.result # "missing"
        /\ Undotted(d.url.path)
        /\ Location(d.url) \notin Sources
        => store[Location(d.url)] = Source(d.record)

\* The record in hand under the current assignment.
Work == {<<w, record[w]>> : w \in {v \in Workers : pinned[v] /\ at[v] # "delete"}}

\* The partition is used as the lease GroupCommit provides: whatever is revoked
\* or crashes, the offset moves only past the record the owner took last.
Lease == INSTANCE PartitionLease WITH Tasks <- Workers, Start <- 1, work <- Work
LeaseIsUsed == Lease!Spec

AcceptedMessages == {e \in Messages : Accepted(e)}

\* No request in handling lacks a field that its later steps need, and none that
\* would be accepted does: an event without one is discarded at once instead of
\* stopping one task after the other.
AcceptedRequestsAreComplete ==
    /\ \A w \in Workers : record[w] # None /\ result[w] # "discarded" => Complete(Event(w))
    /\ \A e \in AcceptedMessages : Complete(e)

\* README: "repeating the destination copy is safe because it targets the same
\* bucket and key".
RepeatedCopyHasOneTarget ==
    \A r \in Records :
        Log[r].move => \/ store[<<Log[r].clean, Log[r].fileName>>] = None
                       \/ store[<<Log[r].quarantine, Log[r].fileName>>] = None

\* When failures stop, every record of the log is dealt with: neither a missing
\* object, nor a dead receiver, nor an invalid event blocks the partition.
BacklogDrains == <>(committed = Len(Log) + 1)
=============================================================================
