--------------------------- MODULE ScanProcessor ---------------------------
(* ScanProcessor of src/scan-processor.ts with its scan slots and the scans *)
(* made under them.  Scans are what the record scheduler keeps in flight: a *)
(* lane takes one record after the other.  What a result does to S3, the    *)
(* callback and Kafka is ScanPipeline's subject; here it is an await that   *)
(* may be long and may fail.                                                *)
EXTENDS Naturals, Sequences, ClamAvClient

CONSTANTS
  ScanConcurrency,    \* config.scan.concurrency
  SourceAttempts      \* config.scan.s3NotFoundMaxAttempts

ASSUME ProcessorAssumption ==
  ScanConcurrency \in Nat \ {0} /\ SourceAttempts \in Nat \ {0}

VARIABLES
  at,         \* the await a request is suspended at
  attempt,    \* source attempts of a request
  active, waiters, woken, holders    \* this.scanSlots

slotVars == <<active, waiters, woken, holders>>
vars == <<clientVars, at, attempt, slotVars>>

Slots == INSTANCE Semaphore WITH Callers <- Scans, Capacity <- ScanConcurrency

Scanning == {"open", "scan", "deliver"}
Places == {"idle", "head", "backoff", "slot", "report", "failed"} \cup Scanning

TypeOK ==
  /\ ClientTypeOK
  /\ at \in [Scans -> Places]
  /\ attempt \in [Scans -> 1 .. SourceAttempts]
  /\ Slots!TypeOK

Init ==
  /\ ClientInit /\ Slots!Init
  /\ at = [c \in Scans |-> "idle"]
  /\ attempt = [c \in Scans |-> 1]

Go(c, place) == at' = [at EXCEPT ![c] = place]

-----------------------------------------------------------------------------
(* Before the slot *)

\* A lane takes a record; after a failure the scheduler admits none.
Begin(c) ==
  /\ at[c] = "idle" /\ \A d \in Scans : at[d] # "failed"
  /\ Go(c, "head")
  /\ UNCHANGED <<clientVars, attempt, slotVars>>

Leave(c, place) ==
  /\ Go(c, place)
  /\ attempt' = [attempt EXCEPT ![c] = 1]
  /\ Drop({c})

Fail(c) == Leave(c, "failed")

\* Mutant: `<=` for `<` in the attempt test.
MissingOnceMore(c) ==
  IF attempt[c] <= SourceAttempts
  THEN Go(c, "backoff") /\ attempt' = [attempt EXCEPT ![c] = @ + 1]
  ELSE Go(c, "report") /\ UNCHANGED attempt

\* A missing source: backoff and a whole new attempt, or its terminal result.
Missing(c) ==
  IF attempt[c] < SourceAttempts
  THEN Go(c, "backoff") /\ attempt' = [attempt EXCEPT ![c] = @ + 1]
  ELSE Go(c, "report") /\ UNCHANGED attempt

\* HeadObject answers and the source fits: scanSlots.acquire().
Acquire(c) ==
  /\ at[c] = "head"
  /\ \/ Slots!AcquireNow(c) /\ Go(c, "open")
     \/ Slots!AcquireWait(c) /\ Go(c, "slot")
  /\ UNCHANGED <<clientVars, attempt>>

\* HeadObject answers otherwise: too large, missing, or an error.
NotScanned(c) ==
  /\ at[c] = "head"
  /\ \/ Go(c, "report") /\ UNCHANGED <<clientVars, attempt>>
     \/ Missing(c) /\ UNCHANGED clientVars
     \/ Fail(c)
  /\ UNCHANGED slotVars

BackoffEnds(c) ==
  /\ at[c] = "backoff"
  /\ Go(c, "head")
  /\ UNCHANGED <<clientVars, attempt, slotVars>>

SlotGranted(c) ==
  /\ Slots!Resume(c)
  /\ Go(c, "open")
  /\ UNCHANGED <<clientVars, attempt>>

-----------------------------------------------------------------------------
(* Under the slot *)

\* Mutant: a missing object leaves the method before the try block.
SourceMissingBeforeTry(c) ==
  at[c] = "open" /\ Missing(c) /\ UNCHANGED <<clientVars, slotVars>>

\* GetObject finds the source gone: the finally block releases the slot.
SourceMissing(c) ==
  at[c] = "open" /\ Missing(c) /\ Slots!Release(c) /\ UNCHANGED clientVars

\* GetObject answers with the body, and scan() begins; or it fails.
OpenReadStream(c) ==
  /\ at[c] = "open"
  /\ \/ OpenSocket(c) /\ Go(c, "scan") /\ UNCHANGED <<attempt, slotVars>>
     \/ Fail(c) /\ Slots!Release(c)

\* scan() returns a verdict or the size limit, which is a result as well;
\* anything else it throws ends the attempt.
Scanned(c) ==
  /\ at[c] = "scan" /\ step[c] = "settled"
  /\ IF outcome[c] \in {"error", "refused"}
     THEN Fail(c) /\ Slots!Release(c)
     ELSE Go(c, "deliver") /\ UNCHANGED <<clientVars, attempt, slotVars>>

\* results.handle() settles under the slot, after copy, callback and backoff.
Delivered(c) ==
  /\ at[c] = "deliver"
  /\ Leave(c, "idle") \/ Fail(c)
  /\ Slots!Release(c)

\* results.handle() settles for a result that needed no scan.
Reported(c) ==
  /\ at[c] = "report"
  /\ Leave(c, "idle") \/ Fail(c)
  /\ UNCHANGED slotVars

-----------------------------------------------------------------------------
(* The end of a process *)

\* A failed request stops the process once the others have settled; the task
\* is replaced.
ProcessReplaced ==
  /\ \A c \in Scans : at[c] \in {"idle", "failed"}
  /\ \E c \in Scans : at[c] = "failed"
  /\ Drop(Calls) /\ at' = [c \in Scans |-> "idle"]
  /\ attempt' = [c \in Scans |-> 1]
  /\ UNCHANGED slotVars

Client == \E c \in Scans : ClientStep(c) /\ UNCHANGED <<at, attempt, slotVars>>

Request(c) ==
  \/ Begin(c) \/ Acquire(c) \/ NotScanned(c) \/ BackoffEnds(c) \/ SlotGranted(c)
  \/ SourceMissing(c) \/ OpenReadStream(c) \/ Scanned(c) \/ Delivered(c) \/ Reported(c)

Next ==
  \/ \E c \in Scans : Request(c)
  \/ Client \/ ProcessReplaced

Spec == Init /\ [][Next]_vars

\* Promise continuations run and the clamd deadlines fire.  result handling
\* ends, because callbacks have timeouts and bounded attempts, and GetObject
\* is assumed to be answered.  Nothing is assumed of clamd or of the body.
Fairness ==
  /\ \A c \in Scans :
        /\ WF_vars(Deadline(c) /\ UNCHANGED <<at, attempt, slotVars>>)
        /\ WF_vars(Continuation(c) /\ UNCHANGED <<at, attempt, slotVars>>)
  /\ \A c \in Scans :
        /\ WF_vars(SlotGranted(c)) /\ WF_vars(SourceMissing(c) \/ OpenReadStream(c))
        /\ WF_vars(Scanned(c)) /\ WF_vars(Delivered(c))

FairSpec == Spec /\ Fairness

-----------------------------------------------------------------------------
(* Properties *)

\* A request that waits for its source, for a slot or for a result without a
\* scan, and one that has ended, holds no slot and no connection: a backlog of
\* missing sources does not keep others from being scanned.  A scan that has
\* settled holds no connection and no download that nobody reads, although its
\* slot is still held for the result.
HoldsOnlyWhileScanning ==
  /\ \A c \in Scans :
        /\ c \in holders <=> at[c] \in Scanning
        /\ link[c] \in {"connecting", "open"} => at[c] = "scan"
  /\ SettledCallsHoldNothing

\* The processor uses its slots as the semaphore module says, and what that
\* module assumes of its callers follows from timers alone: a clamd that hangs,
\* a body that stalls and a slow callback give their slot back, and therefore
\* every request that waits for a slot gets one.
SlotsComeBack == Slots!FairSpec
=============================================================================
