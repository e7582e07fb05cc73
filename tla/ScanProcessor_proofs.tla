------------------------ MODULE ScanProcessor_proofs ------------------------
(* Proofs about ScanProcessor, for every number of lanes, slots and source  *)
(* attempts.  It uses its slots as Semaphore says, so what Semaphore_proofs  *)
(* shows of them holds here; the rest is an invariant of the client calls    *)
(* and of the places the requests wait at.                                   *)
EXTENDS ScanProcessor, TLAPS

SlotProofs == INSTANCE Semaphore_proofs WITH Callers <- Scans, Capacity <- ScanConcurrency

-----------------------------------------------------------------------------
(* The slots *)

LEMMA SlotSteps == [Next]_vars => [Slots!Next]_(Slots!vars)
<1> SUFFICES ASSUME Next PROVE Slots!Next \/ UNCHANGED slotVars
  BY DEF vars, slotVars, Slots!vars
<1>1. ASSUME NEW c \in Scans, Begin(c) \/ NotScanned(c) \/ BackoffEnds(c) \/ Reported(c)
      PROVE UNCHANGED slotVars
  BY <1>1 DEF Begin, NotScanned, BackoffEnds, Reported
<1>2. ASSUME NEW c \in Scans, Acquire(c) PROVE Slots!Next
  BY <1>2 DEF Acquire, Slots!Next, Slots!Acquire
<1>3. ASSUME NEW c \in Scans, SlotGranted(c) PROVE Slots!Next
  BY <1>3 DEF SlotGranted, Slots!Next
<1>4. ASSUME NEW c \in Scans, SourceMissing(c) \/ OpenReadStream(c) \/ Scanned(c) \/ Delivered(c)
      PROVE Slots!Next \/ UNCHANGED slotVars
  BY <1>4 DEF SourceMissing, OpenReadStream, Scanned, Delivered, Slots!Next
<1> QED BY <1>1, <1>2, <1>3, <1>4 DEF Next, Request, Client, ProcessReplaced

(* Every step of the processor is a step of the semaphore or leaves it       *)
(* alone.                                                                    *)
THEOREM SlotsImplemented == Spec => Slots!Spec
<1>1. Init => Slots!Init
  BY DEF Init
<1> QED BY <1>1, SlotSteps, PTL DEF Spec, Slots!Spec

(* The invariant of Semaphore_proofs, for the slots of the processor.        *)
SlotsInv == SlotProofs!IInv

LEMMA SlotsInvInit == Init => SlotsInv
<1>1. SlotProofs!Init => SlotProofs!IInv
  BY SlotProofs!InitIInv, ProcessorAssumption DEF SlotProofs!CapacityAssumption
<1> QED BY <1>1 DEF Init, Slots!Init, SlotProofs!Init, SlotsInv

LEMMA SlotsInvNext == SlotsInv /\ [Next]_vars => SlotsInv'
<1>1. SlotProofs!IInv /\ [SlotProofs!Next]_(SlotProofs!vars) => SlotProofs!IInv'
  BY SlotProofs!NextIInv, ProcessorAssumption DEF SlotProofs!CapacityAssumption
<1>2. [Slots!Next]_(Slots!vars) => [SlotProofs!Next]_(SlotProofs!vars)
  BY DEF Slots!vars, SlotProofs!vars, Slots!Next, SlotProofs!Next, Slots!Acquire, SlotProofs!Acquire,
         Slots!AcquireNow, SlotProofs!AcquireNow, Slots!AcquireWait, SlotProofs!AcquireWait,
         Slots!Resume, SlotProofs!Resume, Slots!Release, SlotProofs!Release, Slots!Idle, SlotProofs!Idle,
         Slots!Queued, SlotProofs!Queued, Slots!Woken, SlotProofs!Woken
<1> QED BY <1>1, <1>2, SlotSteps DEF SlotsInv

(* What each call of the semaphore does to its queues.                       *)
Waiting(c) == Slots!Queued(c) \/ Slots!Woken(c)

LEMMA Waits ==
  ASSUME SlotsInv, NEW c \in Scans, Slots!AcquireWait(c)
  PROVE  /\ holders' = holders
         /\ \A d \in Scans : Waiting(d)' => Waiting(d) \/ d = c
<1>1. waiters \in Seq(Scans) /\ waiters' = Append(waiters, c) /\ woken' = woken /\ holders' = holders
  BY DEF SlotsInv, SlotProofs!IInv, SlotProofs!Shapes, Slots!AcquireWait
<1>2. \A i \in DOMAIN waiters' : waiters'[i] # c => i \in DOMAIN waiters /\ waiters'[i] = waiters[i]
  BY <1>1
<1> QED BY <1>1, <1>2 DEF Waiting, Slots!Queued, Slots!Woken

LEMMA Grants ==
  ASSUME SlotsInv, NEW c \in Scans, Slots!Resume(c)
  PROVE  /\ holders' = holders \cup {c}
         /\ Waiting(c) /\ ~Waiting(c)'
         /\ \A d \in Scans : Waiting(d)' => Waiting(d)
<1> USE DEF SlotsInv, SlotProofs!IInv, SlotProofs!Shapes, SlotProofs!OnePlace
<1>1. /\ woken \in Seq(Scans) /\ woken # <<>> /\ Head(woken) = c
      /\ woken' = Tail(woken) /\ waiters' = waiters /\ holders' = holders \cup {c}
  BY DEF Slots!Resume
<1>2. /\ 1 \in DOMAIN woken /\ woken[1] = c
      /\ \A i \in DOMAIN woken' : i \in Nat \ {0} /\ i + 1 \in DOMAIN woken /\ woken'[i] = woken[i + 1]
  BY <1>1
<1>3. \A i \in DOMAIN woken' : woken'[i] # c
  BY <1>2
<1>4. \A i \in DOMAIN waiters : waiters[i] # c
  BY <1>2
<1> QED BY <1>1, <1>2, <1>3, <1>4 DEF Waiting, Slots!Queued, Slots!Woken

LEMMA Releases ==
  ASSUME SlotsInv, NEW c \in Scans, Slots!Release(c)
  PROVE  /\ holders' = holders \ {c}
         /\ \A d \in Scans : Waiting(d)' => Waiting(d)
<1> USE DEF SlotsInv, SlotProofs!IInv, SlotProofs!Shapes
<1>1. CASE waiters = <<>>
  BY <1>1 DEF Slots!Release, Waiting, Slots!Queued, Slots!Woken
<1>2. CASE waiters # <<>>
  <2>1. waiters' = Tail(waiters) /\ woken' = Append(woken, Head(waiters)) /\ holders' = holders \ {c}
    BY <1>2 DEF Slots!Release
  <2>2. /\ 1 \in DOMAIN waiters /\ Head(waiters) = waiters[1]
        /\ \A i \in DOMAIN waiters' : i + 1 \in DOMAIN waiters /\ waiters'[i] = waiters[i + 1]
    BY <1>2, <2>1
  <2>3. \A i \in DOMAIN woken' : woken'[i] # waiters[1] => i \in DOMAIN woken /\ woken'[i] = woken[i]
    BY <2>1, <2>2
  <2> QED BY <2>1, <2>2, <2>3 DEF Waiting, Slots!Queued, Slots!Woken
<1> QED BY <1>1, <1>2

-----------------------------------------------------------------------------
(* The client calls *)

(* What is true of one call.  A reply "OK" needs the terminator, which is    *)
(* only written after the end of the body; and a settled call keeps the      *)
(* reply it was decided by, because its socket is gone.                      *)
CallInv(c) ==
  /\ step[c] = "idle" => link[c] = "none" /\ reply[c] = "pending" /\ body[c] = "none"
  /\ step[c] = "connect" => link[c] = "connecting" /\ reply[c] = "pending"
  /\ step[c] \in Writing \cup {"read", "answer"} => link[c] \in {"open", "gone"}
  /\ step[c] \in {"finish", "answer"} => body[c] = "ended"
  /\ step[c] # "settled" => outcome[c] = "none"
  /\ step[c] = "settled" => /\ link[c] = "gone"
                            /\ body[c] = "open" => outcome[c] = "refused"
                            /\ Received(c) => outcome[c] = Parse(c)
  /\ reply[c] = "OK" => body[c] = "ended"
  /\ outcome[c] = "clean" => body[c] = "ended"

ClientInv ==
  /\ ClientTypeOK
  /\ \A c \in Scans : CallInv(c)
  /\ \A c \in Pings : step[c] = "idle"

(* How a call ends: settled with its socket gone and its download destroyed, *)
(* and decided by a reply that was received.                                 *)
Ended(c) ==
  \E how \in {"clean", "infected", "limit", "error", "pong"} :
    /\ Settle(c, how)
    /\ IF Received(c) THEN how = Parse(c) ELSE how = "error"

LEMMA EndedKeepsCall ==
  ASSUME ClientInv, NEW c \in Scans, Ended(c)
  PROVE  ClientTypeOK' /\ CallInv(c)'
<1>1. PICK how \in {"clean", "infected", "limit", "error", "pong"} :
        Settle(c, how) /\ (IF Received(c) THEN how = Parse(c) ELSE how = "error")
  BY DEF Ended
<1>2. c \in Calls
  BY DEF Calls
<1>3. ClientTypeOK'
  BY <1>1, <1>2 DEF ClientInv, ClientTypeOK, Settle, Goes
<1>4. /\ step'[c] = "settled" /\ outcome'[c] = how /\ link'[c] = "gone"
      /\ reply'[c] = (IF reply[c] = "pending" THEN "broken" ELSE reply[c])
      /\ body'[c] = (IF body[c] = "open" THEN "destroyed" ELSE body[c])
  BY <1>1, <1>2 DEF ClientInv, ClientTypeOK, Settle, Goes
<1>5. Received(c)' => Received(c) /\ reply'[c] = reply[c] /\ how = Parse(c)'
  BY <1>1, <1>4 DEF Received, Parse
<1>6. how = "clean" => reply[c] = "OK"
  BY <1>1 DEF Received, Parse
<1> QED BY <1>3, <1>4, <1>5, <1>6 DEF ClientInv, CallInv, Writing

LEMMA StepKeepsCall ==
  ASSUME ClientInv, NEW c \in Scans, ClientStep(c)
  PROVE  ClientTypeOK' /\ CallInv(c)'
<1>0. c \in Calls /\ c \notin Pings
  BY CallsAssumption DEF Calls
<1> USE DEF ClientInv, ClientTypeOK, Goes, Working, Writing
<1>1. CASE Connected(c)
  BY <1>0, <1>1 DEF Connected, CallInv, Received, Parse
<1>2. CASE ConnectFails(c)
  BY <1>0, <1>2 DEF ConnectFails, CallInv, Received, Parse
<1>3. CASE Written(c)
  BY <1>0, <1>3 DEF Written, CallInv, Received, Parse
<1>4. CASE TakeChunk(c)
  BY <1>0, <1>4 DEF TakeChunk, CallInv, Received, Parse
<1>5. CASE BodyEnds(c)
  BY <1>0, <1>5 DEF BodyEnds, CallInv, Received, Parse
<1>6. CASE Answer(c)
  <2>1. step[c] # "settled" /\ link[c] = "open" /\ reply[c] = "pending"
    BY <1>6 DEF Answer, CallInv
  <2>2. PICK r \in Possible(c) : reply' = [reply EXCEPT ![c] = r]
    BY <1>6 DEF Answer
  <2>3. /\ r \in {"OK", "FOUND", "LIMIT", "ERROR"}
        /\ r = "OK" => step[c] \in {"finish", "answer"}
    BY <1>0, <2>2 DEF Possible, Answers
  <2> QED BY <1>0, <1>6, <2>1, <2>2, <2>3 DEF Answer, CallInv, Received, Parse
<1>7. CASE ReplyBreaks(c) \/ LinkBreaks(c)
  BY <1>0, <1>7 DEF ReplyBreaks, LinkBreaks, CallInv, Received, Parse
<1>8. CASE BodyBreaks(c) \/ WriteFails(c) \/ Replied(c)
  <2>1. Ended(c)
    BY <1>0, <1>8 DEF BodyBreaks, WriteFails, Replied, Caught, Received, Parse, Ended
  <2> QED BY <2>1, EndedKeepsCall
<1> QED BY <1>1, <1>2, <1>3, <1>4, <1>5, <1>6, <1>7, <1>8 DEF ClientStep, Clamd, Source, Continuation, Deadline

(* A step of one call leaves the others alone.                               *)
LEMMA StepIsLocal ==
  ASSUME ClientInv, NEW c \in Scans, ClientStep(c) \/ OpenSocket(c), NEW d \in Calls, d # c
  PROVE  /\ step'[d] = step[d] /\ link'[d] = link[d] /\ reply'[d] = reply[d]
         /\ body'[d] = body[d] /\ outcome'[d] = outcome[d]
BY DEF ClientInv, ClientTypeOK, Goes, ClientStep, Clamd, Source, Continuation, Deadline, OpenSocket,
   Connected, ConnectFails, Written, TakeChunk, BodyEnds, Answer, ReplyBreaks, LinkBreaks,
   BodyBreaks, WriteFails, Replied, Caught, Settle

LEMMA ClientStepKeeps ==
  ASSUME ClientInv, NEW c \in Scans, ClientStep(c) PROVE ClientInv'
<1>1. \A d \in Scans : d # c => CallInv(d)'
  BY StepIsLocal DEF Calls, ClientInv, CallInv, Received, Parse
<1>2. \A d \in Pings : step'[d] = "idle"
  BY StepIsLocal, CallsAssumption DEF Calls, ClientInv
<1> QED BY <1>1, <1>2, StepKeepsCall DEF ClientInv

LEMMA OpenKeeps ==
  ASSUME ClientInv, NEW c \in Scans, OpenSocket(c) PROVE ClientInv'
<1>0. c \in Calls /\ c \notin Pings
  BY CallsAssumption DEF Calls
<1>1. \A d \in Scans : d # c => CallInv(d)'
  BY StepIsLocal DEF Calls, ClientInv, CallInv, Received, Parse
<1>2. \A d \in Pings : step'[d] = "idle"
  BY StepIsLocal, CallsAssumption DEF Calls, ClientInv
<1>3. ClientTypeOK'
  BY <1>0 DEF OpenSocket, ClientInv, ClientTypeOK, Goes, Working
<1>4. step'[c] = "connect" /\ link'[c] = "connecting" /\ reply'[c] = "pending" /\ outcome'[c] = "none"
  BY <1>0 DEF OpenSocket, ClientInv, ClientTypeOK, Goes
<1>5. CallInv(c)'
  BY <1>4 DEF CallInv, Writing
<1> QED BY <1>1, <1>2, <1>3, <1>5 DEF ClientInv

LEMMA DropKeeps ==
  ASSUME ClientInv, NEW C \in SUBSET Calls, Drop(C) PROVE ClientInv'
<1>1. ClientTypeOK'
  BY DEF Drop, ClientInv, ClientTypeOK
<1>2. \A d \in Scans : CallInv(d)'
  BY DEF Drop, ClientInv, CallInv, Received, Parse, Calls, Writing
<1>3. \A d \in Pings : step'[d] = "idle"
  BY DEF Drop, ClientInv, Calls
<1> QED BY <1>1, <1>2, <1>3 DEF ClientInv

-----------------------------------------------------------------------------
(* The inductive invariant *)

(* A caller queued or resolved by the semaphore is suspended at acquire();   *)
(* a call of the client is in progress only under the slot.                  *)
PlaceInv(c) ==
  /\ c \in holders <=> at[c] \in Scanning
  /\ Waiting(c) => at[c] = "slot"
  /\ at[c] \notin {"scan", "deliver"} => step[c] = "idle"
  /\ at[c] = "deliver" => step[c] = "settled"

PInv ==
  /\ at \in [Scans -> Places]
  /\ attempt \in [Scans -> 1 .. SourceAttempts]
  /\ \A c \in Scans : PlaceInv(c)

IInv == SlotsInv /\ ClientInv /\ PInv

LEMMA InitIInv == Init => IInv
<1> SUFFICES ASSUME Init PROVE IInv
  OBVIOUS
<1>1. SlotsInv
  BY SlotsInvInit
<1>2. ClientTypeOK
  BY DEF Init, ClientInit, ClientTypeOK
<1>3. ClientInv
  BY <1>2 DEF Init, ClientInit, ClientInv, CallInv, Calls, Received, Parse, Writing
<1>4. PInv
  BY ProcessorAssumption DEF Init, ClientInit, Slots!Init, PInv, PlaceInv, Places, Scanning, Waiting,
     Slots!Queued, Slots!Woken, Calls
<1> QED BY <1>1, <1>3, <1>4 DEF IInv

(* The request moves to `place`, with its attempt in range.                  *)
Moves(c, place) ==
  /\ at' = [at EXCEPT ![c] = place]
  /\ \/ attempt' = [attempt EXCEPT ![c] = 1]
     \/ attempt' = [attempt EXCEPT ![c] = @ + 1] /\ attempt[c] < SourceAttempts
     \/ attempt' = attempt

LEMMA MovesTyped ==
  ASSUME PInv, NEW c \in Scans, NEW place \in Places, Moves(c, place)
  PROVE  /\ at' \in [Scans -> Places]
         /\ attempt' \in [Scans -> 1 .. SourceAttempts]
         /\ at'[c] = place
         /\ \A d \in Scans : d # c => at'[d] = at[d]
BY ProcessorAssumption DEF PInv, Moves

LEMMA MissingMoves ==
  ASSUME PInv, NEW c \in Scans, Missing(c)
  PROVE  Moves(c, "backoff") \/ Moves(c, "report")
BY DEF Missing, Moves, Go

(* A request that moves between places without a slot.                       *)
LEMMA MoveOutside ==
  ASSUME IInv, NEW c \in Scans, NEW place \in {"idle", "head", "backoff", "report", "failed"},
         Moves(c, place), at[c] \notin Scanning \cup {"slot"},
         UNCHANGED slotVars, Drop({c}) \/ UNCHANGED clientVars
  PROVE  PInv'
<1>1. /\ at' \in [Scans -> Places] /\ attempt' \in [Scans -> 1 .. SourceAttempts]
      /\ at'[c] = place /\ \A d \in Scans : d # c => at'[d] = at[d]
  BY MovesTyped DEF IInv, Places
<1>2. \A d \in Scans : (d # c => step'[d] = step[d]) /\ (step[d] = "idle" => step'[d] = "idle")
  BY DEF Drop, clientVars, Calls
<1>3. \A d \in Scans : (Waiting(d)' <=> Waiting(d)) /\ holders' = holders
  BY DEF slotVars, Waiting, Slots!Queued, Slots!Woken
<1> QED BY <1>1, <1>2, <1>3 DEF IInv, PInv, PlaceInv, Scanning, Places

(* A request that gives its slot back: its call of the client is over.       *)
LEMMA MoveOut ==
  ASSUME IInv, NEW c \in Scans, NEW place \in {"idle", "backoff", "report", "failed"},
         Moves(c, place), Slots!Release(c),
         Drop({c}) \/ (at[c] = "open" /\ UNCHANGED clientVars)
  PROVE  PInv'
<1>1. /\ at' \in [Scans -> Places] /\ attempt' \in [Scans -> 1 .. SourceAttempts]
      /\ at'[c] = place /\ \A d \in Scans : d # c => at'[d] = at[d]
  BY MovesTyped DEF IInv, Places
<1>2. step'[c] = "idle" /\ \A d \in Scans : d # c => step'[d] = step[d]
  BY DEF Drop, clientVars, Calls, IInv, PInv, PlaceInv
<1>3. holders' = holders \ {c} /\ \A d \in Scans : Waiting(d)' => Waiting(d)
  BY Releases DEF IInv
<1>4. at[c] \in Scanning
  BY DEF Slots!Release, IInv, PInv, PlaceInv
<1> QED BY <1>1, <1>2, <1>3, <1>4 DEF IInv, PInv, PlaceInv, Scanning, Places

LEMMA RequestKeeps ==
  ASSUME IInv, NEW c \in Scans, Request(c) PROVE PInv' /\ ClientInv'
<1> DEFINE moved(place) ==
      /\ at' = [at EXCEPT ![c] = place] /\ attempt' = attempt
<1>0. ASSUME NEW place \in Places, moved(place)
      PROVE  /\ at' \in [Scans -> Places] /\ attempt' \in [Scans -> 1 .. SourceAttempts]
             /\ at'[c] = place /\ \A d \in Scans : d # c => at'[d] = at[d]
  BY <1>0 DEF IInv, PInv
<1>same. ASSUME UNCHANGED clientVars PROVE ClientInv' /\ \A d \in Scans : step'[d] = step[d]
  BY <1>same DEF clientVars, IInv, ClientInv, ClientTypeOK, CallInv, Received, Parse
<1>drop. ASSUME Drop({c}) PROVE ClientInv'
  BY <1>drop, DropKeeps DEF IInv, Calls
<1>quiet. ASSUME UNCHANGED slotVars PROVE holders' = holders /\ \A d \in Scans : Waiting(d)' = Waiting(d)
  BY <1>quiet DEF slotVars, Waiting, Slots!Queued, Slots!Woken
<1>1. CASE Begin(c)
  BY <1>1, <1>same, MoveOutside DEF Begin, Go, Moves, Scanning
<1>2. CASE Acquire(c)
  <2>1. at[c] = "head" /\ UNCHANGED clientVars /\ attempt' = attempt
    BY <1>2 DEF Acquire
  <2>2. CASE Slots!AcquireNow(c) /\ Go(c, "open")
    <3>1. holders' = holders \cup {c} /\ \A d \in Scans : Waiting(d)' = Waiting(d)
      BY <2>2 DEF Slots!AcquireNow, Waiting, Slots!Queued, Slots!Woken
    <3>2. "open" \in Places /\ moved("open")
      BY <2>1, <2>2 DEF Places, Scanning, Go
    <3> HIDE DEF moved
    <3> QED BY <2>1, <3>1, <3>2, <1>0, <1>same DEF IInv, PInv, PlaceInv, Scanning
  <2>3. CASE Slots!AcquireWait(c) /\ Go(c, "slot")
    <3>1. holders' = holders /\ \A d \in Scans : Waiting(d)' => Waiting(d) \/ d = c
      BY <2>3, Waits DEF IInv
    <3>2. "slot" \in Places /\ moved("slot")
      BY <2>1, <2>3 DEF Places, Scanning, Go
    <3> HIDE DEF moved
    <3> QED BY <2>1, <3>1, <3>2, <1>0, <1>same DEF IInv, PInv, PlaceInv, Scanning
  <2> QED BY <1>2, <2>2, <2>3 DEF Acquire
<1>3. CASE NotScanned(c)
  <2>1. at[c] = "head" /\ UNCHANGED slotVars
    BY <1>3 DEF NotScanned
  <2>2. \/ UNCHANGED clientVars /\ (Moves(c, "backoff") \/ Moves(c, "report"))
        \/ Drop({c}) /\ Moves(c, "failed")
    BY <1>3, MissingMoves DEF NotScanned, Fail, Leave, Go, Moves, IInv
  <2> QED BY <2>1, <2>2, <1>same, <1>drop, MoveOutside DEF Scanning
<1>4. CASE BackoffEnds(c)
  BY <1>4, <1>same, MoveOutside DEF BackoffEnds, Go, Moves, Scanning
<1>5. CASE SlotGranted(c)
  <2>1. /\ holders' = holders \cup {c} /\ Waiting(c) /\ ~Waiting(c)'
        /\ \A d \in Scans : Waiting(d)' => Waiting(d)
    BY <1>5, Grants DEF SlotGranted, IInv
  <2>2. "open" \in Places /\ moved("open") /\ UNCHANGED clientVars
    BY <1>5 DEF SlotGranted, Places, Scanning, Go
  <2> HIDE DEF moved
  <2> QED BY <2>1, <2>2, <1>0, <1>same DEF IInv, PInv, PlaceInv, Scanning
<1>6. CASE SourceMissing(c)
  BY <1>6, <1>same, MissingMoves, MoveOut DEF SourceMissing, IInv
<1>7. CASE OpenReadStream(c)
  <2>1. CASE OpenSocket(c) /\ Go(c, "scan") /\ UNCHANGED <<attempt, slotVars>>
    <3>1. "scan" \in Places /\ moved("scan")
      BY <2>1 DEF Places, Scanning, Go
    <3>2. at[c] = "open" /\ \A d \in Scans : d # c => step'[d] = step[d]
      BY <1>7, <2>1, StepIsLocal DEF OpenReadStream, IInv, Calls
    <3>3. ClientInv'
      BY <2>1, OpenKeeps DEF IInv
    <3> HIDE DEF moved
    <3> QED BY <2>1, <3>1, <3>2, <3>3, <1>0, <1>quiet DEF IInv, PInv, PlaceInv, Scanning
  <2>2. CASE Fail(c) /\ Slots!Release(c)
    BY <2>2, <1>drop, MoveOut DEF Fail, Leave, Go, Moves
  <2> QED BY <1>7, <2>1, <2>2 DEF OpenReadStream
<1>8. CASE Scanned(c)
  <2>1. CASE Fail(c) /\ Slots!Release(c)
    BY <2>1, <1>drop, MoveOut DEF Fail, Leave, Go, Moves
  <2>2. CASE Go(c, "deliver") /\ UNCHANGED <<clientVars, attempt, slotVars>>
    <3>1. "deliver" \in Places /\ moved("deliver")
      BY <2>2 DEF Places, Scanning, Go
    <3>2. at[c] = "scan" /\ step[c] = "settled"
      BY <1>8 DEF Scanned
    <3> HIDE DEF moved
    <3> QED BY <2>2, <3>1, <3>2, <1>0, <1>same, <1>quiet DEF IInv, PInv, PlaceInv, Scanning
  <2> QED BY <1>8, <2>1, <2>2 DEF Scanned
<1>9. CASE Delivered(c)
  BY <1>9, <1>drop, MoveOut DEF Delivered, Fail, Leave, Go, Moves
<1>10. CASE Reported(c)
  BY <1>10, <1>drop, MoveOutside DEF Reported, Fail, Leave, Go, Moves, Scanning
<1> QED BY <1>1, <1>2, <1>3, <1>4, <1>5, <1>6, <1>7, <1>8, <1>9, <1>10 DEF Request

LEMMA NextIInv == IInv /\ [Next]_vars => IInv'
<1> SUFFICES ASSUME IInv, [Next]_vars PROVE PInv' /\ ClientInv'
  BY SlotsInvNext DEF IInv
<1>1. ASSUME NEW c \in Scans, Request(c) PROVE PInv' /\ ClientInv'
  BY <1>1, RequestKeeps
<1>2. ASSUME NEW c \in Scans, ClientStep(c), UNCHANGED <<at, attempt, slotVars>>
      PROVE  PInv' /\ ClientInv'
  <2>1. ClientInv' /\ \A d \in Scans : d # c => step'[d] = step[d]
    BY <1>2, ClientStepKeeps, StepIsLocal DEF IInv, Calls
  <2>2. step[c] \notin {"idle", "settled"}
    BY <1>2 DEF IInv, ClientInv, CallInv, ClientStep, Clamd, Source, Continuation, Deadline, Connected,
       ConnectFails, Written, TakeChunk, BodyEnds, Answer, ReplyBreaks, LinkBreaks, BodyBreaks,
       WriteFails, Replied, Writing
  <2>3. \A d \in Scans : Waiting(d)' = Waiting(d)
    BY <1>2 DEF slotVars, Waiting, Slots!Queued, Slots!Woken
  <2> QED BY <1>2, <2>1, <2>2, <2>3 DEF IInv, PInv, PlaceInv, slotVars
<1>3. CASE ProcessReplaced
  <2>1. ClientInv'
    BY <1>3, DropKeeps DEF ProcessReplaced, IInv
  <2>2. \A d \in Scans : step'[d] = "idle" /\ Waiting(d)' = Waiting(d)
    BY <1>3 DEF ProcessReplaced, Drop, Calls, slotVars, Waiting, Slots!Queued, Slots!Woken
  <2>3. PInv'
    BY <1>3, <2>2, ProcessorAssumption DEF ProcessReplaced, slotVars, IInv, PInv, PlaceInv, Places, Scanning
  <2> QED BY <2>1, <2>3
<1>4. CASE UNCHANGED vars
  BY <1>4 DEF vars, clientVars, slotVars, IInv, ClientInv, ClientTypeOK, CallInv, Received, Parse,
     PInv, PlaceInv, Waiting, Slots!Queued, Slots!Woken
<1> QED BY <1>1, <1>2, <1>3, <1>4 DEF Next, Client

LEMMA Invariance == Spec => []IInv
BY InitIInv, NextIInv, PTL DEF Spec

THEOREM TypeCorrect == Spec => []TypeOK
<1>1. SlotProofs!IInv => SlotProofs!TypeOK
  BY SlotProofs!IInvTypes, ProcessorAssumption DEF SlotProofs!CapacityAssumption
<1>2. IInv => TypeOK
  BY <1>1 DEF IInv, SlotsInv, SlotProofs!TypeOK, Slots!TypeOK, ClientInv, PInv, TypeOK
<1> QED BY Invariance, <1>2, PTL

(* A file is reported clean only if clamd was sent all of its bytes.         *)
THEOREM CleanIsComplete == Spec => []CleanMeansWholeBody
<1>1. IInv => CleanMeansWholeBody
  BY DEF IInv, ClientInv, CallInv, CleanMeansWholeBody
<1> QED BY Invariance, <1>1, PTL

(* A reply that was received decides the scan, whatever failed after it.     *)
THEOREM ReplyDecides == Spec => []ReceivedReplyDecides
<1>1. IInv => ReceivedReplyDecides
  BY DEF IInv, ClientInv, CallInv, ReceivedReplyDecides
<1> QED BY Invariance, <1>1, PTL

(* A slot, a connection and a download are held only while they are used.    *)
THEOREM HeldOnlyWhileScanning == Spec => []HoldsOnlyWhileScanning
<1>1. ASSUME IInv PROVE HoldsOnlyWhileScanning
  <2>1. \A c \in Scans : link[c] \in {"connecting", "open"} => at[c] = "scan"
    BY <1>1 DEF IInv, ClientInv, CallInv, PInv, PlaceInv
  <2>2. SettledCallsHoldNothing
    BY <1>1 DEF IInv, ClientInv, CallInv, SettledCallsHoldNothing, Calls
  <2> QED BY <1>1, <2>1, <2>2 DEF IInv, PInv, PlaceInv, HoldsOnlyWhileScanning
<1> QED BY Invariance, <1>1, PTL

-----------------------------------------------------------------------------
(* The slots come back.  SlotsComeBack needs fairness and stays with TLC;    *)
(* these are the facts it rests on.                                          *)

(* The timer of openSocket is armed; a promise of the call has settled.      *)
DeadlineArmed(c) == step[c] = "connect" \/ link[c] = "open"
ContinuationDue(c) ==
  \/ step[c] \in Writing /\ link[c] = "gone"
  \/ step[c] \in {"read", "answer"} /\ reply[c] # "pending"

(* The request can give its slot back or come closer to that with nobody's   *)
(* help but S3's: neither clamd nor the body has to do anything.             *)
HolderGoesOn(c) ==
  \/ at[c] \in {"open", "deliver"}
  \/ at[c] = "scan" /\ step[c] = "settled"
  \/ at[c] = "scan" /\ step[c] # "settled" /\ link[c] # "gone" /\ DeadlineArmed(c)
  \/ at[c] = "scan" /\ step[c] # "settled" /\ link[c] = "gone" /\ ContinuationDue(c)

(* A suspended request is in the line of the slots, and a socket that is     *)
(* gone has rejected the reply it owed.                                      *)
WaitInv == \A c \in Scans : at[c] = "slot" => Waiting(c)
GoneInv ==
  \A c \in Scans :
    /\ at[c] = "scan" => step[c] # "idle"
    /\ step[c] \in Writing \cup {"read", "answer"} /\ link[c] = "gone" => reply[c] # "pending"

LEMMA StaysInLine ==
  ASSUME SlotsInv, NEW c \in Scans, NEW d \in Scans, Waiting(d),
         Slots!AcquireWait(c) \/ Slots!AcquireNow(c) \/ Slots!Release(c) \/ (Slots!Resume(c) /\ d # c)
  PROVE  Waiting(d)'
<1> USE DEF SlotsInv, SlotProofs!IInv, SlotProofs!Shapes, Waiting, Slots!Queued, Slots!Woken
<1>0. waiters \in Seq(Scans) /\ woken \in Seq(Scans)
  OBVIOUS
<1>1. CASE Slots!AcquireNow(c)
  BY <1>1 DEF Slots!AcquireNow
<1>2. CASE Slots!AcquireWait(c)
  <2>1. waiters' = Append(waiters, c) /\ woken' = woken
    BY <1>2 DEF Slots!AcquireWait
  <2>2. \A i \in DOMAIN waiters : i \in DOMAIN waiters' /\ waiters'[i] = waiters[i]
    BY <1>0, <2>1
  <2> QED BY <2>1, <2>2
<1>3. CASE Slots!Resume(c) /\ d # c
  <2>1. woken # <<>> /\ Head(woken) = c /\ woken' = Tail(woken) /\ waiters' = waiters
    BY <1>3 DEF Slots!Resume
  <2>2. \A i \in DOMAIN woken : woken[i] = d => i - 1 \in DOMAIN woken' /\ woken'[i - 1] = d
    BY <1>0, <1>3, <2>1
  <2> QED BY <2>1, <2>2
<1>4. CASE Slots!Release(c) /\ waiters = <<>>
  BY <1>4 DEF Slots!Release
<1>5. CASE Slots!Release(c) /\ waiters # <<>>
  <2>1. waiters' = Tail(waiters) /\ woken' = Append(woken, Head(waiters))
    BY <1>5 DEF Slots!Release
  <2>2. \A i \in DOMAIN woken : i \in DOMAIN woken' /\ woken'[i] = woken[i]
    BY <1>0, <2>1
  <2>3. Len(woken) + 1 \in DOMAIN woken' /\ woken'[Len(woken) + 1] = waiters[1]
    BY <1>0, <1>5, <2>1
  <2>4. \A i \in DOMAIN waiters : i # 1 => i - 1 \in DOMAIN waiters' /\ waiters'[i - 1] = waiters[i]
    BY <1>0, <1>5, <2>1
  <2> QED BY <2>2, <2>3, <2>4
<1> QED BY <1>1, <1>2, <1>3, <1>4, <1>5

LEMMA JoinsLine ==
  ASSUME SlotsInv, NEW c \in Scans, Slots!AcquireWait(c) PROVE Waiting(c)'
<1>1. waiters \in Seq(Scans) /\ waiters' = Append(waiters, c)
  BY DEF SlotsInv, SlotProofs!IInv, SlotProofs!Shapes, Slots!AcquireWait
<1>2. Len(waiters) + 1 \in DOMAIN waiters' /\ waiters'[Len(waiters) + 1] = c
  BY <1>1
<1> QED BY <1>2 DEF Waiting, Slots!Queued

(* What a request does, as far as these invariants look.                     *)
LEMMA RequestSteps ==
  ASSUME IInv, NEW c \in Scans, Request(c)
  PROVE  /\ \A d \in Scans : d # c => at'[d] = at[d]
         /\ \/ at'[c] = "slot" /\ Slots!AcquireWait(c)
            \/ at'[c] # "slot" /\ (UNCHANGED slotVars \/ Slots!AcquireNow(c) \/ Slots!Resume(c) \/ Slots!Release(c))
         /\ \/ UNCHANGED clientVars /\ (at'[c] = "scan" => at[c] = "scan")
            \/ Drop({c}) /\ at'[c] # "scan"
            \/ OpenSocket(c) /\ at[c] = "open"
<1>0. at \in [Scans -> Places]
  BY DEF IInv, PInv
<1> USE <1>0 DEF Go
<1>1. CASE Begin(c) \/ BackoffEnds(c)
  BY <1>1 DEF Begin, BackoffEnds
<1>2. CASE Acquire(c)
  BY <1>2 DEF Acquire
<1>3. CASE NotScanned(c)
  BY <1>3 DEF NotScanned, Missing, Fail, Leave
<1>4. CASE SlotGranted(c)
  BY <1>4 DEF SlotGranted
<1>5. CASE SourceMissing(c)
  BY <1>5 DEF SourceMissing, Missing
<1>6. CASE OpenReadStream(c)
  BY <1>6 DEF OpenReadStream, Fail, Leave
<1>7. CASE Scanned(c)
  BY <1>7 DEF Scanned, Fail, Leave
<1>8. CASE Delivered(c) \/ Reported(c)
  BY <1>8 DEF Delivered, Reported, Fail, Leave
<1> QED BY <1>1, <1>2, <1>3, <1>4, <1>5, <1>6, <1>7, <1>8 DEF Request

LEMMA NextWaitInv == IInv /\ WaitInv /\ [Next]_vars => WaitInv'
<1> SUFFICES ASSUME IInv, WaitInv, [Next]_vars PROVE WaitInv'
  OBVIOUS
<1> USE DEF WaitInv
<1>quiet. ASSUME UNCHANGED slotVars PROVE \A d \in Scans : Waiting(d)' = Waiting(d)
  BY <1>quiet DEF slotVars, Waiting, Slots!Queued, Slots!Woken
<1>1. ASSUME NEW c \in Scans, Request(c) PROVE WaitInv'
  <2>1. /\ \A d \in Scans : d # c => at'[d] = at[d]
        /\ \/ at'[c] = "slot" /\ Slots!AcquireWait(c)
           \/ at'[c] # "slot" /\ (UNCHANGED slotVars \/ Slots!AcquireNow(c) \/ Slots!Resume(c) \/ Slots!Release(c))
    BY <1>1, RequestSteps
  <2>2. \A d \in Scans : d # c /\ at'[d] = "slot" => Waiting(d)'
    BY <1>quiet, <2>1, StaysInLine DEF IInv
  <2>3. at'[c] = "slot" => Waiting(c)'
    BY <2>1, JoinsLine DEF IInv
  <2> QED BY <2>2, <2>3
<1>2. CASE Client \/ UNCHANGED vars
  BY <1>quiet, <1>2 DEF Client, vars
<1>3. CASE ProcessReplaced
  BY <1>3 DEF ProcessReplaced
<1> QED BY <1>1, <1>2, <1>3 DEF Next

LEMMA NextGoneInv == IInv /\ GoneInv /\ [Next]_vars => GoneInv'
<1> SUFFICES ASSUME IInv, GoneInv, [Next]_vars PROVE GoneInv'
  OBVIOUS
<1> USE DEF GoneInv
<1>calls. \A d \in Scans : d \in Calls /\ d \notin Pings
  BY CallsAssumption DEF Calls
<1>1. ASSUME NEW c \in Scans, Request(c) PROVE GoneInv'
  <2>1. /\ \A d \in Scans : d # c => at'[d] = at[d]
        /\ \/ UNCHANGED clientVars /\ (at'[c] = "scan" => at[c] = "scan")
           \/ Drop({c}) /\ at'[c] # "scan"
           \/ OpenSocket(c) /\ at[c] = "open"
    BY <1>1, RequestSteps
  <2>2. CASE UNCHANGED clientVars /\ (at'[c] = "scan" => at[c] = "scan")
    BY <2>1, <2>2 DEF clientVars
  <2>3. CASE Drop({c}) /\ at'[c] # "scan"
    BY <1>calls, <2>1, <2>3 DEF Drop, Writing
  <2>4. CASE OpenSocket(c)
    <3>1. step'[c] = "connect"
      BY <1>calls, <2>4 DEF OpenSocket, Goes, IInv, ClientInv, ClientTypeOK
    <3>2. \A d \in Scans : d # c => step'[d] = step[d] /\ link'[d] = link[d] /\ reply'[d] = reply[d]
      BY <1>calls, <2>4, StepIsLocal DEF IInv
    <3> QED BY <2>1, <3>1, <3>2 DEF Writing
  <2> QED BY <2>1, <2>2, <2>3, <2>4
<1>2. ASSUME NEW c \in Scans, ClientStep(c), at' = at PROVE GoneInv'
  <2>1. \A d \in Scans : d # c => step'[d] = step[d] /\ link'[d] = link[d] /\ reply'[d] = reply[d]
    BY <1>calls, <1>2, StepIsLocal DEF IInv
  <2>2. step'[c] # "idle" /\ (step'[c] \in Writing \cup {"read", "answer"} /\ link'[c] = "gone" => reply'[c] # "pending")
    <3> USE <1>calls DEF IInv, ClientInv, ClientTypeOK, CallInv, Goes, Writing
    <3>1. CASE Connected(c) \/ ConnectFails(c) \/ Written(c) \/ TakeChunk(c) \/ BodyEnds(c)
      BY <3>1 DEF Connected, ConnectFails, Written, TakeChunk, BodyEnds
    <3>2. CASE Answer(c) \/ ReplyBreaks(c) \/ LinkBreaks(c)
      BY <3>2 DEF Answer, ReplyBreaks, LinkBreaks
    <3>3. CASE BodyBreaks(c) \/ WriteFails(c) \/ Replied(c)
      BY <3>3 DEF BodyBreaks, WriteFails, Replied, Caught, Settle
    <3> QED BY <1>2, <3>1, <3>2, <3>3 DEF ClientStep, Clamd, Source, Continuation, Deadline
  <2> QED BY <1>2, <2>1, <2>2
<1>3. CASE ProcessReplaced
  BY <1>3, <1>calls DEF ProcessReplaced, Drop, Writing
<1>4. CASE UNCHANGED vars
  BY <1>4 DEF vars, clientVars
<1> QED BY <1>1, <1>2, <1>3, <1>4 DEF Next, Client

LEMMA HoldInvariance == Spec => [](IInv /\ WaitInv /\ GoneInv)
<1>1. Init => WaitInv /\ GoneInv
  BY DEF Init, ClientInit, WaitInv, GoneInv, Calls, Writing
<1> QED BY <1>1, InitIInv, NextIInv, NextWaitInv, NextGoneInv, PTL DEF Spec

LEMMA GoesOn ==
  ASSUME IInv, GoneInv, NEW c \in Scans, c \in holders PROVE HolderGoesOn(c)
<1>1. at[c] \in Scanning /\ CallInv(c) /\ step[c] \in {"idle", "settled"} \cup Working
  BY DEF IInv, PInv, PlaceInv, ClientInv, ClientTypeOK, Calls
<1> QED BY <1>1 DEF Scanning, CallInv, GoneInv, Working, Writing, HolderGoesOn, DeadlineArmed, ContinuationDue

(* Whoever holds a slot can go on without clamd and without the body: GetObject *)
(* is answered, the deadline is armed or has closed the socket, the promise   *)
(* the scan waits for has then settled, or the result is being handled.       *)
THEOREM HoldersGoOn == Spec => [](\A c \in holders : HolderGoesOn(c))
<1>1. IInv /\ GoneInv => \A c \in holders : HolderGoesOn(c)
  BY GoesOn DEF IInv, SlotsInv, SlotProofs!IInv, SlotProofs!Shapes
<1> QED BY <1>1, HoldInvariance, PTL

(* While a request waits for a slot, one that waits has been promised one or  *)
(* some request holds one and can go on: the slots never stall.               *)
THEOREM SlotsNeverStall ==
  Spec => [](\A c \in Scans :
               at[c] = "slot" => Waiting(c) /\ (woken # <<>> \/ \E d \in holders : HolderGoesOn(d)))
<1>1. ASSUME IInv, WaitInv, GoneInv, NEW c \in Scans, at[c] = "slot"
      PROVE  Waiting(c) /\ (woken # <<>> \/ \E d \in holders : HolderGoesOn(d))
  <2>1. Waiting(c)
    BY <1>1 DEF WaitInv
  <2>2. woken = <<>> => waiters # <<>>
    BY <2>1 DEF Waiting, Slots!Queued, Slots!Woken
  <2>3. woken = <<>> => holders # {}
    BY <1>1, <2>2, SlotProofs!SomebodyHolds, ProcessorAssumption DEF IInv, SlotsInv, SlotProofs!CapacityAssumption
  <2>4. \A d \in holders : HolderGoesOn(d)
    BY <1>1, GoesOn DEF IInv, SlotsInv, SlotProofs!IInv, SlotProofs!Shapes
  <2> QED BY <2>1, <2>3, <2>4
<1>2. IInv /\ WaitInv /\ GoneInv
      => \A c \in Scans :
           at[c] = "slot" => Waiting(c) /\ (woken # <<>> \/ \E d \in holders : HolderGoesOn(d))
  BY <1>1
<1> QED BY <1>2, HoldInvariance, PTL

(* How much a holder has before it, and the steps that need neither clamd    *)
(* nor the body.                                                             *)
Left(c) ==
  IF at[c] = "open" THEN 5
  ELSE IF at[c] = "deliver" THEN 1
  ELSE IF at[c] # "scan" THEN 0
  ELSE IF step[c] = "settled" THEN 2
  ELSE IF link[c] = "gone" THEN 3 ELSE 4

HolderStep(c) ==
  \/ SourceMissing(c) \/ OpenReadStream(c) \/ Scanned(c) \/ Delivered(c)
  \/ (Deadline(c) \/ Continuation(c)) /\ UNCHANGED <<at, attempt, slotVars>>

(* What clamd, the body and the call itself do to the request's scan.        *)
LEMMA CallLeft ==
  ASSUME IInv, NEW c \in Scans, ClientStep(c), at' = at
  PROVE  Left(c)' <= Left(c) /\ (Deadline(c) \/ Continuation(c) => Left(c)' < Left(c))
<1>0. c \in Calls /\ c \notin Pings
  BY CallsAssumption DEF Calls
<1>1. step[c] \notin {"idle", "settled"}
  BY DEF IInv, ClientInv, CallInv, ClientStep, Clamd, Source, Continuation, Deadline, Connected,
     ConnectFails, Written, TakeChunk, BodyEnds, Answer, ReplyBreaks, LinkBreaks, BodyBreaks,
     WriteFails, Replied, Writing
<1>2. at[c] = "scan"
  BY <1>1 DEF IInv, PInv, PlaceInv
<1> USE <1>0, <1>1, <1>2 DEF IInv, ClientInv, ClientTypeOK, CallInv, Goes, Writing, Left
<1>3. CASE Connected(c) \/ Written(c) \/ TakeChunk(c) \/ BodyEnds(c) \/ Answer(c) \/ ReplyBreaks(c)
  <2>1. link'[c] = "gone" <=> link[c] = "gone"
    BY <1>3 DEF Connected, Written, TakeChunk, BodyEnds, Answer, ReplyBreaks
  <2>2. step'[c] # "settled"
    BY <1>3 DEF Connected, Written, TakeChunk, BodyEnds, Answer, ReplyBreaks
  <2>3. ~(Deadline(c) \/ Continuation(c))
    BY <1>3, <2>1, <2>2 DEF Deadline, Continuation, ConnectFails, LinkBreaks, WriteFails, Replied, Caught, Settle
  <2> QED BY <2>1, <2>2, <2>3
<1>4. CASE ConnectFails(c) \/ LinkBreaks(c)
  <2>1. link[c] # "gone" /\ link'[c] = "gone"
    BY <1>4 DEF ConnectFails, LinkBreaks
  <2> QED BY <2>1
<1>5. CASE BodyBreaks(c) \/ WriteFails(c) \/ Replied(c)
  <2>1. step'[c] = "settled"
    BY <1>5 DEF BodyBreaks, WriteFails, Replied, Caught, Settle
  <2> QED BY <2>1
<1> QED BY <1>3, <1>4, <1>5 DEF ClientStep, Clamd, Source, Continuation, Deadline

LEMMA RequestLeft ==
  ASSUME IInv, NEW c \in Scans, Request(c), c \in holders, c \in holders'
  PROVE  Left(c)' < Left(c)
<1>1. at[c] \in Scanning /\ at \in [Scans -> Places]
  BY DEF IInv, PInv, PlaceInv
<1>2. ~Slots!Release(c) /\ ~Slots!Resume(c) /\ ~Slots!AcquireNow(c) /\ ~Slots!AcquireWait(c)
  <2>1. ~Slots!Resume(c)
    BY Grants, <1>1 DEF IInv, PInv, PlaceInv, Scanning
  <2> QED BY <2>1, Releases DEF IInv, Slots!AcquireNow, Slots!AcquireWait, Slots!Idle
<1>3. CASE OpenReadStream(c)
  <2>1. at[c] = "open" /\ at'[c] = "scan"
    BY <1>1, <1>2, <1>3 DEF OpenReadStream, Go
  <2> QED BY <2>1 DEF Left
<1>4. CASE Scanned(c)
  <2>1. at[c] = "scan" /\ step[c] = "settled" /\ at'[c] = "deliver"
    BY <1>1, <1>2, <1>4 DEF Scanned, Go
  <2> QED BY <2>1 DEF Left
<1> QED BY <1>1, <1>2, <1>3, <1>4 DEF Request, Begin, Acquire, NotScanned, BackoffEnds, SlotGranted,
           SourceMissing, Delivered, Reported, Scanning

(* Nothing gives a holder more to do before its release, and each of its own *)
(* steps takes something away or releases the slot; so with at most five     *)
(* such steps the slot is back.                                              *)
THEOREM HoldingEnds ==
  Spec => [][\A c \in Scans :
               c \in holders /\ c \in holders'
               => Left(c)' <= Left(c) /\ (HolderStep(c) => Left(c)' < Left(c))]_vars
<1> DEFINE Nearer(c) == Left(c)' <= Left(c) /\ (HolderStep(c) => Left(c)' < Left(c))
<1>int. \A c \in Scans : Left(c) \in Nat /\ Left(c)' \in Nat
  BY DEF Left
<1>1. ASSUME IInv, NEW c \in Scans, c \in holders, c \in holders', HolderStep(c) PROVE Left(c)' < Left(c)
  <2>1. CASE SourceMissing(c) \/ OpenReadStream(c) \/ Scanned(c) \/ Delivered(c)
    BY <1>1, <2>1, RequestLeft DEF Request
  <2>2. CASE (Deadline(c) \/ Continuation(c)) /\ UNCHANGED <<at, attempt, slotVars>>
    BY <1>1, <2>2, CallLeft DEF ClientStep
  <2> QED BY <1>1, <2>1, <2>2 DEF HolderStep
<1>2. ASSUME IInv, Next, NEW c \in Scans, c \in holders, c \in holders' PROVE Left(c)' <= Left(c)
  <2>1. ASSUME NEW d \in Scans, Request(d) PROVE Left(c)' <= Left(c)
    <3>1. CASE d = c
      BY <1>2, <2>1, <3>1, <1>int, RequestLeft
    <3>2. CASE d # c
      <4>1. at'[c] = at[c]
        BY <1>2, <2>1, <3>2, RequestSteps
      <4>2. step'[c] = step[c] /\ link'[c] = link[c]
        <5>1. UNCHANGED clientVars \/ Drop({d}) \/ OpenSocket(d)
          BY <1>2, <2>1, RequestSteps
        <5>2. c \in Calls
          BY DEF Calls
        <5> QED BY <1>2, <3>2, <5>1, <5>2, StepIsLocal DEF clientVars, Drop, IInv
      <4> QED BY <4>1, <4>2, <1>int DEF Left
    <3> QED BY <3>1, <3>2
  <2>2. ASSUME NEW d \in Scans, ClientStep(d), at' = at PROVE Left(c)' <= Left(c)
    <3>1. CASE d = c
      BY <1>2, <2>2, <3>1, CallLeft
    <3>2. CASE d # c
      <4>1. step'[c] = step[c] /\ link'[c] = link[c]
        BY <1>2, <2>2, <3>2, StepIsLocal DEF IInv, Calls
      <4> QED BY <2>2, <4>1, <1>int DEF Left
    <3> QED BY <3>1, <3>2
  <2>3. ~ProcessReplaced
    BY <1>2 DEF ProcessReplaced, IInv, PInv, PlaceInv, Scanning
  <2> QED BY <1>2, <2>1, <2>2, <2>3 DEF Next, Client
<1>3. IInv /\ [Next]_vars
      => [\A c \in Scans : c \in holders /\ c \in holders' => Nearer(c)]_vars
  BY <1>1, <1>2
<1> QED BY <1>3, Invariance, PTL DEF Spec
=============================================================================
