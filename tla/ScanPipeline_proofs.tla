-------------------------- MODULE ScanPipeline_proofs --------------------------
(***************************************************************************)
(* Proofs about ScanPipeline for every log, every number of tasks, and     *)
(* every number of attempts and faults.                                    *)
(***************************************************************************)
EXTENDS ScanPipeline, FiniteSetTheorems, WellFoundedInduction, SequenceTheorems, TLAPS

-----------------------------------------------------------------------------
(* The invariant *)

\* The upload of record r is at a destination of the record.
KeptAt(r) == \E d \in Targets(r) \ Sources : store[d] = Source(r)

\* The callback of record r was accepted, or it has none.
Answered(r) == Log[r].callback # "none" => Reported(r) # {}

Handling == Places \ {"idle", "down", "commit"}

\* What the place a handler has reached says of its record.
PlaceInv(w) ==
    /\ at[w] \in {"idle", "down"} => record[w] = None /\ ~pinned[w] /\ ~moved[w]
    /\ at[w] \notin {"idle", "down"} => record[w] \in Records
    /\ at[w] \in Handling => Accepted(Event(w))
    /\ at[w] = "commit" =>
          \/ result[w] = "discarded" /\ ~Accepted(Event(w)) /\ ~moved[w]
          \/ Accepted(Event(w)) /\ Answered(record[w])
    /\ at[w] \in {"copy", "callback", "publish"} => result[w] \in Results
    /\ at[w] = "copy" => Moves(w, result[w])
    /\ at[w] = "commitRetained" => \E d \in retained : d.record = record[w]
    /\ at[w] = "delete" => record[w] < committed /\ moved[w] /\ Answered(record[w])

\* A pinned record is the owner's, and the next to commit until it is.
PinInv(w) ==
    pinned[w] => owner = w /\ (at[w] # "delete" => record[w] = committed)

\* A handler that has moved its object: the copy is there.
MoveInv(w) == moved[w] => KeptAt(record[w])

WorkerInv(w) == PlaceInv(w) /\ PinInv(w) /\ MoveInv(w)

\* A source location holds its own upload or nothing, and nothing only after
\* the record was dealt with.
StoreInv ==
    /\ \A l \in Sources : store[l] \in {None, l} /\ (store[l] = l => l \in uploaded)
    /\ \A l \in uploaded : store[l] # l =>
          \E r \in Records : /\ Source(r) = l /\ r < committed
                             /\ Answered(r) /\ KeptAt(r)

Kept == (\A w \in Workers : WorkerInv(w)) /\ StoreInv

\* What a callback says, or is about to say, of the object's place.
ReportInv ==
    /\ \A d \in delivered :
          Log[d.record].move /\ d.result # "missing" =>
              \E t \in Targets(d.record) :
                  /\ d.url = BuildS3Url(t[1], t[2])
                  /\ t \in Sources \/ store[t] = Source(d.record)
    /\ \A w \in Workers :
          at[w] = "callback" /\ Event(w).move /\ result[w] # "missing" =>
              \/ Destination(w, result[w]) \in Sources
              \/ store[Destination(w, result[w])] = Source(record[w])

IInv == TypeOK /\ Kept /\ NothingSilentlyDropped /\ ReportInv

LEMMA InitIInv == Init => IInv
<1> SUFFICES ASSUME Init PROVE IInv
    OBVIOUS
<1> USE PipelineAssumption DEF Init
<1>1. TypeOK
    BY DEF TypeOK, Places
<1>2. Kept
    BY DEF Kept, WorkerInv, PlaceInv, PinInv, MoveInv, StoreInv, Handling, Sources, Locations
<1>3. NothingSilentlyDropped
    BY DEF NothingSilentlyDropped, Records
<1>4. ReportInv
    BY DEF ReportInv
<1> QED BY <1>1, <1>2, <1>3, <1>4 DEF IInv

-----------------------------------------------------------------------------
(* Types *)

LEMMA Shapes ==
    /\ Sources \subseteq Locations
    /\ \A r \in Records : Source(r) \in Sources /\ Targets(r) \subseteq Locations
                          /\ r \in Nat /\ r + 1 \in 1 .. Len(Log) + 1
    /\ \A r, q \in Records : \A d \in Targets(r) :
          (d \in Sources => d = Source(r)) /\ (d \in Targets(q) => Source(q) = Source(r))
    /\ None \notin Sources
BY PipelineAssumption, DestinationAssumption DEF Sources, Locations, Records

\* A place of a handler that has a record, and what it may have there.
LEMMA ForgetTypes ==
    ASSUME TypeOK, NEW w \in Workers, Forget(w)
    PROVE  /\ record' \in [Workers -> Records \cup {None}] /\ pinned' \in [Workers -> BOOLEAN]
           /\ attempt' \in [Workers -> 1 .. SourceAttempts]
           /\ tries' \in [Workers -> 1 .. CallbackAttempts]
           /\ result' \in [Workers -> Results \cup {None}] /\ moved' \in [Workers -> BOOLEAN]
BY PipelineAssumption DEF TypeOK, Forget

LEMMA DownTypes ==
    ASSUME TypeOK, NEW w \in Workers, Down(w), UNCHANGED <<outside, faults>> \/ (Fault /\ UNCHANGED outside)
    PROVE  TypeOK'
<1>1. /\ at' \in [Workers -> Places] /\ owner' \in Workers \cup {None} /\ faults' \in 0 .. MaxFaults
      /\ UNCHANGED <<uploaded, store, delivered, retained, committed>>
    BY PipelineAssumption DEF TypeOK, Down, Go, Places, Fault, outside
<1> QED BY <1>1, ForgetTypes DEF TypeOK, Down

\* Where the bucket and the key of a moved result are.
LEMMA DestinationIsTarget ==
    ASSUME NEW w, record[w] \in Records, Event(w).move, NEW res
    PROVE  Destination(w, res) \in Targets(record[w])
BY DEF Destination, Targets, Event

\* A non-empty set of naturals has a least element: the intervals 1 .. n are
\* finite sets, and those are well-founded under strict inclusion.
LEMMA LeastNatural ==
    ASSUME NEW T, T \subseteq Nat, T # {}
    PROVE  \E m \in T : \A n \in T : m <= n
<1> DEFINE I == {1 .. n : n \in T}
<1>1. I \subseteq FiniteSubsetsOf(Nat) /\ I # {}
  <2>1. \A n \in T : 1 .. n \in SUBSET Nat /\ IsFiniteSet(1 .. n)
      BY FS_Interval
  <2>2. ASSUME NEW t \in I PROVE t \in FiniteSubsetsOf(Nat)
      BY <2>1 DEF FiniteSubsetsOf
  <2> QED BY <2>2
<1>2. PICK s \in I : \A t \in I : ~(<<t, s>> \in StrictSubsetOrdering(Nat))
  <2> HIDE DEF I
  <2> QED BY <1>1, FS_StrictSubsetOrderingWellFounded, WFMin
<1>3. PICK m \in T : s = 1 .. m
    OBVIOUS
<1>4. ASSUME NEW n \in T PROVE m <= n
  <2> SUFFICES ASSUME n < m PROVE FALSE
      OBVIOUS
  <2>1. m \in 1 .. m /\ m \notin 1 .. n /\ 1 .. n \subseteq 1 .. m
      OBVIOUS
  <2>2. 1 .. n \in SUBSET Nat /\ 1 .. m \in SUBSET Nat /\ 1 .. n # 1 .. m
      BY <2>1
  <2>3. <<1 .. n, 1 .. m>> \in StrictSubsetOrdering(Nat)
      BY <2>1, <2>2 DEF StrictSubsetOrdering
  <2> QED BY <1>2, <1>3, <2>3
<1> QED BY <1>4

\* new URL() leaves a path without dot segments as it is.
LEMMA UndottedStays ==
    ASSUME NEW S, NEW path \in Seq(S), Undotted(path)
    PROVE  Resolved(path) = path
<1> DEFINE n == Len(path)
           Unfolds(f) == f = [i \in 0 .. n |-> IF i = 0 THEN <<>> ELSE AfterSegment(f[i - 1], path[i])]
           kept == CHOOSE f : Unfolds(f)
           upTo == [i \in 0 .. n |-> SubSeq(path, 1, i)]
<1>0. n \in Nat /\ DOMAIN path = 1 .. n
    OBVIOUS
<1>1. ASSUME NEW f, NEW i \in 1 .. n PROVE AfterSegment(f, path[i]) = Append(f, path[i])
    BY <1>0 DEF Undotted, AfterSegment
<1>2. ASSUME NEW i \in 1 .. n PROVE SubSeq(path, 1, i) = Append(SubSeq(path, 1, i - 1), path[i])
    OBVIOUS
<1>3. SubSeq(path, 1, 0) = <<>> /\ SubSeq(path, 1, n) = path
    OBVIOUS
<1>4. ASSUME NEW i \in 0 .. n
      PROVE  upTo[i] = IF i = 0 THEN <<>> ELSE AfterSegment(upTo[i - 1], path[i])
  <2>1. CASE i = 0
      BY <1>3, <2>1
  <2>2. CASE i > 0
    <3>1. i \in 1 .. n /\ i - 1 \in 0 .. n
        BY <1>0, <2>2
    <3>2. upTo[i] = Append(upTo[i - 1], path[i])
        BY <1>2, <3>1
    <3>3. AfterSegment(upTo[i - 1], path[i]) = Append(upTo[i - 1], path[i])
        BY <1>1, <3>1
    <3> HIDE DEF upTo
    <3> QED BY <3>1, <3>2, <3>3
  <2> QED BY <1>0, <2>1, <2>2
<1>5. Unfolds(upTo)
    BY <1>4
<1>6. Unfolds(kept)
  <2> HIDE DEF upTo, Unfolds
  <2> QED BY <1>5
<1> HIDE DEF kept
<1>7. \A i \in 0 .. n : kept[i] = upTo[i]
  <2> DEFINE T == {i \in 0 .. n : kept[i] # upTo[i]}
  <2> SUFFICES ASSUME T # {} PROVE FALSE
      OBVIOUS
  <2>1. PICK m \in T : \A k \in T : m <= k
    <3>1. T \subseteq Nat
        BY <1>0
    <3> HIDE DEF T
    <3> QED BY <3>1, LeastNatural
  <2>2. kept[0] = <<>> /\ upTo[0] = <<>>
    <3> HIDE DEF upTo
    <3> QED BY <1>0, <1>4, <1>6
  <2>3. m \in 1 .. n /\ m - 1 \in 0 .. n /\ ~(m <= m - 1)
    <3> HIDE DEF upTo
    <3> QED BY <1>0, <2>1, <2>2
  <2>4. kept[m - 1] = upTo[m - 1]
    <3> HIDE DEF upTo
    <3> QED BY <2>1, <2>3
  <2>5. kept[m] = AfterSegment(kept[m - 1], path[m]) /\ upTo[m] = AfterSegment(upTo[m - 1], path[m])
    <3> HIDE DEF upTo
    <3> QED BY <1>4, <1>6, <2>3
  <2> QED BY <2>1, <2>4, <2>5
<1>8. Resolved(path) = IF kept[n] # <<>> /\ path[n] \in DotSegments THEN Append(kept[n], "") ELSE kept[n]
    BY DEF Resolved, kept
<1>9. path # <<>> => path[n] \notin DotSegments
    BY DEF Undotted
<1>10. kept[n] = path
  <2>1. n \in 0 .. n /\ upTo[n] = path
      BY <1>0, <1>3
  <2> HIDE DEF upTo, n
  <2> QED BY <1>7, <2>1
<1> QED BY <1>8, <1>9, <1>10

\* parseS3Url finds again what buildS3Url was given, unless a dot segment is in it.
LEMMA UrlNames ==
    ASSUME NEW r \in Records, NEW d \in Targets(r), Undotted(BuildS3Url(d[1], d[2]).path)
    PROVE  Location(BuildS3Url(d[1], d[2])) = d
<1>1. PICK S : Log[r].fileName \in Seq(S)
    BY PipelineAssumption
<1>2. PICK b : d = <<b, Log[r].fileName>>
    BY DEF Targets
<1> DEFINE path == <<b>> \o Log[r].fileName
<1>3. <<b>> \in Seq(S \cup {b}) /\ Log[r].fileName \in Seq(S \cup {b})
    BY <1>1
<1>4. path # <<>> /\ Head(path) = b /\ Tail(path) = Log[r].fileName /\ path \in Seq(S \cup {b})
    BY <1>3, HeadTailProperties, ConcatProperties
<1>5. BuildS3Url(d[1], d[2]).form = "path" /\ BuildS3Url(d[1], d[2]).path = path
    BY <1>2 DEF BuildS3Url
<1>6. Resolved(path) = path
  <2> HIDE DEF path
  <2> QED BY <1>4, <1>5, UndottedStays
<1> HIDE DEF path
<1> QED BY <1>2, <1>4, <1>5, <1>6 DEF Location, BucketOf, KeyOf

LEMMA ReportType ==
    ASSUME TypeOK, NEW w \in Workers, record[w] \in Records, result[w] \in Results
    PROVE  Report(w) \in Reports /\ Report(w).record = record[w]
<1>1. CASE Event(w).move /\ result[w] # "missing"
  <2>1. Destination(w, result[w]) \in Locations
      BY <1>1, DestinationIsTarget, Shapes
  <2>2. BuildS3Url(Destination(w, result[w])[1], Destination(w, result[w])[2]) \in Urls
      BY <2>1 DEF Urls
  <2>3. Destination(w, result[w])[2] = Event(w).fileName
      BY DEF Destination
  <2> QED BY <1>1, <2>2, <2>3 DEF Report, Reports
<1>2. CASE ~(Event(w).move /\ result[w] # "missing")
    BY <1>2 DEF Report, Reports, Urls, Event
<1> QED BY <1>1, <1>2

LEMMA ConcludeTypes ==
    ASSUME TypeOK, NEW w \in Workers, NEW res \in Results, Conclude(w, res)
    PROVE  /\ at' \in [Workers -> Places] /\ result' \in [Workers -> Results \cup {None}]
           /\ at'[w] \in {"copy", "commit", "callback"} /\ result'[w] = res
           /\ \A v \in Workers \ {w} : at'[v] = at[v] /\ result'[v] = result[v]
BY DEF TypeOK, Conclude, Go, AfterCopy, Places

LEMMA MissingTypes ==
    ASSUME TypeOK, NEW w \in Workers, Missing(w)
    PROVE  /\ at' \in [Workers -> Places] /\ attempt' \in [Workers -> 1 .. SourceAttempts]
           /\ result' \in [Workers -> Results \cup {None}]
           /\ UNCHANGED <<owner, pinned, record, tries, moved>>
<1>1. CASE attempt[w] < SourceAttempts
  <2>1. attempt' = [attempt EXCEPT ![w] = @ + 1] /\ Go(w, "head")
        /\ UNCHANGED <<owner, pinned, record, tries, moved, result>>
      BY <1>1 DEF Missing
  <2>2. attempt[w] + 1 \in 1 .. SourceAttempts
      BY <1>1, PipelineAssumption DEF TypeOK
  <2> QED BY <2>1, <2>2 DEF TypeOK, Go, Places
<1>2. CASE ~(attempt[w] < SourceAttempts)
  <2>1. Conclude(w, "missing") /\ UNCHANGED <<attempt, owner, pinned, record, tries, moved>>
      BY <1>2 DEF Missing
  <2> QED BY <2>1, ConcludeTypes DEF Results, TypeOK
<1> QED BY <1>1, <1>2

LEMMA SourceTypes ==
    ASSUME TypeOK, Kept, NEW w \in Workers, GetMetadata(w) \/ OpenReadStream(w) \/ Scan(w)
    PROVE  TypeOK'
<1> USE DEF outside, local
<1>0. UNCHANGED <<uploaded, store, delivered, retained, committed, faults>>
    BY DEF GetMetadata, OpenReadStream, Scan
<1>1. CASE Missing(w)
    BY <1>0, <1>1, MissingTypes DEF TypeOK
<1>2. CASE GetMetadata(w) /\ ~Missing(w)
  <2>1. UNCHANGED <<owner, pinned, record, attempt, tries, moved>>
      BY <1>2 DEF GetMetadata
  <2>2. CASE Conclude(w, "oversized")
      BY <1>0, <2>1, <2>2, ConcludeTypes DEF Results, TypeOK
  <2>3. CASE Go(w, "open") /\ UNCHANGED result
      BY <1>0, <2>1, <2>3 DEF TypeOK, Go, Places
  <2> QED BY <1>2, <2>2, <2>3 DEF GetMetadata
<1>3. CASE OpenReadStream(w) /\ ~Missing(w)
    BY <1>0, <1>3 DEF OpenReadStream, TypeOK, Go, Places
<1>4. CASE Scan(w)
  <2>1. PICK v \in Verdicts : Conclude(w, v)
      BY <1>4 DEF Scan
  <2>2. UNCHANGED <<owner, pinned, record, attempt, tries, moved>>
      BY <1>4 DEF Scan
  <2> QED BY <1>0, <2>1, <2>2, ConcludeTypes DEF Results, TypeOK
<1> QED BY <1>1, <1>2, <1>3, <1>4

LEMMA ResultTypes ==
    ASSUME TypeOK, Kept, NEW w \in Workers,
           Copy(w) \/ Deliver(w) \/ DeliveryFails(w) \/ Publish(w)
    PROVE  TypeOK'
<1> USE DEF group, local, outside
<1>0. /\ record[w] \in Records /\ at[w] \in {"copy", "callback", "publish"} /\ result[w] \in Results
      /\ Moves(w, result[w]) \/ at[w] # "copy"
    BY DEF Kept, WorkerInv, PlaceInv, Copy, Deliver, DeliveryFails, Publish
<1>1. CASE Copy(w)
  <2>1. CASE ~(Present(w) /\ Destination(w, result[w])[1] # None)
      BY <1>1, <2>1, DownTypes DEF Copy
  <2>2. CASE Present(w) /\ Destination(w, result[w])[1] # None
    <3>1. /\ Present(w) /\ Go(w, AfterCopy(w))
          /\ store' = [store EXCEPT ![Destination(w, result[w])] = store[Source(record[w])]]
          /\ moved' = [moved EXCEPT ![w] = TRUE]
          /\ UNCHANGED <<uploaded, delivered, retained, committed, faults, owner, pinned, record, attempt, tries, result>>
        BY <1>1, <2>2 DEF Copy
    <3>2. store' \in [Locations -> Sources \cup {None}]
      <4>1. Source(record[w]) \in Locations
          BY <1>0, Shapes
      <4> QED BY <3>1, <4>1 DEF TypeOK
    <3>3. at' \in [Workers -> Places] /\ moved' \in [Workers -> BOOLEAN]
        BY <3>1 DEF TypeOK, Go, AfterCopy, Places
    <3> QED BY <3>1, <3>2, <3>3 DEF TypeOK
  <2> QED BY <2>1, <2>2
<1>2. CASE Deliver(w) \/ Publish(w)
  <2>1. Report(w) \in Reports
      BY <1>0, ReportType
  <2>2. delivered' \in SUBSET Reports /\ retained' \in SUBSET Reports /\ at' \in [Workers -> Places]
      BY <1>2, <2>1 DEF TypeOK, Deliver, Publish, Go, Places
  <2> QED BY <1>2, <2>2 DEF TypeOK, Deliver, Publish
<1>3. CASE DeliveryFails(w)
  <2>1. Report(w) \in Reports
      BY <1>0, ReportType
  <2>2. delivered' \in SUBSET Reports /\ faults' \in 0 .. MaxFaults
      BY <1>3, <2>1, PipelineAssumption DEF TypeOK, DeliveryFails, Fault
  <2>3. at' \in [Workers -> Places] /\ tries' \in [Workers -> 1 .. CallbackAttempts]
    <3>1. CASE tries[w] >= CallbackAttempts
        BY <1>3, <3>1 DEF TypeOK, DeliveryFails, Go, Places
    <3>2. CASE ~(tries[w] >= CallbackAttempts)
      <4>1. tries[w] + 1 \in 1 .. CallbackAttempts
          BY <3>2, PipelineAssumption DEF TypeOK
      <4> QED BY <1>3, <3>2, <4>1 DEF TypeOK, DeliveryFails
    <3> QED BY <3>1, <3>2
  <2> QED BY <1>3, <2>2, <2>3 DEF TypeOK, DeliveryFails
<1> QED BY <1>1, <1>2, <1>3

LEMMA EndTypes ==
    ASSUME TypeOK, Kept, NEW w \in Workers,
           Commit(w) \/ Delete(w) \/ DeleteFails(w) \/ Stops(w) \/ Restart(w)
    PROVE  TypeOK'
<1> USE DEF group, local, outside
<1>1. CASE Commit(w)
  <2>1. CASE ~pinned[w]
      BY <1>1, <2>1, DownTypes DEF Commit
  <2>2. CASE pinned[w]
    <3>1. committed' \in 1 .. Len(Log) + 1
      <4>1. record[w] \in Records
          BY <1>1 DEF Kept, WorkerInv, PlaceInv, Commit
      <4> QED BY <1>1, <2>2, <4>1, Shapes DEF Commit
    <3>2. UNCHANGED <<uploaded, store, delivered, retained, faults, owner>>
        BY <1>1, <2>2 DEF Commit
    <3>3. CASE Go(w, "delete") /\ UNCHANGED <<pinned, local>>
        BY <3>1, <3>2, <3>3 DEF TypeOK, Go, Places
    <3>4. CASE Go(w, "idle") /\ Forget(w)
      <4>1. at' \in [Workers -> Places]
          BY <3>4 DEF TypeOK, Go, Places
      <4> QED BY <3>1, <3>2, <3>4, <4>1, ForgetTypes DEF TypeOK
    <3> QED BY <1>1, <2>2, <3>3, <3>4 DEF Commit
  <2> QED BY <2>1, <2>2
<1>2. CASE Delete(w) \/ DeleteFails(w)
  <2>1. /\ UNCHANGED <<uploaded, delivered, retained, committed, owner>> /\ Go(w, "idle") /\ Forget(w)
        /\ faults' \in 0 .. MaxFaults
      BY <1>2, PipelineAssumption DEF Delete, DeleteFails, Fault, TypeOK
  <2>2. at' \in [Workers -> Places]
      BY <2>1 DEF TypeOK, Go, Places
  <2>3. store' \in [Locations -> Sources \cup {None}]
      BY <1>2 DEF TypeOK, Delete, DeleteFails
  <2> QED BY <2>1, <2>2, <2>3, ForgetTypes DEF TypeOK
<1>3. CASE Stops(w)
    BY <1>3, DownTypes DEF Stops
<1>4. CASE Restart(w)
    BY <1>4 DEF Restart, TypeOK, Go, Places
<1> QED BY <1>1, <1>2, <1>3, <1>4

LEMMA NextTypes == TypeOK /\ Kept /\ [Next]_vars => TypeOK'
<1> SUFFICES ASSUME TypeOK, Kept, [Next]_vars PROVE TypeOK'
    OBVIOUS
<1> USE DEF group, local, outside
<1>1. ASSUME NEW l \in Sources, Upload(l) PROVE TypeOK'
  <2>1. store' \in [Locations -> Sources \cup {None}] /\ uploaded' \in SUBSET Sources
      BY <1>1 DEF TypeOK, Upload
  <2> QED BY <1>1, <2>1 DEF TypeOK, Upload
<1>2. ASSUME NEW w \in Workers, Join(w) PROVE TypeOK'
  <2>1. faults' \in 0 .. MaxFaults
      BY <1>2, PipelineAssumption DEF TypeOK, Join, Fault
  <2> QED BY <1>2, <2>1 DEF TypeOK, Join
<1>3. ASSUME NEW w \in Workers, Begin(w) PROVE TypeOK'
  <2>1. /\ record' \in [Workers -> Records \cup {None}] /\ pinned' \in [Workers -> BOOLEAN]
        /\ at' \in [Workers -> Places] /\ result' \in [Workers -> Results \cup {None}]
      BY <1>3 DEF TypeOK, Begin, Go, Places, Results
  <2> QED BY <1>3, <2>1 DEF TypeOK, Begin
<1>4. CASE Finished \/ UNCHANGED vars
    BY <1>4 DEF TypeOK, Finished, vars
<1> QED BY <1>1, <1>2, <1>3, <1>4, SourceTypes, ResultTypes, EndTypes DEF Next, Handle

-----------------------------------------------------------------------------
(* Steps *)

\* What other tasks may rely on: effects outside the service stay.
Grows ==
    /\ delivered \subseteq delivered' /\ retained \subseteq retained' /\ committed <= committed'
    /\ \A r \in Records : \A d \in Targets(r) \ Sources :
          store[d] = Source(r) => store'[d] = Source(r)

LEMMA KeptStays ==
    ASSUME Grows, NEW r \in Records, KeptAt(r) PROVE KeptAt(r)'
BY DEF Grows, KeptAt

LEMMA AnsweredStays ==
    ASSUME Grows, NEW r, Answered(r) PROVE Answered(r)'
BY DEF Grows, Answered, Reported

\* A task that a step leaves where it is.
LEMMA OtherKeeps ==
    ASSUME TypeOK, TypeOK', Grows, NEW v \in Workers, WorkerInv(v),
           at'[v] = at[v], record'[v] = record[v], result'[v] = result[v], moved'[v] = moved[v],
           pinned'[v] => pinned[v] /\ UNCHANGED <<owner, committed>>
    PROVE  WorkerInv(v)'
<1>1. Event(v)' = Event(v)
    BY DEF Event
<1>2. Moves(v, result[v]) => Moves(v, result[v])'
    BY <1>1 DEF Moves, Destination
<1>3. Answered(record[v]) => Answered(record[v])'
  <2>1. PICK r : r = record[v]
      OBVIOUS
  <2>2. Answered(r) => Answered(r)'
      BY AnsweredStays
  <2> QED BY <2>1, <2>2 DEF Answered, Reported
<1>4. record[v] \in Records /\ record[v] < committed => record[v] < committed'
    BY DEF Grows, TypeOK, Records
<1>5. PlaceInv(v)'
  <2>1. /\ at[v] \in {"idle", "down"} => record[v] = None /\ ~pinned'[v] /\ ~moved[v]
        /\ at[v] \notin {"idle", "down"} => record[v] \in Records
        /\ at[v] \in Handling => Accepted(Event(v))
        /\ at[v] \in {"copy", "callback", "publish"} => result[v] \in Results
        /\ at[v] = "copy" => Moves(v, result[v])'
      BY <1>2 DEF WorkerInv, PlaceInv
  <2>2. at[v] = "commit" =>
          \/ result[v] = "discarded" /\ ~Accepted(Event(v)) /\ ~moved[v]
          \/ Accepted(Event(v)) /\ Answered(record[v])'
      BY <1>3 DEF WorkerInv, PlaceInv
  <2>3. at[v] = "commitRetained" => \E d \in retained' : d.record = record[v]
      BY DEF WorkerInv, PlaceInv, Grows
  <2>4. at[v] = "delete" => record[v] < committed' /\ moved[v] /\ Answered(record[v])'
      BY <1>3, <1>4, <2>1 DEF WorkerInv, PlaceInv
  <2> QED BY <1>1, <2>1, <2>2, <2>3, <2>4 DEF PlaceInv, Moves, Destination, Answered, Reported
<1>6. PinInv(v)'
    BY DEF WorkerInv, PinInv
<1>7. MoveInv(v)'
  <2>1. moved[v] => KeptAt(record[v]) /\ record[v] \in Records
      BY DEF WorkerInv, MoveInv, PlaceInv
  <2>2. PICK r : r = record[v]
      OBVIOUS
  <2>3. r \in Records /\ KeptAt(r) => KeptAt(r)'
      BY KeptStays
  <2> QED BY <2>1, <2>2, <2>3 DEF MoveInv, KeptAt
<1> QED BY <1>5, <1>6, <1>7 DEF WorkerInv

LEMMA StoreKeeps ==
    ASSUME TypeOK, TypeOK', Kept, Grows, UNCHANGED <<store, uploaded>> PROVE StoreInv'
<1>1. ASSUME NEW l \in uploaded, store[l] # l
      PROVE  \E r \in Records : Source(r) = l /\ r < committed' /\ Answered(r)' /\ KeptAt(r)'
  <2>1. PICK r \in Records : Source(r) = l /\ r < committed /\ Answered(r) /\ KeptAt(r)
      BY <1>1 DEF Kept, StoreInv
  <2>2. r < committed'
      BY <2>1 DEF Grows, TypeOK, Records
  <2> QED BY <2>1, <2>2, AnsweredStays, KeptStays
<1>2. \A l \in Sources : store[l] \in {None, l} /\ (store[l] = l => l \in uploaded)
    BY DEF Kept, StoreInv
<1> QED BY <1>1, <1>2 DEF StoreInv

\* Nothing that was committed becomes undone.
LEMMA DroppedKeeps ==
    ASSUME NothingSilentlyDropped, Grows, UNCHANGED committed PROVE NothingSilentlyDropped'
BY DEF NothingSilentlyDropped, Grows

\* Where S3 stays as it is, only the invariant of task w is left to show.
LEMMA OwnStep ==
    ASSUME TypeOK, TypeOK', Kept, NEW w \in Workers, UNCHANGED <<store, uploaded>>,
           delivered \subseteq delivered', retained \subseteq retained', committed <= committed',
           \A v \in Workers \ {w} :
              /\ at'[v] = at[v] /\ record'[v] = record[v] /\ result'[v] = result[v]
              /\ moved'[v] = moved[v] /\ pinned'[v] = pinned[v]
              /\ pinned[v] => UNCHANGED <<owner, committed>>,
           WorkerInv(w)'
    PROVE  Kept' /\ Grows
<1>1. Grows
    BY DEF Grows
<1>2. \A v \in Workers : WorkerInv(v)'
    BY <1>1, OtherKeeps DEF Kept
<1> QED BY <1>1, <1>2, StoreKeeps DEF Kept

\* Only the owner has its record pinned.
LEMMA OnePinned ==
    ASSUME Kept, NEW v \in Workers, NEW w \in Workers, pinned[v], owner = w \/ pinned[w]
    PROVE  v = w
BY DEF Kept, WorkerInv, PinInv

\* A task that has dropped its record.
LEMMA Dropped ==
    ASSUME TypeOK, NEW w \in Workers, Forget(w), at'[w] \in {"idle", "down"}
    PROVE  /\ WorkerInv(w)'
           /\ \A v \in Workers \ {w} :
                 /\ record'[v] = record[v] /\ result'[v] = result[v]
                 /\ moved'[v] = moved[v] /\ pinned'[v] = pinned[v]
<1>1. record'[w] = None /\ ~pinned'[w] /\ ~moved'[w]
    BY DEF Forget, TypeOK
<1>2. WorkerInv(w)'
    BY <1>1 DEF WorkerInv, PlaceInv, PinInv, MoveInv, Handling
<1> QED BY <1>2 DEF Forget, TypeOK

LEMMA DownKept ==
    ASSUME TypeOK, TypeOK', Kept, NEW w \in Workers, Down(w), UNCHANGED outside PROVE Kept' /\ Grows
<1> USE DEF outside
<1>1. at'[w] = "down" /\ \A v \in Workers \ {w} : at'[v] = at[v]
    BY DEF Down, Go, TypeOK
<1>2. \A v \in Workers \ {w} : pinned[v] => owner' = owner
    BY OnePinned DEF Down
<1>3. committed <= committed'
    BY PipelineAssumption DEF TypeOK
<1> QED BY <1>1, <1>2, <1>3, Dropped, OwnStep DEF Down

\* A handler at any place but its end, on to the next.
LEMMA ConcludeKept ==
    ASSUME TypeOK, TypeOK', Kept, NEW w \in Workers, NEW res \in Results, Conclude(w, res),
           at[w] \in {"head", "open", "scan"},
           UNCHANGED <<uploaded, store, delivered, retained, committed, owner, pinned, record, moved>>
    PROVE  WorkerInv(w)'
<1>1. /\ result'[w] = res /\ at'[w] = IF Moves(w, res) THEN "copy" ELSE AfterCopy(w)
    BY DEF Conclude, Go, TypeOK
<1>2. record[w] \in Records /\ Accepted(Event(w)) /\ (pinned[w] => owner = w /\ record[w] = committed)
      /\ (moved[w] => KeptAt(record[w]))
    BY DEF Kept, WorkerInv, PlaceInv, PinInv, MoveInv, Handling, Places
<1>3. Event(w)' = Event(w) /\ (Moves(w, res) => Moves(w, res)')
    BY DEF Event, Moves, Destination
<1>4. at'[w] = "commit" => Answered(record[w])
    BY <1>1 DEF AfterCopy, Answered, Event
<1>5. at'[w] \in {"copy", "callback", "commit"} /\ (at'[w] = "copy" => Moves(w, res)')
    BY <1>1, <1>3 DEF AfterCopy
<1>6. Answered(record[w]) => Answered(record[w])'
    BY DEF Answered, Reported
<1>7. Moves(w, res)' => Moves(w, result[w])'
    BY <1>1 DEF Moves, Destination
<1>8. PlaceInv(w)'
    BY <1>1, <1>2, <1>3, <1>4, <1>5, <1>6, <1>7 DEF PlaceInv
<1>9. PinInv(w)' /\ MoveInv(w)'
    BY <1>2, <1>5 DEF PinInv, MoveInv, KeptAt
<1> QED BY <1>8, <1>9 DEF WorkerInv

LEMMA SourceKept ==
    ASSUME TypeOK, TypeOK', Kept, NEW w \in Workers, GetMetadata(w) \/ OpenReadStream(w) \/ Scan(w)
    PROVE  Kept' /\ Grows
<1> USE DEF outside, local
<1>1. /\ UNCHANGED <<uploaded, store, delivered, retained, committed, owner, pinned, record, moved>>
      /\ at[w] \in {"head", "open", "scan"}
    BY DEF GetMetadata, OpenReadStream, Scan, Missing
<1>2. /\ \/ \E res \in Results : Conclude(w, res)
         \/ (Go(w, "head") \/ Go(w, "open") \/ Go(w, "scan")) /\ UNCHANGED result
      /\ committed <= committed'
  <2>1. committed <= committed'
      BY <1>1 DEF TypeOK
  <2>2. CASE Missing(w) \/ Scan(w)
      BY <2>1, <2>2 DEF Missing, Scan, Results
  <2>3. CASE GetMetadata(w) /\ ~Missing(w)
      BY <2>1, <2>3 DEF GetMetadata, Results
  <2>4. CASE OpenReadStream(w) /\ ~Missing(w)
      BY <2>1, <2>4 DEF OpenReadStream
  <2> QED BY <2>2, <2>3, <2>4
<1>3. \A v \in Workers \ {w} : at'[v] = at[v] /\ result'[v] = result[v]
    BY <1>2 DEF Conclude, Go, TypeOK
<1>4. WorkerInv(w)'
  <2>1. CASE (Go(w, "head") \/ Go(w, "open") \/ Go(w, "scan")) /\ UNCHANGED result
    <3>1. at'[w] \in {"head", "open", "scan"}
        BY <2>1 DEF Go, TypeOK
    <3>2. record[w] \in Records /\ Accepted(Event(w)) /\ (pinned[w] => owner = w /\ record[w] = committed)
          /\ (moved[w] => KeptAt(record[w]))
        BY <1>1 DEF Kept, WorkerInv, PlaceInv, PinInv, MoveInv, Handling, Places
    <3>3. PlaceInv(w)'
        BY <1>1, <3>1, <3>2 DEF PlaceInv, Event
    <3>4. PinInv(w)' /\ MoveInv(w)'
        BY <1>1, <3>1, <3>2 DEF PinInv, MoveInv, KeptAt
    <3> QED BY <3>3, <3>4 DEF WorkerInv
  <2> QED BY <1>1, <1>2, <2>1, ConcludeKept
<1> QED BY <1>1, <1>2, <1>3, <1>4, OwnStep

\* A copy that overwrites an earlier one puts the same upload there.
LEMMA CopyKept ==
    ASSUME TypeOK, TypeOK', Kept, NEW w \in Workers, Copy(w)
    PROVE  Kept' /\ Grows
<1>1. CASE ~(Present(w) /\ Destination(w, result[w])[1] # None)
    BY <1>1, DownKept DEF Copy, outside
<1>2. CASE Present(w) /\ Destination(w, result[w])[1] # None
  <2>r. PICK r : r = record[w]
      OBVIOUS
  <2>d. PICK d : d = Destination(w, result[w])
      OBVIOUS
  <2>1. /\ at[w] = "copy" /\ at' = [at EXCEPT ![w] = AfterCopy(w)] /\ moved' = [moved EXCEPT ![w] = TRUE]
        /\ store' = [store EXCEPT ![d] = store[Source(r)]]
        /\ UNCHANGED <<uploaded, delivered, retained, committed, owner, pinned, record, result>>
      BY <1>2, <2>r, <2>d DEF Copy, Go
  <2>2. /\ r \in Records /\ Accepted(Event(w)) /\ Moves(w, result[w]) /\ result[w] \in Results
        /\ pinned[w] => owner = w /\ r = committed
      BY <2>1, <2>r DEF Kept, WorkerInv, PlaceInv, PinInv, Handling, Places
  <2>3. d \in Targets(r) /\ d \notin Sources /\ Source(r) \in Sources
      BY <2>2, <2>r, <2>d, DestinationIsTarget, Shapes DEF Moves
  <2>4. store[Source(r)] = Source(r)
      BY <1>2, <2>3, <2>r DEF Present, Kept, StoreInv
  <2>5. store'[d] = Source(r) /\ \A l \in Locations \ {d} : store'[l] = store[l]
      BY <2>1, <2>3, <2>2, <2>4, Shapes DEF TypeOK
  <2>6. ASSUME NEW q \in Records, NEW t \in Targets(q) \ Sources, store[t] = Source(q)
        PROVE  store'[t] = Source(q)
    <3>1. CASE t = d
        BY <2>2, <2>3, <2>5, <2>6, <3>1, Shapes
    <3>2. CASE t # d
        BY <2>5, <2>6, <3>2, Shapes
    <3> QED BY <3>1, <3>2
  <2>7. committed <= committed'
      BY <2>1, PipelineAssumption DEF TypeOK
  <2>8. Grows
      BY <2>1, <2>6, <2>7 DEF Grows
  <2>9. \A v \in Workers \ {w} : WorkerInv(v)'
    <3>1. \A v \in Workers \ {w} : at'[v] = at[v] /\ moved'[v] = moved[v]
        BY <2>1 DEF TypeOK
    <3> QED BY <2>1, <2>8, <3>1, OtherKeeps DEF Kept
  <2>10. WorkerInv(w)'
    <3>1. at'[w] = AfterCopy(w) /\ moved'[w] = TRUE /\ record'[w] = r
        BY <2>1, <2>r DEF TypeOK
    <3>2. at'[w] \in {"commit", "callback"} /\ (at'[w] = "commit" => Answered(r)')
        BY <3>1, <2>r DEF AfterCopy, Event, Answered
    <3>3. KeptAt(r)'
        BY <2>3, <2>5 DEF KeptAt
    <3>4. Event(w)' = Event(w)
        BY <2>1 DEF Event
    <3>5. PlaceInv(w)'
        BY <2>1, <2>2, <3>1, <3>2, <3>4 DEF PlaceInv, Answered, Reported
    <3>6. MoveInv(w)'
        BY <3>1, <3>3 DEF MoveInv, KeptAt
    <3>7. PinInv(w)'
        BY <2>1, <2>2, <3>1 DEF PinInv
    <3> QED BY <3>5, <3>6, <3>7 DEF WorkerInv
  <2>11. StoreInv'
    <3>1. \A l \in Sources : store'[l] = store[l]
        BY <2>3, <2>5, Shapes
    <3>2. \A l \in Sources : store'[l] \in {None, l} /\ (store'[l] = l => l \in uploaded')
        BY <2>1, <3>1 DEF Kept, StoreInv
    <3>3. ASSUME NEW l \in uploaded, store'[l] # l
          PROVE  \E q \in Records : Source(q) = l /\ q < committed' /\ Answered(q)' /\ KeptAt(q)'
      <4>1. store[l] # l
          BY <3>1, <3>3 DEF TypeOK
      <4>2. PICK q \in Records : Source(q) = l /\ q < committed /\ Answered(q) /\ KeptAt(q)
          BY <4>1 DEF Kept, StoreInv
      <4> QED BY <2>1, <2>8, <4>2, AnsweredStays, KeptStays DEF Grows, TypeOK
    <3> QED BY <2>1, <3>2, <3>3 DEF StoreInv
  <2> QED BY <2>8, <2>9, <2>10, <2>11 DEF Kept
<1> QED BY <1>1, <1>2

\* The callback is accepted, fails, or is retained in the dead-letter topic.
LEMMA CallbackKept ==
    ASSUME TypeOK, TypeOK', Kept, NEW w \in Workers,
           Deliver(w) \/ DeliveryFails(w) \/ Publish(w)
    PROVE  Kept' /\ Grows /\ UNCHANGED committed
<1> USE DEF local, group
<1>r. PICK r : r = record[w]
    OBVIOUS
<1>1. /\ UNCHANGED <<uploaded, store, committed, owner, pinned, record, result, moved>>
      /\ delivered \subseteq delivered' /\ retained \subseteq retained'
      /\ at[w] \in {"callback", "publish"}
    BY DEF Deliver, DeliveryFails, Publish
<1>2. /\ r \in Records /\ Accepted(Event(w)) /\ result[w] \in Results
      /\ pinned[w] => owner = w /\ r = committed
      /\ moved[w] => KeptAt(r)
    BY <1>1, <1>r DEF Kept, WorkerInv, PlaceInv, PinInv, MoveInv, Handling, Places
<1>3. Report(w).record = r
    BY <1>2, <1>r, ReportType
<1>4. /\ at'[w] \in {"callback", "publish", "commit", "commitRetained"}
      /\ at'[w] = "commit" => delivered' = delivered \cup {Report(w)}
      /\ at'[w] = "commitRetained" => retained' = retained \cup {Report(w)}
      /\ \A v \in Workers \ {w} : at'[v] = at[v]
    BY DEF Deliver, DeliveryFails, Publish, Go, TypeOK
<1>5. at'[w] = "commit" => Answered(r)'
  <2>1. at'[w] = "commit" => Report(w) \in delivered'
      BY <1>4
  <2> QED BY <1>3, <2>1 DEF Answered, Reported
<1>6. Event(w)' = Event(w)
    BY <1>1 DEF Event
<1>7. PlaceInv(w)'
  <2>1. record'[w] = r
      BY <1>1, <1>r
  <2>2. at'[w] = "commitRetained" => \E d \in retained' : d.record = r
      BY <1>3, <1>4
  <2> QED BY <1>1, <1>2, <1>4, <1>5, <1>6, <2>1, <2>2 DEF PlaceInv, Answered, Reported
<1>8. PinInv(w)' /\ MoveInv(w)'
    BY <1>1, <1>2, <1>4, <1>r DEF PinInv, MoveInv, KeptAt
<1>9. WorkerInv(w)' /\ committed <= committed'
    BY <1>1, <1>7, <1>8, PipelineAssumption DEF WorkerInv, TypeOK
<1> QED BY <1>1, <1>4, <1>9, OwnStep

\* The commit of the owner's record, or a refused one.
LEMMA CommitKept ==
    ASSUME TypeOK, TypeOK', Kept, NothingSilentlyDropped, NEW w \in Workers, Commit(w)
    PROVE  Kept' /\ Grows /\ NothingSilentlyDropped'
<1> USE DEF local, outside
<1>1. CASE ~pinned[w]
  <2>1. Down(w) /\ UNCHANGED outside
      BY <1>1 DEF Commit
  <2> QED BY <2>1, DownKept, DroppedKeeps
<1>2. CASE pinned[w]
  <2>r. PICK r : r = record[w]
      OBVIOUS
  <2>1. /\ UNCHANGED <<uploaded, store, delivered, retained, faults, owner>>
        /\ at[w] \in {"commit", "commitRetained"} /\ committed' = r + 1
        /\ \/ at[w] = "commit" /\ moved[w] /\ Go(w, "delete") /\ UNCHANGED <<pinned, local>>
           \/ Go(w, "idle") /\ Forget(w)
      BY <1>2, <2>r DEF Commit
  <2>2. r \in Records /\ owner = w /\ r = committed /\ PlaceInv(w) /\ MoveInv(w)
      BY <1>2, <2>1, <2>r DEF Kept, WorkerInv, PlaceInv, PinInv
  <2>3. committed <= committed' /\ r < committed'
      BY <2>1, <2>2, Shapes
  <2>4. \A v \in Workers \ {w} : at'[v] = at[v] /\ ~pinned[v]
      BY <1>2, <2>1, OnePinned DEF Go, TypeOK
  <2>5. WorkerInv(w)' /\ \A v \in Workers \ {w} :
             /\ record'[v] = record[v] /\ result'[v] = result[v]
             /\ moved'[v] = moved[v] /\ pinned'[v] = pinned[v]
    <3>1. CASE Go(w, "idle") /\ Forget(w)
      <4>1. at'[w] = "idle"
          BY <3>1 DEF Go, TypeOK
      <4> QED BY <3>1, <4>1, Dropped
    <3>2. CASE at[w] = "commit" /\ moved[w] /\ Go(w, "delete") /\ UNCHANGED <<pinned, local>>
      <4>1. at'[w] = "delete" /\ record'[w] = r /\ moved'[w]
          BY <2>r, <3>2 DEF Go, TypeOK
      <4>2. Accepted(Event(w)) /\ Answered(r) /\ KeptAt(r)
          BY <2>2, <2>r, <3>2 DEF PlaceInv, MoveInv
      <4>3. Answered(r)' /\ KeptAt(r)' /\ Event(w)' = Event(w)
          BY <2>1, <3>2, <4>2 DEF Answered, Reported, KeptAt, Event
      <4>4. PlaceInv(w)'
          BY <2>2, <2>3, <4>1, <4>2, <4>3 DEF PlaceInv, Answered, Reported
      <4>5. PinInv(w)' /\ MoveInv(w)'
          BY <2>1, <2>2, <4>1, <4>3 DEF PinInv, MoveInv, KeptAt
      <4> QED BY <3>2, <4>4, <4>5 DEF WorkerInv
    <3> QED BY <2>1, <3>1, <3>2
  <2>6. Kept' /\ Grows
      BY <2>1, <2>3, <2>4, <2>5, OwnStep
  <2>7. ASSUME NEW q \in Records, q < committed', Accepted(Log[q]), Log[q].callback # "none"
        PROVE  \E d \in delivered' \cup retained' : d.record = q
    <3>1. CASE q = r
      <4>1. Event(w) = Log[r]
          BY <2>r DEF Event
      <4>2. Answered(r) \/ \E d \in retained : d.record = r
          BY <2>1, <2>2, <2>7, <2>r, <3>1, <4>1 DEF PlaceInv
      <4> QED BY <2>1, <2>7, <3>1, <4>2 DEF Answered, Reported
    <3>2. CASE q # r
      <4>1. q < committed
          BY <2>1, <2>2, <2>7, <3>2, Shapes
      <4> QED BY <2>1, <2>7, <4>1 DEF NothingSilentlyDropped
    <3> QED BY <3>1, <3>2
  <2> QED BY <2>6, <2>7 DEF NothingSilentlyDropped
<1> QED BY <1>1, <1>2

\* The source goes, its record done with and its upload at the destination.
LEMMA DeleteKept ==
    ASSUME TypeOK, TypeOK', Kept, NEW w \in Workers, Delete(w)
    PROVE  Kept' /\ Grows
<1> USE DEF group
<1>r. PICK r : r = record[w]
    OBVIOUS
<1>1. /\ UNCHANGED <<uploaded, delivered, retained, committed, owner>>
      /\ at[w] = "delete" /\ Go(w, "idle") /\ Forget(w)
      /\ store' = [store EXCEPT ![Source(r)] = None]
    BY <1>r DEF Delete
<1>2. r \in Records /\ r < committed /\ Answered(r) /\ KeptAt(r)
    BY <1>1, <1>r DEF Kept, WorkerInv, PlaceInv, MoveInv
<1>3. Source(r) \in Sources /\ store'[Source(r)] = None
      /\ \A l \in Locations \ {Source(r)} : store'[l] = store[l]
    BY <1>1, <1>2, Shapes DEF TypeOK
<1>4. ASSUME NEW q \in Records, NEW t \in Targets(q) \ Sources PROVE store'[t] = store[t]
    BY <1>3, Shapes
<1>5. committed <= committed'
    BY <1>1, PipelineAssumption DEF TypeOK
<1>6. Grows
    BY <1>1, <1>4, <1>5 DEF Grows
<1>7. at'[w] = "idle" /\ \A v \in Workers \ {w} : at'[v] = at[v]
    BY <1>1 DEF Go, TypeOK
<1>8. \A v \in Workers : WorkerInv(v)'
  <2>1. WorkerInv(w)'
      BY <1>1, <1>7, Dropped
  <2>2. ASSUME NEW v \in Workers \ {w} PROVE WorkerInv(v)'
    <3>1. /\ record'[v] = record[v] /\ result'[v] = result[v]
          /\ moved'[v] = moved[v] /\ pinned'[v] = pinned[v]
        BY <1>1, <1>7, Dropped
    <3>2. WorkerInv(v)
        BY DEF Kept
    <3> QED BY <1>1, <1>6, <1>7, <3>1, <3>2, OtherKeeps
  <2> QED BY <2>1, <2>2
<1>9. StoreInv'
  <2>1. \A l \in Sources : store'[l] \in {None, l} /\ (store'[l] = l => l \in uploaded')
      BY <1>1, <1>3, Shapes DEF Kept, StoreInv
  <2>2. ASSUME NEW l \in uploaded, store'[l] # l
        PROVE  \E q \in Records : Source(q) = l /\ q < committed' /\ Answered(q)' /\ KeptAt(q)'
    <3>1. CASE l = Source(r)
      <4>1. r < committed' /\ Answered(r)' /\ KeptAt(r)'
          BY <1>1, <1>2, <1>6, AnsweredStays, KeptStays
      <4> QED BY <1>2, <3>1, <4>1
    <3>2. CASE l # Source(r)
      <4>1. store[l] # l
          BY <1>3, <2>2, <3>2, Shapes DEF TypeOK
      <4>2. PICK q \in Records : Source(q) = l /\ q < committed /\ Answered(q) /\ KeptAt(q)
          BY <4>1 DEF Kept, StoreInv
      <4> QED BY <1>1, <1>6, <4>2, AnsweredStays, KeptStays
    <3> QED BY <3>1, <3>2
  <2> QED BY <1>1, <2>1, <2>2 DEF StoreInv
<1> QED BY <1>6, <1>8, <1>9 DEF Kept

\* A deletion that fails, a task that stops, one that is replaced.
LEMMA EndKept ==
    ASSUME TypeOK, TypeOK', Kept, NEW w \in Workers, DeleteFails(w) \/ Stops(w) \/ Restart(w)
    PROVE  Kept' /\ Grows /\ UNCHANGED committed
<1> USE DEF outside, local
<1>1. UNCHANGED <<uploaded, store, delivered, retained, committed>>
    BY DEF DeleteFails, Stops, Restart
<1>2. committed <= committed'
    BY <1>1, PipelineAssumption DEF TypeOK
<1>3. CASE Stops(w)
    BY <1>1, <1>3, DownKept DEF Stops
<1>4. CASE DeleteFails(w)
  <2>1. UNCHANGED owner /\ Forget(w) /\ at'[w] = "idle" /\ \A v \in Workers \ {w} : at'[v] = at[v]
      BY <1>4 DEF DeleteFails, Go, TypeOK
  <2>2. WorkerInv(w)' /\ \A v \in Workers \ {w} :
             /\ record'[v] = record[v] /\ result'[v] = result[v]
             /\ moved'[v] = moved[v] /\ pinned'[v] = pinned[v]
      BY <2>1, Dropped
  <2> QED BY <1>1, <1>2, <2>1, <2>2, OwnStep
<1>5. CASE Restart(w)
  <2>1. /\ UNCHANGED <<owner, pinned, record, result, moved>>
        /\ at[w] = "down" /\ at'[w] = "idle" /\ \A v \in Workers \ {w} : at'[v] = at[v]
      BY <1>5 DEF Restart, Go, TypeOK
  <2>2. WorkerInv(w)'
      BY <2>1 DEF Kept, WorkerInv, PlaceInv, PinInv, MoveInv, Handling
  <2> QED BY <1>1, <1>2, <2>1, <2>2, OwnStep
<1> QED BY <1>1, <1>3, <1>4, <1>5

-----------------------------------------------------------------------------
(* The group and the uploads *)

LEMMA BeginKept ==
    ASSUME TypeOK, TypeOK', Kept, NEW w \in Workers, Begin(w)
    PROVE  Kept' /\ Grows /\ UNCHANGED committed
<1> USE DEF outside
<1>1. /\ UNCHANGED <<uploaded, store, delivered, retained, committed, owner, moved>>
      /\ committed \in Records /\ owner = w /\ at[w] = "idle"
      /\ record' = [record EXCEPT ![w] = committed] /\ pinned' = [pinned EXCEPT ![w] = TRUE]
    BY DEF Begin
<1>2. record'[w] = committed /\ \A v \in Workers \ {w} :
          record'[v] = record[v] /\ pinned'[v] = pinned[v] /\ moved'[v] = moved[v]
    BY <1>1 DEF TypeOK
<1>3. \A v \in Workers \ {w} : at'[v] = at[v] /\ result'[v] = result[v]
    BY DEF Begin, Go, TypeOK
<1>4. Event(w)' = Log[committed]
    BY <1>2 DEF Event
<1>5. ~moved'[w]
    BY <1>1 DEF Kept, WorkerInv, PlaceInv
<1>6. \/ Accepted(Log[committed]) /\ at'[w] = "head"
      \/ ~Accepted(Log[committed]) /\ at'[w] = "commit" /\ result'[w] = "discarded"
    BY DEF Begin, Go, TypeOK
<1>7. PlaceInv(w)'
    BY <1>1, <1>2, <1>4, <1>5, <1>6 DEF PlaceInv, Handling
<1>8. PinInv(w)' /\ MoveInv(w)'
    BY <1>1, <1>2, <1>5, <1>6 DEF PinInv, MoveInv
<1>9. WorkerInv(w)' /\ committed <= committed'
    BY <1>1, <1>7, <1>8, PipelineAssumption DEF WorkerInv, TypeOK
<1> QED BY <1>1, <1>2, <1>3, <1>9, OwnStep

\* An assignment leaves nothing pinned.
LEMMA JoinKept ==
    ASSUME TypeOK, TypeOK', Kept, NEW w \in Workers, Join(w)
    PROVE  Kept' /\ Grows /\ UNCHANGED committed
<1> USE DEF outside, local
<1>1. UNCHANGED <<uploaded, store, delivered, retained, committed, at, record, result, moved>>
    BY DEF Join
<1>2. Grows
  <2>1. committed <= committed'
      BY <1>1, PipelineAssumption DEF TypeOK
  <2> QED BY <1>1, <2>1 DEF Grows
<1>3. \A v \in Workers : ~pinned'[v]
    BY DEF Join
<1>4. \A v \in Workers : WorkerInv(v)'
    BY <1>1, <1>2, <1>3, OtherKeeps DEF Kept
<1> QED BY <1>1, <1>2, <1>4, StoreKeeps DEF Kept

\* An object that appears where there was none.
LEMMA UploadKept ==
    ASSUME TypeOK, TypeOK', Kept, NEW l \in Sources, Upload(l)
    PROVE  Kept' /\ Grows /\ UNCHANGED committed
<1> USE DEF group, local
<1>1. /\ uploaded' = uploaded \cup {l} /\ store' = [store EXCEPT ![l] = l]
      /\ UNCHANGED <<delivered, retained, committed, owner, at, pinned, record, result, moved>>
    BY DEF Upload
<1>2. store'[l] = l /\ \A t \in Locations \ {l} : store'[t] = store[t]
    BY <1>1, Shapes DEF TypeOK
<1>3. ASSUME NEW q \in Records, NEW t \in Targets(q) \ Sources PROVE store'[t] = store[t]
    BY <1>2, Shapes
<1>4. committed <= committed'
    BY <1>1, PipelineAssumption DEF TypeOK
<1>5. Grows
    BY <1>1, <1>3, <1>4 DEF Grows
<1>6. \A v \in Workers : WorkerInv(v)'
    BY <1>1, <1>5, OtherKeeps DEF Kept
<1>7. StoreInv'
  <2>1. \A t \in Sources : store'[t] \in {None, t} /\ (store'[t] = t => t \in uploaded')
      BY <1>1, <1>2, Shapes DEF Kept, StoreInv
  <2>2. ASSUME NEW t \in uploaded', store'[t] # t
        PROVE  \E q \in Records : Source(q) = t /\ q < committed' /\ Answered(q)' /\ KeptAt(q)'
    <3>1. t # l /\ t \in uploaded /\ t \in Locations
        BY <1>1, <1>2, <2>2, Shapes DEF TypeOK
    <3>2. store[t] # t
        BY <1>2, <2>2, <3>1
    <3>3. PICK q \in Records : Source(q) = t /\ q < committed /\ Answered(q) /\ KeptAt(q)
        BY <3>1, <3>2 DEF Kept, StoreInv
    <3> QED BY <1>1, <1>5, <3>3, AnsweredStays, KeptStays
  <2> QED BY <2>1, <2>2 DEF StoreInv
<1> QED BY <1>1, <1>5, <1>6, <1>7 DEF Kept

-----------------------------------------------------------------------------
(* Reports *)

\* How a handler comes to its callback: it was there, nothing is to be moved,
\* or by the copy.
LEMMA ToCallback ==
    ASSUME TypeOK, [Next]_vars, NEW v \in Workers, at'[v] = "callback"
    PROVE  /\ record'[v] = record[v]
           /\ \/ at[v] = "callback" /\ result'[v] = result[v]
              \/ ~Moves(v, result'[v])
              \/ Copy(v) /\ Present(v) /\ result'[v] = result[v]
<1> USE DEF local, outside, group
<1>1. ASSUME NEW w \in Workers, w # v,
             Handle(w) \/ Join(w) \/ DeliveryFails(w) \/ DeleteFails(w) \/ Stops(w) \/ Restart(w)
      PROVE  at'[v] = at[v] /\ record'[v] = record[v] /\ result'[v] = result[v]
  <2>1. CASE Join(w)
      BY <2>1 DEF Join
  <2>2. CASE Begin(w)
      BY <1>1, <2>2 DEF Begin, Go, TypeOK
  <2>3. CASE GetMetadata(w) \/ OpenReadStream(w) \/ Scan(w)
      BY <1>1, <2>3 DEF GetMetadata, OpenReadStream, Scan, Missing, Conclude, Go, TypeOK
  <2>4. CASE Copy(w)
      BY <1>1, <2>4 DEF Copy, Down, Forget, Go, TypeOK
  <2>5. CASE Deliver(w) \/ Publish(w) \/ DeliveryFails(w)
      BY <1>1, <2>5 DEF Deliver, Publish, DeliveryFails, Go, TypeOK
  <2>6. CASE Commit(w)
      BY <1>1, <2>6 DEF Commit, Down, Forget, Go, TypeOK
  <2>7. CASE Delete(w) \/ DeleteFails(w) \/ Stops(w) \/ Restart(w)
      BY <1>1, <2>7 DEF Delete, DeleteFails, Stops, Restart, Down, Forget, Go, TypeOK
  <2> QED BY <1>1, <2>1, <2>2, <2>3, <2>4, <2>5, <2>6, <2>7 DEF Handle
<1>2. CASE GetMetadata(v) \/ OpenReadStream(v) \/ Scan(v)
  <2>1. record' = record
      BY <1>2 DEF GetMetadata, OpenReadStream, Scan, Missing
  <2>2. PICK res \in Results : Conclude(v, res)
      BY <1>2 DEF GetMetadata, OpenReadStream, Scan, Missing, Go, TypeOK, Results
  <2>3. result'[v] = res /\ ~Moves(v, res)
      BY <2>2 DEF Conclude, Go, TypeOK
  <2> QED BY <2>1, <2>3
<1>3. CASE Copy(v)
  <2>1. Present(v) /\ UNCHANGED <<record, result>>
      BY <1>3 DEF Copy, Down, Go, TypeOK
  <2> QED BY <1>3, <2>1
<1>4. CASE DeliveryFails(v)
    BY <1>4 DEF DeliveryFails, Go, TypeOK
<1>5. CASE Begin(v) \/ Deliver(v) \/ Publish(v) \/ Delete(v) \/ DeleteFails(v) \/ Stops(v) \/ Restart(v)
    BY <1>5 DEF Begin, Deliver, Publish, Delete, DeleteFails, Stops, Restart, Down, Go, TypeOK
<1>6. CASE Commit(v)
    BY <1>6 DEF Commit, Down, Go, TypeOK
<1>7. CASE Join(v) \/ (\E l \in Sources : Upload(l)) \/ Finished \/ UNCHANGED vars
    BY <1>7 DEF Join, Upload, Finished, vars
<1> QED BY <1>1, <1>2, <1>3, <1>4, <1>5, <1>6, <1>7 DEF Next, Handle

\* A new callback is one that a handler at its callback makes.
LEMMA NewReport ==
    ASSUME [Next]_vars, NEW d \in delivered', d \notin delivered
    PROVE  \E w \in Workers : at[w] = "callback" /\ d = Report(w) /\ UNCHANGED store
<1> USE DEF local, outside, group
<1>1. ASSUME NEW w \in Workers, Deliver(w) \/ DeliveryFails(w)
      PROVE  at[w] = "callback" /\ d = Report(w) /\ UNCHANGED store
    BY <1>1 DEF Deliver, DeliveryFails
<1>2. ASSUME NEW w \in Workers,
             \/ Begin(w) \/ GetMetadata(w) \/ OpenReadStream(w) \/ Scan(w) \/ Copy(w) \/ Publish(w)
             \/ Commit(w) \/ Delete(w) \/ Join(w) \/ DeleteFails(w) \/ Stops(w) \/ Restart(w)
      PROVE  UNCHANGED delivered
    BY <1>2 DEF Begin, GetMetadata, OpenReadStream, Scan, Copy, Publish, Commit, Delete, Join,
                DeleteFails, Stops, Restart
<1>3. CASE (\E l \in Sources : Upload(l)) \/ Finished \/ UNCHANGED vars
    BY <1>3 DEF Upload, Finished, vars
<1> QED BY <1>1, <1>2, <1>3 DEF Next, Handle

LEMMA ReportStep ==
    ASSUME TypeOK, TypeOK', Kept, Kept', ReportInv, Grows, [Next]_vars
    PROVE  ReportInv'
<1>1. ASSUME NEW d \in delivered', Log[d.record].move, d.result # "missing"
      PROVE  \E t \in Targets(d.record) :
                 /\ d.url = BuildS3Url(t[1], t[2])
                 /\ t \in Sources \/ store'[t] = Source(d.record)
  <2>1. CASE d \in delivered
    <3>1. d.record \in Records
        BY <2>1 DEF TypeOK, Reports
    <3>2. PICK t \in Targets(d.record) :
              /\ d.url = BuildS3Url(t[1], t[2])
              /\ t \in Sources \/ store[t] = Source(d.record)
        BY <1>1, <2>1 DEF ReportInv
    <3> QED BY <3>1, <3>2 DEF Grows
  <2>2. CASE d \notin delivered
    <3>1. PICK w \in Workers : at[w] = "callback" /\ d = Report(w) /\ UNCHANGED store
        BY <1>1, <2>2, NewReport
    <3>2. record[w] \in Records /\ result[w] \in Results
        BY <3>1 DEF Kept, WorkerInv, PlaceInv
    <3>3. d.record = record[w] /\ d.result = result[w]
        BY <3>1 DEF Report
    <3>4. Event(w).move
        BY <1>1, <3>3 DEF Event
    <3>5. d.url = BuildS3Url(Destination(w, result[w])[1], Event(w).fileName)
        BY <1>1, <3>1, <3>3, <3>4 DEF Report
    <3>6. PICK t : t = Destination(w, result[w])
        OBVIOUS
    <3>7. t \in Targets(record[w]) /\ t[2] = Event(w).fileName
        BY <3>2, <3>4, <3>6, DestinationIsTarget DEF Destination
    <3>8. d.url = BuildS3Url(t[1], t[2])
        BY <3>5, <3>6, <3>7
    <3>9. t \in Sources \/ store[t] = Source(record[w])
        BY <1>1, <3>1, <3>3, <3>4, <3>6 DEF ReportInv
    <3> QED BY <3>1, <3>3, <3>7, <3>8, <3>9
  <2> QED BY <2>1, <2>2
<1>2. ASSUME NEW v \in Workers, NEW r, NEW res, NEW t,
             at'[v] = "callback", r = record'[v], res = result'[v], Log[r].move, res # "missing",
             t = Destination(v, res)
      PROVE  t \in Sources \/ store'[t] = Source(r)
  <2>1. r = record[v] /\ r \in Records
      BY <1>2, ToCallback DEF Kept, WorkerInv, PlaceInv
  <2>2. t \in Targets(r) /\ Event(v).move
      BY <1>2, <2>1, DestinationIsTarget DEF Event
  <2>3. CASE at[v] = "callback" /\ result'[v] = result[v]
    <3>1. t \in Sources \/ store[t] = Source(r)
        BY <1>2, <2>1, <2>2, <2>3 DEF ReportInv
    <3> QED BY <2>1, <2>2, <3>1 DEF Grows
  <2>4. CASE ~Moves(v, result'[v])
    <3>1. t = Source(r)
        BY <1>2, <2>1, <2>2, <2>4 DEF Moves
    <3> QED BY <2>1, <3>1, Shapes
  <2>5. CASE Copy(v) /\ Present(v) /\ result'[v] = result[v]
    <3>1. store' = [store EXCEPT ![t] = store[Source(r)]]
        BY <1>2, <2>1, <2>5 DEF Copy, Down, Go, TypeOK
    <3>2. store[Source(r)] = Source(r)
        BY <2>1, <2>5, Shapes DEF Present, Kept, StoreInv
    <3> QED BY <2>1, <2>2, <3>1, <3>2, Shapes DEF TypeOK
  <2> QED BY <1>2, <2>3, <2>4, <2>5, ToCallback
<1>3. ASSUME NEW v \in Workers, at'[v] = "callback", Event(v).move', result'[v] # "missing"
      PROVE  \/ Destination(v, result[v])' \in Sources
             \/ store'[Destination(v, result[v])'] = Source(record'[v])
  <2>1. record'[v] = record[v]
      BY <1>3, ToCallback
  <2>2. Destination(v, result[v])' = Destination(v, result'[v])
      BY <2>1 DEF Destination, Event
  <2>3. Log[record'[v]].move
      BY <1>3 DEF Event
  <2> QED BY <1>2, <1>3, <2>2, <2>3
<1> QED BY <1>1, <1>3 DEF ReportInv

-----------------------------------------------------------------------------
(* The invariant holds *)

LEMMA NextIInv == IInv /\ [Next]_vars => IInv'
<1> SUFFICES ASSUME IInv, [Next]_vars PROVE IInv'
    OBVIOUS
<1>1. TypeOK /\ Kept /\ NothingSilentlyDropped /\ ReportInv /\ TypeOK'
    BY NextTypes DEF IInv
<1>2. Kept' /\ NothingSilentlyDropped' /\ Grows
  <2>1. ASSUME NEW l \in Sources, Upload(l) PROVE Kept' /\ NothingSilentlyDropped' /\ Grows
      BY <1>1, <2>1, UploadKept, DroppedKeeps
  <2>2. ASSUME NEW w \in Workers, Begin(w) PROVE Kept' /\ NothingSilentlyDropped' /\ Grows
      BY <1>1, <2>2, BeginKept, DroppedKeeps
  <2>3. ASSUME NEW w \in Workers, GetMetadata(w) \/ OpenReadStream(w) \/ Scan(w)
        PROVE  Kept' /\ NothingSilentlyDropped' /\ Grows
    <3>1. UNCHANGED committed
        BY <2>3 DEF GetMetadata, OpenReadStream, Scan, outside
    <3> QED BY <1>1, <2>3, <3>1, SourceKept, DroppedKeeps
  <2>4. ASSUME NEW w \in Workers, Copy(w) PROVE Kept' /\ NothingSilentlyDropped' /\ Grows
    <3>1. UNCHANGED committed
        BY <2>4 DEF Copy
    <3> QED BY <1>1, <2>4, <3>1, CopyKept, DroppedKeeps
  <2>5. ASSUME NEW w \in Workers, Deliver(w) \/ DeliveryFails(w) \/ Publish(w)
        PROVE  Kept' /\ NothingSilentlyDropped' /\ Grows
      BY <1>1, <2>5, CallbackKept, DroppedKeeps
  <2>6. ASSUME NEW w \in Workers, Commit(w) PROVE Kept' /\ NothingSilentlyDropped' /\ Grows
      BY <1>1, <2>6, CommitKept
  <2>7. ASSUME NEW w \in Workers, Delete(w) PROVE Kept' /\ NothingSilentlyDropped' /\ Grows
    <3>1. UNCHANGED committed
        BY <2>7 DEF Delete, group
    <3> QED BY <1>1, <2>7, <3>1, DeleteKept, DroppedKeeps
  <2>8. ASSUME NEW w \in Workers, DeleteFails(w) \/ Stops(w) \/ Restart(w)
        PROVE  Kept' /\ NothingSilentlyDropped' /\ Grows
      BY <1>1, <2>8, EndKept, DroppedKeeps
  <2>9. ASSUME NEW w \in Workers, Join(w) PROVE Kept' /\ NothingSilentlyDropped' /\ Grows
      BY <1>1, <2>9, JoinKept, DroppedKeeps
  <2>10. CASE Finished \/ UNCHANGED vars
    <3>1. UNCHANGED vars
        BY <2>10 DEF Finished
    <3>2. Grows
        BY <1>1, <3>1, PipelineAssumption DEF Grows, vars, TypeOK
    <3>3. \A v \in Workers : WorkerInv(v)'
        BY <1>1, <3>1, <3>2, OtherKeeps DEF Kept, vars
    <3> QED BY <1>1, <3>1, <3>2, <3>3, StoreKeeps, DroppedKeeps DEF Kept, vars
  <2> QED BY <2>1, <2>2, <2>3, <2>4, <2>5, <2>6, <2>7, <2>8, <2>9, <2>10 DEF Next, Handle
<1> QED BY <1>1, <1>2, ReportStep DEF IInv

-----------------------------------------------------------------------------
(* Theorems *)

\* Each variable keeps its type: no handler runs past its attempts, and none
\* reports a record, a result or a URL that is not one.
THEOREM TypeCorrect == Spec => []TypeOK
<1>1. IInv => TypeOK
    BY DEF IInv
<1> QED BY <1>1, InitIInv, NextIInv, PTL DEF Spec

\* Whatever fails and however tasks overlap, a valid record behind the
\* committed offset was delivered to its callback or is in the dead-letter
\* topic.
THEOREM NeverDropped == Spec => []NothingSilentlyDropped
<1>1. IInv => NothingSilentlyDropped
    BY DEF IInv
<1> QED BY <1>1, InitIInv, NextIInv, PTL DEF Spec

\* An uploaded object is gone from its source only if a record of it was
\* committed after its callback was accepted, and is then at a destination of
\* that record.
THEOREM SourceKeptUntilDone == Spec => []SourceOutlivesRetries
<1>1. IInv => SourceOutlivesRetries
  <2> SUFFICES ASSUME IInv, NEW l \in uploaded, store[l] # l
               PROVE  \E r \in Records :
                        /\ Source(r) = l /\ r < committed
                        /\ Log[r].callback # "none" => Reported(r) # {}
                        /\ \E d \in Targets(r) : store[d] = l
      BY DEF SourceOutlivesRetries
  <2>1. PICK r \in Records : Source(r) = l /\ r < committed /\ Answered(r) /\ KeptAt(r)
      BY DEF IInv, Kept, StoreInv
  <2>2. \E d \in Targets(r) : store[d] = l
      BY <2>1 DEF KeptAt
  <2> QED BY <2>1, <2>2 DEF Answered
<1> QED BY <1>1, InitIInv, NextIInv, PTL DEF Spec

LEMMA AcceptedIsComplete ==
    ASSUME NEW e, Accepted(e) PROVE Complete(e)
<1>1. MovementValid(e) /\ CallbackValid(e) /\ NamesObject(e.url)
    BY DEF Accepted, IsS3Url
<1>2. e.move => {e.clean, e.quarantine} \cap {None} = {}
    BY <1>1 DEF MovementValid
<1>3. e.callback = "webhook" => e.hook # None /\ (e.hook.auth # "no-auth" => e.hook.secret # None)
    BY <1>1 DEF CallbackValid, HookValid
<1>4. e.callback = "kafka" => e.topic # None
    BY <1>1 DEF CallbackValid
<1> QED BY <1>1, <1>2, <1>3, <1>4 DEF Complete

\* A request in handling, and any message the validation accepts, has all that
\* its later steps need: a destination for either verdict and the address and
\* credentials of its callback.
THEOREM RequestsComplete == Spec => []AcceptedRequestsAreComplete
<1>1. IInv => AcceptedRequestsAreComplete
  <2> SUFFICES ASSUME IInv PROVE AcceptedRequestsAreComplete
      OBVIOUS
  <2>1. ASSUME NEW w \in Workers, record[w] # None, result[w] # "discarded"
        PROVE  Complete(Event(w))
    <3>1. at[w] \in Places /\ PlaceInv(w)
        BY DEF IInv, TypeOK, Kept, WorkerInv
    <3>2. Accepted(Event(w))
        BY <2>1, <3>1 DEF PlaceInv, Handling
    <3> QED BY <3>2, AcceptedIsComplete
  <2>2. \A e \in AcceptedMessages : Complete(e)
      BY AcceptedIsComplete DEF AcceptedMessages
  <2> QED BY <2>1, <2>2 DEF AcceptedRequestsAreComplete
<1> QED BY <1>1, InitIInv, NextIInv, PTL DEF Spec

\* A callback about an object moved out of its place names a location that
\* holds that very upload, and goes on doing so: neither a retry, nor a replay,
\* nor the cleanup of another record takes it from there.  A URL with dot
\* segments is left out: parseS3Url resolves it to another location.
THEOREM ReportsResolve == Spec => []ReportedUrlResolves
<1>1. ASSUME IInv, NEW d \in delivered, Log[d.record].move, d.result # "missing",
             Undotted(d.url.path), Location(d.url) \notin Sources
      PROVE  store[Location(d.url)] = Source(d.record)
  <2>1. d.record \in Records
      BY <1>1 DEF IInv, TypeOK, Reports
  <2>2. PICK t \in Targets(d.record) : /\ d.url = BuildS3Url(t[1], t[2])
                                       /\ t \in Sources \/ store[t] = Source(d.record)
      BY <1>1 DEF IInv, ReportInv
  <2>3. Location(d.url) = t
      BY <1>1, <2>1, <2>2, UrlNames
  <2> QED BY <1>1, <2>2, <2>3
<1>2. IInv => ReportedUrlResolves
    BY <1>1 DEF ReportedUrlResolves
<1> QED BY <1>2, InitIInv, NextIInv, PTL DEF Spec

-----------------------------------------------------------------------------
(* The lease                                                               *)

\* The record in hand is the owner's, and the next one.
LEMMA WorkIsNext ==
    IInv => /\ Work \subseteq {<<owner, committed>>}
            /\ Work # {} => owner \in Workers
BY DEF IInv, Kept, WorkerInv, PinInv, Work

LEMMA NextWork ==
    IInv' => /\ Work' \subseteq {<<owner', committed'>>}
             /\ Work' # {} => owner' \in Workers
<1> DEFINE Held == Work \subseteq {<<owner, committed>>} /\ (Work # {} => owner \in Workers)
<1>1. IInv => Held
    BY WorkIsNext
<1>2. IInv' => Held'
    BY <1>1, PTL
<1> QED BY <1>2

\* A pinned commit is the work in hand, and leaves none.
LEMMA CommitLeaves ==
    ASSUME IInv, NEW w \in Workers, Commit(w), pinned[w]
    PROVE  Lease!Commit
<1> USE DEF IInv
<1>1. /\ at[w] # "delete" /\ owner = w /\ record[w] = committed
      /\ committed' = record[w] + 1 /\ owner' = owner
    BY DEF Commit, Kept, WorkerInv, PinInv
<1>2. Work = {<<owner, committed>>}
  <2>1. <<w, record[w]>> \in Work
      BY <1>1 DEF Work
  <2> QED BY <1>1, <2>1, WorkIsNext
<1>3. ~pinned'[w] \/ at'[w] = "delete"
    BY DEF Commit, Go, Forget, TypeOK
<1>4. \A v \in Workers \ {w} : ~pinned'[v]
  <2>1. \A v \in Workers \ {w} : pinned'[v] = pinned[v]
      BY DEF Commit, Forget, local, TypeOK
  <2> QED BY <2>1, OnePinned
<1>5. Work' = {}
    BY <1>3, <1>4 DEF Work
<1> QED BY <1>1, <1>2, <1>5 DEF Lease!Commit

LEMMA LeaseNext ==
    ASSUME IInv, IInv', [Next]_vars
    PROVE  [Lease!Next]_(Lease!vars)
<1>1. CASE \E w \in Workers : Join(w)
  <2>1. PICK w \in Workers : Join(w)
      BY <1>1
  <2>2. Lease!Assign(w)
      BY <2>1 DEF Join, Lease!Assign, Work, outside
  <2> QED BY <2>2 DEF Lease!Next
<1>2. CASE \E w \in Workers : Commit(w) /\ pinned[w]
    BY <1>2, CommitLeaves DEF Lease!Next
<1>3. CASE ~(\E w \in Workers : Join(w)) /\ ~(\E w \in Workers : Commit(w) /\ pinned[w])
  <2>1. committed' = committed /\ owner' \in {owner, None}
    <3>1. CASE \E l \in Sources : Upload(l)
        BY <3>1 DEF Upload, group
    <3>2. CASE Finished \/ UNCHANGED vars
        BY <3>2 DEF Finished, vars
    <3>3. ASSUME NEW w \in Workers, Begin(w) \/ Delete(w) \/ DeleteFails(w) \/ Stops(w) \/ Restart(w)
          PROVE  committed' = committed /\ owner' \in {owner, None}
        BY <3>3 DEF Begin, Delete, DeleteFails, Stops, Restart, Down, outside, group
    <3>4. ASSUME NEW w \in Workers, GetMetadata(w) \/ OpenReadStream(w) \/ Scan(w) \/ Copy(w)
          PROVE  committed' = committed /\ owner' \in {owner, None}
        BY <3>4 DEF GetMetadata, OpenReadStream, Scan, Copy, Missing, Down, outside
    <3>5. ASSUME NEW w \in Workers, Deliver(w) \/ DeliveryFails(w) \/ Publish(w) \/ Commit(w)
          PROVE  committed' = committed /\ owner' \in {owner, None}
        BY <1>3, <3>5 DEF Deliver, DeliveryFails, Publish, Commit, Down, group
    <3> QED BY <1>3, <3>1, <3>2, <3>3, <3>4, <3>5 DEF Next, Handle
  <2>2. CASE Work' = {}
    <3>1. CASE owner' = owner
        BY <2>1, <2>2, <3>1 DEF Lease!Next, Lease!Drop
    <3>2. CASE owner' = None
        BY <2>1, <2>2, <3>2 DEF Lease!Next, Lease!Assign
    <3> QED BY <2>1, <3>1, <3>2
  <2>3. CASE Work' # {}
    <3>1. owner' = owner /\ owner # None
        BY <2>1, <2>3, NextWork, PipelineAssumption
    <3>2. Work' = {<<owner, committed>>}
        BY <2>1, <2>3, <3>1, NextWork
    <3>3. CASE Work = {}
        BY <2>1, <3>1, <3>2, <3>3 DEF Lease!Next, Lease!Take
    <3>4. CASE Work # {}
      <4>1. Work = {<<owner, committed>>}
          BY <3>4, WorkIsNext
      <4> QED BY <2>1, <3>1, <3>2, <4>1 DEF Lease!vars
    <3> QED BY <3>3, <3>4
  <2> QED BY <2>2, <2>3
<1> QED BY <1>1, <1>2, <1>3

\* The tasks use the partition as a lease on its next record: whatever is
\* revoked or crashes between two awaits, the offset moves only past the
\* record that the current owner took, and only once.
THEOREM LeaseUsed == Spec => LeaseIsUsed
<1>1. Init => Lease!Init
    BY DEF Init, Lease!Init, Work
<1>2. IInv /\ IInv' /\ [Next]_vars => [Lease!Next]_(Lease!vars)
    BY LeaseNext
<1> QED BY <1>1, <1>2, InitIInv, NextIInv, PTL DEF Spec, LeaseIsUsed, Lease!Spec

-----------------------------------------------------------------------------
(* The backlog drains.  BacklogDrains needs fairness and stays with TLC;   *)
(* these are the facts it rests on: a partition is never left to a task    *)
(* that is gone, a handler comes to an end, and it ends without a commit   *)
(* only through a fault or through a source that is gone for good.         *)

OwnerInv == owner # None => at[owner] # "down"

\* The upload is gone from its source: a record of it was dealt with.
SourceGone(r) == Source(r) \in uploaded /\ store[Source(r)] = None

\* The handler has seen the source, and counts on it.
Reads(w) == at[w] \in {"open", "scan", "copy"}

SeenInv == \A w \in Workers : Reads(w) => Source(record[w]) \in uploaded

DrainInv == OwnerInv /\ SeenInv

\* What a step of one task leaves alone of the others.
TaskStep(w) ==
    Handle(w) \/ DeliveryFails(w) \/ DeleteFails(w) \/ Stops(w) \/ Restart(w)

LEMMA TaskStepIsLocal ==
    ASSUME TypeOK, NEW w \in Workers, TaskStep(w)
    PROVE  /\ uploaded' = uploaded
           /\ \A v \in Workers \ {w} : /\ at'[v] = at[v] /\ record'[v] = record[v]
                                       /\ pinned'[v] = pinned[v] /\ attempt'[v] = attempt[v]
           /\ at'[w] # "down" => owner' = owner
           /\ at'[w] = "down" => owner' # w /\ owner' \in {owner, None}
<1> USE DEF TypeOK, Go, Forget, Conclude
<1>1. CASE Begin(w) \/ Deliver(w) \/ Publish(w) \/ Delete(w)
    BY <1>1 DEF Begin, Deliver, Publish, Delete, outside, group, local
<1>2. CASE GetMetadata(w) \/ OpenReadStream(w) \/ Scan(w)
    BY <1>2 DEF GetMetadata, OpenReadStream, Scan, Missing, outside, local, AfterCopy
<1>3. ASSUME Down(w)
      PROVE  /\ at'[w] = "down" /\ owner' # w /\ owner' \in {owner, None}
             /\ \A v \in Workers \ {w} : /\ at'[v] = at[v] /\ record'[v] = record[v]
                                         /\ pinned'[v] = pinned[v] /\ attempt'[v] = attempt[v]
    BY <1>3, PipelineAssumption DEF Down
<1>4. CASE Copy(w)
    BY <1>3, <1>4 DEF Copy, AfterCopy
<1>5. CASE Commit(w)
    BY <1>3, <1>5 DEF Commit, local
<1>6. CASE Stops(w)
    BY <1>3, <1>6 DEF Stops, outside
<1>7. CASE DeliveryFails(w) \/ DeleteFails(w) \/ Restart(w)
    BY <1>7 DEF DeliveryFails, DeleteFails, Restart, outside, group, local
<1> QED BY <1>1, <1>2, <1>4, <1>5, <1>6, <1>7 DEF TaskStep, Handle

\* A handler sees its source only where it is, in its own step.
LEMMA SeesSource ==
    ASSUME IInv, NEW w \in Workers, TaskStep(w), Reads(w)'
    PROVE  /\ record'[w] = record[w] /\ record[w] \in Records
           /\ Reads(w) \/ (at[w] = "head" /\ Present(w))
<1> USE DEF IInv, TypeOK, Go, Reads
<1>1. CASE Begin(w) \/ Deliver(w) \/ Publish(w) \/ Delete(w)
    BY <1>1 DEF Begin, Deliver, Publish, Delete, local
<1>2. CASE GetMetadata(w) \/ OpenReadStream(w) \/ Scan(w)
  <2>1. record' = record /\ at[w] \in {"head", "open", "scan"}
      BY <1>2 DEF GetMetadata, OpenReadStream, Scan, Missing, local
  <2>2. record[w] \in Records
      BY <2>1 DEF Kept, WorkerInv, PlaceInv
  <2>3. at[w] = "head" => Present(w)
    <3>1. CASE ~Present(w) /\ at[w] = "head"
        BY <1>2, <3>1 DEF GetMetadata, OpenReadStream, Scan, Missing, Conclude, Moves, AfterCopy
    <3> QED BY <3>1
  <2> QED BY <2>1, <2>2, <2>3
<1>3. CASE Copy(w) \/ Commit(w) \/ Stops(w)
    BY <1>3 DEF Copy, Commit, Stops, Down, AfterCopy
<1>4. CASE DeliveryFails(w) \/ DeleteFails(w) \/ Restart(w)
    BY <1>4 DEF DeliveryFails, DeleteFails, Restart
<1> QED BY <1>1, <1>2, <1>3, <1>4 DEF TaskStep, Handle

LEMMA NextDrainInv == IInv /\ DrainInv /\ [Next]_vars => DrainInv'
<1> SUFFICES ASSUME IInv, DrainInv, [Next]_vars PROVE DrainInv'
    OBVIOUS
<1> USE DEF DrainInv
<1>1. ASSUME NEW w \in Workers, TaskStep(w) PROVE DrainInv'
  <2>1. OwnerInv'
    <3>1. owner \in Workers \cup {None} /\ w # None
        BY PipelineAssumption DEF IInv, TypeOK
    <3> QED BY <1>1, <3>1, TaskStepIsLocal DEF IInv, OwnerInv
  <2>2. ASSUME NEW v \in Workers, Reads(v)' PROVE Source(record'[v]) \in uploaded'
    <3>1. CASE v # w
        BY <1>1, <2>2, <3>1, TaskStepIsLocal DEF IInv, SeenInv, Reads
    <3>2. CASE v = w /\ Reads(w)
        BY <1>1, <2>2, <3>2, TaskStepIsLocal, SeesSource DEF IInv, SeenInv
    <3>3. CASE v = w /\ ~Reads(w)
      <4>1. Present(w) /\ record'[w] = record[w] /\ record[w] \in Records
          BY <1>1, <2>2, <3>3, SeesSource
      <4>2. Source(record[w]) \in uploaded
          BY <4>1, Shapes DEF Present, IInv, Kept, StoreInv
      <4> QED BY <1>1, <3>3, <4>1, <4>2, TaskStepIsLocal DEF IInv
    <3> QED BY <3>1, <3>2, <3>3
  <2> QED BY <2>1, <2>2 DEF SeenInv
<1>2. ASSUME NEW w \in Workers, Join(w) PROVE DrainInv'
    BY <1>2 DEF Join, OwnerInv, SeenInv, Reads, outside, local
<1>3. ASSUME NEW l \in Sources, Upload(l) PROVE DrainInv'
    BY <1>3 DEF Upload, OwnerInv, SeenInv, Reads, group, local
<1>4. CASE Finished \/ UNCHANGED vars
    BY <1>4 DEF Finished, vars, OwnerInv, SeenInv, Reads
<1> QED BY <1>1, <1>2, <1>3, <1>4 DEF Next, TaskStep

LEMMA DrainInvariance == Spec => [](IInv /\ DrainInv)
<1>1. Init => DrainInv
    BY DEF Init, DrainInv, OwnerInv, SeenInv, Reads
<1> QED BY <1>1, InitIInv, NextIInv, NextDrainInv, PTL DEF Spec

\* A partition is never left to a task that is gone: it has a live owner, or
\* none and can be assigned.
THEOREM OwnerIsAlive == Spec => [](owner = None \/ at[owner] # "down")
<1>1. DrainInv => owner = None \/ at[owner] # "down"
    BY DEF DrainInv, OwnerInv
<1> QED BY <1>1, DrainInvariance, PTL

\* The awaits a handler has before it.
Awaits(w) ==
    IF at[w] = "head" THEN 8 + 3 * (SourceAttempts - attempt[w])
    ELSE IF at[w] = "open" THEN 7 + 3 * (SourceAttempts - attempt[w])
    ELSE IF at[w] = "scan" THEN 6
    ELSE IF at[w] = "copy" THEN 5
    ELSE IF at[w] = "callback" THEN 4
    ELSE IF at[w] = "publish" THEN 3
    ELSE IF at[w] \in {"commit", "commitRetained"} THEN 2
    ELSE IF at[w] = "delete" THEN 1 ELSE 0

LEMMA HandlerGoesOn ==
    ASSUME IInv, TypeOK', NEW w \in Workers, at[w] # "idle"
    PROVE  /\ Handle(w) => Awaits(w)' < Awaits(w)
           /\ TaskStep(w) => Awaits(w)' <= Awaits(w)
<1>t. /\ at \in [Workers -> Places] /\ attempt \in [Workers -> 1 .. SourceAttempts]
      /\ attempt'[w] \in 1 .. SourceAttempts
    BY DEF IInv, TypeOK
<1>0. /\ attempt[w] \in 1 .. SourceAttempts /\ SourceAttempts \in Nat
      /\ at[w] = "head" => Awaits(w) >= 8
      /\ at[w] = "open" => Awaits(w) >= 7
  <2>1. attempt[w] \in Int /\ attempt[w] <= SourceAttempts /\ SourceAttempts \in Nat
      BY <1>t, PipelineAssumption
  <2>2. 3 * (SourceAttempts - attempt[w]) >= 0
      BY <2>1
  <2> QED BY <1>t, <2>1, <2>2 DEF Awaits
<1> USE <1>t DEF Go
<1>2. ASSUME Missing(w), at[w] \in {"head", "open"} PROVE Awaits(w)' < Awaits(w)
  <2>1. CASE attempt[w] < SourceAttempts
    <3>1. at'[w] = "head" /\ attempt'[w] = attempt[w] + 1
        BY <1>2, <2>1 DEF Missing
    <3> QED BY <1>0, <1>2, <2>1, <3>1 DEF Awaits
  <2>2. CASE ~(attempt[w] < SourceAttempts)
    <3>1. Awaits(w)' < 6 /\ Awaits(w)' \in Int
      <4>1. at'[w] \in {"copy", "callback", "commit"}
          BY <1>2, <2>2 DEF Missing, Conclude, AfterCopy
      <4> QED BY <4>1 DEF Awaits
    <3> QED BY <1>0, <1>2, <3>1 DEF Awaits
  <2> QED BY <2>1, <2>2
<1>3. ASSUME GetMetadata(w) \/ OpenReadStream(w) PROVE Awaits(w)' < Awaits(w)
  <2>1. at[w] \in {"head", "open"}
      BY <1>3 DEF GetMetadata, OpenReadStream
  <2>2. CASE Missing(w)
      BY <1>2, <2>1, <2>2
  <2>3. CASE at'[w] \in {"copy", "callback", "commit", "scan"}
      BY <1>0, <2>1, <2>3 DEF Awaits
  <2>4. CASE at[w] = "head" /\ at'[w] = "open" /\ attempt'[w] = attempt[w]
      BY <1>0, <2>4 DEF Awaits
  <2> QED BY <1>3, <2>2, <2>3, <2>4 DEF GetMetadata, OpenReadStream, Conclude, AfterCopy, local
<1>4. ASSUME Scan(w) PROVE Awaits(w)' < Awaits(w)
  <2>1. at[w] = "scan" /\ at'[w] \in {"copy", "callback", "commit"}
      BY <1>4 DEF Scan, Conclude, AfterCopy
  <2> QED BY <2>1 DEF Awaits
<1>5. ASSUME Copy(w) \/ Deliver(w) \/ Publish(w) \/ Commit(w) \/ Delete(w) PROVE Awaits(w)' < Awaits(w)
  <2>1. CASE Copy(w)
    <3>1. at[w] = "copy" /\ at'[w] \in {"callback", "commit", "down"}
        BY <2>1 DEF Copy, Down, AfterCopy
    <3> QED BY <3>1 DEF Awaits
  <2>2. CASE Deliver(w) \/ Publish(w)
      BY <2>2 DEF Deliver, Publish, Awaits
  <2>3. CASE Commit(w)
    <3>1. at[w] \in {"commit", "commitRetained"} /\ at'[w] \in {"delete", "idle", "down"}
        BY <2>3 DEF Commit, Down
    <3> QED BY <3>1 DEF Awaits
  <2>4. CASE Delete(w)
      BY <2>4 DEF Delete, Awaits
  <2> QED BY <1>5, <2>1, <2>2, <2>3, <2>4
<1>6. Awaits(w) \in Nat /\ Awaits(w)' \in Nat
  <2>1. attempt'[w] \in Int /\ attempt'[w] <= SourceAttempts
      BY <1>0
  <2>2. 3 * (SourceAttempts - attempt[w]) \in Nat /\ 3 * (SourceAttempts - attempt'[w]) \in Nat
      BY <1>0, <2>1
  <2> QED BY <2>2 DEF Awaits
<1>7. ASSUME Handle(w) PROVE Awaits(w)' < Awaits(w)
    BY <1>3, <1>4, <1>5, <1>7 DEF Handle, Begin
<1>8. ASSUME DeliveryFails(w) \/ DeleteFails(w) \/ Stops(w) \/ Restart(w) PROVE Awaits(w)' <= Awaits(w)
  <2>1. CASE at'[w] \in {"idle", "down"}
    <3>1. Awaits(w)' = 0
        BY <2>1 DEF Awaits
    <3> QED BY <1>6, <3>1
  <2>2. CASE at[w] = "callback" /\ at'[w] \in {"callback", "publish"}
      BY <2>2 DEF Awaits
  <2> QED BY <1>8, <2>1, <2>2 DEF DeliveryFails, DeleteFails, Stops, Restart, Down
<1> QED BY <1>6, <1>7, <1>8 DEF TaskStep

\* No step but its own takes a handler back, and each await that settles brings
\* it nearer to its end: one record takes a bounded number of them.
THEOREM HandlersEnd ==
    Spec => /\ [](\A w \in Workers : Awaits(w) \in 0 .. 5 + 3 * SourceAttempts)
            /\ [][\A w \in Workers : at[w] # "idle" =>
                      Awaits(w)' <= Awaits(w) /\ (Handle(w) => Awaits(w)' < Awaits(w))]_vars
<1>1. IInv => \A w \in Workers : Awaits(w) \in 0 .. 5 + 3 * SourceAttempts
  <2> SUFFICES ASSUME IInv, NEW w \in Workers PROVE Awaits(w) \in 0 .. 5 + 3 * SourceAttempts
      OBVIOUS
  <2>1. attempt[w] \in 1 .. SourceAttempts /\ SourceAttempts \in Nat \ {0}
      BY PipelineAssumption DEF IInv, TypeOK
  <2> QED BY <2>1 DEF Awaits
<1>2. ASSUME IInv, IInv', Next, NEW w \in Workers, at[w] # "idle"
      PROVE  Awaits(w)' <= Awaits(w) /\ (Handle(w) => Awaits(w)' < Awaits(w))
  <2>1. Handle(w) => Awaits(w)' < Awaits(w)
      BY <1>2, HandlerGoesOn DEF IInv
  <2>2. Awaits(w) \in Int
      BY <1>1, <1>2
  <2>3. CASE TaskStep(w)
      BY <1>2, <2>3, HandlerGoesOn DEF IInv
  <2>4. ASSUME at'[w] = at[w], attempt'[w] = attempt[w] PROVE Awaits(w)' <= Awaits(w)
    <3>1. Awaits(w)' = Awaits(w)
        BY <2>4 DEF Awaits
    <3> QED BY <2>2, <3>1
  <2>5. ASSUME NEW v \in Workers \ {w}, TaskStep(v) PROVE Awaits(w)' <= Awaits(w)
      BY <1>2, <2>4, <2>5, TaskStepIsLocal DEF IInv
  <2>6. ASSUME NEW v \in Workers, Join(v) PROVE Awaits(w)' <= Awaits(w)
      BY <2>4, <2>6 DEF Join, local
  <2>7. ASSUME NEW l \in Sources, Upload(l) PROVE Awaits(w)' <= Awaits(w)
      BY <2>4, <2>7 DEF Upload, local
  <2>8. CASE Finished
      BY <1>2, <2>4, <2>8 DEF Finished, vars
  <2> QED BY <1>2, <2>1, <2>3, <2>5, <2>6, <2>7, <2>8 DEF Next, TaskStep
<1>3. IInv /\ IInv' /\ [Next]_vars
      => [\A w \in Workers : at[w] # "idle" =>
             Awaits(w)' <= Awaits(w) /\ (Handle(w) => Awaits(w)' < Awaits(w))]_vars
    BY <1>2
<1> QED BY <1>1, <1>3, InitIInv, NextIInv, PTL DEF Spec

\* The record in hand under the current assignment is given up without a commit
\* only in a fault, or because a copy finds its source gone.  A request whose
\* verdict has no destination would be given up at every delivery.
THEOREM GivenUpForAReason ==
    Spec => [][\A w \in Workers :
                  pinned[w] /\ at[w] # "delete" /\ ~(pinned'[w] /\ at'[w] # "delete")
                  => \/ committed' = record[w] + 1
                     \/ faults' = faults + 1
                     \/ at[w] = "copy" /\ SourceGone(record[w])]_vars
<1> DEFINE Holds(w) == pinned'[w] /\ at'[w] # "delete"
           Reason(w) == \/ committed' = record[w] + 1
                        \/ faults' = faults + 1
                        \/ at[w] = "copy" /\ SourceGone(record[w])
<1>1. ASSUME IInv, DrainInv, Next, NEW w \in Workers, pinned[w], at[w] # "delete", ~Holds(w)
      PROVE  Reason(w)
  <2> USE <1>1 DEF IInv, TypeOK, Go
  <2>0. owner = w /\ owner # None /\ WorkerInv(w)
      BY PipelineAssumption DEF Kept, WorkerInv, PinInv
  <2>1. CASE Begin(w) \/ Deliver(w) \/ Publish(w) \/ Delete(w)
      BY <2>1 DEF Begin, Deliver, Publish, Delete, local
  <2>2. CASE GetMetadata(w) \/ OpenReadStream(w) \/ Scan(w)
      BY <2>2 DEF GetMetadata, OpenReadStream, Scan, Missing, Conclude, AfterCopy, local
  <2>3. CASE Copy(w)
    <3>1. CASE Present(w) /\ Destination(w, result[w])[1] # None
        BY <2>3, <3>1 DEF Copy, AfterCopy
    <3>2. CASE ~(Present(w) /\ Destination(w, result[w])[1] # None)
      <4>1. at[w] = "copy" /\ record[w] \in Records /\ Accepted(Event(w)) /\ Event(w).move
          BY <2>0, <2>3 DEF Copy, WorkerInv, PlaceInv, Handling, Moves
      <4>2. Destination(w, result[w])[1] # None
          BY <4>1, AcceptedIsComplete DEF Complete, Destination
      <4>3. store[Source(record[w])] = None /\ Source(record[w]) \in uploaded
          BY <3>2, <4>1, <4>2 DEF Present, DrainInv, SeenInv, Reads
      <4> QED BY <4>1, <4>3 DEF SourceGone
    <3> QED BY <3>1, <3>2
  <2>4. CASE Commit(w)
      BY <2>4 DEF Commit
  <2>5. CASE DeliveryFails(w) \/ DeleteFails(w) \/ Stops(w)
      BY <2>5 DEF DeliveryFails, DeleteFails, Stops, Fault
  <2>6. CASE Restart(w)
      BY <2>0, <2>6 DEF Restart, WorkerInv, PlaceInv
  <2>7. ASSUME NEW v \in Workers \ {w}, TaskStep(v) PROVE FALSE
      BY <2>7, TaskStepIsLocal
  <2>8. ASSUME NEW v \in Workers, Join(v) PROVE Reason(w)
      BY <2>0, <2>8 DEF Join, Fault
  <2>9. CASE Finished \/ \E l \in Sources : Upload(l)
      BY <2>9 DEF Finished, vars, Upload
  <2> QED BY <1>1, <2>1, <2>2, <2>3, <2>4, <2>5, <2>6, <2>7, <2>8, <2>9 DEF Next, TaskStep, Handle
<1>2. IInv /\ DrainInv /\ [Next]_vars
      => [\A w \in Workers : pinned[w] /\ at[w] # "delete" /\ ~Holds(w) => Reason(w)]_vars
  <2> SUFFICES ASSUME IInv, DrainInv, [Next]_vars, vars' # vars, NEW w \in Workers,
                      pinned[w], at[w] # "delete", ~Holds(w)
               PROVE  Reason(w)
      OBVIOUS
  <2> QED BY <1>1
<1> QED BY <1>2, DrainInvariance, PTL DEF Spec

\* A source that is gone stays gone, and no handler counts on it any more but
\* those that had seen it: each record gives up on one for a last time.
THEOREM GoneForGood ==
    Spec => [][\A r \in Records : SourceGone(r) =>
                  /\ SourceGone(r)'
                  /\ \A w \in Workers : record'[w] = r /\ Reads(w)' => record[w] = r /\ Reads(w)]_vars
<1> DEFINE Stays(r) == /\ SourceGone(r)'
                      /\ \A w \in Workers : record'[w] = r /\ Reads(w)' => record[w] = r /\ Reads(w)
<1>1. ASSUME IInv, Next, NEW r \in Records, SourceGone(r) PROVE Stays(r)
  <2> DEFINE l == Source(r)
  <2>1. /\ l \in Sources /\ l \in Locations /\ l \in uploaded /\ store[l] = None
        /\ store \in [Locations -> Sources \cup {None}]
      BY <1>1, Shapes DEF SourceGone, IInv, TypeOK
  <2>2. ASSUME NEW w \in Workers, TaskStep(w) PROVE Stays(r)
    <3>1. uploaded' = uploaded
        BY <1>1, <2>2, TaskStepIsLocal DEF IInv
    <3>2. store'[l] = None
      <4>1. CASE Copy(w) /\ store' # store
        <5>1. /\ Destination(w, result[w]) \in Targets(record[w]) /\ record[w] \in Records
              /\ Destination(w, result[w]) # Source(record[w])
          <6>1. at[w] = "copy"
              BY <4>1 DEF Copy
          <6> QED BY <1>1, <6>1, DestinationIsTarget DEF IInv, Kept, WorkerInv, PlaceInv, Moves
        <5>2. Destination(w, result[w]) # l
            BY <2>1, <5>1, Shapes
        <5> QED BY <2>1, <4>1, <5>2 DEF Copy
      <4>2. CASE Delete(w)
          BY <2>1, <4>2 DEF Delete
      <4>3. CASE store' = store
          BY <2>1, <4>3
      <4> QED BY <2>2, <4>1, <4>2, <4>3
          DEF TaskStep, Handle, Begin, GetMetadata, OpenReadStream, Scan, Copy, Deliver, Publish, Commit,
              DeliveryFails, DeleteFails, Stops, Restart, outside
    <3>3. ASSUME NEW v \in Workers, record'[v] = r, Reads(v)' PROVE record[v] = r /\ Reads(v)
      <4>1. CASE v = w
          BY <1>1, <2>1, <2>2, <3>3, <4>1, SeesSource DEF Present
      <4>2. CASE v # w
          BY <1>1, <2>2, <3>3, <4>2, TaskStepIsLocal DEF IInv, Reads
      <4> QED BY <4>1, <4>2
    <3> QED BY <2>1, <3>1, <3>2, <3>3 DEF SourceGone
  <2>3. ASSUME NEW w \in Workers, Join(w) PROVE Stays(r)
      BY <1>1, <2>3 DEF Join, outside, local, SourceGone, Reads
  <2>4. ASSUME NEW k \in Sources, Upload(k) PROVE Stays(r)
      BY <1>1, <2>1, <2>4 DEF Upload, local, SourceGone, Reads
  <2>5. CASE Finished
      BY <1>1, <2>5 DEF Finished, vars, SourceGone, Reads
  <2> QED BY <1>1, <2>2, <2>3, <2>4, <2>5 DEF Next, TaskStep
<1>2. IInv /\ [Next]_vars
      => [\A r \in Records : SourceGone(r) =>
             /\ SourceGone(r)'
             /\ \A w \in Workers : record'[w] = r /\ Reads(w)' => record[w] = r /\ Reads(w)]_vars
    BY <1>1
<1> QED BY <1>2, InitIInv, NextIInv, PTL DEF Spec
=============================================================================
