-------------------------- MODULE EventValidation --------------------------
(* Which messages of the input topic are scan requests: the decoding steps  *)
(* of KafkaMessageHandler.handle, the schema of src/validation.ts and       *)
(* parseS3Url of src/s3.ts.  A message is a record of what the checks tell  *)
(* apart; an optional field that is absent is None.  A URL is a form, a     *)
(* host bucket, a region and a path: the decoded segments between the       *)
(* slashes it is written with.  An object key is such a sequence too.       *)
EXTENDS Integers, Sequences

CONSTANTS
  None,
  InputTopic, Region,                                 \* config.topic, config.aws.region
  CleanBuckets, QuarantineBuckets, CallbackTopics     \* config.whitelists

GlobalRegion == "us-east-1"

\* An empty whitelist allows everything.
IsAllowed(value, whitelist) == whitelist = {} \/ value \in whitelist

-----------------------------------------------------------------------------
(* S3 URLs *)

DotSegments == {".", ".."}

\* "." adds nothing to a path and ".." takes the segment before it away.
AfterSegment(kept, segment) ==
  IF segment \notin DotSegments THEN Append(kept, segment)
  ELSE IF segment = ".." THEN SubSeq(kept, 1, Len(kept) - 1)
  ELSE kept

\* What new URL(value) makes of a path.  A dot segment at the end leaves the
\* slash before it.
Resolved(path) ==
  LET kept[i \in 0 .. Len(path)] ==
        IF i = 0 THEN <<>> ELSE AfterSegment(kept[i - 1], path[i])
      whole == kept[Len(path)]
  IN IF whole # <<>> /\ path[Len(path)] \in DotSegments THEN Append(whole, "") ELSE whole

\* A path that means the same as it is written.
Undotted(path) == \A i \in DOMAIN path : path[i] \notin DotSegments

RegionOf(url) == IF url.form = "s3" \/ url.region = None THEN GlobalRegion ELSE url.region

BucketOf(url) ==
  LET path == Resolved(url.path)
  IN IF url.form # "path" THEN url.host
     ELSE IF path = <<>> THEN None ELSE Head(path)

KeyOf(url) ==
  LET path == Resolved(url.path)
  IN IF url.form = "path" /\ path # <<>> THEN Tail(path) ELSE path

Location(url) == <<BucketOf(url), KeyOf(url)>>

\* Neither the bucket nor the key is missing or empty.
NamesObject(url) == BucketOf(url) \notin {None, ""} /\ KeyOf(url) \notin {<<>>, <<"">>}

\* parseS3Url returns instead of throwing.
IsS3Url(url) ==
  /\ url.form \in {"s3", "path", "virtual"} /\ url.decodes
  /\ NamesObject(url)
  /\ RegionOf(url) = Region

\* buildS3Url: path style, without a region.  encodeKey escapes what has a
\* meaning in a URL, except that encodeURIComponent leaves "." and ".." alone.
BuildS3Url(bucket, key) ==
  [form |-> "path", host |-> None, region |-> None, decodes |-> TRUE,
   path |-> <<bucket>> \o key]

-----------------------------------------------------------------------------
(* The schema *)

\* Mutant: the quarantine bucket is checked only when it is given.
MovementValidIfGiven(e) ==
  IF e.move
  THEN /\ e.clean # None /\ IsAllowed(e.clean, CleanBuckets)
       /\ e.quarantine # None => IsAllowed(e.quarantine, QuarantineBuckets)
  ELSE e.clean = None /\ e.quarantine = None

\* Both destinations, because the verdict is not known yet, or neither.
MovementValid(e) ==
  IF e.move
  THEN /\ e.clean # None /\ IsAllowed(e.clean, CleanBuckets)
       /\ e.quarantine # None /\ IsAllowed(e.quarantine, QuarantineBuckets)
  ELSE e.clean = None /\ e.quarantine = None

HookValid(hook) == hook.auth = "no-auth" <=> hook.secret = None

CallbackValid(e) ==
  /\ e.hook # None => HookValid(e.hook)
  /\ CASE e.callback = "webhook" -> e.hook # None /\ e.topic = None
       [] e.callback = "kafka" -> /\ e.hook = None /\ e.topic # None
                                  /\ IsAllowed(e.topic, CallbackTopics)
       [] e.callback = "none" -> e.hook = None /\ e.topic = None

\* Everything else is discarded: tombstones and malformed JSON, envelopes for
\* another topic, wrong or unknown fields, and URLs that parseS3Url refuses.
Accepted(e) ==
  /\ e.decodes /\ e.envelope = InputTopic /\ e.wellFormed
  /\ MovementValid(e) /\ CallbackValid(e) /\ IsS3Url(e.url)

-----------------------------------------------------------------------------
\* What the code behind the validation takes for granted about a request: a
\* destination for either verdict, and the address and credentials of its
\* callback.  Without one of them an accepted request would fail at every
\* delivery and keep its partition from ever moving on.
Complete(e) ==
  /\ e.move => {e.clean, e.quarantine} \cap {None} = {}
  /\ e.callback = "webhook" => e.hook # None /\ (e.hook.auth # "no-auth" => e.hook.secret # None)
  /\ e.callback = "kafka" => e.topic # None
  /\ NamesObject(e.url)
=============================================================================
