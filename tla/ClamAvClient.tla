---------------------------- MODULE ClamAvClient ----------------------------
(* ClamAvClient of src/clamav.ts: every scan() and ping() opens a socket of *)
(* its own, writes to it and waits for the one reply clamd sends on it.     *)
(* Four things go on at once: the call's own awaits, the socket, the        *)
(* responsePromise that reads the reply in the background, and the S3 body. *)
(* clamd may answer and close while the body is still being written, stop   *)
(* reading, or never answer; the body may stall or break off.               *)
(* A composing module starts the calls and takes what they settle with.     *)
CONSTANTS
  Scans,    \* the scan() calls that may be outstanding at once
  Pings     \* the ping() calls

ASSUME CallsAssumption == Scans \cap Pings = {}

VARIABLES
  step,     \* the await the call is suspended at
  link,     \* its socket
  reply,    \* its responsePromise: pending, an answer, or rejected ("broken")
  body,     \* the S3 stream given to scan()
  outcome   \* what the settled call returned or threw

clientVars == <<step, link, reply, body, outcome>>

Calls == Scans \cup Pings

Writing == {"command", "frame", "finish"}
Working == {"connect", "read", "answer"} \cup Writing
Answers(c) == IF c \in Scans THEN {"OK", "FOUND", "LIMIT", "ERROR"} ELSE {"PONG", "ERROR"}

ClientTypeOK ==
  /\ step \in [Calls -> {"idle", "settled"} \cup Working]
  /\ link \in [Calls -> {"none", "connecting", "open", "gone"}]
  /\ reply \in [Calls -> {"pending", "broken", "OK", "FOUND", "LIMIT", "PONG", "ERROR"}]
  /\ body \in [Calls -> {"none", "open", "ended", "destroyed"}]
  /\ outcome \in [Calls -> {"none", "clean", "infected", "limit", "pong", "error", "refused"}]

ClientInit ==
  /\ step = [c \in Calls |-> "idle"]
  /\ link = [c \in Calls |-> "none"]
  /\ reply = [c \in Calls |-> "pending"]
  /\ body = [c \in Calls |-> "none"]
  /\ outcome = [c \in Calls |-> "none"]

\* The locals of these calls are gone.
Drop(C) ==
  /\ step' = [c \in Calls |-> IF c \in C THEN "idle" ELSE step[c]]
  /\ link' = [c \in Calls |-> IF c \in C THEN "none" ELSE link[c]]
  /\ reply' = [c \in Calls |-> IF c \in C THEN "pending" ELSE reply[c]]
  /\ body' = [c \in Calls |-> IF c \in C THEN "none" ELSE body[c]]
  /\ outcome' = [c \in Calls |-> IF c \in C THEN "none" ELSE outcome[c]]

Received(c) == reply[c] \notin {"pending", "broken"}

\* parseScanResponse, and ping()'s test for the exact answer.
Parse(c) ==
  CASE reply[c] = "OK" -> "clean"
    [] reply[c] = "FOUND" -> "infected"
    [] reply[c] = "LIMIT" -> "limit"
    [] reply[c] = "PONG" -> "pong"
    [] OTHER -> "error"

-----------------------------------------------------------------------------
(* Opening, settling *)

Goes(c, place) == step' = [step EXCEPT ![c] = place]

\* openSocket, with the deadline of the whole operation.
OpenSocket(c) ==
  /\ Goes(c, "connect")
  /\ link' = [link EXCEPT ![c] = "connecting"]
  /\ reply' = [reply EXCEPT ![c] = "pending"]
  /\ body' = [body EXCEPT ![c] = IF c \in Scans THEN "open" ELSE "none"]
  /\ outcome' = [outcome EXCEPT ![c] = "none"]

\* The finally block.  The close of the destroyed socket, which it awaits,
\* rejects a responsePromise that is still pending.
Settle(c, how) ==
  /\ Goes(c, "settled")
  /\ outcome' = [outcome EXCEPT ![c] = how]
  /\ link' = [link EXCEPT ![c] = "gone"]
  /\ reply' = [reply EXCEPT ![c] = IF @ = "pending" THEN "broken" ELSE @]
  /\ body' = [body EXCEPT ![c] = IF @ = "open" THEN "destroyed" ELSE @]

\* Mutant: the catch block rethrows without a look at receivedResponse.
CaughtRethrown(c) == Settle(c, "error")

\* The catch block of scan(): a reply that has been received wins over the
\* failure that came with it.  ping() has no such block.
Caught(c) == Settle(c, IF c \in Scans /\ Received(c) THEN Parse(c) ELSE "error")

\* The continuation of openSocket: readResponse is listening before the
\* command is written.
Connected(c) ==
  /\ step[c] = "connect"
  /\ Goes(c, "command")
  /\ link' = [link EXCEPT ![c] = "open"]
  /\ UNCHANGED <<reply, body, outcome>>

\* No connection: scan() throws before its try, ping() likewise.
ConnectFails(c) ==
  /\ step[c] = "connect"
  /\ Goes(c, "settled")
  /\ link' = [link EXCEPT ![c] = "gone"]
  /\ outcome' = [outcome EXCEPT ![c] = "refused"]
  /\ UNCHANGED <<reply, body>>

-----------------------------------------------------------------------------
(* Writing the command, the frames and the terminator *)

Written(c) ==
  /\ step[c] \in Writing /\ link[c] = "open"
  /\ Goes(c, IF step[c] = "finish" \/ c \in Pings THEN "answer" ELSE "read")
  /\ UNCHANGED <<link, reply, body, outcome>>

WriteFails(c) == step[c] \in Writing /\ link[c] = "gone" /\ Caught(c)

-----------------------------------------------------------------------------
(* The race between the next chunk and the reply *)

\* A chunk may win although the reply has arrived: both are settled promises.
TakeChunk(c) ==
  /\ step[c] = "read" /\ body[c] = "open"
  /\ Goes(c, "frame")
  /\ UNCHANGED <<link, reply, body, outcome>>

BodyEnds(c) ==
  /\ step[c] = "read" /\ body[c] = "open"
  /\ Goes(c, "finish")
  /\ body' = [body EXCEPT ![c] = "ended"]
  /\ UNCHANGED <<link, reply, outcome>>

\* Mutant: a body that breaks off is taken for one that has ended.
BodyBreaksLikeEnd(c) ==
  /\ step[c] = "read" /\ body[c] = "open"
  /\ Goes(c, "finish")
  /\ body' = [body EXCEPT ![c] = "destroyed"]
  /\ UNCHANGED <<link, reply, outcome>>

BodyBreaks(c) == step[c] = "read" /\ body[c] = "open" /\ Caught(c)

\* The reply, or its failure, reaches the race or the final await.
Replied(c) ==
  /\ step[c] \in {"read", "answer"}
  /\ \/ Received(c) /\ Settle(c, Parse(c))
     \/ reply[c] = "broken" /\ Caught(c)

-----------------------------------------------------------------------------
(* clamd and the network *)

\* The final verdict comes after the terminator, an error at any time.
Possible(c) ==
  IF c \in Pings \/ step[c] \in {"finish", "answer"} THEN Answers(c) ELSE {"LIMIT", "ERROR"}

Answer(c) ==
  /\ link[c] = "open" /\ reply[c] = "pending"
  /\ \E r \in Possible(c) : reply' = [reply EXCEPT ![c] = r]
  /\ UNCHANGED <<step, link, body, outcome>>

\* The read side ends without a terminated reply, or the reply is oversized.
ReplyBreaks(c) ==
  /\ link[c] = "open" /\ reply[c] = "pending"
  /\ reply' = [reply EXCEPT ![c] = "broken"]
  /\ UNCHANGED <<step, link, body, outcome>>

\* The socket closes.  A reply still on its way is lost.
LinkBreaks(c) ==
  /\ link[c] = "open"
  /\ link' = [link EXCEPT ![c] = "gone"]
  /\ reply' = [reply EXCEPT ![c] = IF @ = "pending" THEN "broken" ELSE @]
  /\ UNCHANGED <<step, body, outcome>>

\* Mutant: the timer is cleared when the socket connects.
DeadlineUntilConnected(c) == ConnectFails(c)

\* The timer of openSocket destroys the socket; only its close clears it.
Deadline(c) == ConnectFails(c) \/ LinkBreaks(c)

Clamd(c) == Connected(c) \/ ConnectFails(c) \/ Written(c) \/ Answer(c) \/ ReplyBreaks(c) \/ LinkBreaks(c)
Source(c) == TakeChunk(c) \/ BodyEnds(c) \/ BodyBreaks(c)
Continuation(c) == WriteFails(c) \/ Replied(c)

ClientStep(c) == Clamd(c) \/ Source(c) \/ Continuation(c) \/ Deadline(c)

-----------------------------------------------------------------------------
(* Properties *)

\* A file is reported clean only if clamd was sent all of its bytes: neither a
\* body that broke off nor an early reply passes for a complete scan, as long as
\* clamd keeps to its protocol and says OK only after the terminator (Possible).
CleanMeansWholeBody == \A c \in Scans : outcome[c] = "clean" => body[c] = "ended"

\* clamd may answer and close while the upload goes on.  A reply that was
\* received decides the scan, whatever write, read or timer failed after it:
\* a size-limit reply never turns into a failure that stops the process.
ReceivedReplyDecides ==
  \A c \in Scans : step[c] = "settled" /\ Received(c) => outcome[c] = Parse(c)

\* A settled call holds neither a connection to clamd nor an S3 download that
\* nobody reads, except the body it was given when it could not connect.
SettledCallsHoldNothing ==
  \A c \in Calls : step[c] = "settled" =>
    link[c] = "gone" /\ (body[c] = "open" => outcome[c] = "refused")
=============================================================================
