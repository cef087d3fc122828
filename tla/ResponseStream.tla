--------------------------- MODULE ResponseStream ---------------------------
(***************************************************************************)
(* One streamed response: the task response_stream spawns (http.rs), the   *)
(* bounded channel it fills, the upstream body it reads and the harness    *)
(* that reads, stalls or hangs up.                                         *)
(*                                                                         *)
(* The task withholds one chunk, so that the last chunk leaves only after  *)
(* the terminal "allowed" event is durable.  While it streams, a timeout   *)
(* and another request's audit failure may end it at any await.            *)
(*                                                                         *)
(* Each poll of the task first polls wait_for_audit_failure, which waits   *)
(* on a tokio Notify; the thread of the request whose audit failed stores  *)
(* the flag and notifies, between any two steps of that wait.              *)
(***************************************************************************)
EXTENDS Naturals, Sequences, SequencesExt

CONSTANTS
  Capacity,        \* RESPONSE_STREAM_CHANNEL_CAPACITY
  MaxResponseBytes,\* CUSTODE_MAX_RESPONSE_BYTES
  ChunkSizes,      \* sizes an upstream chunk may have
  MaxChunks        \* bound: chunks the upstream sends at most

ASSUME StreamAssumption ==
  /\ Capacity \in Nat \ {0}
  /\ MaxResponseBytes \in Nat
  /\ ChunkSizes \subseteq Nat
  /\ MaxChunks \in Nat

Outcomes ==
  {"allowed", "downstream_closed", "response_body_too_large",
   "response_stream_timeout", "upstream_response_stream_failed",
   "upstream_response_timeout"}

\* A chunk is known by its position in the upstream body; Error is the frame
\* that tells the harness its body is broken.
Error == 0
Chunks == 1 .. MaxChunks
NoChunk == 0

(***************************************************************************)
(* "next" awaits the upstream, "flush" and "fail" send the withheld chunk  *)
(* before a new one or an upstream error is handled, "reserve" awaits the  *)
(* channel slot of the final chunk, "audit" appends the terminal event,    *)
(* "graced" and "abort" send the error frame with and without a timeout.   *)
(***************************************************************************)
Location == {"next", "flush", "fail", "reserve", "audit", "graced", "abort", "done"}

VARIABLES
  pc,              \* where the task stands
  sizes,           \* sizes of the chunks read from the upstream
  withheld,        \* the chunk read but not sent, or NoChunk
  bytes,           \* ResponseAccount: bytes accounted so far
  outcome,         \* the outcome the terminal event will record, "none" before
  reserved,        \* whether the task holds a reserved channel slot
  channel,         \* the frames queued for the harness
  seen,            \* the frames the harness has read
  closed,          \* whether the harness dropped the body
  closed_first,    \* whether it had when the terminal audit started
  finished,        \* ResponseAuditContext.terminal_audit_finished
  log,             \* terminal events appended, each [outcome, bytes]
  watch,           \* where wait_for_audit_failure stands in its loop
  heard,           \* whether its Notified future was notified since its creation
  failure,         \* how far another request's close_forwarding has come
  audit_failed,    \* Gateway.audit_failed
  fatal,           \* whether a fatal error was reported
  exited           \* whether the process ended

vars == <<pc, sizes, withheld, bytes, outcome, reserved, channel, seen, closed,
          closed_first, finished, log, watch, heard, failure, audit_failed, fatal,
          exited>>

body == <<sizes, bytes>>
wire == <<channel, reserved>>
harness == <<seen, closed>>
ending == <<outcome, closed_first>>
waiter == <<watch, heard>>
failing == <<failure, audit_failed, fatal>>
process == <<waiter, failing, exited>>

\* "loop" is about to create a Notified future, "created" has not read the flag
\* yet, "checked" has, "waiting" awaits the future.
WatchLocation == {"loop", "created", "checked", "waiting"}
FailureProgress == {"none", "stored", "notified", "reported"}

Frames == {Error} \cup Chunks

TypeOK ==
  /\ pc \in Location
  /\ sizes \in Seq(ChunkSizes) /\ Len(sizes) <= MaxChunks
  /\ withheld \in {NoChunk} \cup Chunks
  /\ bytes \in Nat
  /\ outcome \in Outcomes \cup {"none"}
  /\ reserved \in BOOLEAN
  /\ channel \in Seq(Frames)
  /\ seen \in Seq(Frames)
  /\ closed \in BOOLEAN /\ closed_first \in BOOLEAN /\ finished \in BOOLEAN
  /\ audit_failed \in BOOLEAN /\ fatal \in BOOLEAN /\ exited \in BOOLEAN
  /\ log \in Seq([outcome : Outcomes, bytes : Nat])
  /\ watch \in WatchLocation /\ heard \in BOOLEAN
  /\ failure \in FailureProgress

Init ==
  /\ pc = "next"
  /\ sizes = <<>> /\ withheld = NoChunk /\ bytes = 0
  /\ outcome = "none" /\ closed_first = FALSE /\ finished = FALSE
  /\ channel = <<>> /\ reserved = FALSE
  /\ seen = <<>> /\ closed = FALSE
  /\ log = <<>>
  /\ watch = "loop" /\ heard = FALSE
  /\ failure = "none" /\ audit_failed = FALSE /\ fatal = FALSE /\ exited = FALSE

-----------------------------------------------------------------------------
(* The channel                                                             *)

HasRoom == Len(channel) + (IF reserved THEN 1 ELSE 0) < Capacity

\* Sender::send succeeds once there is room, and fails once the receiver is gone.
Send(frame) ==
  /\ ~closed /\ HasRoom
  /\ channel' = Append(channel, frame)

Streaming == {"next", "flush", "fail", "reserve"}

\* The select polls the audit-failure wait first: whatever else the stream does,
\* it does when that wait has nothing left to do.
Goto(from, to) ==
  /\ ~exited
  /\ from \in Streaming => watch = "waiting"
  /\ pc = from /\ pc' = to

\* The terminal audit starts with this outcome.
StartAudit(from, what) ==
  /\ Goto(from, "audit")
  /\ outcome' = what
  /\ closed_first' = closed

-----------------------------------------------------------------------------
(* stream_upstream_response                                                *)

\* Mutant of Fits: a body of exactly the limit is refused.
Fits_Exclusive(size) == bytes + size < MaxResponseBytes

\* ResponseAccount::add_chunk accepts a chunk that fits the rest of the limit.
Fits(size) == bytes + size <= MaxResponseBytes

\* A chunk arrives.  With a withheld chunk that one is sent first.
ReadChunk ==
  /\ Len(sizes) < MaxChunks
  /\ \E size \in ChunkSizes :
       /\ sizes' = Append(sizes, size)
       /\ \/ /\ withheld # NoChunk
             /\ Goto("next", "flush")
             /\ UNCHANGED <<withheld, bytes, ending>>
          \/ /\ withheld = NoChunk /\ Fits(size)
             /\ Goto("next", "next")
             /\ withheld' = Len(sizes')
             /\ bytes' = bytes + size
             /\ UNCHANGED ending
          \/ /\ withheld = NoChunk /\ ~Fits(size)
             /\ StartAudit("next", "response_body_too_large")
             /\ bytes' = bytes + size
             /\ UNCHANGED withheld
  /\ UNCHANGED <<wire, harness, finished, log, process>>

\* Mutant of FlushThenWithhold: the new chunk overtakes the withheld one.
FlushThenWithhold_Swapped ==
  /\ pc = "flush" /\ Send(Len(sizes))
  /\ Fits(Last(sizes))
  /\ bytes' = bytes + Last(sizes)
  /\ Goto("flush", "next")
  /\ UNCHANGED <<sizes, withheld, ending, reserved, harness, finished, log, process>>

\* The withheld chunk is sent; the chunk just read is accounted and withheld,
\* or is over the limit.
FlushThenWithhold ==
  /\ pc = "flush" /\ Send(withheld)
  /\ LET size == Last(sizes) IN
       /\ bytes' = bytes + size
       /\ \/ /\ Fits(size)
             /\ Goto("flush", "next")
             /\ withheld' = Len(sizes)
             /\ UNCHANGED ending
          \/ /\ ~Fits(size)
             /\ StartAudit("flush", "response_body_too_large")
             /\ withheld' = NoChunk
  /\ UNCHANGED <<sizes, reserved, harness, finished, log, process>>

\* Sending finds the harness gone.
FlushFails ==
  /\ closed
  /\ StartAudit("flush", "downstream_closed")
  /\ withheld' = NoChunk
  /\ UNCHANGED <<body, wire, harness, finished, log, process>>

\* The upstream body fails: a withheld chunk is sent before the failure is told.
UpstreamFails ==
  /\ \E what \in {"upstream_response_stream_failed", "upstream_response_timeout"} :
       \/ /\ withheld = NoChunk
          /\ StartAudit("next", what)
       \/ /\ withheld # NoChunk
          /\ Goto("next", "fail")
          /\ outcome' = what
          /\ UNCHANGED closed_first
  /\ UNCHANGED <<body, withheld, wire, harness, finished, log, process>>

\* Mutant of FlushThenFail: the outcome is lost while the chunk is sent.
FlushThenFail_OutcomeLost ==
  /\ Send(withheld)
  /\ StartAudit("fail", "none")
  /\ withheld' = NoChunk
  /\ UNCHANGED <<body, reserved, harness, finished, log, process>>

\* The send may fail; the outcome stays the upstream's failure.
FlushThenFail ==
  /\ \/ Send(withheld)
     \/ closed /\ UNCHANGED channel
  /\ StartAudit("fail", outcome)
  /\ withheld' = NoChunk
  /\ UNCHANGED <<body, reserved, harness, finished, log, process>>

\* The upstream body ends: an empty one is audited at once, the last chunk of
\* another waits for its slot in the channel.
UpstreamEnds ==
  /\ \/ withheld = NoChunk /\ StartAudit("next", "allowed")
     \/ withheld # NoChunk /\ Goto("next", "reserve") /\ UNCHANGED ending
  /\ UNCHANGED <<body, withheld, wire, harness, finished, log, process>>

\* Mutants of ReserveFinal: the final chunk is sent before the event is written;
\* a closed channel is not noticed.
ReserveFinal_SentFirst ==
  /\ Send(withheld)
  /\ StartAudit("reserve", "allowed")
  /\ UNCHANGED <<body, withheld, reserved, harness, finished, log, process>>

ReserveFinal_CloseUnnoticed ==
  /\ closed \/ HasRoom
  /\ reserved' = TRUE
  /\ StartAudit("reserve", "allowed")
  /\ UNCHANGED <<body, withheld, channel, harness, finished, log, process>>

ReserveFinal ==
  /\ \/ /\ ~closed /\ HasRoom
        /\ reserved' = TRUE
        /\ StartAudit("reserve", "allowed")
     \/ /\ closed
        /\ StartAudit("reserve", "downstream_closed")
        /\ UNCHANGED reserved
  /\ UNCHANGED <<body, withheld, channel, harness, finished, log, process>>

-----------------------------------------------------------------------------
(* The select and the timeout around it                                    *)

Watch(from, to) ==
  /\ ~exited /\ pc \in Streaming
  /\ watch = from /\ watch' = to

\* A Notified future hears of every notify_waiters call from its creation on,
\* polled or not.
CreateNotified ==
  /\ Watch("loop", "created")
  /\ heard' = FALSE
  /\ UNCHANGED <<pc, body, withheld, wire, harness, ending, finished, log,
                 failing, exited>>

\* The flag ends the stream, wherever it stands, or the future is to be awaited.
LoadFlag ==
  /\ Watch("created", "checked")
  /\ \/ /\ audit_failed
        /\ pc' = "abort" /\ withheld' = NoChunk
     \/ /\ ~audit_failed
        /\ UNCHANGED <<pc, withheld>>
  /\ UNCHANGED <<body, wire, harness, ending, finished, log, heard, failing, exited>>

\* Mutant of AwaitNotified: the future is created only now, after the flag was read.
AwaitNotified_CreatedHere ==
  /\ Watch("checked", "waiting")
  /\ heard' = FALSE
  /\ UNCHANGED <<pc, body, withheld, wire, harness, ending, finished, log,
                 failing, exited>>

AwaitNotified ==
  /\ Watch("checked", "waiting")
  /\ UNCHANGED <<pc, body, withheld, wire, harness, ending, finished, log, heard,
                 failing, exited>>

\* The future is ready: the flag is read again.
Wake ==
  /\ Watch("waiting", "loop")
  /\ heard
  /\ UNCHANGED <<pc, body, withheld, wire, harness, ending, finished, log, heard,
                 failing, exited>>

\* Mutant of StreamTimesOut: the timeout ends the stream without its event.
StreamTimesOut_Unaudited ==
  /\ \E from \in Streaming : Goto(from, "graced")
  /\ withheld' = NoChunk
  /\ UNCHANGED <<body, wire, harness, ending, finished, log, process>>

\* request_timeout elapses; the withheld chunk is dropped with the future.
StreamTimesOut ==
  /\ \E from \in Streaming : StartAudit(from, "response_stream_timeout")
  /\ withheld' = NoChunk
  /\ UNCHANGED <<body, wire, harness, finished, log, process>>

-----------------------------------------------------------------------------
(* audit_after_response_started and what follows it                        *)

TellsHarness == outcome \notin {"allowed", "downstream_closed"}

\* Mutant of AuditOk: a final chunk that cannot be delivered is audited as well.
AuditOk_HangUpAudited ==
  /\ log' = Append(log, [outcome |-> outcome, bytes |-> bytes])
  /\ \/ /\ reserved /\ closed
        /\ Goto("audit", "audit")
        /\ outcome' = "downstream_closed"
     \/ /\ ~(reserved /\ closed)
        /\ Goto("audit", IF TellsHarness THEN "graced" ELSE "done")
        /\ UNCHANGED outcome
  /\ finished' = TRUE
  /\ channel' = IF reserved /\ ~closed THEN Append(channel, withheld) ELSE channel
  /\ reserved' = FALSE
  /\ withheld' = NoChunk
  /\ UNCHANGED <<body, harness, closed_first, process>>

\* The terminal event is durable.  The final chunk then takes its slot; an
\* abort that tells the harness goes on to its error frame.
AuditOk ==
  /\ Goto("audit", IF TellsHarness THEN "graced" ELSE "done")
  /\ log' = IF finished THEN log ELSE Append(log, [outcome |-> outcome, bytes |-> bytes])
  /\ finished' = TRUE
  /\ channel' = IF reserved /\ ~closed THEN Append(channel, withheld) ELSE channel
  /\ reserved' = FALSE
  /\ withheld' = NoChunk
  /\ UNCHANGED <<body, harness, ending, process>>

\* The terminal event could not be written: fatal.  The final chunk is dropped.
AuditFails ==
  /\ ~finished /\ finished' = TRUE
  /\ Goto("audit", CASE outcome = "allowed" -> "abort"
                     [] TellsHarness -> "graced"
                     [] OTHER -> "done")
  /\ audit_failed' = TRUE /\ fatal' = TRUE
  /\ reserved' = FALSE
  /\ withheld' = NoChunk
  /\ UNCHANGED <<body, channel, harness, ending, log, waiter, failure, exited>>

\* send_stream_error gives up after TERMINAL_STREAM_ERROR_GRACE ...
SendStreamError ==
  /\ Goto("graced", "done")
  /\ \/ Send(Error)
     \/ ~HasRoom /\ UNCHANGED channel
     \/ closed /\ UNCHANGED channel
  /\ UNCHANGED <<body, withheld, reserved, harness, ending, finished, log, process>>

\* Mutant of SendTerminalStreamError: the dropped receiver is not noticed.
SendTerminalStreamError_CloseUnnoticed ==
  /\ Goto("abort", "done")
  /\ Send(Error)
  /\ UNCHANGED <<body, withheld, reserved, harness, ending, finished, log, process>>

\* ... send_terminal_stream_error waits as long as the harness makes it wait.
SendTerminalStreamError ==
  /\ Goto("abort", "done")
  /\ \/ Send(Error)
     \/ closed /\ UNCHANGED channel
  /\ UNCHANGED <<body, withheld, reserved, harness, ending, finished, log, process>>

-----------------------------------------------------------------------------
(* The environment                                                         *)

HarnessReads ==
  /\ ~exited /\ ~closed /\ channel # <<>>
  /\ seen' = Append(seen, Head(channel))
  /\ channel' = Tail(channel)
  /\ UNCHANGED <<pc, body, withheld, reserved, closed, ending, finished, log, process>>

HarnessCloses ==
  /\ ~exited /\ ~closed
  /\ closed' = TRUE
  /\ channel' = <<>>
  /\ UNCHANGED <<pc, body, withheld, reserved, seen, ending, finished, log, process>>

\* close_forwarding of another request runs on its own thread: the flag is
\* stored, the waiters are notified, ...
OtherStoresFailure ==
  /\ ~exited /\ failure = "none"
  /\ failure' = "stored"
  /\ audit_failed' = TRUE
  /\ UNCHANGED <<pc, body, withheld, wire, harness, ending, finished, log, waiter,
                 fatal, exited>>

\* notify_waiters keeps nothing for a future that is created later.
OtherNotifies ==
  /\ ~exited /\ failure = "stored"
  /\ failure' = "notified"
  /\ heard' = (watch # "loop")
  /\ UNCHANGED <<pc, body, withheld, wire, harness, ending, finished, log, watch,
                 audit_failed, fatal, exited>>

\* ... and once the gate is drained the failure is reported, unless the harness
\* of that request hangs up on the handler that reports it.
OtherReports ==
  /\ ~exited /\ failure = "notified"
  /\ failure' = "reported"
  /\ fatal' = TRUE
  /\ UNCHANGED <<pc, body, withheld, wire, harness, ending, finished, log, waiter,
                 audit_failed, exited>>

Exit ==
  /\ fatal /\ ~exited
  /\ exited' = TRUE
  /\ UNCHANGED <<pc, body, withheld, wire, harness, ending, finished, log, waiter,
                 failing>>

WatchStep == CreateNotified \/ LoadFlag \/ AwaitNotified \/ Wake

TaskStep ==
  \/ FlushThenWithhold \/ FlushFails \/ FlushThenFail \/ ReserveFinal
  \/ WatchStep \/ StreamTimesOut
  \/ AuditOk \/ AuditFails
  \/ SendStreamError \/ SendTerminalStreamError

UpstreamStep == ReadChunk \/ UpstreamFails \/ UpstreamEnds

Rest == (pc = "done" \/ exited) /\ UNCHANGED vars

Next ==
  \/ TaskStep \/ UpstreamStep
  \/ HarnessReads \/ HarnessCloses
  \/ OtherStoresFailure \/ OtherNotifies \/ OtherReports \/ Exit
  \/ Rest

Spec == Init /\ [][Next]_vars

\* The task is polled whenever it can go on (its timeout sees to that while it
\* streams) and a reported fatal error is received.  Neither the upstream nor
\* the harness owes a step.
FairSpec == Spec /\ WF_vars(TaskStep) /\ WF_vars(Exit)

-----------------------------------------------------------------------------
(* Properties                                                              *)

\* Everything sent to the harness, read or not.
Sent == seen \o channel

EventOf(what) == \E i \in DOMAIN log : log[i].outcome = what

\* The last chunk read stays withheld until the body is audited as allowed or
\* has failed: the harness never holds a whole body whose outcome is open.
LastChunkWithheld ==
  sizes # <<>> /\ Contains(Sent, Len(sizes)) =>
    \/ EventOf("allowed")
    \/ outcome \in {"upstream_response_stream_failed", "upstream_response_timeout"}

\* The harness gets the upstream's chunks in order, each once, and at most one
\* error frame, as the last frame.
InOrder ==
  \A i \in DOMAIN Sent :
    \/ Sent[i] = i
    \/ Sent[i] = Error /\ i = Len(Sent)

\* An error frame is sent only when no terminal event is owed any more: it was
\* written, it could not be written, or auditing had failed before.
ErrorAfterAudit == Contains(Sent, Error) => log # <<>> \/ audit_failed

\* No stream writes two terminal events.
AtMostOneTerminalEvent == Len(log) <= 1

Total(s) == FoldLeft(LAMBDA sum, size : sum + size, 0, s)

\* The outcomes that may end the stream between a read and its account: the chunk
\* in hand waits for the withheld one to be sent.
Interruptions == {"downstream_closed", "response_stream_timeout"}

Accounted(what, count) ==
  \/ count = Total(sizes)
  \/ /\ what \in Interruptions /\ sizes # <<>>
     /\ count + Last(sizes) = Total(sizes)

\* The event accounts for every byte read from the provider, save for the chunk in
\* hand when the harness hung up or the time ran out, and for no less than the
\* harness got; only a body over the limit is recorded over the limit.
AccountedBytes ==
  \A i \in DOMAIN log :
    /\ log[i].bytes > MaxResponseBytes <=> log[i].outcome = "response_body_too_large"
    /\ Accounted(log[i].outcome, log[i].bytes)
    /\ log[i].bytes >= Total([k \in DOMAIN Sent |->
                               IF Sent[k] = Error THEN 0 ELSE sizes[Sent[k]]])

\* A harness that had hung up before the terminal audit began is not recorded as
\* served, unless the upstream body was empty.
HangUpIsRecorded ==
  closed_first /\ EventOf("allowed") => sizes = <<>>

\* No stream sleeps through an audit failure: once the failing request has
\* notified, a stream that waits for it is woken, however the two interleave.
NoMissedFailure ==
  pc \in Streaming /\ watch = "waiting" /\ failure \in {"notified", "reported"} => heard

\* The task ends, or the process does, or the task is stuck with a full channel
\* and a harness that does not read.
TaskEndsUnlessStalled ==
  <>[](pc = "done" \/ exited \/ (pc = "abort" /\ ~closed /\ ~HasRoom))

\* A harness that had hung up before the terminal audit began is never recorded
\* as served.
HangUpIsAlwaysRecorded == closed_first => ~EventOf("allowed")

\* The harness sees its body end without an error frame.
CleanEnd ==
  pc = "done" /\ ~exited /\ ~closed /\ channel = <<>> /\ ~Contains(seen, Error)

\* A body the harness sees cleanly ended is a whole body, recorded as allowed.
CleanEndIsWhole == CleanEnd => EventOf("allowed")
=============================================================================
