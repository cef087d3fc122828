# Verification of the Custode provider gateway

Custode is a small forward proxy that stands between a harness and one model
provider.  It forwards only listed operations, and it promises that every
exchange is recorded in an append-only audit log before the harness is told how
it ended.  When it cannot keep that promise it stops.  This directory holds TLA+
models of that program, the TLC runs that check them and TLAPS proofs of every
safety property they check.

    tlc -config GatewaySafety.cfg MCGateway.tla     one model-checking run
    tlapm GatewayProofs.tla                         the proofs

`PROJECT.json` lists the components, the runs with the properties each one
checks, the source lines every definition stands for, the hazards and the
findings.

## 1. The system

| Component | State | Operations | Hard because | Correct means |
|---|---|---|---|---|
| Request path (`http.rs` `proxy`, `handle_request`, `forward_request`; `gateway.rs`) | `audit_failed` flag, concurrency semaphore, forwarding gate (fair read-write lock), fatal-error channel, the await each handler is at | admit, allocate an id, accept or deny, forward under the gate, audit, close the gate on a failed audit, stop | handlers run on many threads; hyper drops a handler at any await when its harness disconnects; one failed append must stop all the others | no answer before its event; no send after the gate closed; a failure stops the server; every request ends |
| Response stream (`http.rs` `response_stream`; `body.rs`; `gateway.rs` `wait_for_audit_failure`) | withheld chunk, bounded channel, byte account, reserved slot, `terminal_audit_finished`, the `Notified` future | read, flush, reserve the final slot, audit, send the error frame | select between the body, another request's audit failure and a timeout; the harness stalls or hangs up at any point; a notification must not fall between the check of the flag and the wait | the last chunk leaves after its event; one terminal event; the bytes are right; no failure is slept through; the task ends |
| Audit writer (`audit.rs` `AuditWriter`) | mutex, poisoned flag, the async file's background write, the file, its directories and what of them is durable | create and sync the directories, open, write, flush, commit | torn writes, dropped callers, crashes, an error found by the next caller | acknowledged is durable; no joined lines; no duplicates; the mutex is released |
| Audit event (`audit.rs` constructors and `ExistingAuditEventFields`) | none beyond the event | build an event; validate it at the next start | writer and reader are separate code over separate types | every event written is accepted |
| Target, allowlist, URL join (`target.rs`, `allowlist.rs`, `config.rs`) | the configured operations | parse and sort the allowlist, parse a path, match, join | the allowlist matches spelling, the URL library and the provider read structure | what is forwarded is what was matched |
| Header filter (`headers.rs`) | none | limit, Connection tokens, filter | a header may be named on any of several lines | hop-by-hop ends, end-to-end passes |
| Request ids (`adapters.rs`) | a shared counter, a per-run token | draw the token, allocate | concurrent claims, exhaustion, many runs on one log | unique, never reused |
| Configuration (`config.rs`) | none | check every number, the operations and the origin | bounds that later code relies on | what is accepted never makes the gateway fail |
| Process and startup (`process.rs`, `main.rs`, `serve`) | how far the start has come, the exit code | configure, build the adapters, open the log, bind, serve, exit | every step may fail or be killed, and the next start finds what is left | fails closed; each way to end has its exit code |
| Upstream client (`adapters.rs`) | none | send, stream | fails, times out, stalls | environment |
| Healthcheck (`health.rs`) | none | connect | it may run at any moment of the server's life | exit code |

The components meet in four places.  Handlers and stream tasks share the flag,
the semaphore, the gate and the counter, so in `Gateway` every access to one of
them is a step of its own.  A handler hands its permit and its required event to
the stream task it spawns.  Every request's event goes through the one audit
writer.  And what the writer leaves in the file is read by the next start, which
refuses to run on a log it does not understand.  `Startup` is about that chain of
runs, `AuditWriter` about the bytes of the file and `AuditEvent` about the fields
of a line.

## 2. Modules

    AuditContract   <- GatewayContract EXTENDS Gateway      abstract spec, refinement
    ResponseStream      detail of Gateway's "streaming" wait and of the terminal audit
    AuditSink       <- AuditWriterSink EXTENDS AuditWriter  abstract spec, refinement:
                        detail of Gateway's AppendOk / AppendFails
    AuditEvent          what the appended events say and how the next start reads them
    RequestAcceptance   detail of Gateway's AcceptTarget, and of the header filters
    Startup             the processes around all of it: configuration, start, end, log
    MC*                 instances for TLC
    *Proofs             theorems: GatewayProofs, GatewayContractProofs,
                        ResponseStreamProofs, AuditWriterProofs, AuditEventProofs,
                        RequestAcceptanceProofs, StartupProofs
    Induction           lemmas the proofs share: induction over numbers, sequences and
                        finite sets, and what folds and sums compute

**Gateway.**  Each request has a `pc`, one location per await or shared access.

| Action | Code |
|---|---|
| `RequireAuditAvailable`, `TryAcquire`, `AllocateRequestId` | the three first calls of `proxy` and `handle_request` |
| `AcceptTarget`, `ReadBody` | `accept_allowed_target` and the header check; the body with its timeout; each denies or goes on |
| `AcquireRead`, `BeginForwarding`, `SendReturns` | `begin_forwarding`: the read guard first, then the flag; `client.send`; the guard ends with the send |
| `StreamEnds`, `AuditUnavailable` | the stream task's outcomes; the audit-failure arm of its select |
| `SendStreamError`, `SendTerminalStreamError` | how an aborted stream ends: the error of a body that had failed is given up after 50 ms on a full channel, any other is delivered |
| `AppendOk`, `AppendFails`, `Complete` | `append_required_audit_event`, and the answer after it (`RepliesFor`) |
| `EventPanics` | the `expect` of `AuditUpstreamTarget::from_url`, before the append: the task dies, its permit is released and nobody learns of it |
| `StoreAuditFailed`, `RequestWrite`, `AcquireWrite`, `ReportAuditFailure` | `close_forwarding` (store, queue for the write lock, be granted it) and the report on the fatal channel |
| `DropHandler` | hyper drops the future: permit, guard and queue place go, an append the sink took up may still land |
| `Exit` | `run_until_server_stops` |

`log` is the sequence of whole lines; `AppendFails` may leave the line in it,
because a write can fail at its flush or commit.  A reply tells what the harness
saw: `"broken"` is a body that ends with an error, `"complete"` a whole body, and
`"cut"` a body that ends cleanly although something is missing, because the grace of
`send_stream_error` elapsed or the stream task panicked.  `FailedBody` leaves it open
which of `"broken"` and `"cut"` a failed body becomes: that is a matter of the
harness's pace.  `Outgrowing` is the set of requests that may have a query that
outgrows its limit in the join (EventPanic), as `Disconnecting` is the set of those
whose harness may hang up.

**AuditContract** says what is promised without the mechanism: contact only
while open, record once and truthfully, tell only what is recorded, shut only
when nothing is in flight.  **GatewayContract** gives the refinement mapping;
`ImplementsContract` is the abstract specification as a property.

**ResponseStream** is one task with its upstream, its harness and one other
request that may fail its audit.  A chunk is its position in the body, so that
order, loss and duplication show; sizes are kept for the byte account.  The wait
for an audit failure is taken apart: `CreateNotified`, `LoadFlag` and
`AwaitNotified` are the three steps of `wait_for_audit_failure`, `Wake` is the
notification that arrives, and the other request stores the flag
(`OtherStoresFailure`), notifies (`OtherNotifies`) and reports (`OtherReports`) in
between.  The future lives as long as the select and is polled with each of its
turns; the three steps recur only after a wake-up.

**AuditWriter** splits an event into its bytes and its newline, so that a write
can be torn.  `WriteInBackground` is the blocking thread of the async file;
`io_error` is the error the file keeps for whoever calls next.  `Crash` keeps
any part of what was not synced; a directory or file whose entry was never synced
may be lost with all below it.  A start follows the code down the path: `Probe`
finds the deepest directory there is, `SyncExisting` syncs its own entry,
`CreateDirectory` and `SyncDirectory` alternate down to the log, `OpenLog` creates
or opens it, `SyncLog` syncs its entry and `CheckLog` looks at its last line.
`OpenFails` may end a start at any of these steps.

**AuditSink** says what a caller of the writer is promised, without files, mutexes
or threads: a line lands whole and once; it lands for a caller that waits or was
dropped, and never while another waits behind a line of its own, so the log is in the
order of the acknowledgements; an append that fails ends all appends until the next
start, and may leave its line; a crash takes lines from the end and none that was
acknowledged.  This is the view of the writer that `Gateway` is written to: `AppendOk`
is a landing and its acknowledgement, `AppendFails` a failure that may leave its line,
and after `DropHandler` the append may still land.  **AuditWriterSink** maps every
second cell of the file to a line of the log; `ImplementsSink` is the abstract
specification as a property of the writer.

**AuditEvent** is one request from its arrival to its event to the next start: the
error it meets, the class and status of that error, the event its constructor
builds, the readers of the single fields (`FieldsRead`) and the validator of their
combinations (`Valid`).
A path or query is known by its shape (how its length compares with the limit
and where a cut would fall) and by the first fault its parser would report.

**RequestAcceptance** starts with the operator's list of operations and ends
with the filtered response headers.  A text is a sequence of tokens: a byte of
one class the code tells apart, or a whole percent escape.  `SetPath` (the URL
library) and `ReadByProvider` (a provider that decodes before it splits) are
external and written as what they do.

**Startup** is the life of several processes on one log.  `Configure` is
`GatewayConfig::try_from`, with the bounds of every argument; `BuildAdapters`,
`OpenLog`, `MakeSemaphore` and `Bind` are the steps of `http::serve` in its order;
`Record`, `WriteFails`, `FatalStops` and `ServerStops` are what serving comes down
to for the log and the exit code; `Kill` may come anywhere, `Healthcheck` too.  A
request is its event: the run token and sequence number of its id, the origin, the
extremes of its size, and whether the validator of a later start reads its fields
back, which is left open here and settled by `AuditEvent`.  It may also end without
an event, as in Gateway.  `EndWithError` is main's last act: a process that cannot
write its error to the standard error stream panics with 101.

Operators named `X_Suffix`, just above the definition `X`, are mutants: `X` with
one plausible bug.  No specification uses them.  `PROJECT.json` says which
property catches which mutant; a property none of them can break would say
nothing about the code.

## 3. Runs

| Run | States | Question and answer |
|---|---|---|
| GatewaySafety | 1 240 000 | Three requests, two permits, all may hang up or panic over their events, one sink that may fail, an id sequence that lasts or runs out.  No send in flight after a returned `close_forwarding`, no answer before its event and no cut body for an allowed one, events unique and truthful about contact, open exchanges within the permits, an exchange without event or failure only where its own harness hung up or its own task panicked, and every step one of `AuditContract`.  Holds. |
| GatewayAttended | 26 000 | Two requests whose harnesses wait and whose tasks may panic.  An audit failure or a 500 stops the server, every request ends with its permit back.  Holds under the fairness below. |
| GatewayHangUp | violated | "Every request that reaches the gateway's decision path is audited": not one whose harness disconnects while `client.send` is awaited. |
| ResponseStream | 38 000 | Up to four chunks of one or two bytes, a channel of two, a limit of five bytes.  Withholding, order, one terminal event, bytes accounted but for a chunk in hand, recorded hang-ups, no missed audit failure, termination.  Holds. |
| StreamEmptyHangUp | violated | A hang-up before the terminal audit is recorded as `downstream_closed`: not for an empty body. |
| StreamCleanEnd | violated | Only a permanently stalled harness misses the error frame: one that resumes after the 50 ms grace sees a clean end of a truncated body. |
| AuditWriter | 41 000 | Four appends, two with callers that may be dropped, one oversized; three starts that create two directories and the log, and crash or fail anywhere.  Acknowledged is durable, no joined lines, the mutex is released, and every step is one of `AuditSink`.  Holds. |
| AuditEvent | 3 200 | Every conclusion for every plain target.  The reader accepts the writer's event, an authority is not disguised as another denial, the recorded URL is the one sent.  Holds. |
| EventRefused | violated | "Returns true for writer-shaped truncated audit text": on some targets that were cut the reader does not recognise what the writer wrote, so the next start refuses the log until an operator rotates it. |
| EventPanic | violated | "joined upstream query should parse": apostrophes are escaped by the join, and a query near its limit then fails to parse while its event is built. |
| RequestAcceptance | 96 000 | Every path of up to five tokens, every list of up to three of eleven operations, 1701 header maps each way.  The URL keeps the matched path, a decoding provider finds the same segments, the allowlist is segment-exact in both directions, a list is accepted exactly if it should be and its configuration is canonical, headers end or pass.  Holds. |
| Startup | 394 000 | Three starts on one log, every argument at and past both of its bounds, every fault of an origin or a list of operations, any step failing or killed.  Listening means valid, opened and whole; an invalid configuration touches no file and ends with 78, or with a panic if the error cannot be written, and nothing else ends with 78; ids never repeat; a run with a valid configuration fails only for a cause outside the program, a torn log or an event its start refuses.  Holds. |

**Bounds.**  Three requests are what the gate needs: one that sends, one that
closes, one that arrives between, with a third permit missing.  The id counter
starts at either of two values, so that one run sees three ids and another
sees the third allocation fail.  A channel of two and four chunks fill the
channel with one chunk withheld and one in hand.  Two crashes let a start fail
on, and recover, what the first left, and two directories are the fewest in which
one may be durable and the next not.  Four events put two live callers behind
a dropped one.  Paths of five tokens hold an escape, a dot segment and a plain
segment on either side of a separator; two longer ones hold an encoded double
dot in the middle.  Three listed operations are the fewest whose duplicates an
ill-chosen order could separate.  In Startup one argument departs from its default
at a time, because the parsers are independent of each other (the proofs cover
every combination), and `MaxStarts = 3`, `MaxEvents = 2` let a third run meet a
log of two earlier ones.  `MaxPermits` stands for `Semaphore::MAX_PERMITS`, which
the configuration's bound equals.  Symmetry is used in GatewaySafety, where
all requests may hang up or panic and none is distinguished, and in Startup, whose
run tokens are only compared; both check safety alone.

**Deadlock** is checked in every run.  Where the system may rest (the process has
stopped, or all requests have ended) a module says so with its action `Rest`.

**Fairness.**  A handler or task that can go on is polled (`WF` of its steps
together), the fatal message is received, the disk answers.  The runtime
schedules ready tasks, `request_timeout` bounds the body, the send and the
stream, and the gate is bounded by those.  Harnesses owe nothing: no request
need arrive, hang up or read.  The upstream owes nothing in ResponseStream,
where the timeout is a step of the task.  So `SendTerminalStreamError` has no
fairness in Gateway, unlike `SendStreamError`, which waits 50 ms at most, and
`TaskEndsUnlessStalled` excepts exactly the aborted stream in front of a full
channel: `send_terminal_stream_error` waits without bound for a harness that
neither reads nor closes.

**Timeouts.**  `docs/ARCHITECTURE.md:481-486` bounds each phase by
`request_timeout`.  The client's own deadline spans the send and the body stream
together; the stream sees it as one more failed read, classified as
`upstream_response_timeout`, so ResponseStream offers a timeout at every await and
measures no time.

## 4. What the properties are aimed at

The hazards are listed with their lines in `PROJECT.json`.  The main ones:
the flag is checked early and is stale when the send starts (`NoSendAfterClose`);
the handler is dropped at an await (`LostOnlyByHangUpOrPanic`, `OneEventPerRequest`);
a body ends cleanly although it is not whole (`NoUnauditedAnswer`,
`ImplementsContract`);
an append fails after its line landed (`OneEventPerRequest`, `NoJoinedLines`,
`ImplementsSink`); close queues for a fair lock between readers
(`FailureStopsServer`, `EveryRequestEnds`); the final slot is reserved before the
append (`LastChunkWithheld`, `HangUpIsRecorded`); another request's failure lands
between the check of the flag and the wait for its notification
(`NoMissedFailure`); crash between create, write and sync (`AckedIsDurable`); writer
against reader (`EveryEventReadBack`); a limit accepted at the start that an
ordinary event or the semaphore later fails on (`FailsOnlyWhenItMust`); two runs'
ids in one log (`IdsUnique`); spelling
against structure (`JoinKeepsPath`, `ProviderReadsMatchedSegments`).

`AuditFailureStopsServer` is checked with `Disconnecting = {}`.  It does not hold
otherwise: the handler that finds the failure can be dropped while it waits for
the write lock, before it reports.  The gateway then answers 500 to the next
request, and reports that, so a further request is needed to stop it.
ResponseStream allows for this with `ReporterHangsUp = TRUE`.

## 5. Findings

Each is a run that TLC must find violated; `PROJECT.json` quotes the text it
contradicts.

1. GatewayHangUp (`http.rs:571`): contacted, dropped, never audited.
2. StreamEmptyHangUp (`http.rs:673`): an empty body is `allowed` to nobody.
3. StreamCleanEnd (`http.rs:832`): a slow harness sees a clean end.
4. EventRefused (`audit.rs:2932`): a cut that falls inside a multi-byte character
   leaves a text shorter than the reader expects.  And an absolute-form target
   whose text before the query fits and whose query is cut has no recognisable
   authority (`audit.rs:977`), as has one whose cut leaves no valid authority.
5. EventPanic (`audit.rs:2401`): the assertion fails after the provider was
   contacted; the panic ends the task and no event is appended.  Its consequences
   are in `Gateway`: `EventPanics` loses the event and nothing else, which
   `LostOnlyByHangUpOrPanic` names as the second way to lose one.  ResponseStream
   is written for requests whose events can be built.

The passing AuditEvent run leaves out just the targets of 4 (`PlainTargets`), and
keeps the queries of 5.

Two of a start's refusals are exceptions in the statement of `FailsOnlyWhenItMust`,
because a run with a valid configuration can leave what the next start refuses.
One is the event of finding 4: the start ends with exit code 70 until an operator
rotates the log.  The other is an origin: the limit of 255 bytes is applied to it
as it was given, the log records its normal form, and the next start applies the
limit to that.  A host name in another script is longer in its ASCII form.

## 6. What is proved

Every theorem below is checked by TLAPS for all values of the constants, under the
named assumption of its module (`GatewayAssumption`, `StreamAssumption`,
`WriterAssumption`, `EventAssumption`, `StartupAssumption`, `AcceptanceAssumption`),
which says no more than what the constants are.  RequestAcceptance has a second one,
`InputsAssumption`: paths are texts, of any length, lists of operations are finite,
and so are header maps.  Where a theorem needs more, it says so.

Every invariant, action property and refinement of the passing runs is the statement
of one of these theorems; only the liveness properties are not.  Two theorems state what
no passing run lists: `EveryExchangeAudited` follows from `LostOnlyByHangUpOrPanic`, and
`NoDuplicates` is implied by `ImplementsSink`.

| Module | Theorem | States |
|---|---|---|
| GatewayProofs | `TypeCorrect` | `[]TypeOK` |
| | `ClosedGateDrained` | `[]NoSendAfterClose` |
| | `AuditedBeforeAnswered` | `[]NoUnauditedAnswer` |
| | `LogTruthful` | `[]LogTellsContact` |
| | `EventsUnique` | `[]OneEventPerRequest` |
| | `ConcurrencyBounded` | `[]UpstreamConcurrencyBounded` |
| | `OthersLoseNoEvent` | `[]LostOnlyByHangUpOrPanic` |
| | `ExchangesAudited` | `[]EveryExchangeAudited`, if `Disconnecting = {}` and `Outgrowing = {}` |
| GatewayContractProofs | `GatewayImplementsContract` | `ImplementsContract`, the refinement |
| ResponseStreamProofs | `TypeCorrect` | `[]TypeOK` |
| | `NoFailureMissed` | `[]NoMissedFailure` |
| | `OneTerminalEvent` | `[]AtMostOneTerminalEvent` |
| | `HangUpsRecorded` | `[]HangUpIsRecorded` |
| | `FramesInOrder` | `[]InOrder` |
| | `LastChunkKept` | `[]LastChunkWithheld` |
| | `ErrorsAfterAudit` | `[]ErrorAfterAudit` |
| | `BytesAccounted` | `[]AccountedBytes` |
| AuditWriterProofs | `TypeCorrect` | `[]TypeOK` |
| | `LinesNeverJoined` | `[]NoJoinedLines` |
| | `NoEventTwice` | `[]NoDuplicates` |
| | `AcknowledgedIsDurable` | `[]AckedIsDurable` |
| | `WriterImplementsSink` | `ImplementsSink`, the refinement |
| AuditEventProofs | `TypeCorrect` | `[]TypeOK` |
| | `UpstreamTargetForwarded` | `[]UpstreamTargetIsForwarded` |
| | `EventsReadBack` | `[]EveryEventReadBack`, if every target is `Plain` |
| | `AuthoritiesShow` | `[]AuthorityNotDisguised`, if every target is `Plain` |
| RequestAcceptanceProofs | `WithinLimits` | `[]TypeOK` |
| | `JoinKeepsEveryPath` | `[]JoinKeepsPath` |
| | `ProviderReadsTheSegments` | `[]ProviderReadsMatchedSegments` |
| | `DecidedAsListed` | `[]AllowedAsListed` |
| | `ConfiguredOneWay` | `[]ConfigurationCanonical` |
| | `HeadersAreFiltered` | `[]HeadersEndOrPass` |
| StartupProofs | `TypeCorrect` | `[]TypeOK` |
| | `FailsClosed` | `[]FailClosed` |
| | `ConfigErrorsLeaveNoTrace` | `ConfigErrorLeavesNoTrace`, an action property |
| | `IdsAreUnique` | `[]IdsUnique` |
| | `FailuresHaveACause` | `[]FailsOnlyWhenItMust` |

None of the safety properties is inductive as it stands.  The strengthenings:

**Gateway.**
- `GateInv`.  `NoSendAfterClose` alone would allow a reader past the flag check
  at the moment a close returns.  The strengthening says that a returned close,
  and a close under way, imply the flag, and that whoever is about to send or
  sends holds a read guard.  The write lock is granted with no guard held, so
  nobody sends then; whoever gets a guard later finds the flag.
- `AnswerInv`.  A request at `appended` has an event with its decision in the
  log, and so has one whose answer stands for a decision; a request that owes an
  answer has not been given one.  The log only grows (`RecordedStays`), and the
  append records exactly what is owed (`AppendRecords`).
- `CutInv`.  A body is cut by a panic, or by `send_stream_error`, which is reached
  with the failure recorded or the audit failed, and only for a body that is to be
  recorded as failed.  `GateInv` says that the flag is set wherever a stream is
  aborted, `ContactInv` that a request's decision stays that of its event, so a cut
  body is never recorded as allowed.
- `ContactInv`.  Before the send a request is not in `contacted`; while it sends
  or streams it is; at `append` its decision is a denial exactly if it is not.
  No request in the log stands at a location from which it could still append.
- `IdentityInv`.  A request has no number before the allocation and one after
  it; numbers are at most the counter and no two requests share one, because the
  claim and the advance are one step; the log holds the number of its request.
  With ContactInv this makes both halves of an event's identity unique.
- `PermitInv`.  Every request between its admission and the end of its exchange
  holds a permit, and the permits are a finite set within the limit.
- `ExchangeInv`.  A request stands on the way of a failed audit only if the flag is
  set, one that is done after contact is recorded or the flag is set, only a request
  whose harness may hang up is dropped, and only one of `Outgrowing` panics.  So
  whatever the others do, an exchange is lost by its own harness or its own query
  alone; GatewayHangUp and EventPanic show that it is lost then, and
  `ExchangesAudited` is the case in which there are no such requests.
- `RefinementInv` joins invariants of this list with `ReplyInv`.  Each action is shown to be
  one action of the contract or a stutter, by what it does to the flight, the
  records, what harnesses were told and the gate.

**ResponseStream.**
- `WatchInv`.  A task that has passed the check of the flag did so before the flag
  was stored; its `Notified` future is older than the check, so the notification
  that follows the store finds it.
- `AuditInv`.  What is withheld and recorded at every location: nothing is recorded
  up to the terminal audit, and afterwards the event is there or auditing failed.
- `SentInv`.  Frame `i` is chunk `i`, and the frames sent end right before the
  withheld chunk while the harness holds the body.  A reserved slot belongs to the
  last chunk of a body that is being audited as allowed.
- `BytesInv`.  The account is at least the sizes of the frames sent, and of the
  withheld chunk with them as long as it may still be sent; it is within the limit
  while the task reads.  It is all that was read wherever the task reads, fails or
  reserves the final slot; at the flush the chunk in hand is not in it yet, and a
  hang-up or timeout there is the one case in which the event leaves bytes out
  (`Accounted`).  The sizes of what was sent are a sum over a prefix of the body, by
  `SentInv`.

**AuditWriter.**
- `StartInv`.  The entries of the path are durable up to the last one, and by the
  time the log is checked all of them are.
- `MutexInv`.  Only the holder of the mutex is past its lock, the writer it holds is
  not poisoned, nothing is in the background while an error is pending, and a torn
  tail is known to somebody: as a pending error or as the poisoned flag.
- `LineInv`.  An event has cells in the file only once its caller is past the write.
- `DurableInv`.  At the flush the line is in the background, lost to an error, or in
  the file; at the commit it is in the file; once acknowledged it is in the synced
  part.
- `LinesInv` joins these with `Alternating` (bodies and newlines take turns in the
  file, because nothing is written behind a torn tail) and `BackgroundOwned` (what is
  in the background belongs to the one caller at its flush, or to a dropped one).
  Under it every second cell is a newline and the mapping gives the log's lines: a
  background write appends one line or none (`LinesGrow`), a crash leaves a prefix
  (`LinesCut`).  Each step is then shown to be one step of the sink or a stutter.

**AuditEvent.**  `ForwardInv` follows the URL from the join to the event.  `ReadInv`
says of each location what the checks passed so far have established (a method that
is not too long, no authority, no rejection), which is what the validator asks of
the events of whatever may end the request next.  `Plain` is what the run's
`PlainTargets` is: no multi-byte character across a cut, a cut leaves an authority
behind, and the query behind an authority is cut only with its path.

**Startup.**  `ClosedInv`: past the parser the configuration is valid, past the
reading of the log only this run tears it.  `IdsInv`: the tokens in the log were all
drawn, and the numbers under this run's token are those its counter has passed.
`CauseInv`: origins in the log are normal forms of accepted ones, so that a whole
log is refused only for an origin that became too long or for an event whose fields
do not read (`RefusedForAnEvent`), and a fatal error has an outside cause; that needs the arithmetic of `LargestEvent` against the
minimum of the event limit.

**RequestAcceptance.**  `AcceptanceInv` says what each stage has established:
`ConfiguredInv` that the operations are the operator's, sorted and without equal
neighbours, `AcceptedInv` that an accepted path has no fault and that the allowlist
decided the rest, `ForwardedInv` that what was sent is what the join and the filters
make of the input.  The steps are simple.  The work is in what the operators compute
of a text of any length:

- *Splitting.*  Joining the parts of a split gives the text back, and splitting the
  join of parts that hold no separator gives the parts back.  So an equality of texts
  is an equality of segments.
- *The join.*  A path without a fault has no backslash and no segment that decodes to
  a dot segment, so the library's `RemoveDotSegments` keeps every segment, and
  `SetPath` joins what it split (`SetPathKeeps`).
- *The provider.*  No escape in such a path decodes to a separator, so decoding and
  splitting commute, and what is split has no dot segment either (`ProviderReads`).
- *The allowlist.*  A prefix matches a text at a segment boundary exactly if its
  segments begin the text's segments (`Matches` against `Covers`).
- *The configuration.*  `Before` is a strict total order on operations.  Hence two
  sorted arrangements of one list agree at the first place, and so everywhere; an
  unstable sort has one result, and what is equal is adjacent in it.  Conversely
  equal neighbours were two entries of the list, because an arrangement takes each
  position once: with `ChoiceInv` exactly the lists that should be are accepted.
- *The headers.*  What ends is what the Connection tokens, the hop-by-hop names and
  the removed ones make up, and all else passes with its values.  The bytes of a header map are a sum over its names, and a filter
  leaves fewer names and no more bytes.

**Induction.**  What a fold computes is shown by induction over its argument.  The
library's induction theorems take the statement as an operator, which the provers
here cannot instantiate, so `Induction` states induction for a *set* instead: a set of
sequences that holds `<<>>` and with each sequence its extensions holds them all,
and likewise for numbers and finite sets.  That follows from the well-foundedness of
the numbers.  A use defines the set of those values of which the statement is true.
`FoldExists` gives the folds of the community modules their equations, `SumExists`
and `SumMonotone` are about sums over finite sets.

TLC finds each strengthening an invariant of the instances of section 3 as well
(in `ExchangeInv` the unbounded quantifier over decisions reads `EventsOf(r) # {}`;
in `ConfiguredInv` the sorted arrangements are enumerated at `listening` only).

Checked by TLC only is liveness (`AuditFailureStopsServer`, `FailureStopsServer`,
`EveryRequestEnds`, `TaskEndsUnlessStalled`, `EveryAppendReturns`): fairness and
ENABLED are out of the prover's reach.  So are the violated statements of section 5,
whose counterexamples need no proof, and the targets that are not `Plain`, for which
the theorems of AuditEvent do not hold.

## 7. What is not modelled

- The path that fails to build a response after its event
  (`GatewayError::ResponseBuild`), which the code's own types rule out.
- The query parser byte by byte: a query is its shape and fault in AuditEvent,
  and it has no structure the allowlist reads.
- Digests, timestamps, JSON text and its syntax errors; AuditEvent starts at the
  fields, Startup adds that ids are numbers above zero and distinct, and leaves open
  which events read back.
- The syntax of the command line and the environment: the argument library reads
  them (its own exit code for a usage error is 2), Startup begins with the values.
  The bind address is a parsed value by then.
- Which fault of an invalid configuration is reported: the order of the checks is
  kept, the message is not.
- Two processes that append to one log at the same time: nothing in the code
  detects it.  That two runs draw different tokens is an assumption about the
  operating system's entropy (128 bits).
- The HTTP client's own connection pool, retries and error texts; its classes of
  error are modelled.
- `sim.rs`, the tests, the fuzz targets and the scripts, which are not part of the
  program.  They were read for what their authors expect.  The source files also
  hold their unit tests inline, which are most of their lines: no definition stands
  for a test, so the mapped lines are a small share of the files and about two
  thirds of the program's own lines.
- External and written as the code uses them: hyper's cancellation, the tokio
  channel, semaphore, lock, notification and file, the http crate's URI rules (it
  lets non-ASCII bytes through), the URL library, the file system and the provider.

## 8. Plan

Done, in this order: Gateway with its contract and first proofs, ResponseStream,
AuditWriter, AuditEvent, RequestAcceptance; then the notification protocol in
ResponseStream, the directories of the log in AuditWriter, Startup, and the proofs
of all of them with the refinement; then the byte account, and the parsers, folds and
sums of RequestAcceptance; then the sink as the writer's abstract specification.

What would extend it:

1. Gateway over `AuditSink`: its append steps replaced by the sink's, so that the
   refinement of the writer carries over to the whole.
2. A second stream in ResponseStream, so that two streams wait for one failure.
