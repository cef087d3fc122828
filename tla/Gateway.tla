------------------------------ MODULE Gateway ------------------------------
(***************************************************************************)
(* The provider gateway's request path: proxy, handle_request and          *)
(* forward_request of http.rs over the Gateway state of gateway.rs.        *)
(*                                                                         *)
(* Every request is a process.  Between two await points a handler runs    *)
(* on one thread, but handlers run on many threads, so every access to     *)
(* state the requests share (the audit_failed flag, the concurrency        *)
(* semaphore, the request-id counter, the forwarding gate, the audit sink, *)
(* the fatal-error channel) is an action of its own.                       *)
(*                                                                         *)
(* The streamed part of a response is one wait here ("streaming"); its     *)
(* detail is module ResponseStream.  The audit sink appends an event in    *)
(* one step here; its detail is module AuditWriter.                        *)
(***************************************************************************)
EXTENDS Naturals, Sequences, FiniteSets, SequencesExt

CONSTANTS
  Requests,        \* the requests harnesses may send
  MaxConcurrent,   \* CUSTODE_MAX_CONCURRENT_REQUESTS, the semaphore's permits
  MaxSequence,     \* the largest request sequence number (u64::MAX in the code)
  Allocated,       \* numbers the counter may stand at: earlier requests, now ended,
                   \* have claimed them (a fresh process stands at 0)
  Disconnecting,   \* requests whose harness may hang up before its response starts
  Outgrowing       \* requests whose query may outgrow its limit once it is joined to
                   \* the upstream's base URL (a tight request of module AuditEvent)

ASSUME GatewayAssumption ==
  /\ MaxConcurrent \in Nat \ {0}
  /\ MaxSequence \in Nat
  /\ Allocated \subseteq 0 .. MaxSequence
  /\ Disconnecting \subseteq Requests
  /\ Outgrowing \subseteq Requests

Decisions == {"allowed", "denied", "upstream_error", "response_error"}

Event == [req : Requests, sequence : Nat, decision : Decisions]

(***************************************************************************)
(* Where a handler, or the stream task it spawned, stands.                 *)
(***************************************************************************)
Location ==
  {"idle", "proxy", "admit", "allocate", "accept", "body",  \* before the gate
   "gate", "begin", "sending", "streaming",                 \* upstream exchange
   "append", "appended",                                    \* the required event
   "close", "lock", "drain", "report",                      \* close_forwarding
   "abort", "done", "dropped", "panicked"}

Ended == {"done", "dropped", "panicked"}

(***************************************************************************)
(* What the harness has seen of the response.  "head" is a response head   *)
(* with a body still streaming, "complete" that body ended with its last   *)
(* chunk, "broken" that body ended by an error.  "cut" is that body ended  *)
(* as if it were complete, because the stream task went away without an    *)
(* error and with whatever chunk it still held back.                       *)
(***************************************************************************)
Reply == {"none", "denied", "bad_gateway", "internal_error",
          "head", "complete", "broken", "cut"}

VARIABLES
  pc,              \* request -> Location
  reply,           \* request -> Reply
  sequence,        \* request -> its request-id sequence number, 0 for none
  decision,        \* request -> decision of the event it must append
  last_allocated,  \* SequentialRequestIds.last_allocated
  permits,         \* requests that hold a concurrency permit
  audit_failed,    \* Gateway.audit_failed
  readers,         \* requests that hold a read guard of forwarding_gate
  waiters,         \* tasks queued on forwarding_gate, first come first served
  contacted,       \* requests whose upstream send was started
  log,             \* the events of these requests whose whole line is in the audit log
  poisoned,        \* whether the sink refuses every further append
  closed,          \* requests whose close_forwarding call has returned
  fatal_errors,    \* whether the fatal-error channel holds a message
  exited           \* whether the process has stopped serving

vars == <<pc, reply, sequence, decision, last_allocated, permits, audit_failed,
          readers, waiters, contacted, log, poisoned, closed, fatal_errors, exited>>

idVars   == <<sequence, last_allocated>>
gateVars == <<readers, waiters>>
sinkVars == <<log, poisoned>>

Undecided == "undecided"

TypeOK ==
  /\ pc \in [Requests -> Location]
  /\ reply \in [Requests -> Reply]
  /\ sequence \in [Requests -> 0 .. MaxSequence]
  /\ decision \in [Requests -> Decisions \cup {Undecided}]
  /\ \A r \in Requests : pc[r] \in {"append", "appended"} => decision[r] # Undecided
  /\ last_allocated \in 0 .. MaxSequence
  /\ permits \subseteq Requests
  /\ audit_failed \in BOOLEAN
  /\ readers \subseteq Requests
  /\ waiters \in Seq(Requests)
  /\ contacted \subseteq Requests
  /\ log \in Seq(Event)
  /\ poisoned \in BOOLEAN
  /\ closed \subseteq Requests
  /\ fatal_errors \in BOOLEAN
  /\ exited \in BOOLEAN

Init ==
  /\ pc = [r \in Requests |-> "idle"]
  /\ reply = [r \in Requests |-> "none"]
  /\ sequence = [r \in Requests |-> 0]
  /\ decision = [r \in Requests |-> Undecided]
  /\ last_allocated \in Allocated
  /\ permits = {}
  /\ audit_failed = FALSE
  /\ readers = {}
  /\ waiters = <<>>
  /\ contacted = {}
  /\ log = <<>>
  /\ poisoned = FALSE
  /\ closed = {}
  /\ fatal_errors = FALSE
  /\ exited = FALSE

-----------------------------------------------------------------------------
(* Helpers                                                                 *)

Goto(r, from, to) ==
  /\ ~exited
  /\ pc[r] = from
  /\ pc' = [pc EXCEPT ![r] = to]

Answer(r, what) == reply' = [reply EXCEPT ![r] = what]

\* The request must append an event with this decision before it ends.
MustAudit(r, what) == decision' = [decision EXCEPT ![r] = what]

\* report_fatal_error: the message is queued for run_until_server_stops.
ReportFatal == fatal_errors' = TRUE

\* Mutant of FailRequest: the failure is answered but never reported.
FailRequest_Unreported(r) ==
  /\ permits' = permits \ {r}
  /\ Answer(r, "internal_error")
  /\ UNCHANGED fatal_errors

\* A handler error: the permit is dropped, the failure reported, 500 returned.
FailRequest(r) ==
  /\ permits' = permits \ {r}
  /\ Answer(r, "internal_error")
  /\ ReportFatal

\* A response that has started is finished by its stream task.
Started(r) == reply[r] = "head"

\* What send_stream_error makes of a body: it waits for a slow harness to make room
\* for the error only as long as TERMINAL_STREAM_ERROR_GRACE.
FailedBody == {"broken", "cut"}

\* The harness-visible results the request may have once its event is in the log.
RepliesFor(r) ==
  CASE decision[r] = "denied"    -> {"denied"}
    [] decision[r] = "allowed"   -> {"complete"}
    [] decision[r] = "response_error" /\ Started(r) -> FailedBody
    [] OTHER                     -> {"bad_gateway"}

-----------------------------------------------------------------------------
(* proxy                                                                   *)

\* The server accepts a request and runs its handler.
Arrive(r) ==
  /\ Goto(r, "idle", "proxy")
  /\ UNCHANGED <<reply, idVars, decision, permits, audit_failed, gateVars,
                 contacted, sinkVars, closed, fatal_errors, exited>>

\* proxy asks require_audit_available before anything else.
RequireAuditAvailable(r) ==
  /\ \/ /\ ~audit_failed
        /\ Goto(r, "proxy", "admit")
        /\ UNCHANGED <<permits, reply, fatal_errors>>
     \/ /\ audit_failed
        /\ Goto(r, "proxy", "done")
        /\ FailRequest(r)
  /\ UNCHANGED <<idVars, decision, audit_failed, gateVars, contacted, sinkVars,
                 closed, exited>>

\* try_acquire_owned never waits: without a permit the request is denied.
TryAcquire(r) ==
  /\ Goto(r, "admit", "allocate")
  /\ IF Cardinality(permits) < MaxConcurrent
       THEN permits' = permits \cup {r}
       ELSE UNCHANGED permits
  /\ UNCHANGED <<reply, idVars, decision, audit_failed, gateVars, contacted,
                 sinkVars, closed, fatal_errors, exited>>

\* fetch_update with checked_add: an exhausted sequence is fatal, never reused.
AllocateRequestId(r) ==
  /\ \/ /\ last_allocated < MaxSequence
        /\ last_allocated' = last_allocated + 1
        /\ sequence' = [sequence EXCEPT ![r] = last_allocated + 1]
        /\ IF r \in permits
             THEN Goto(r, "allocate", "accept") /\ UNCHANGED decision
             ELSE Goto(r, "allocate", "append") /\ MustAudit(r, "denied")
        /\ UNCHANGED <<permits, reply, fatal_errors>>
     \/ /\ last_allocated = MaxSequence
        /\ Goto(r, "allocate", "done")
        /\ FailRequest(r)
        /\ UNCHANGED <<idVars, decision>>
  /\ UNCHANGED <<audit_failed, gateVars, contacted, sinkVars, closed, exited>>

-----------------------------------------------------------------------------
(* handle_request                                                          *)

\* The target, the allowlist and the request headers are accepted or denied.
AcceptTarget(r) ==
  /\ \/ Goto(r, "accept", "body") /\ UNCHANGED decision
     \/ Goto(r, "accept", "append") /\ MustAudit(r, "denied")
  /\ UNCHANGED <<reply, idVars, permits, audit_failed, gateVars, contacted,
                 sinkVars, closed, fatal_errors, exited>>

\* Mutant of ReadBody: a failed body is sent to the audit without a decision.
ReadBody_Undecided(r) ==
  /\ Goto(r, "body", "append")
  /\ UNCHANGED <<reply, idVars, decision, permits, audit_failed, gateVars,
                 contacted, sinkVars, closed, fatal_errors, exited>>

\* The body is read within its timeout; the request then queues at the gate.
\* A body that is too large, fails or times out is denied.
ReadBody(r) ==
  /\ \/ /\ Goto(r, "body", "gate")
        /\ waiters' = Append(waiters, r)
        /\ UNCHANGED decision
     \/ /\ Goto(r, "body", "append")
        /\ MustAudit(r, "denied")
        /\ UNCHANGED waiters
  /\ UNCHANGED <<reply, idVars, permits, audit_failed, readers, contacted,
                 sinkVars, closed, fatal_errors, exited>>

-----------------------------------------------------------------------------
(* forward_request and Gateway::begin_forwarding                           *)

\* The gate is a fair read-write lock: readers share it, first come first served.
AcquireRead(r) ==
  /\ Goto(r, "gate", "begin")
  /\ waiters # <<>> /\ Head(waiters) = r
  /\ waiters' = Tail(waiters)
  /\ readers' = readers \cup {r}
  /\ UNCHANGED <<reply, idVars, decision, permits, audit_failed, contacted,
                 sinkVars, closed, fatal_errors, exited>>

\* Only a task that holds the read guard looks at the flag; then it sends.
BeginForwarding(r) ==
  /\ \/ /\ ~audit_failed
        /\ Goto(r, "begin", "sending")
        /\ contacted' = contacted \cup {r}
        /\ UNCHANGED <<readers, permits, reply, fatal_errors>>
     \/ /\ audit_failed
        /\ Goto(r, "begin", "done")
        /\ readers' = readers \ {r}
        /\ FailRequest(r)
        /\ UNCHANGED contacted
  /\ UNCHANGED <<idVars, decision, audit_failed, waiters, sinkVars, closed, exited>>

\* Mutants of SendReturns: the permit ends with the response head; the read
\* guard lives on; a failed upstream is audited as a denial.
SendReturns_PermitDropped(r) ==
  /\ Goto(r, "sending", "streaming")
  /\ Answer(r, "head")
  /\ readers' = readers \ {r}
  /\ permits' = permits \ {r}
  /\ UNCHANGED <<idVars, decision, audit_failed, waiters, contacted, sinkVars,
                 closed, fatal_errors, exited>>

SendReturns_GuardKept(r) ==
  /\ Goto(r, "sending", "streaming")
  /\ Answer(r, "head")
  /\ UNCHANGED <<idVars, decision, permits, audit_failed, gateVars, contacted,
                 sinkVars, closed, fatal_errors, exited>>

SendReturns_AuditedAsDenial(r) ==
  /\ Goto(r, "sending", "append")
  /\ MustAudit(r, "denied")
  /\ readers' = readers \ {r}
  /\ UNCHANGED <<reply, idVars, permits, audit_failed, waiters, contacted,
                 sinkVars, closed, fatal_errors, exited>>

\* client.send returns, the read guard is released and either the stream task
\* takes over the permit, or the upstream or its headers failed.
SendReturns(r) ==
  /\ readers' = readers \ {r}
  /\ \/ /\ Goto(r, "sending", "streaming")
        /\ Answer(r, "head")
        /\ UNCHANGED decision
     \/ /\ Goto(r, "sending", "append")
        /\ \E failure \in {"upstream_error", "response_error"} : MustAudit(r, failure)
        /\ UNCHANGED reply
  /\ UNCHANGED <<idVars, permits, audit_failed, waiters, contacted, sinkVars,
                 closed, fatal_errors, exited>>

-----------------------------------------------------------------------------
(* response_stream: the spawned task, which owns the permit                *)

\* Mutant of StreamEnds: a failed stream is aborted without its event.
StreamEnds_Unaudited(r) ==
  /\ Goto(r, "streaming", "abort")
  /\ UNCHANGED <<reply, idVars, decision, permits, audit_failed, gateVars,
                 contacted, sinkVars, closed, fatal_errors, exited>>

\* The stream reaches its end, or fails, and owes its terminal event.
StreamEnds(r) ==
  /\ Goto(r, "streaming", "append")
  /\ \E outcome \in {"allowed", "response_error"} : MustAudit(r, outcome)
  /\ UNCHANGED <<reply, idVars, permits, audit_failed, gateVars, contacted,
                 sinkVars, closed, fatal_errors, exited>>

\* wait_for_audit_failure wins the select: the stream is aborted, unaudited.
AuditUnavailable(r) ==
  /\ audit_failed
  /\ Goto(r, "streaming", "abort")
  /\ UNCHANGED <<reply, idVars, decision, permits, audit_failed, gateVars,
                 contacted, sinkVars, closed, fatal_errors, exited>>

\* The aborted stream ends and its task with it.
EndStream(r) ==
  /\ Goto(r, "abort", "done")
  /\ permits' = permits \ {r}
  /\ UNCHANGED <<idVars, decision, audit_failed, gateVars, contacted, sinkVars,
                 closed, fatal_errors, exited>>

\* The stream had failed before its event did: the error is delivered, or given up
\* after the grace.
SendStreamError(r) ==
  /\ decision[r] = "response_error"
  /\ EndStream(r)
  /\ \E what \in FailedBody : Answer(r, what)

\* Mutant of SendTerminalStreamError: the withheld chunk goes out without its event.
SendTerminalStreamError_Released(r) ==
  /\ decision[r] # "response_error"
  /\ EndStream(r)
  /\ Answer(r, "complete")

\* The audit was unavailable, or the event of a whole body was refused: the error is
\* delivered however long that takes, or nobody is left to take it.
SendTerminalStreamError(r) ==
  /\ decision[r] # "response_error"
  /\ EndStream(r)
  /\ Answer(r, "broken")

-----------------------------------------------------------------------------
(* append_required_audit_event and close_forwarding                        *)

NewEvent(r) == [req |-> r, sequence |-> sequence[r], decision |-> decision[r]]

\* The sink accepted the event: it is on stable storage before the caller goes on.
AppendOk(r) ==
  /\ ~poisoned
  /\ Goto(r, "append", "appended")
  /\ log' = Append(log, NewEvent(r))
  /\ UNCHANGED <<reply, idVars, decision, permits, audit_failed, gateVars,
                 contacted, poisoned, closed, fatal_errors, exited>>

\* Mutants of AppendFails: the error is ignored; the append is tried again.
AppendFails_Ignored(r) ==
  /\ Goto(r, "append", "appended")
  /\ poisoned' = TRUE
  /\ UNCHANGED <<reply, idVars, decision, permits, audit_failed, gateVars,
                 contacted, log, closed, fatal_errors, exited>>

AppendFails_Retried(r) ==
  /\ Goto(r, "append", "append")
  /\ log' \in {log, Append(log, NewEvent(r))}
  /\ UNCHANGED <<reply, idVars, decision, permits, audit_failed, gateVars,
                 contacted, poisoned, closed, fatal_errors, exited>>

\* The sink returned an error: it is poisoned already, or the event is over the
\* size limit, or the write failed and poisons it.  A write may fail after the
\* line is in the file, when it is flushed or committed.
AppendFails(r) ==
  /\ Goto(r, "append", "close")
  /\ \/ UNCHANGED sinkVars
     \/ /\ ~poisoned /\ poisoned' = TRUE
        /\ log' \in {log, Append(log, NewEvent(r))}
  /\ UNCHANGED <<reply, idVars, decision, permits, audit_failed, gateVars,
                 contacted, closed, fatal_errors, exited>>

\* AuditUpstreamTarget::from_url panics on a query that outgrew its limit: the task
\* that builds the event of a contacted request dies.  No append is tried and no
\* failure reported; a handler's connection is gone, a stream's sender dropped.
EventPanics(r) ==
  /\ r \in Outgrowing /\ decision[r] # "denied"
  /\ Goto(r, "append", "panicked")
  /\ permits' = permits \ {r}
  /\ IF Started(r) THEN Answer(r, "cut") ELSE UNCHANGED reply
  /\ UNCHANGED <<idVars, decision, audit_failed, gateVars, contacted, sinkVars,
                 closed, fatal_errors, exited>>

\* With its event in the log the request is answered and its permit dropped.
Complete(r) ==
  /\ Goto(r, "appended", "done")
  /\ \E what \in RepliesFor(r) : Answer(r, what)
  /\ permits' = permits \ {r}
  /\ UNCHANGED <<idVars, decision, audit_failed, gateVars, contacted, sinkVars,
                 closed, fatal_errors, exited>>

\* close_forwarding stores the flag and wakes the streams that wait for it ...
StoreAuditFailed(r) ==
  /\ Goto(r, "close", "lock")
  /\ audit_failed' = TRUE
  /\ UNCHANGED <<reply, idVars, decision, permits, gateVars, contacted, sinkVars,
                 closed, fatal_errors, exited>>

\* ... then asks for the write lock of the gate ...
RequestWrite(r) ==
  /\ Goto(r, "lock", "drain")
  /\ waiters' = Append(waiters, r)
  /\ UNCHANGED <<reply, idVars, decision, permits, audit_failed, readers,
                 contacted, sinkVars, closed, fatal_errors, exited>>

\* Mutant of AcquireWrite: close_forwarding does not wait for sends in flight.
AcquireWrite_NotDrained(r) ==
  /\ Goto(r, "drain", "report")
  /\ waiters' = SelectSeq(waiters, LAMBDA task : task # r)
  /\ closed' = closed \cup {r}
  /\ UNCHANGED <<reply, idVars, decision, permits, audit_failed, readers,
                 contacted, sinkVars, fatal_errors, exited>>

\* ... which it is granted once no upstream send holds a read guard, and drops
\* at once: close_forwarding returns.
AcquireWrite(r) ==
  /\ Goto(r, "drain", "report")
  /\ readers = {}
  /\ waiters # <<>> /\ Head(waiters) = r
  /\ waiters' = Tail(waiters)
  /\ closed' = closed \cup {r}
  /\ UNCHANGED <<reply, idVars, decision, permits, audit_failed, readers,
                 contacted, sinkVars, fatal_errors, exited>>

\* A handler returns its error through report_request_failure; a stream task
\* reports the failure itself and goes on to abort the stream.
ReportAuditFailure(r) ==
  /\ \/ /\ ~Started(r)
        /\ Goto(r, "report", "done")
        /\ FailRequest(r)
     \/ /\ Started(r)
        /\ Goto(r, "report", "abort")
        /\ ReportFatal
        /\ UNCHANGED <<permits, reply>>
  /\ UNCHANGED <<idVars, decision, audit_failed, gateVars, contacted, sinkVars,
                 closed, exited>>

-----------------------------------------------------------------------------
(* The environment and the server                                          *)

\* A harness that hangs up before its response starts makes the HTTP server
\* drop the handler's future at the await it is suspended in: the permit, the
\* read guard and the place in the gate's queue go with it.  An append that the
\* sink had taken up still lands.
DropHandler(r) ==
  /\ r \in Disconnecting /\ ~Started(r)
  /\ \E await \in {"body", "gate", "sending", "append", "drain"} :
       /\ Goto(r, await, "dropped")
       /\ log' \in IF await = "append" /\ ~poisoned
                     THEN {log, Append(log, NewEvent(r))} ELSE {log}
  /\ IF \E i \in DOMAIN waiters : waiters[i] = r
       THEN \E i \in DOMAIN waiters : waiters[i] = r /\ waiters' = RemoveAt(waiters, i)
       ELSE UNCHANGED waiters
  /\ readers' = readers \ {r}
  /\ permits' = permits \ {r}
  /\ UNCHANGED <<reply, idVars, decision, audit_failed, contacted, poisoned,
                 closed, fatal_errors, exited>>

\* run_until_server_stops: the first fatal message ends the process.
Exit ==
  /\ fatal_errors /\ ~exited
  /\ exited' = TRUE
  /\ UNCHANGED <<pc, reply, idVars, decision, permits, audit_failed, gateVars,
                 contacted, sinkVars, closed, fatal_errors>>

\* The system may rest only when the process has stopped or every request ended.
Rest ==
  /\ exited \/ \A r \in Requests : pc[r] \in Ended
  /\ UNCHANGED vars

HandlerStep(r) ==
  \/ RequireAuditAvailable(r) \/ TryAcquire(r) \/ AllocateRequestId(r)
  \/ AcceptTarget(r) \/ ReadBody(r)
  \/ AcquireRead(r) \/ BeginForwarding(r) \/ SendReturns(r)

StreamStep(r) ==
  \/ StreamEnds(r) \/ AuditUnavailable(r)
  \/ SendStreamError(r) \/ SendTerminalStreamError(r)

AuditStep(r) ==
  \/ AppendOk(r) \/ AppendFails(r) \/ EventPanics(r) \/ Complete(r)
  \/ StoreAuditFailed(r) \/ RequestWrite(r) \/ AcquireWrite(r)
  \/ ReportAuditFailure(r)

RequestStep(r) == HandlerStep(r) \/ StreamStep(r) \/ AuditStep(r)

Next ==
  \/ \E r \in Requests : Arrive(r) \/ RequestStep(r) \/ DropHandler(r)
  \/ Exit
  \/ Rest

Spec == Init /\ [][Next]_vars

(***************************************************************************)
(* A task that can go on is polled, and each phase it waits in is bounded: *)
(* the body, the send and the stream by request_timeout, the error of a    *)
(* failed stream by its grace, file I/O by the disk answering, the gate by *)
(* those.  Harnesses owe nothing: no request need arrive, and a terminal   *)
(* stream error may never be accepted.                                     *)
(***************************************************************************)
PolledStep(r) ==
  \/ HandlerStep(r) \/ AuditStep(r)
  \/ StreamEnds(r) \/ AuditUnavailable(r) \/ SendStreamError(r)

Fairness ==
  /\ \A r \in Requests : WF_vars(PolledStep(r))
  /\ WF_vars(Exit)

FairSpec == Spec /\ Fairness

-----------------------------------------------------------------------------
(* Properties                                                              *)

\* No upstream send is in flight once any close_forwarding call has returned:
\* a caller told of the failed event never races a request still being sent.
NoSendAfterClose ==
  closed # {} => \A r \in Requests : pc[r] # "sending"

EventsOf(r) == {i \in DOMAIN log : log[i].req = r}

\* The decisions an answer to the harness may stand for.
Told == [denied |-> {"denied"},
         bad_gateway |-> {"upstream_error", "response_error"},
         complete |-> {"allowed"},
         cut |-> {"response_error"}]

HasEvent(r, decisions) == \E i \in EventsOf(r) : log[i].decision \in decisions

\* A harness that gets a denial, a gateway failure or a whole body is told of a
\* decision that is already in the log.  A body that merely looks whole, cut off by
\* send_stream_error's grace or by a panic, never stands for an allowed exchange: it
\* is recorded as failed, or the audit has failed, or its own event panicked.
NoUnauditedAnswer ==
  \A r \in Requests :
    reply[r] \in DOMAIN Told =>
      \/ HasEvent(r, Told[reply[r]])
      \/ /\ reply[r] = "cut" /\ ~HasEvent(r, {"allowed"})
         /\ audit_failed \/ pc[r] = "panicked"

\* No request appears twice in the log, and no two events share a request id.
OneEventPerRequest ==
  \A i, j \in DOMAIN log :
    i # j => log[i].req # log[j].req /\ log[i].sequence # log[j].sequence

\* The log tells whether the provider was contacted: a denial means it was not,
\* every other decision means it was.
LogTellsContact ==
  \A i \in DOMAIN log : log[i].decision = "denied" <=> log[i].req \notin contacted

UpstreamBusy == {r \in Requests : pc[r] \in {"sending", "streaming"}}

\* The exchanges open with the provider never outnumber the permits, streamed
\* bodies included.
UpstreamConcurrencyBounded == Cardinality(UpstreamBusy) <= MaxConcurrent

\* A request that reached the provider and ended has its event, unless auditing
\* failed (and with it the gateway).
EveryExchangeAudited ==
  \A r \in Requests :
    r \in contacted /\ pc[r] \in Ended /\ ~audit_failed => EventsOf(r) # {}

\* An exchange that ended with neither an event nor a failure of the audit is one
\* whose own harness hung up or whose own event could not be built: what the others
\* do cannot lose the event of an ordinary request whose harness waits.
LostOnlyByHangUpOrPanic ==
  \A r \in Requests :
    r \in contacted /\ pc[r] \in Ended /\ ~audit_failed /\ EventsOf(r) = {} =>
      \/ pc[r] = "dropped" /\ r \in Disconnecting
      \/ pc[r] = "panicked" /\ r \in Outgrowing

\* Whoever is answered 500 sees a gateway that then stops.
FailureStopsServer ==
  \A r \in Requests : reply[r] = "internal_error" ~> exited

\* A failed append stops the gateway, provided nobody hangs up on the handler
\* that found out.
AuditFailureStopsServer == audit_failed ~> exited

\* Every request the gateway took ends, with its permit back, or the process ends.
EveryRequestEnds ==
  \A r \in Requests :
    pc[r] = "proxy" ~> \/ exited
                       \/ pc[r] \in Ended /\ r \notin permits
=============================================================================
