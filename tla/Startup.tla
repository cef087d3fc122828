------------------------------ MODULE Startup ------------------------------
(***************************************************************************)
(* The life of the gateway's processes: the configuration parsed by        *)
(* config.rs, the order in which http.rs brings the server up, what ends   *)
(* it and with which exit code (process.rs), the healthcheck command, and  *)
(* the audit log one run leaves to the next.                               *)
(*                                                                         *)
(* What happens inside a request is in Gateway, inside the audit sink in   *)
(* AuditWriter.  Here a request is its event: its id, the upstream origin  *)
(* it names, its size and whether a later start can read it.               *)
(***************************************************************************)
EXTENDS Naturals, Sequences, SequencesExt

CONSTANTS
  Arguments,       \* the arguments operators give: operations, numbers, origin
  Tokens,          \* the run tokens the operating system's entropy may yield
  ZeroToken,       \* the token of a buffer no entropy was read into
  MaxPermits,      \* Semaphore::MAX_PERMITS
  MaxStarts,       \* bound: starts of the process
  MaxEvents        \* bound: events of one run

\* The lists, origins and numbers of ServeArgs.
ArgumentsType ==
  [operations : [entries : Nat, empty : Nat, parses : BOOLEAN, distinct : BOOLEAN],
   request_timeout : Nat, audit_event : Nat, concurrent : Nat, request : Nat,
   request_header : Nat, response : Nat, response_header : Nat,
   origin : [bytes : Nat, normal : Nat, parses : BOOLEAN, scheme : STRING,
             wildcard : BOOLEAN, port : Nat, components : BOOLEAN, credentials : BOOLEAN]]

\* The normal form of an origin of at most 255 bytes stays below this by far.
MaxNormalBytes == 32768

ASSUME StartupAssumption ==
  /\ Arguments \subseteq ArgumentsType
  /\ \A a \in Arguments : a.origin.bytes <= 255 => a.origin.normal <= MaxNormalBytes
  /\ MaxPermits \in Nat \ {0}
  /\ MaxStarts \in Nat
  /\ MaxEvents \in Nat
  /\ ZeroToken \notin Tokens

-----------------------------------------------------------------------------
(* GatewayConfig::try_from(ServeArgs)                                      *)

MaxAuditEventBytes == 1048576
MinAuditEventBytes == 65536
MaxOperations == 256
MaxRequestBytes == 1073741824
MaxRequestHeaderBytes == 1048576
MaxResponseBytes == 1073741824
MaxResponseHeaderBytes == 1048576
MaxTimeoutSeconds == 3600
MaxOriginBytes == 255

\* A number must be above zero and at most its maximum.
Bounded(n, max) == n # 0 /\ n <= max

\* Mutant of AuditEventBytes: the minimum is forgotten.
AuditEventBytes_NoMinimum(n) == Bounded(n, MaxAuditEventBytes)

AuditEventBytes(n) == Bounded(n, MaxAuditEventBytes) /\ n >= MinAuditEventBytes

ConcurrentRequests(n) == Bounded(n, MaxPermits)
RequestBodyBytes(n) == Bounded(n, MaxRequestBytes)
RequestHeaderBytes(n) == Bounded(n, MaxRequestHeaderBytes)
ResponseBodyBytes(n) == Bounded(n, MaxResponseBytes)
ResponseHeaderBytes(n) == Bounded(n, MaxResponseHeaderBytes)
RequestTimeout(n) == Bounded(n, MaxTimeoutSeconds)

\* Mutant of AllowedOperations: empty entries among others are skipped.
AllowedOperations_EmptySkipped(list) ==
  /\ list.empty < list.entries
  /\ list.entries <= MaxOperations
  /\ list.parses /\ list.distinct

\* The list of operations is known by its entries, how many of them are empty
\* texts, and whether the others parse and are distinct (RequestAcceptance).
AllowedOperations(list) ==
  /\ list.empty < list.entries
  /\ list.entries <= MaxOperations
  /\ list.empty = 0 /\ list.parses
  /\ list.distinct

\* An origin is known by its bytes, by what the URL library finds in it, and by
\* the bytes of its normal form: a host in another script is longer in ASCII.
UpstreamOrigin(origin) ==
  /\ origin.bytes <= MaxOriginBytes
  /\ origin.parses
  /\ origin.scheme \in {"http", "https"}
  /\ ~origin.wildcard
  /\ origin.port # 0
  /\ ~origin.components
  /\ ~origin.credentials

\* The text of a parsed origin is its normal form, which parses to itself.
AsText(origin) == [origin EXCEPT !.bytes = origin.normal]

\* Every number the operator gives, in the order in which it is parsed.
Parses(args) ==
  /\ AllowedOperations(args.operations)
  /\ RequestTimeout(args.request_timeout)
  /\ AuditEventBytes(args.audit_event)
  /\ ConcurrentRequests(args.concurrent)
  /\ RequestBodyBytes(args.request)
  /\ RequestHeaderBytes(args.request_header)
  /\ ResponseBodyBytes(args.response)
  /\ ResponseHeaderBytes(args.response_header)
  /\ UpstreamOrigin(args.origin)

-----------------------------------------------------------------------------
(* Events, as far as a later start depends on them                         *)

MaxPathBytes == 4096
MaxQueryBytes == 8192

\* Bounds the bytes of an event besides its target and origin: the field names,
\* the longest method, class and counts, two digests, the request id.
EnvelopeBytes == 1024

(***************************************************************************)
(* A denied target is recorded as it came, and a byte of it may be escaped *)
(* in JSON; an accepted one needs no escapes and is recorded twice, as it  *)
(* came and as it was sent.                                                *)
(***************************************************************************)
LargestEvent(origin) ==
  EnvelopeBytes + origin.normal + 2 * (MaxPathBytes + MaxQueryBytes)
SmallestEvent(origin) == origin.normal

VARIABLES
  process,   \* where the process stands, see Location
  args,      \* the arguments of this run
  code,      \* the exit code of the last run, or Running
  token,     \* SequentialRequestIds.run_token
  allocated, \* SequentialRequestIds.last_allocated
  opened,    \* whether this run opened the audit log
  listening, \* whether the listener is bound
  fatal,     \* whether a fatal error waits for run_until_server_stops
  log,       \* the events of the audit log
  torn,      \* whether its last line is incomplete
  exists,    \* whether the log file was ever created
  health,    \* the exit code of the last healthcheck, or Running
  spoiled,   \* whether something outside the program failed in this run
  drawn,     \* the tokens drawn so far
  starts     \* starts so far

vars == <<process, args, code, token, allocated, opened, listening, fatal, log,
          torn, exists, health, spoiled, drawn, starts>>

\* "parse" is about to parse the arguments, "adapters" to build the client and
\* the request ids, "open" to open the log, "limit" to make the semaphore, "bind"
\* to bind the listener.
Location == {"down", "parse", "adapters", "open", "limit", "bind", "serving"}

Running == 256
ConfigError == 78
ServeError == 70
HealthcheckError == 1
Panicked == 101
Killed == 137

NoArguments == [origin |-> "none"]

\* "reads" says whether the validator of a later start reads the fields of the
\* event besides its id and origin back, which AuditEvent models.
Event == [token : Tokens \cup {ZeroToken}, sequence : Nat \ {0},
          origin : {AsText(a.origin) : a \in Arguments}, reads : BOOLEAN]

ids == <<token, allocated, drawn>>
file == <<log, torn, exists>>

TypeOK ==
  /\ process \in Location
  /\ args \in Arguments \cup {NoArguments}
  /\ code \in {Running, 0, ConfigError, ServeError, Panicked, Killed}
  /\ token \in Tokens \cup {ZeroToken} /\ drawn \subseteq Tokens
  /\ allocated \in 0 .. MaxEvents
  /\ opened \in BOOLEAN /\ (opened <=> process \in {"limit", "bind", "serving"})
  /\ listening \in BOOLEAN /\ (listening <=> process = "serving")
  /\ fatal \in BOOLEAN /\ torn \in BOOLEAN /\ exists \in BOOLEAN /\ spoiled \in BOOLEAN
  /\ log \in Seq(Event)
  /\ health \in {Running, 0, HealthcheckError, Panicked}
  /\ starts \in 0 .. MaxStarts

Init ==
  /\ process = "down" /\ code = Running /\ args = NoArguments
  /\ token = ZeroToken /\ allocated = 0 /\ drawn = {}
  /\ opened = FALSE /\ listening = FALSE /\ fatal = FALSE
  /\ log = <<>> /\ torn = FALSE /\ exists = FALSE
  /\ health = Running /\ spoiled = FALSE /\ starts = 0

-----------------------------------------------------------------------------
(* http::serve, and main's exit code                                       *)

Goto(from, to) ==
  /\ process = from /\ process' = to
  /\ UNCHANGED <<args, code, fatal, health, starts>>

\* The process ends: what it held in memory is gone.
End(with) ==
  /\ process' = "down" /\ code' = with /\ args' = NoArguments
  /\ token' = ZeroToken /\ allocated' = 0
  /\ opened' = FALSE /\ listening' = FALSE /\ fatal' = FALSE
  /\ UNCHANGED <<drawn, health, starts>>

\* main writes an error to the standard error stream and expects that to work:
\* the process panics if it does not, and so something outside it has failed.
EndWithError(with, failed) ==
  \/ End(with) /\ spoiled' = failed
  \/ End(Panicked) /\ spoiled' = TRUE

Start(a) ==
  /\ process = "down" /\ process' = "parse"
  /\ starts < MaxStarts /\ starts' = starts + 1
  /\ args' = a /\ code' = Running /\ spoiled' = FALSE
  /\ UNCHANGED <<ids, opened, listening, fatal, file, health>>

Configure ==
  /\ \/ /\ Goto("parse", "adapters")
        /\ Parses(args)
        /\ UNCHANGED <<ids, opened, listening, spoiled>>
     \/ /\ process = "parse" /\ ~Parses(args)
        /\ EndWithError(ConfigError, spoiled)
  /\ UNCHANGED file

\* Every run draws a token no earlier run has drawn: the entropy is good.
DrawToken ==
  \E t \in Tokens \ drawn : token' = t /\ drawn' = drawn \cup {t}

\* Mutant of BuildAdapters: the buffer is used although no entropy was read.
BuildAdapters_EntropyIgnored ==
  /\ Goto("adapters", "open")
  /\ \/ DrawToken /\ UNCHANGED spoiled
     \/ token' = ZeroToken /\ spoiled' = TRUE /\ UNCHANGED drawn
  /\ UNCHANGED <<allocated, opened, listening, file>>

\* The client is built and the run token read, or either fails.
BuildAdapters ==
  /\ \/ /\ Goto("adapters", "open")
        /\ DrawToken
        /\ UNCHANGED <<allocated, opened, listening, spoiled>>
     \/ /\ process = "adapters"
        /\ EndWithError(ServeError, TRUE)
  /\ UNCHANGED file

\* The fields of an event are read back, and agree with one another.
FieldsRead(e) == e.reads

\* A request id is read back if its sequence number is not zero.
RequestIdReads(e) == e.sequence # 0

\* What AuditWriter::open asks of the log an earlier run left: whole lines, the
\* fields of every event, ids that no two events share.
LogAccepted ==
  /\ ~torn
  /\ \A i \in DOMAIN log : FieldsRead(log[i]) /\ RequestIdReads(log[i])
  /\ \A i, j \in DOMAIN log :
       <<log[i].token, log[i].sequence>> = <<log[j].token, log[j].sequence>> => i = j
  /\ \A i \in DOMAIN log : UpstreamOrigin(log[i].origin)

\* Mutant of OpenLog: a log that cannot be opened or read is passed over.
OpenLog_FailureIgnored ==
  /\ Goto("open", "limit")
  /\ opened' \in BOOLEAN /\ spoiled' = ~opened'
  /\ exists' = TRUE
  /\ UNCHANGED <<ids, listening, log, torn>>

OpenLog ==
  /\ \/ /\ Goto("open", "limit")
        /\ LogAccepted
        /\ opened' = TRUE /\ exists' = TRUE
        /\ UNCHANGED <<ids, listening, spoiled>>
     \/ /\ process = "open" /\ ~LogAccepted
        /\ EndWithError(ServeError, spoiled)
        /\ UNCHANGED exists
     \/ /\ process = "open"
        /\ EndWithError(ServeError, TRUE)
        /\ exists' \in {exists, TRUE}
  /\ UNCHANGED <<log, torn>>

\* Mutant of MakeSemaphore: the listener is bound before all is ready.
MakeSemaphore_Bound ==
  /\ Goto("limit", "bind")
  /\ listening' = TRUE
  /\ UNCHANGED <<ids, opened, file, spoiled>>

\* Semaphore::new panics above its maximum.
MakeSemaphore ==
  /\ process = "limit"
  /\ IF args.concurrent <= MaxPermits
       THEN Goto("limit", "bind") /\ UNCHANGED <<ids, opened, listening>>
       ELSE End(Panicked)
  /\ UNCHANGED <<file, spoiled>>

Bind ==
  /\ \/ /\ Goto("bind", "serving")
        /\ listening' = TRUE
        /\ UNCHANGED <<ids, opened, spoiled>>
     \/ /\ process = "bind"
        /\ EndWithError(ServeError, TRUE)
  /\ UNCHANGED file

-----------------------------------------------------------------------------
(* Serving                                                                 *)

Serving == process = "serving" /\ ~fatal

Recorded(reads) == [token |-> token, sequence |-> allocated',
                    origin |-> AsText(args.origin), reads |-> reads]

\* A request takes the next id and is recorded, or it ends without an event, when
\* its harness hangs up or its event cannot be built (Gateway); an event over the
\* limit is a failure of its append, and that is fatal.
Record ==
  /\ Serving
  /\ allocated < MaxEvents /\ allocated' = allocated + 1
  /\ \/ UNCHANGED <<log, fatal>>
     \/ \E size \in {SmallestEvent(args.origin), LargestEvent(args.origin)} :
          IF size <= args.audit_event
            THEN /\ \E reads \in BOOLEAN : log' = Append(log, Recorded(reads))
                 /\ UNCHANGED fatal
            ELSE fatal' = TRUE /\ UNCHANGED log
  /\ UNCHANGED <<process, args, code, token, opened, listening, torn, exists,
                 health, spoiled, drawn, starts>>

\* Writing fails, perhaps in the middle of the line.
WriteFails ==
  /\ Serving
  /\ fatal' = TRUE /\ spoiled' = TRUE
  /\ torn' \in BOOLEAN
  /\ UNCHANGED <<process, args, code, ids, opened, listening, log, exists, health,
                 starts>>

\* run_until_server_stops: whichever comes first, the fatal error or the end of
\* the server, decides.
FatalStops ==
  /\ process = "serving" /\ fatal
  /\ EndWithError(ServeError, spoiled)
  /\ UNCHANGED file

ServerStops ==
  /\ process = "serving"
  /\ \/ End(0) /\ spoiled' = TRUE
     \/ EndWithError(ServeError, TRUE)
  /\ UNCHANGED file

\* The process is killed or the machine stops, perhaps in the middle of a line.
Kill ==
  /\ process # "down"
  /\ End(Killed)
  /\ spoiled' = TRUE
  /\ torn' \in {torn, torn \/ opened}
  /\ UNCHANGED <<log, exists>>

\* health::check connects to the listener; it may fail for its own reasons, and
\* its process panics like the server's if it cannot write its error.
Healthcheck ==
  /\ \/ health' \in {HealthcheckError, Panicked}
     \/ listening /\ health' = 0
  /\ UNCHANGED <<process, args, code, ids, opened, listening, fatal, file, spoiled,
                 starts>>

Next ==
  \/ \E a \in Arguments : Start(a)
  \/ Configure \/ BuildAdapters \/ OpenLog \/ MakeSemaphore \/ Bind
  \/ Record \/ WriteFails
  \/ FatalStops \/ ServerStops \/ Kill
  \/ Healthcheck

Spec == Init /\ [][Next]_vars

-----------------------------------------------------------------------------
(* Properties                                                              *)

\* What the gateway's documentation asks of a configuration.
Minimum == [request_timeout |-> 1, audit_event |-> 65536, concurrent |-> 1, request |-> 1,
            request_header |-> 1, response |-> 1, response_header |-> 1]
Maximum == [request_timeout |-> 3600, audit_event |-> 1048576, concurrent |-> MaxPermits,
            request |-> 1073741824, request_header |-> 1048576,
            response |-> 1073741824, response_header |-> 1048576]

Valid(a) ==
  /\ \A name \in DOMAIN Minimum : a[name] >= Minimum[name] /\ a[name] <= Maximum[name]
  /\ a.operations.entries \in 1 .. 256 /\ a.operations.empty = 0
  /\ a.operations.parses /\ a.operations.distinct
  /\ a.origin.bytes <= 255 /\ a.origin.parses /\ a.origin.scheme \in {"http", "https"}
  /\ ~a.origin.wildcard /\ ~a.origin.components /\ ~a.origin.credentials
  /\ a.origin.port # 0

\* The gateway fails closed: it takes connections, and tells a healthcheck so,
\* only with a valid configuration and an opened log that was whole when it was.
FailClosed == listening => Valid(args) /\ opened /\ (torn => spoiled)

\* A run with an invalid configuration touches nothing and ends with exit code 78,
\* unless it is killed first or cannot write its error to the standard error
\* stream, and no other run ends with 78.
ConfigErrorLeavesNoTrace ==
  [][/\ file' # file => Valid(args)
     /\ process # "down" /\ process' = "down" =>
          /\ code' = ConfigError => ~Valid(args)
          /\ ~Valid(args) =>
               code' \in {ConfigError, Killed} \/ (code' = Panicked /\ spoiled')]_vars

\* No two events the gateway's runs leave in one log share a request id.
IdsUnique ==
  \A i, j \in DOMAIN log :
    log[i].token = log[j].token /\ log[i].sequence = log[j].sequence => i = j

\* A run fails only when it must: no event it builds is too large for an accepted
\* limit, no accepted limit panics, and no log is refused for its ids.  Something
\* outside the program failed, or the log it starts on is torn, or one of the log's
\* events is refused, for an origin whose normal form is over the limit or for
\* fields its own writer wrote and the validator does not read.  A valid run can
\* leave such events: those fields are the cut targets that EventRefused shows.
FailsOnlyWhenItMust ==
  code \in {ServeError, Panicked} =>
    \/ spoiled \/ torn
    \/ \E i \in DOMAIN log : log[i].origin.bytes > MaxOriginBytes \/ ~log[i].reads
=============================================================================
