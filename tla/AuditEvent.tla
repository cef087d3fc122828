----------------------------- MODULE AuditEvent -----------------------------
(***************************************************************************)
(* What one audit event says: the event the gateway builds for a request   *)
(* that is denied, fails or is served (the constructors of audit.rs), and  *)
(* the cross-field checks the next start applies to it                     *)
(* (ExistingAuditEventFields::validate).  Writer and reader are separate   *)
(* code over separate types; a log the reader refuses stops the gateway    *)
(* from starting again.                                                    *)
(*                                                                         *)
(* A path or query is known by its shape, how its length compares with the *)
(* limit, and by the first fault its parser would find in it.              *)
(***************************************************************************)
EXTENDS Naturals

CONSTANTS
  Targets,           \* the request targets harnesses may send
  UpstreamStatuses   \* statuses the provider may answer with

(***************************************************************************)
(* Shapes.  A text within its limit is whole; quoted, it is whole and      *)
(* holds an apostrophe, which is escaped when it is joined to a URL;       *)
(* tight, it is whole and longer than its limit once escaped.  A long      *)
(* text is cut when it is recorded, cut_short if a multi-byte character    *)
(* lies across the cut (long_wide), so that the result misses the limit.   *)
(***************************************************************************)
PathShapes == {"whole", "long", "long_wide"}
QueryShapes == {"absent", "whole", "quoted", "tight", "long", "long_wide"}

None == "none"
PathFaults == {None, "non_origin_form", "invalid_percent_encoding",
               "encoded_path_separator", "dot_segment"}
QueryFaults == {None, "non_origin_form", "invalid_percent_encoding"}

\* An authority is short if it survives a cut of the text it heads, long if
\* what the cut leaves of it is no authority.
Authorities == {None, "short", "long"}

\* The path of a target with an authority is its whole text up to the query.
AllTargets ==
  {t \in [authority : Authorities,
          path : [shape : PathShapes, fault : PathFaults],
          query : [shape : QueryShapes, fault : QueryFaults]] :
     /\ t.authority # None => t.path.fault = "non_origin_form"
     /\ t.authority = "long" => t.path.shape # "whole"
     /\ t.path.shape = "long_wide" => t.path.fault = "non_origin_form"
     /\ t.query.shape = "long_wide" => t.query.fault = "non_origin_form"
     /\ t.query.shape = "absent" => t.query.fault = None}

ASSUME EventAssumption ==
  /\ Targets \subseteq AllTargets
  /\ UpstreamStatuses \subseteq 100 .. 999

\* A long method is over the limit for a method the allowlist may list.
Methods == {"CONNECT", "token", "long"}

NotObserved == "not_observed"
Observed == {"empty", "non_empty"}
BodySummary == Observed \cup {NotObserved}
Summary(bytes) == IF bytes = 0 THEN "empty" ELSE "non_empty"

(***************************************************************************)
(* Error classes and the status the writer answers with for each.          *)
(***************************************************************************)
TargetDenials ==
  {"non_origin_form", "invalid_percent_encoding", "encoded_path_separator",
   "dot_segment", "path_too_long", "query_too_long"}
OperationDenials == {"method_denied", "path_denied"}
HeaderDenials == {"invalid_request_connection_header", "request_headers_too_large"}
BodyDenials ==
  {"request_body_read_failed", "request_body_timeout", "request_body_too_large"}
DenialClasses ==
  {"absolute_form_unsupported", "connect_unsupported", "too_many_requests"}
    \cup TargetDenials \cup OperationDenials \cup HeaderDenials \cup BodyDenials

UpstreamClasses ==
  {"upstream_connect_failed", "upstream_request_failed", "upstream_timeout"}
ResponseHeaderClasses ==
  {"invalid_response_connection_header", "response_headers_too_large"}
StreamClasses ==
  {"downstream_closed", "response_body_too_large", "response_stream_timeout",
   "upstream_response_stream_failed", "upstream_response_timeout"}
Classes ==
  DenialClasses \cup UpstreamClasses \cup ResponseHeaderClasses \cup StreamClasses

DenialStatus(class) ==
  CASE class = "connect_unsupported" -> 405
    [] class \in OperationDenials -> 403
    [] class \in {"path_too_long", "query_too_long"} -> 414
    [] class = "request_body_timeout" -> 408
    [] class = "request_body_too_large" -> 413
    [] class = "request_headers_too_large" -> 431
    [] class = "too_many_requests" -> 429
    [] OTHER -> 400

UpstreamErrorStatus(class) == IF class = "upstream_timeout" THEN 504 ELSE 502
ResponseHeaderStatus == 502

(***************************************************************************)
(* Errors of the parts a request passes through and the class of each.     *)
(***************************************************************************)
HeaderErrors == {"invalid_connection_header", "too_large"}
RequestHeaderClass(error) ==
  IF error = "too_large" THEN "request_headers_too_large"
                         ELSE "invalid_request_connection_header"
ResponseHeaderClass(error) ==
  IF error = "too_large" THEN "response_headers_too_large"
                         ELSE "invalid_response_connection_header"

BodyErrors == {"read", "too_large", "elapsed"}
RequestBodyClass(error) ==
  CASE error = "read" -> "request_body_read_failed"
    [] error = "too_large" -> "request_body_too_large"
    [] error = "elapsed" -> "request_body_timeout"

\* A connection attempt that times out counts as a timeout.
UpstreamClass(timed_out, connecting) ==
  CASE timed_out -> "upstream_timeout"
    [] ~timed_out /\ connecting -> "upstream_connect_failed"
    [] OTHER -> "upstream_request_failed"

(***************************************************************************)
(* Texts and targets                                                       *)
(***************************************************************************)

\* bounded_audit_text: the marker of a cut text is no legal target text.
Bounded(text) ==
  CASE text.shape = "long" -> [shape |-> "cut", fault |-> "non_origin_form"]
    [] text.shape = "long_wide" -> [shape |-> "cut_short", fault |-> "non_origin_form"]
    [] OTHER -> text

AuditMethod(m) == IF m = "long" THEN "cut" ELSE m

\* Mutant of AuditTarget: the query of a target is recorded unbounded.
AuditTarget_QueryUnbounded(t) == [t EXCEPT !.path = Bounded(t.path)]

AuditTarget(t) == [t EXCEPT !.path = Bounded(t.path), !.query = Bounded(t.query)]

Long == {"long", "long_wide"}

PathParses(path) == path.shape \notin Long /\ path.fault = None

\* AcceptedTarget::new: the first reason to reject the target, None to accept it.
Rejection(t) ==
  IF t.path.shape \in Long THEN "path_too_long"
  ELSE IF t.path.fault # None THEN t.path.fault
  ELSE IF t.query.shape \in Long THEN "query_too_long"
  ELSE t.query.fault

\* join_path_query: the URL escapes apostrophes of the query.
Escaped(shape) ==
  CASE shape = "quoted" -> "escaped"
    [] shape = "tight" -> "long"
    [] OTHER -> shape
Joined(t) == [path |-> t.path, query |-> [t.query EXCEPT !.shape = Escaped(@)]]

NoUpstream == [upstream |-> None]

(***************************************************************************)
(* What an event says of its outcome.                                      *)
(***************************************************************************)
Outcome(decision, class, response_body, status) ==
  [decision |-> decision, error_class |-> class,
   response_body |-> response_body, status |-> status]

Allowed(bytes, status) == Outcome("allowed", None, Summary(bytes), status)
Denied(class) == Outcome("denied", class, NotObserved, DenialStatus(class))
UpstreamError(class) ==
  Outcome("upstream_error", class, NotObserved, UpstreamErrorStatus(class))
ResponseHeaderError(class) ==
  Outcome("response_error", class, NotObserved, ResponseHeaderStatus)
ResponseError(class, bytes, status) ==
  Outcome("response_error", class, Summary(bytes), status)

\* AuditEvent::new_at: a request as it was recorded, and its outcome.
NewEvent(m, t, body, upstream, outcome) ==
  [decision |-> outcome.decision, error_class |-> outcome.error_class,
   method |-> AuditMethod(m), target |-> t, request_body |-> body,
   response_body |-> outcome.response_body, status |-> outcome.status,
   upstream |-> upstream]

-----------------------------------------------------------------------------
(* One request and its event                                               *)

VARIABLES
  at,              \* where the request stands; then what the next start says
  method,
  target,          \* the request target as it arrived
  request_body,    \* the summary of the request body once it was read
  forwarded,       \* the URL path and query sent to the provider, or NoUpstream
  event            \* the event the request appended, or NoEvent

vars == <<at, method, target, request_body, forwarded, event>>

request == <<method, target>>

NoEvent == [decision |-> None]

Locations ==
  {"arrived", "admitted", "accepted", "allowed", "body", "sending", "streaming",
   "recorded", "panicked", "started", "refused"}

RecordedShapes == (PathShapes \cup QueryShapes \cup {"cut", "cut_short"}) \ Long

TypeOK ==
  /\ at \in Locations
  /\ method \in Methods
  /\ target \in Targets
  /\ request_body \in BodySummary
  /\ forwarded # NoUpstream => DOMAIN forwarded = {"path", "query"}
  /\ event # NoEvent =>
       /\ event.decision \in {"allowed", "denied", "upstream_error", "response_error"}
       /\ event.error_class \in Classes \cup {None}
       /\ event.method \in {"CONNECT", "token", "cut"}
       /\ {event.target.path.shape, event.target.query.shape} \subseteq RecordedShapes
       /\ {event.request_body, event.response_body} \subseteq BodySummary
       /\ event.status \in 100 .. 999

Init ==
  /\ at = "arrived"
  /\ method \in Methods
  /\ target \in Targets
  /\ request_body = NotObserved
  /\ forwarded = NoUpstream
  /\ event = NoEvent

Step(from, to) == at = from /\ at' = to

\* Mutant of Deny: a denial records where the request would have gone.
Deny_UpstreamRecorded(from, class) ==
  /\ Step(from, "recorded")
  /\ event' = NewEvent(method, AuditTarget(target), NotObserved, Joined(target), Denied(class))
  /\ UNCHANGED <<request, request_body, forwarded>>

\* AuditDenial: classes past the parser hold the accepted target, unbounded.
DenialTarget(class) ==
  IF class \in OperationDenials \cup HeaderDenials \cup BodyDenials
    THEN target ELSE AuditTarget(target)

DenialMethod(class) == IF class = "connect_unsupported" THEN "CONNECT" ELSE method

\* for_denial: every caller leaves the body of a denied request out.
Deny(from, class) ==
  /\ Step(from, "recorded")
  /\ event' = NewEvent(DenialMethod(class), DenialTarget(class), NotObserved, NoUpstream,
                      Denied(class))
  /\ UNCHANGED <<request, request_body, forwarded>>

\* ObservedAuditRequestInput::new joins the URL anew and expects that its query
\* still parses; the event then records both targets.
Conclude(from, outcome) ==
  /\ IF Joined(target).query.shape \in Long
       THEN Step(from, "panicked") /\ UNCHANGED event
       ELSE /\ Step(from, "recorded")
            /\ event' = NewEvent(method, target, request_body, Joined(target), outcome)
  /\ UNCHANGED <<request, request_body, forwarded>>

\* proxy: without a permit the request is denied whatever it asks for.
TooManyRequests == Deny("arrived", "too_many_requests")

Admit ==
  /\ Step("arrived", "admitted")
  /\ UNCHANGED <<request, request_body, forwarded, event>>

\* Mutant of AcceptTarget: authority targets are left to the path parser.
AcceptTarget_AuthorityParsed ==
  \/ /\ method = "CONNECT"
     /\ Deny("admitted", "connect_unsupported")
  \/ /\ method # "CONNECT" /\ Rejection(target) # None
     /\ Deny("admitted", Rejection(target))
  \/ /\ method # "CONNECT" /\ Rejection(target) = None
     /\ Step("admitted", "accepted")
     /\ UNCHANGED <<request, request_body, forwarded, event>>

\* accept_allowed_target: CONNECT, then an authority, then the parser rejects.
AcceptTarget ==
  \/ /\ method = "CONNECT"
     /\ Deny("admitted", "connect_unsupported")
  \/ /\ method # "CONNECT" /\ target.authority # None
     /\ Deny("admitted", "absolute_form_unsupported")
  \/ /\ method # "CONNECT" /\ target.authority = None /\ Rejection(target) # None
     /\ Deny("admitted", Rejection(target))
  \/ /\ method # "CONNECT" /\ target.authority = None /\ Rejection(target) = None
     /\ Step("admitted", "accepted")
     /\ UNCHANGED <<request, request_body, forwarded, event>>

\* allow_target, for any allowlist, which lists no long method.
AllowTarget ==
  \/ \E class \in OperationDenials : Deny("accepted", class)
  \/ /\ Step("accepted", "allowed")
     /\ method # "long"
     /\ UNCHANGED <<request, request_body, forwarded, event>>

ForwardHeaders ==
  \/ \E error \in HeaderErrors : Deny("allowed", RequestHeaderClass(error))
  \/ /\ Step("allowed", "body")
     /\ UNCHANGED <<request, request_body, forwarded, event>>

\* A body that was read is forwarded with the URL the target joins to.
ReadBody ==
  \/ \E error \in BodyErrors : Deny("body", RequestBodyClass(error))
  \/ \E bytes \in 0 .. 1 :
       /\ Step("body", "sending")
       /\ request_body' = Summary(bytes)
       /\ forwarded' = Joined(target)
       /\ UNCHANGED <<request, event>>

\* client.send fails, or the headers of its response do, or the body streams.
SendReturns ==
  \/ \E timed_out, connecting \in BOOLEAN :
       Conclude("sending", UpstreamError(UpstreamClass(timed_out, connecting)))
  \/ \E error \in HeaderErrors :
       Conclude("sending", ResponseHeaderError(ResponseHeaderClass(error)))
  \/ /\ Step("sending", "streaming")
     /\ UNCHANGED <<request, request_body, forwarded, event>>

\* The stream ends with the bytes it forwarded and the status already sent; a
\* chunk that breaks the limit is counted although it is not forwarded.
StreamEnds ==
  \E status \in UpstreamStatuses, bytes \in 0 .. 1 :
    \/ Conclude("streaming", Allowed(bytes, status))
    \/ \E class \in StreamClasses :
         LET oversized == IF class = "response_body_too_large" THEN 1 ELSE 0 IN
         Conclude("streaming", ResponseError(class, bytes + oversized, status))

-----------------------------------------------------------------------------
(* What the next start checks                                              *)

\* The fields of a line, each read on its own: a method or text keeps its bound,
\* an upstream target is one the gateway would accept, a status is an HTTP status.
MethodReads(m) == m # "long"
TextReads(text) == text.shape \notin Long
QueryParses(query) == query.shape \notin Long /\ query.fault = None
UpstreamReads(t) == PathParses(t.path) /\ QueryParses(t.query)
StatusReads(status) == status \in 100 .. 999

FieldsRead(e) ==
  /\ MethodReads(e.method)
  /\ TextReads(e.target.path) /\ TextReads(e.target.query)
  /\ e.upstream # NoUpstream => UpstreamReads(e.upstream)
  /\ StatusReads(e.status)

\* truncated_audit_text_prefix knows a cut text by its marker and exact length.
IsTruncated(text) == text.shape = "cut"

\* The text is reassembled and parsed; a marker anywhere in it is illegal.
ParsedTargetHasAuthority(t) ==
  /\ t.authority # None
  /\ {t.path.shape, t.query.shape} \cap {"cut", "cut_short"} = {}

TruncatedTargetHasAuthority(t) == IsTruncated(t.path) /\ t.authority = "short"

TargetHasAuthority(t) ==
  ParsedTargetHasAuthority(t) \/ TruncatedTargetHasAuthority(t)

IsDenial(class) == class \in DenialClasses
IsResponseError(class) == class \in StreamClasses \cup ResponseHeaderClasses
IsUpstreamError(class) == class \in UpstreamClasses

ClassMatchesDecision(e) ==
  CASE e.decision = "allowed" -> e.error_class = None
    [] e.decision = "denied" -> IsDenial(e.error_class)
    [] e.decision = "response_error" -> IsResponseError(e.error_class)
    [] e.decision = "upstream_error" -> IsUpstreamError(e.error_class)

\* The parser rejects the recorded target again, and for the recorded reason.
TargetRejected(t, class) == Rejection(t) = class
NonAuthorityTargetRejected(t, class) == ~TargetHasAuthority(t) /\ TargetRejected(t, class)

\* Mutant of DeniedTargetMatches: the parser's verdict is believed of any target.
DeniedTargetMatches_AuthorityIgnored(e) ==
  LET class == e.error_class IN
    CASE class = "absolute_form_unsupported" -> TargetHasAuthority(e.target)
      [] class \in TargetDenials \ {"path_too_long", "query_too_long"} ->
           TargetRejected(e.target, class)
      [] class = "path_too_long" ->
           ~TargetHasAuthority(e.target) /\ IsTruncated(e.target.path)
      [] class = "query_too_long" -> PathParses(e.target.path) /\ IsTruncated(e.target.query)
      [] class \in OperationDenials \cup HeaderDenials \cup BodyDenials ->
           Rejection(e.target) = None
      [] OTHER -> TRUE

\* validate_denied_target: the recorded target must give the recorded reason.
DeniedTargetMatches(e) ==
  LET class == e.error_class IN
    CASE class = "absolute_form_unsupported" -> TargetHasAuthority(e.target)
      [] class = "non_origin_form" -> NonAuthorityTargetRejected(e.target, class)
      [] class \in {"dot_segment", "encoded_path_separator", "invalid_percent_encoding"} ->
           TargetRejected(e.target, class)
      [] class = "path_too_long" ->
           ~TargetHasAuthority(e.target) /\ IsTruncated(e.target.path)
      [] class = "query_too_long" -> PathParses(e.target.path) /\ IsTruncated(e.target.query)
      [] class \in OperationDenials \cup HeaderDenials \cup BodyDenials ->
           Rejection(e.target) = None
      [] OTHER -> TRUE

MethodMatches(e) ==
  CASE e.error_class = "connect_unsupported" -> e.method = "CONNECT"
    [] e.error_class = "too_many_requests" -> TRUE
    [] OTHER -> e.method # "CONNECT"

RequestBodyMatches(e) ==
  IF e.error_class \in BodyDenials
    THEN e.request_body = NotObserved
    ELSE e.decision = "denied" \/ e.request_body \in Observed

ResponseBodyMatches(e) ==
  CASE e.decision = "allowed" -> e.response_body \in Observed
    [] e.decision \in {"denied", "upstream_error"} -> e.response_body = NotObserved
    [] e.error_class \in ResponseHeaderClasses -> e.response_body = NotObserved
    [] e.error_class = "response_body_too_large" -> e.response_body = "non_empty"
    [] OTHER -> e.response_body \in Observed

\* fixed_status; classes that arise once the response started fix none.
FixedStatus ==
  [class \in Classes \ StreamClasses |->
     CASE class \in {"absolute_form_unsupported", "dot_segment", "encoded_path_separator",
                     "invalid_percent_encoding", "invalid_request_connection_header",
                     "non_origin_form", "request_body_read_failed"} -> 400
       [] class = "connect_unsupported" -> 405
       [] class \in {"invalid_response_connection_header", "response_headers_too_large",
                     "upstream_connect_failed", "upstream_request_failed"} -> 502
       [] class \in {"method_denied", "path_denied"} -> 403
       [] class \in {"path_too_long", "query_too_long"} -> 414
       [] class = "request_body_timeout" -> 408
       [] class = "request_body_too_large" -> 413
       [] class = "request_headers_too_large" -> 431
       [] class = "too_many_requests" -> 429
       [] class = "upstream_timeout" -> 504]

StatusMatches(e) ==
  e.error_class \in DOMAIN FixedStatus => e.status = FixedStatus[e.error_class]

\* The URL is joined once more, from the recorded target if that is accepted.
UpstreamTargetExpected(e) == Rejection(e.target) = None /\ e.upstream = Joined(e.target)

UpstreamTargetMatches(e) ==
  IF e.decision = "denied" THEN e.upstream = NoUpstream ELSE UpstreamTargetExpected(e)

Valid(e) ==
  /\ FieldsRead(e)
  /\ ClassMatchesDecision(e)
  /\ e.decision = "denied" => DeniedTargetMatches(e)
  /\ MethodMatches(e)
  /\ RequestBodyMatches(e)
  /\ ResponseBodyMatches(e)
  /\ StatusMatches(e)
  /\ UpstreamTargetMatches(e)

\* The gateway is started again on the log that holds the event.
Restart ==
  /\ Step("recorded", IF Valid(event) THEN "started" ELSE "refused")
  /\ UNCHANGED <<request, request_body, forwarded, event>>

Rest == at \in {"panicked", "started", "refused"} /\ UNCHANGED vars

Next ==
  \/ TooManyRequests \/ Admit \/ AcceptTarget \/ AllowTarget \/ ForwardHeaders
  \/ ReadBody \/ SendReturns \/ StreamEnds
  \/ Restart
  \/ Rest

Spec == Init /\ [][Next]_vars

-----------------------------------------------------------------------------
(* Properties                                                              *)

\* Every event the gateway writes is accepted when it starts again.
EveryEventReadBack == at # "refused"

\* The start would refuse the event of a target with an authority under every
\* class that says the path parser, the allowlist or the body denied it.
AuthorityNotDisguised ==
  at = "recorded" /\ event.decision = "denied" /\ target.authority # None =>
    \A class \in TargetDenials \cup OperationDenials \cup HeaderDenials \cup BodyDenials :
      ~Valid([event EXCEPT !.error_class = class, !.status = FixedStatus[class]])

\* An event names an upstream target exactly when one was contacted, and names
\* the URL that was sent, although it is computed a second time.
UpstreamTargetIsForwarded == at = "recorded" => event.upstream = forwarded

\* What a target was denied for is recognised in the text that records it: the
\* authority it carried, or that its path or query was cut.
RecordedTextRecognised ==
  at = "recorded" =>
    /\ event.error_class = "absolute_form_unsupported" => TargetHasAuthority(event.target)
    /\ event.error_class = "path_too_long" => IsTruncated(event.target.path)
    /\ event.error_class = "query_too_long" => IsTruncated(event.target.query)

\* The URL a target joins to parses again when its event is built.
JoinedTargetParses == at # "panicked"
=============================================================================
