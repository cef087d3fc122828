-------------------------- MODULE AuditEventProofs --------------------------
(***************************************************************************)
(* Theorems about AuditEvent, for every set of targets and every set of    *)
(* provider statuses.                                                      *)
(***************************************************************************)
EXTENDS AuditEvent, TLAPS

Accepted == {"accepted", "allowed", "body", "sending", "streaming"}

(***************************************************************************)
(* The upstream target of an event: nothing is forwarded before the body   *)
(* was read, and afterwards the forwarded URL is the one the target joins  *)
(* to, however often it is computed.                                       *)
(***************************************************************************)
ForwardInv ==
  /\ target \in Targets
  /\ at \in {"arrived", "admitted", "accepted", "allowed", "body"} => forwarded = NoUpstream
  /\ at \in {"sending", "streaming"} => forwarded = Joined(target)
  /\ at = "recorded" => event.upstream = forwarded

\* ForwardInv holds in every reachable state.
LEMMA ForwardInvariant == Spec => []ForwardInv
<1>1. Init => ForwardInv
  BY DEF Init, ForwardInv
<1>2. ForwardInv /\ [Next]_vars => ForwardInv'
  <2> SUFFICES ASSUME ForwardInv, [Next]_vars PROVE ForwardInv'
    OBVIOUS
  <2> USE DEF ForwardInv, Step, request
  <2>1. ASSUME NEW from \in {"arrived", "admitted", "accepted", "allowed", "body"},
               NEW class, Deny(from, class)
        PROVE  ForwardInv'
    <3>1. event'.upstream = NoUpstream
      BY <2>1 DEF Deny, NewEvent
    <3>2. QED
      BY <2>1, <3>1 DEF Deny
  <2>2. ASSUME NEW from \in {"sending", "streaming"}, NEW outcome, Conclude(from, outcome)
        PROVE  ForwardInv'
    <3>1. CASE Joined(target).query.shape \in Long
      BY <2>2, <3>1 DEF Conclude
    <3>2. CASE Joined(target).query.shape \notin Long
      <4>1. event' = NewEvent(method, target, request_body, Joined(target), outcome)
        BY <2>2, <3>2 DEF Conclude
      <4>2. event'.upstream = Joined(target)
        BY <4>1 DEF NewEvent
      <4>3. QED
        BY <2>2, <3>2, <4>2 DEF Conclude
    <3>3. QED
      BY <3>1, <3>2
  <2>3. ASSUME TooManyRequests \/ Admit \/ AcceptTarget \/ AllowTarget \/ ForwardHeaders
        PROVE  ForwardInv'
    BY <2>1, <2>3 DEF TooManyRequests, Admit, AcceptTarget, AllowTarget, ForwardHeaders
  <2>4. ASSUME ReadBody PROVE ForwardInv'
    BY <2>1, <2>4 DEF ReadBody
  <2>5. ASSUME SendReturns \/ StreamEnds PROVE ForwardInv'
    BY <2>2, <2>5 DEF SendReturns, StreamEnds
  <2>6. ASSUME Restart \/ Rest \/ UNCHANGED vars PROVE ForwardInv'
    BY <2>6 DEF Restart, Rest, vars
  <2>7. QED
    BY <2>3, <2>4, <2>5, <2>6 DEF Next
<1>3. QED
  BY <1>1, <1>2, PTL DEF Spec

\* An event names an upstream target exactly when one was contacted, and the one
\* that was (ObservedAuditRequestInput::new, UpstreamRequest::from_target).
THEOREM UpstreamTargetForwarded == Spec => []UpstreamTargetIsForwarded
<1>1. ForwardInv => UpstreamTargetIsForwarded
  BY DEF ForwardInv, UpstreamTargetIsForwarded
<1>2. QED
  BY <1>1, ForwardInvariant, PTL

-----------------------------------------------------------------------------
(* Events that are denials                                                 *)

\* The targets on which writer and reader agree: no multi-byte character lies
\* across a cut, and a cut leaves of an authority what it needs to be known.
Plain(t) ==
  /\ "long_wide" \notin {t.path.shape, t.query.shape}
  /\ t.authority # "long"
  /\ t.authority # None /\ t.query.shape = "long" => t.path.shape = "long"

\* Classes whose denial records the target as it was accepted.
AcceptedDenials == OperationDenials \cup HeaderDenials \cup BodyDenials

\* When a request is denied for a class.
DeniedFor(m, t, class) ==
  /\ class \in DenialClasses
  /\ class \notin {"connect_unsupported", "too_many_requests"} => m # "CONNECT"
  /\ class = "absolute_form_unsupported" => t.authority # None
  /\ class \in TargetDenials => t.authority = None /\ Rejection(t) = class
  /\ class \in AcceptedDenials => Rejection(t) = None /\ t.authority = None

\* The statuses of denials the reader fixes are those the writer answers with.
LEMMA DenialStatusFixed ==
  ASSUME NEW class \in DenialClasses
  PROVE  class \in DOMAIN FixedStatus /\ FixedStatus[class] = DenialStatus(class)
           /\ DenialStatus(class) \in 100 .. 999
<1>1. class \in Classes \ StreamClasses
  BY DEF Classes, DenialClasses, StreamClasses, TargetDenials, OperationDenials, HeaderDenials,
     BodyDenials
<1>2. FixedStatus[class] = DenialStatus(class) /\ DenialStatus(class) \in 100 .. 999
  BY <1>1 DEF FixedStatus, DenialStatus, DenialClasses, TargetDenials, OperationDenials,
     HeaderDenials, BodyDenials
<1>3. QED
  BY <1>1, <1>2 DEF FixedStatus

\* The target a denial records bears out its class.
LEMMA DeniedTargetFits ==
  ASSUME NEW t \in AllTargets, Plain(t), NEW m, NEW class, DeniedFor(m, t, class),
         NEW recorded,
         class \in AcceptedDenials => recorded = t,
         class \notin AcceptedDenials => recorded = AuditTarget(t),
         NEW e, e.error_class = class, e.target = recorded
  PROVE  /\ DeniedTargetMatches(e)
         /\ {recorded.path.shape, recorded.query.shape} \cap Long = {}
<1>1. /\ t.authority \in Authorities /\ t.path.shape \in PathShapes /\ t.path.fault \in PathFaults
      /\ t.query.shape \in QueryShapes /\ t.query.fault \in QueryFaults
      /\ t \in [authority : Authorities,
                path : [shape : PathShapes, fault : PathFaults],
                query : [shape : QueryShapes, fault : QueryFaults]]
  BY DEF AllTargets
<1>2. CASE class \in AcceptedDenials
  <2>1. recorded = t /\ Rejection(t) = None
    BY <1>2 DEF DeniedFor
  <2>2. t.path.shape \notin Long /\ t.query.shape \notin Long
    BY <2>1 DEF Rejection, None
  <2>3. DeniedTargetMatches(e)
    BY <1>2, <2>1 DEF DeniedTargetMatches, TargetRejected, NonAuthorityTargetRejected,
                      AcceptedDenials, TargetDenials, OperationDenials,
       HeaderDenials, BodyDenials
  <2>4. QED
    BY <2>1, <2>2, <2>3
<1>3. CASE class \notin AcceptedDenials
  <2>1. /\ recorded.authority = t.authority
        /\ recorded.path = Bounded(t.path) /\ recorded.query = Bounded(t.query)
    BY <1>1, <1>3 DEF AuditTarget
  <2>2. /\ t.path.shape \in Long => recorded.path = [shape |-> "cut", fault |-> "non_origin_form"]
        /\ t.path.shape \notin Long => recorded.path = t.path
        /\ t.query.shape \in Long => recorded.query = [shape |-> "cut", fault |-> "non_origin_form"]
        /\ t.query.shape \notin Long => recorded.query = t.query
    BY <2>1 DEF Bounded, Plain, Long
  <2>3. {recorded.path.shape, recorded.query.shape} \cap Long = {}
    BY <1>1, <2>2 DEF Long
  <2>4. CASE class = "absolute_form_unsupported"
    <3>1. t.authority = "short"
      BY <1>1, <2>4 DEF DeniedFor, Plain, Authorities
    <3>2. TargetHasAuthority(recorded)
      BY <1>1, <2>1, <2>2, <3>1
         DEF TargetHasAuthority, ParsedTargetHasAuthority, TruncatedTargetHasAuthority,
             IsTruncated, Plain, Long, None, PathShapes, QueryShapes
    <3>3. QED
      BY <2>3, <2>4, <3>2
         DEF DeniedTargetMatches, TargetRejected, NonAuthorityTargetRejected,
             OperationDenials, HeaderDenials, BodyDenials
  <2>5. CASE class \in TargetDenials
    <3>1. t.authority = None /\ Rejection(t) = class
      BY <2>5 DEF DeniedFor
    <3>2. ~TargetHasAuthority(recorded)
      BY <2>1, <3>1
         DEF TargetHasAuthority, ParsedTargetHasAuthority, TruncatedTargetHasAuthority, None
    <3>3. CASE class = "path_too_long"
      <4>1. IsTruncated(recorded.path)
        BY <1>1, <2>2, <3>1, <3>3 DEF IsTruncated, Rejection, PathFaults, QueryFaults, None
      <4>2. QED
        BY <2>3, <3>2, <3>3, <4>1
           DEF DeniedTargetMatches, TargetRejected, NonAuthorityTargetRejected,
               OperationDenials, HeaderDenials, BodyDenials, TargetDenials
    <3>4. CASE class = "query_too_long"
      <4>1. IsTruncated(recorded.query) /\ PathParses(recorded.path)
        BY <1>1, <2>2, <3>1, <3>4 DEF IsTruncated, PathParses, Rejection, PathFaults,
                              QueryFaults, None
      <4>2. QED
        BY <2>3, <3>4, <4>1
           DEF DeniedTargetMatches, TargetRejected, NonAuthorityTargetRejected,
               OperationDenials, HeaderDenials, BodyDenials, TargetDenials
    <3>5. CASE class \notin {"path_too_long", "query_too_long"}
      <4>1. Rejection(recorded) = class
        BY <1>1, <2>2, <3>1, <3>5 DEF Rejection, PathFaults, QueryFaults, None, Long
      <4>2. QED
        BY <2>3, <2>5, <3>2, <3>5, <4>1
           DEF DeniedTargetMatches, TargetRejected, NonAuthorityTargetRejected,
               OperationDenials, HeaderDenials, BodyDenials, TargetDenials
    <3>6. QED
      BY <3>3, <3>4, <3>5
  <2>6. CASE class \in {"connect_unsupported", "too_many_requests"}
    BY <2>3, <2>6
       DEF DeniedTargetMatches, TargetRejected, NonAuthorityTargetRejected, TargetDenials,
           OperationDenials, HeaderDenials, BodyDenials
  <2>7. QED
    BY <1>3, <2>4, <2>5, <2>6 DEF DeniedFor, DenialClasses, AcceptedDenials
<1>4. QED
  BY <1>2, <1>3

\* The event of a denial is read back.
LEMMA DenialIsValid ==
  ASSUME NEW t \in AllTargets, Plain(t), NEW m \in Methods, NEW class, DeniedFor(m, t, class),
         NEW recorded,
         class \in AcceptedDenials => recorded = t,
         class \notin AcceptedDenials => recorded = AuditTarget(t),
         NEW named, named = IF class = "connect_unsupported" THEN "CONNECT" ELSE m
  PROVE  Valid(NewEvent(named, recorded, NotObserved, NoUpstream, Denied(class)))
<1> DEFINE e == NewEvent(named, recorded, NotObserved, NoUpstream, Denied(class))
<1>1. /\ e.decision = "denied" /\ e.error_class = class /\ e.method = AuditMethod(named)
      /\ e.target = recorded /\ e.request_body = NotObserved /\ e.response_body = NotObserved
      /\ e.status = DenialStatus(class) /\ e.upstream = NoUpstream
  BY DEF NewEvent, Denied, Outcome
<1> HIDE DEF e
<1>2. class \in DenialClasses
  BY DEF DeniedFor
<1>3. DeniedTargetMatches(e) /\ {e.target.path.shape, e.target.query.shape} \cap Long = {}
  BY <1>1, DeniedTargetFits
<1>4. FieldsRead(e)
  BY <1>1, <1>2, <1>3, DenialStatusFixed
     DEF FieldsRead, MethodReads, TextReads, UpstreamReads, StatusReads, AuditMethod
<1>5. ClassMatchesDecision(e)
  BY <1>1, <1>2 DEF ClassMatchesDecision, IsDenial, IsResponseError, IsUpstreamError
<1>6. MethodMatches(e)
  BY <1>1 DEF MethodMatches, DeniedFor, AuditMethod
<1>7. RequestBodyMatches(e)
  BY <1>1 DEF RequestBodyMatches
<1>8. ResponseBodyMatches(e)
  BY <1>1, <1>2
     DEF ResponseBodyMatches, ResponseHeaderClasses, DenialClasses, TargetDenials,
         OperationDenials, HeaderDenials, BodyDenials
<1>9. StatusMatches(e)
  BY <1>1, <1>2, DenialStatusFixed DEF StatusMatches
<1>10. UpstreamTargetMatches(e)
  BY <1>1 DEF UpstreamTargetMatches, UpstreamTargetExpected
<1>11. Valid(e)
  BY <1>3, <1>4, <1>5, <1>6, <1>7, <1>8, <1>9, <1>10 DEF Valid
<1>12. QED
  BY <1>11 DEF e

-----------------------------------------------------------------------------
(* Events of forwarded requests                                            *)

\* The outcomes of a request the provider was contacted for.
ConcludedWith(outcome) ==
  \/ \E status \in UpstreamStatuses, bytes \in 0 .. 1 : outcome = Allowed(bytes, status)
  \/ \E class \in UpstreamClasses : outcome = UpstreamError(class)
  \/ \E class \in ResponseHeaderClasses : outcome = ResponseHeaderError(class)
  \/ \E class \in StreamClasses, status \in UpstreamStatuses, bytes \in 0 .. 2 :
       /\ outcome = ResponseError(class, bytes, status)
       /\ class = "response_body_too_large" => bytes > 0

\* What an outcome says of the response fits its decision and class.
LEMMA OutcomeFits ==
  ASSUME NEW outcome, ConcludedWith(outcome), NEW e,
         e.decision = outcome.decision, e.error_class = outcome.error_class,
         e.response_body = outcome.response_body, e.status = outcome.status
  PROVE  /\ e.decision \in {"allowed", "upstream_error", "response_error"}
         /\ e.error_class \notin DenialClasses
         /\ ClassMatchesDecision(e) /\ ResponseBodyMatches(e) /\ StatusMatches(e)
         /\ e.status \in 100 .. 999
<1> USE DEF ClassMatchesDecision, IsDenial, IsResponseError, IsUpstreamError,
            ResponseBodyMatches, StatusMatches, Outcome, Summary
<1> USE DEF Observed, NotObserved, None
<1> USE DEF DenialClasses, TargetDenials, OperationDenials, HeaderDenials, BodyDenials
<1>1. UpstreamStatuses \subseteq 100 .. 999
  BY EventAssumption DEF EventAssumption
<1>2. DOMAIN FixedStatus = Classes \ StreamClasses
  BY DEF FixedStatus
<1>3. ASSUME NEW status \in UpstreamStatuses, NEW bytes \in 0 .. 1,
             outcome = Allowed(bytes, status)
      PROVE  e.error_class \notin DOMAIN FixedStatus
  BY <1>2, <1>3
     DEF Allowed, Classes, StreamClasses, UpstreamClasses, ResponseHeaderClasses
<1>4. CASE \E status \in UpstreamStatuses, bytes \in 0 .. 1 : outcome = Allowed(bytes, status)
  <2>1. PICK status \in UpstreamStatuses, bytes \in 0 .. 1 : outcome = Allowed(bytes, status)
    BY <1>4
  <2>2. /\ e.error_class = None /\ e.decision = "allowed" /\ e.status = status
        /\ e.response_body \in Observed
    BY <2>1 DEF Allowed
  <2>3. StatusMatches(e)
    BY <1>3, <2>1
  <2>4. ResponseBodyMatches(e)
    BY <2>2 DEF ResponseHeaderClasses
  <2>5. QED
    BY <1>1, <2>2, <2>3, <2>4
<1>5. CASE \E class \in UpstreamClasses : outcome = UpstreamError(class)
  <2>1. PICK class \in UpstreamClasses : outcome = UpstreamError(class)
    BY <1>5
  <2>2. FixedStatus[class] = UpstreamErrorStatus(class)
    BY DEF FixedStatus, Classes, StreamClasses, UpstreamClasses, UpstreamErrorStatus
  <2>3. QED
    BY <2>1, <2>2 DEF UpstreamError, UpstreamErrorStatus, UpstreamClasses
<1>6. CASE \E class \in ResponseHeaderClasses : outcome = ResponseHeaderError(class)
  <2>1. PICK class \in ResponseHeaderClasses : outcome = ResponseHeaderError(class)
    BY <1>6
  <2>2. FixedStatus[class] = ResponseHeaderStatus
    BY DEF FixedStatus, Classes, StreamClasses, ResponseHeaderClasses, ResponseHeaderStatus
  <2>3. QED
    BY <2>1, <2>2 DEF ResponseHeaderError, ResponseHeaderStatus, ResponseHeaderClasses
<1>7. CASE \E class \in StreamClasses, status \in UpstreamStatuses, bytes \in 0 .. 2 :
             /\ outcome = ResponseError(class, bytes, status)
             /\ class = "response_body_too_large" => bytes > 0
  <2>1. PICK class \in StreamClasses, status \in UpstreamStatuses, bytes \in 0 .. 2 :
               /\ outcome = ResponseError(class, bytes, status)
               /\ class = "response_body_too_large" => bytes > 0
    BY <1>7
  <2>2. e.error_class = class /\ e.decision = "response_error" /\ e.status = status
        /\ e.response_body = Summary(bytes)
    BY <2>1 DEF ResponseError
  <2>3. ClassMatchesDecision(e) /\ StatusMatches(e)
    BY <1>2, <2>1, <2>2
  <2>4. e.error_class \notin DenialClasses \cup ResponseHeaderClasses
    BY <2>1, <2>2 DEF StreamClasses, ResponseHeaderClasses
  <2>5. /\ e.response_body \in Observed
        /\ class = "response_body_too_large" => e.response_body = "non_empty"
    BY <2>1, <2>2
  <2>6. ResponseBodyMatches(e)
    BY <2>2, <2>4, <2>5
  <2>7. QED
    BY <1>1, <2>1, <2>2, <2>3, <2>4, <2>6
<1>8. QED
  BY <1>4, <1>5, <1>6, <1>7 DEF ConcludedWith

\* The event of a forwarded request is read back, unless its URL does not parse.
LEMMA ConclusionIsValid ==
  ASSUME NEW t \in AllTargets, Rejection(t) = None, Joined(t).query.shape \notin Long,
         NEW m \in Methods \ {"CONNECT", "long"}, NEW body \in Observed,
         NEW outcome, ConcludedWith(outcome)
  PROVE  Valid(NewEvent(m, t, body, Joined(t), outcome))
<1> DEFINE e == NewEvent(m, t, body, Joined(t), outcome)
<1>1. /\ e.decision = outcome.decision /\ e.error_class = outcome.error_class
      /\ e.response_body = outcome.response_body /\ e.status = outcome.status
      /\ e.method = AuditMethod(m) /\ e.target = t /\ e.request_body = body
      /\ e.upstream = Joined(t)
  BY DEF NewEvent
<1> HIDE DEF e
<1>2. /\ e.decision \in {"allowed", "upstream_error", "response_error"}
      /\ e.error_class \notin DenialClasses
      /\ ClassMatchesDecision(e) /\ ResponseBodyMatches(e) /\ StatusMatches(e)
      /\ e.status \in 100 .. 999
  BY <1>1, OutcomeFits
<1>3. /\ t.path.shape \notin Long /\ t.path.fault = None
      /\ t.query.shape \notin Long /\ t.query.fault = None
  <2>1. t.path.fault \in PathFaults /\ t.query.fault \in QueryFaults
    BY DEF AllTargets
  <2>2. QED
    BY <2>1 DEF Rejection, None, PathFaults, QueryFaults
<1>4. PathParses(e.upstream.path) /\ QueryParses(e.upstream.query)
  BY <1>1, <1>3 DEF Joined, PathParses, QueryParses, AllTargets
<1>5. FieldsRead(e)
  BY <1>1, <1>2, <1>3, <1>4
     DEF FieldsRead, MethodReads, TextReads, UpstreamReads, StatusReads, AuditMethod
<1>6. MethodMatches(e)
  BY <1>1, <1>2 DEF MethodMatches, AuditMethod, DenialClasses
<1>7. RequestBodyMatches(e)
  BY <1>1, <1>2 DEF RequestBodyMatches, DenialClasses
<1>8. UpstreamTargetMatches(e)
  BY <1>1, <1>2 DEF UpstreamTargetMatches, UpstreamTargetExpected
<1>9. Valid(e)
  BY <1>2, <1>5, <1>6, <1>7, <1>8 DEF Valid
<1>10. QED
  BY <1>9 DEF e

-----------------------------------------------------------------------------
(* The log is read back                                                    *)

(***************************************************************************)
(* What is known of a request by how far it came, enough for the event of  *)
(* whatever ends it next to be valid.                                      *)
(***************************************************************************)
ReadInv ==
  /\ target \in Targets /\ method \in Methods
  /\ at \in Accepted =>
       method # "CONNECT" /\ target.authority = None /\ Rejection(target) = None
  /\ at \in {"allowed", "body", "sending", "streaming"} => method # "long"
  /\ at \in {"sending", "streaming"} => request_body \in Observed
  /\ at = "recorded" => Valid(event)
  /\ at = "recorded" /\ event.decision = "denied" /\ target.authority # None =>
       event.target = AuditTarget(target)
  /\ at = "recorded" => {"decision", "error_class", "target", "status"} \subseteq DOMAIN event
  /\ EveryEventReadBack

\* A denial for a class that fits the request keeps ReadInv.
LEMMA DenyReads ==
  ASSUME ReadInv, \A t \in Targets : Plain(t), NEW from, NEW class, Deny(from, class),
         DeniedFor(method, target, class)
  PROVE  ReadInv'
<1> DEFINE named == DenialMethod(class) recorded == DenialTarget(class)
<1>1. /\ target \in AllTargets /\ Plain(target) /\ method \in Methods
  BY EventAssumption DEF ReadInv, EventAssumption
<1>2. /\ class \in AcceptedDenials => recorded = target
      /\ class \notin AcceptedDenials => recorded = AuditTarget(target)
      /\ named = IF class = "connect_unsupported" THEN "CONNECT" ELSE method
  BY DEF DenialTarget, DenialMethod, AcceptedDenials
<1>3. /\ at' = "recorded" /\ UNCHANGED <<method, target, request_body>>
      /\ event' = NewEvent(named, recorded, NotObserved, NoUpstream, Denied(class))
  BY DEF Deny, Step, request
<1> HIDE DEF named, recorded
<1>4. Valid(event')
  BY <1>1, <1>2, <1>3, DenialIsValid
<1>5. /\ event'.target = recorded
      /\ {"decision", "error_class", "target", "status"} \subseteq DOMAIN event'
  BY <1>3 DEF NewEvent
<1>6. target.authority # None => class \notin AcceptedDenials
  BY DEF DeniedFor
<1>7. QED
  BY <1>1, <1>2, <1>3, <1>4, <1>5, <1>6 DEF ReadInv, Accepted, EveryEventReadBack

\* Whatever ends a forwarded request keeps ReadInv.
LEMMA ConcludeReads ==
  ASSUME ReadInv, NEW from \in {"sending", "streaming"}, NEW outcome, ConcludedWith(outcome),
         Conclude(from, outcome)
  PROVE  ReadInv'
<1>1. target \in AllTargets /\ method \in Methods
  BY EventAssumption DEF ReadInv, EventAssumption
<1>2. at = from /\ UNCHANGED <<method, target, request_body>>
  BY DEF Conclude, Step, request
<1>3. CASE Joined(target).query.shape \in Long
  BY <1>2, <1>3 DEF Conclude, Step, ReadInv, Accepted, EveryEventReadBack
<1>4. CASE Joined(target).query.shape \notin Long
  <2>1. at' = "recorded" /\ event' = NewEvent(method, target, request_body, Joined(target), outcome)
    BY <1>4 DEF Conclude, Step
  <2>2. Valid(event')
    <3>1. /\ Rejection(target) = None /\ request_body \in Observed
          /\ method \in Methods \ {"CONNECT", "long"}
      BY <1>1, <1>2 DEF ReadInv, Accepted
    <3>2. QED
      BY <1>1, <1>4, <2>1, <3>1, ConclusionIsValid
  <2>3. target.authority = None
    BY <1>2 DEF ReadInv, Accepted
  <2>4. {"decision", "error_class", "target", "status"} \subseteq DOMAIN event'
    BY <2>1 DEF NewEvent
  <2>5. QED
    BY <1>1, <1>2, <2>1, <2>2, <2>3, <2>4 DEF ReadInv, Accepted, EveryEventReadBack
<1>5. QED
  BY <1>3, <1>4

\* ReadInv holds in every reachable state.
LEMMA ReadInvariant ==
  ASSUME \A t \in Targets : Plain(t) PROVE Spec => []ReadInv
<1>1. Init => ReadInv
  BY DEF Init, ReadInv, Accepted, EveryEventReadBack
<1>2. ReadInv /\ [Next]_vars => ReadInv'
  <2> SUFFICES ASSUME ReadInv, [Next]_vars PROVE ReadInv'
    OBVIOUS
  <2> USE DEF Step, request
  <2>1. target \in AllTargets
    BY EventAssumption DEF ReadInv, EventAssumption
  <2>2. ASSUME NEW from, NEW class, Deny(from, class), DeniedFor(method, target, class)
        PROVE  ReadInv'
    BY <2>2, DenyReads
  <2>3. ASSUME NEW from \in Accepted, NEW class \in AcceptedDenials, Deny(from, class)
        PROVE  ReadInv'
    <3>1. at = from
      BY <2>3 DEF Deny
    <3>2. DeniedFor(method, target, class)
      BY <2>3, <3>1
         DEF ReadInv, DeniedFor, AcceptedDenials, DenialClasses, OperationDenials,
             HeaderDenials,
             BodyDenials, TargetDenials
    <3>3. QED
      BY <2>2, <2>3, <3>2
  <2>4. ASSUME TooManyRequests PROVE ReadInv'
    <3>1. DeniedFor(method, target, "too_many_requests")
      BY DEF DeniedFor, DenialClasses, TargetDenials, AcceptedDenials, OperationDenials,
         HeaderDenials, BodyDenials
    <3>2. QED
      BY <2>2, <2>4, <3>1 DEF TooManyRequests
  <2>5. ASSUME AcceptTarget PROVE ReadInv'
    <3>1. CASE method = "CONNECT" /\ Deny("admitted", "connect_unsupported")
      <4>1. DeniedFor(method, target, "connect_unsupported")
        BY DEF DeniedFor, DenialClasses, TargetDenials, AcceptedDenials, OperationDenials,
           HeaderDenials, BodyDenials
      <4>2. QED
        BY <2>2, <3>1, <4>1
    <3>2. CASE method # "CONNECT" /\ target.authority # None
               /\ Deny("admitted", "absolute_form_unsupported")
      <4>1. DeniedFor(method, target, "absolute_form_unsupported")
        BY <3>2 DEF DeniedFor, DenialClasses, TargetDenials, AcceptedDenials, OperationDenials,
           HeaderDenials, BodyDenials
      <4>2. QED
        BY <2>2, <3>2, <4>1
    <3>3. CASE method # "CONNECT" /\ target.authority = None /\ Rejection(target) # None
               /\ Deny("admitted", Rejection(target))
      <4>1. Rejection(target) \in TargetDenials
        BY <2>1, <3>3 DEF Rejection, AllTargets, PathFaults, QueryFaults, TargetDenials, None
      <4>2. DeniedFor(method, target, Rejection(target))
        BY <3>3, <4>1 DEF DeniedFor, DenialClasses, TargetDenials, AcceptedDenials,
           OperationDenials, HeaderDenials, BodyDenials
      <4>3. QED
        BY <2>2, <3>3, <4>2
    <3>4. CASE /\ method # "CONNECT" /\ target.authority = None /\ Rejection(target) = None
               /\ Step("admitted", "accepted")
               /\ UNCHANGED <<request, request_body, forwarded, event>>
      BY <3>4 DEF ReadInv, Accepted, EveryEventReadBack
    <3>5. QED
      BY <2>5, <3>1, <3>2, <3>3, <3>4 DEF AcceptTarget
  <2>6. ASSUME AllowTarget \/ ForwardHeaders PROVE ReadInv'
    <3>1. CASE \E class \in OperationDenials : Deny("accepted", class)
      BY <2>3, <3>1 DEF Accepted, AcceptedDenials
    <3>2. CASE \E error \in HeaderErrors : Deny("allowed", RequestHeaderClass(error))
      <4>1. \A error \in HeaderErrors : RequestHeaderClass(error) \in AcceptedDenials
        BY DEF RequestHeaderClass, AcceptedDenials, HeaderDenials
      <4>2. QED
        BY <2>3, <3>2, <4>1 DEF Accepted
    <3>3. CASE Step("accepted", "allowed") /\ method # "long"
               /\ UNCHANGED <<request, request_body, forwarded, event>>
      BY <3>3 DEF ReadInv, Accepted, EveryEventReadBack
    <3>4. CASE Step("allowed", "body") /\ UNCHANGED <<request, request_body, forwarded, event>>
      BY <3>4 DEF ReadInv, Accepted, EveryEventReadBack
    <3>5. QED
      BY <2>6, <3>1, <3>2, <3>3, <3>4 DEF AllowTarget, ForwardHeaders
  <2>7. ASSUME ReadBody PROVE ReadInv'
    <3>1. CASE \E error \in BodyErrors : Deny("body", RequestBodyClass(error))
      <4>1. \A error \in BodyErrors : RequestBodyClass(error) \in AcceptedDenials
        BY DEF RequestBodyClass, BodyErrors, AcceptedDenials, BodyDenials
      <4>2. QED
        BY <2>3, <3>1, <4>1 DEF Accepted
    <3>2. CASE \E bytes \in 0 .. 1 :
                 /\ Step("body", "sending") /\ request_body' = Summary(bytes)
                 /\ UNCHANGED <<request, event>>
      BY <3>2 DEF ReadInv, Accepted, EveryEventReadBack, Summary, Observed
    <3>3. QED
      BY <2>7, <3>1, <3>2 DEF ReadBody
  <2>8. ASSUME SendReturns PROVE ReadInv'
    <3>1. CASE \E timed_out, connecting \in BOOLEAN :
                 Conclude("sending", UpstreamError(UpstreamClass(timed_out, connecting)))
      <4>1. PICK timed_out \in BOOLEAN, connecting \in BOOLEAN :
                   Conclude("sending", UpstreamError(UpstreamClass(timed_out, connecting)))
        BY <3>1
      <4>2. UpstreamClass(timed_out, connecting) \in UpstreamClasses
        BY DEF UpstreamClass, UpstreamClasses
      <4>3. ConcludedWith(UpstreamError(UpstreamClass(timed_out, connecting)))
        BY <4>2 DEF ConcludedWith
      <4>4. QED
        BY <4>1, <4>3, ConcludeReads
    <3>2. CASE \E error \in HeaderErrors :
                 Conclude("sending", ResponseHeaderError(ResponseHeaderClass(error)))
      <4>1. PICK error \in HeaderErrors :
                   Conclude("sending", ResponseHeaderError(ResponseHeaderClass(error)))
        BY <3>2
      <4>2. ResponseHeaderClass(error) \in ResponseHeaderClasses
        BY DEF ResponseHeaderClass, ResponseHeaderClasses
      <4>3. ConcludedWith(ResponseHeaderError(ResponseHeaderClass(error)))
        BY <4>2 DEF ConcludedWith
      <4>4. QED
        BY <4>1, <4>3, ConcludeReads
    <3>3. CASE Step("sending", "streaming") /\ UNCHANGED <<request, request_body, forwarded, event>>
      BY <3>3 DEF ReadInv, Accepted, EveryEventReadBack
    <3>4. QED
      BY <2>8, <3>1, <3>2, <3>3 DEF SendReturns
  <2>9. ASSUME StreamEnds PROVE ReadInv'
    <3>1. PICK status \in UpstreamStatuses, bytes \in 0 .. 1 :
            \/ Conclude("streaming", Allowed(bytes, status))
            \/ \E class \in StreamClasses :
                 LET oversized == IF class = "response_body_too_large" THEN 1 ELSE 0 IN
                 Conclude("streaming", ResponseError(class, bytes + oversized, status))
      BY <2>9 DEF StreamEnds
    <3>2. CASE Conclude("streaming", Allowed(bytes, status))
      <4>1. ConcludedWith(Allowed(bytes, status))
        BY DEF ConcludedWith
      <4>2. QED
        BY <3>2, <4>1, ConcludeReads
    <3>3. ASSUME NEW class \in StreamClasses, NEW total \in 0 .. 2,
                 class = "response_body_too_large" => total > 0,
                 Conclude("streaming", ResponseError(class, total, status))
          PROVE  ReadInv'
      <4>1. ConcludedWith(ResponseError(class, total, status))
        BY <3>3 DEF ConcludedWith
      <4>2. QED
        BY <3>3, <4>1, ConcludeReads
    <3>4. bytes \in 0 .. 2 /\ bytes + 1 \in 0 .. 2 /\ bytes + 1 > 0 /\ bytes + 0 = bytes
      OBVIOUS
    <3>5. QED
      BY <3>1, <3>2, <3>3, <3>4
  <2>10. ASSUME Restart \/ Rest \/ UNCHANGED vars PROVE ReadInv'
    BY <2>10 DEF Restart, Rest, vars, ReadInv, Accepted, EveryEventReadBack
  <2>11. QED
    <3>1. ASSUME Admit PROVE ReadInv'
      BY <3>1 DEF Admit, ReadInv, Accepted, EveryEventReadBack
    <3>2. QED
      BY <2>4, <2>5, <2>6, <2>7, <2>8, <2>9, <2>10, <3>1 DEF Next
<1>3. QED
  BY <1>1, <1>2, PTL DEF Spec

\* Of targets writer and reader agree on, every event the gateway writes is
\* accepted when it starts again (ExistingAuditEventFields::validate).
THEOREM EventsReadBack ==
  ASSUME \A t \in Targets : Plain(t) PROVE Spec => []EveryEventReadBack
<1>1. ReadInv => EveryEventReadBack
  BY DEF ReadInv
<1>2. QED
  BY <1>1, ReadInvariant, PTL

\* A target with an authority bears out none of the classes that come after it.
LEMMA AuthorityShows ==
  ASSUME NEW t \in AllTargets, Plain(t), t.authority # None,
         NEW class \in TargetDenials \cup AcceptedDenials,
         NEW e, e.error_class = class, e.target = AuditTarget(t)
  PROVE  ~DeniedTargetMatches(e)
<1>1. /\ t.authority \in Authorities /\ t.path.shape \in PathShapes
      /\ t.query.shape \in QueryShapes /\ t.path.fault = "non_origin_form"
      /\ t \in [authority : Authorities,
                path : [shape : PathShapes, fault : PathFaults],
                query : [shape : QueryShapes, fault : QueryFaults]]
  BY DEF AllTargets
<1>2. t.authority = "short"
  BY <1>1 DEF Plain, Authorities
<1>3. /\ e.target.authority = "short"
      /\ e.target.path = Bounded(t.path) /\ e.target.query = Bounded(t.query)
  BY <1>1, <1>2 DEF AuditTarget
<1>4. /\ t.path.shape \in Long => e.target.path = [shape |-> "cut", fault |-> "non_origin_form"]
      /\ t.path.shape \notin Long => e.target.path = t.path
      /\ t.query.shape \notin Long => e.target.query = t.query
  BY <1>3 DEF Bounded, Plain, Long
<1>5. e.target.path.fault = "non_origin_form" /\ e.target.path.shape \notin Long
  BY <1>1, <1>4 DEF Long
<1>6. TargetHasAuthority(e.target)
  BY <1>1, <1>2, <1>3, <1>4
     DEF TargetHasAuthority, ParsedTargetHasAuthority, TruncatedTargetHasAuthority, IsTruncated,
         Plain, Long, None, PathShapes, QueryShapes
<1>7. Rejection(e.target) = "non_origin_form" /\ ~PathParses(e.target.path)
  BY <1>5 DEF Rejection, PathParses, None
<1>8. QED
  BY <1>6, <1>7
     DEF DeniedTargetMatches, TargetRejected, NonAuthorityTargetRejected, TargetDenials,
         AcceptedDenials, OperationDenials, HeaderDenials,
         BodyDenials, None

\* The start refuses the event of a target with an authority under every class
\* that comes after the check for one (validate_denied_target).
THEOREM AuthoritiesShow ==
  ASSUME \A t \in Targets : Plain(t) PROVE Spec => []AuthorityNotDisguised
<1>1. ReadInv => AuthorityNotDisguised
  <2> SUFFICES ASSUME ReadInv, at = "recorded", event.decision = "denied",
                      target.authority # None,
                      NEW class \in TargetDenials \cup OperationDenials \cup HeaderDenials
                                     \cup BodyDenials
               PROVE  ~Valid([event EXCEPT !.error_class = class, !.status = FixedStatus[class]])
    BY DEF AuthorityNotDisguised
  <2> DEFINE e == [event EXCEPT !.error_class = class, !.status = FixedStatus[class]]
  <2>1. target \in AllTargets /\ Plain(target)
    BY EventAssumption DEF ReadInv, EventAssumption
  <2>2. /\ event.target = AuditTarget(target)
        /\ {"decision", "error_class", "target", "status"} \subseteq DOMAIN event
    BY DEF ReadInv
  <2>3. e.error_class = class /\ e.decision = "denied" /\ e.target = AuditTarget(target)
    BY <2>2
  <2>4. class \in TargetDenials \cup AcceptedDenials
    BY DEF AcceptedDenials
  <2> HIDE DEF e
  <2>5. ~DeniedTargetMatches(e)
    BY <2>1, <2>3, <2>4, AuthorityShows
  <2>6. ~Valid(e)
    BY <2>3, <2>5 DEF Valid
  <2>7. QED
    BY <2>6 DEF e
<1>2. QED
  BY <1>1, ReadInvariant, PTL

-----------------------------------------------------------------------------
(* Types                                                                   *)

\* What TypeOK says of an event that was written.
EventOK(e) ==
  /\ e.decision \in {"allowed", "denied", "upstream_error", "response_error"}
  /\ e.error_class \in Classes \cup {None}
  /\ e.method \in {"CONNECT", "token", "cut"}
  /\ {e.target.path.shape, e.target.query.shape} \subseteq RecordedShapes
  /\ {e.request_body, e.response_body} \subseteq BodySummary
  /\ e.status \in 100 .. 999

TypeInv ==
  /\ at \in Locations
  /\ method \in Methods
  /\ target \in Targets
  /\ request_body \in BodySummary
  /\ forwarded = NoUpstream \/ DOMAIN forwarded = {"path", "query"}
  /\ event = NoEvent \/ EventOK(event)
  /\ at \in Accepted => Rejection(target) = None

\* A recorded target has recorded shapes.
LEMMA RecordedTargets ==
  ASSUME NEW t \in AllTargets
  PROVE  /\ {AuditTarget(t).path.shape, AuditTarget(t).query.shape} \subseteq RecordedShapes
         /\ Rejection(t) = None => {t.path.shape, t.query.shape} \subseteq RecordedShapes
<1>1. /\ t.path.shape \in PathShapes /\ t.query.shape \in QueryShapes
      /\ t \in [authority : Authorities,
                path : [shape : PathShapes, fault : PathFaults],
                query : [shape : QueryShapes, fault : QueryFaults]]
  BY DEF AllTargets
<1>2. Rejection(t) = None => t.path.shape \notin Long /\ t.query.shape \notin Long
  BY DEF Rejection, None
<1>3. AuditTarget(t).path = Bounded(t.path) /\ AuditTarget(t).query = Bounded(t.query)
  BY <1>1 DEF AuditTarget
<1>4. Bounded(t.path).shape \in RecordedShapes /\ Bounded(t.query).shape \in RecordedShapes
  BY <1>1 DEF Bounded, RecordedShapes, Long, PathShapes, QueryShapes
<1>5. QED
  BY <1>1, <1>2, <1>3, <1>4 DEF RecordedShapes

\* A denial keeps the types.
LEMMA DenyTypes ==
  ASSUME TypeInv, NEW from, NEW class \in DenialClasses, Deny(from, class),
         class \in AcceptedDenials => from \in Accepted
  PROVE  TypeInv'
<1> DEFINE named == DenialMethod(class) recorded == DenialTarget(class)
<1>1. target \in AllTargets /\ method \in Methods
  BY EventAssumption DEF TypeInv, EventAssumption
<1>2. /\ at = from /\ at' = "recorded" /\ UNCHANGED <<method, target, request_body, forwarded>>
      /\ event' = NewEvent(named, recorded, NotObserved, NoUpstream, Denied(class))
  BY DEF Deny, Step, request
<1>3. {recorded.path.shape, recorded.query.shape} \subseteq RecordedShapes
  BY <1>1, <1>2, RecordedTargets DEF DenialTarget, TypeInv, AcceptedDenials
<1>4. AuditMethod(named) \in {"CONNECT", "token", "cut"}
  BY <1>1 DEF DenialMethod, AuditMethod, Methods
<1> HIDE DEF named, recorded
<1>5. /\ event'.decision = "denied" /\ event'.error_class = class
      /\ event'.method = AuditMethod(named) /\ event'.target = recorded
      /\ event'.request_body = NotObserved /\ event'.response_body = NotObserved
      /\ event'.status = DenialStatus(class)
  BY <1>2 DEF NewEvent, Denied, Outcome
<1>6. EventOK(event')
  BY <1>3, <1>4, <1>5, DenialStatusFixed DEF EventOK, Classes, BodySummary
<1>7. QED
  BY <1>2, <1>6 DEF TypeInv, Accepted, Locations

\* The end of a forwarded request keeps the types.
LEMMA ConcludeTypes ==
  ASSUME TypeInv, NEW from \in {"sending", "streaming"}, NEW outcome, Conclude(from, outcome),
         outcome.decision \in {"allowed", "upstream_error", "response_error"},
         outcome.error_class \in Classes \cup {None},
         outcome.response_body \in BodySummary,
         outcome.status \in 100 .. 999
  PROVE  TypeInv'
<1>1. target \in AllTargets /\ method \in Methods
  BY EventAssumption DEF TypeInv, EventAssumption
<1>2. at = from /\ UNCHANGED <<method, target, request_body, forwarded>>
  BY DEF Conclude, Step, request
<1>3. CASE Joined(target).query.shape \in Long
  BY <1>2, <1>3 DEF Conclude, Step, TypeInv, Accepted, Locations
<1>4. CASE Joined(target).query.shape \notin Long
  <2>1. at' = "recorded" /\ event' = NewEvent(method, target, request_body, Joined(target), outcome)
    BY <1>4 DEF Conclude, Step
  <2>2. {target.path.shape, target.query.shape} \subseteq RecordedShapes
    BY <1>1, <1>2, RecordedTargets DEF TypeInv, Accepted
  <2>3. AuditMethod(method) \in {"CONNECT", "token", "cut"}
    BY <1>1 DEF AuditMethod, Methods
  <2>4. /\ event'.decision = outcome.decision /\ event'.error_class = outcome.error_class
        /\ event'.method = AuditMethod(method) /\ event'.target = target
        /\ event'.request_body = request_body /\ event'.response_body = outcome.response_body
        /\ event'.status = outcome.status
    BY <2>1 DEF NewEvent
  <2>5. EventOK(event')
    BY <2>2, <2>3, <2>4 DEF EventOK, TypeInv
  <2>6. QED
    BY <1>2, <2>1, <2>5 DEF TypeInv, Accepted, Locations
<1>5. QED
  BY <1>3, <1>4

\* TypeInv holds in every reachable state.
LEMMA TypeInvariant == Spec => []TypeInv
<1>1. Init => TypeInv
  BY DEF Init, TypeInv, Locations, BodySummary, Accepted
<1>2. TypeInv /\ [Next]_vars => TypeInv'
  <2> SUFFICES ASSUME TypeInv, [Next]_vars PROVE TypeInv'
    OBVIOUS
  <2> USE DEF Step, request
  <2>1. /\ OperationDenials \cup HeaderDenials \cup BodyDenials = AcceptedDenials
        /\ AcceptedDenials \cup TargetDenials \subseteq DenialClasses
        /\ {"connect_unsupported", "absolute_form_unsupported", "too_many_requests"}
             \subseteq DenialClasses \ AcceptedDenials
        /\ TargetDenials \cap AcceptedDenials = {}
    BY DEF AcceptedDenials, DenialClasses, TargetDenials, OperationDenials, HeaderDenials,
       BodyDenials
  <2>2. ASSUME TooManyRequests \/ Admit PROVE TypeInv'
    <3>1. CASE TooManyRequests
      BY <2>1, <3>1, DenyTypes DEF TooManyRequests
    <3>2. CASE Admit
      BY <3>2 DEF Admit, TypeInv, Locations, Accepted
    <3>3. QED
      BY <2>2, <3>1, <3>2
  <2>3. ASSUME AcceptTarget PROVE TypeInv'
    <3>1. target \in AllTargets
      BY EventAssumption DEF TypeInv, EventAssumption
    <3>2. Rejection(target) # None => Rejection(target) \in TargetDenials
      BY <3>1 DEF Rejection, AllTargets, PathFaults, QueryFaults, TargetDenials, None
    <3>3. ASSUME NEW class \in DenialClasses \ AcceptedDenials, Deny("admitted", class)
          PROVE  TypeInv'
      BY <3>3, DenyTypes
    <3>4. CASE /\ Rejection(target) = None
               /\ Step("admitted", "accepted")
               /\ UNCHANGED <<request, request_body, forwarded, event>>
      BY <3>4 DEF TypeInv, Locations, Accepted
    <3>5. QED
      BY <2>1, <2>3, <3>2, <3>3, <3>4 DEF AcceptTarget
  <2>4. ASSUME NEW from \in Accepted, NEW class \in AcceptedDenials, Deny(from, class)
        PROVE  TypeInv'
    BY <2>1, <2>4, DenyTypes
  <2>5. ASSUME AllowTarget \/ ForwardHeaders PROVE TypeInv'
    <3>1. CASE \E class \in OperationDenials : Deny("accepted", class)
      BY <2>1, <2>4, <3>1 DEF Accepted
    <3>2. CASE \E error \in HeaderErrors : Deny("allowed", RequestHeaderClass(error))
      <4>1. \A error \in HeaderErrors : RequestHeaderClass(error) \in AcceptedDenials
        BY DEF RequestHeaderClass, AcceptedDenials, HeaderDenials
      <4>2. QED
        BY <2>4, <3>2, <4>1 DEF Accepted
    <3>3. CASE /\ Step("accepted", "allowed") \/ Step("allowed", "body")
               /\ UNCHANGED <<request, request_body, forwarded, event>>
      BY <3>3 DEF TypeInv, Locations, Accepted
    <3>4. QED
      BY <2>5, <3>1, <3>2, <3>3 DEF AllowTarget, ForwardHeaders
  <2>6. ASSUME ReadBody PROVE TypeInv'
    <3>1. CASE \E error \in BodyErrors : Deny("body", RequestBodyClass(error))
      <4>1. \A error \in BodyErrors : RequestBodyClass(error) \in AcceptedDenials
        BY DEF RequestBodyClass, BodyErrors, AcceptedDenials, BodyDenials
      <4>2. QED
        BY <2>4, <3>1, <4>1 DEF Accepted
    <3>2. CASE \E bytes \in 0 .. 1 :
                 /\ Step("body", "sending") /\ request_body' = Summary(bytes)
                 /\ forwarded' = Joined(target)
                 /\ UNCHANGED <<request, event>>
      BY <3>2 DEF TypeInv, Locations, Accepted, Summary, BodySummary, Observed, Joined
    <3>3. QED
      BY <2>6, <3>1, <3>2 DEF ReadBody
  <2>7. ASSUME SendReturns \/ StreamEnds PROVE TypeInv'
    <3>1. ASSUME NEW from \in {"sending", "streaming"}, NEW outcome, Conclude(from, outcome),
                 \/ \E class \in UpstreamClasses : outcome = UpstreamError(class)
                 \/ \E class \in ResponseHeaderClasses : outcome = ResponseHeaderError(class)
                 \/ \E status \in UpstreamStatuses, bytes \in Nat :
                      outcome = Allowed(bytes, status)
                 \/ \E class \in StreamClasses, status \in UpstreamStatuses, bytes \in Nat :
                      outcome = ResponseError(class, bytes, status)
          PROVE  TypeInv'
      <4>1. /\ outcome.decision \in {"allowed", "upstream_error", "response_error"}
            /\ outcome.error_class \in Classes \cup {None}
            /\ outcome.response_body \in BodySummary
            /\ outcome.status \in 100 .. 999
        <5> USE EventAssumption DEF EventAssumption, Outcome, Classes, BodySummary
        <5>1. CASE \E class \in UpstreamClasses : outcome = UpstreamError(class)
          BY <5>1 DEF UpstreamError, UpstreamErrorStatus
        <5>2. CASE \E class \in ResponseHeaderClasses : outcome = ResponseHeaderError(class)
          BY <5>2 DEF ResponseHeaderError, ResponseHeaderStatus
        <5>3. CASE \E status \in UpstreamStatuses, bytes \in Nat : outcome = Allowed(bytes, status)
          BY <5>3 DEF Allowed, Observed, Summary
        <5>4. CASE \E class \in StreamClasses, status \in UpstreamStatuses, bytes \in Nat :
                     outcome = ResponseError(class, bytes, status)
          BY <5>4 DEF ResponseError, Observed, Summary
        <5>5. QED
          BY <3>1, <5>1, <5>2, <5>3, <5>4
      <4>2. QED
        BY <3>1, <4>1, ConcludeTypes
    <3>2. CASE SendReturns
      <4>1. \A timed_out, connecting \in BOOLEAN : UpstreamClass(timed_out, connecting) \in UpstreamClasses
        BY DEF UpstreamClass, UpstreamClasses
      <4>2. \A error \in HeaderErrors : ResponseHeaderClass(error) \in ResponseHeaderClasses
        BY DEF ResponseHeaderClass, ResponseHeaderClasses
      <4>3. CASE Step("sending", "streaming")
                 /\ UNCHANGED <<request, request_body, forwarded, event>>
        BY <4>3 DEF TypeInv, Locations, Accepted
      <4>4. QED
        BY <3>1, <3>2, <4>1, <4>2, <4>3 DEF SendReturns
    <3>3. CASE StreamEnds
      <4>1. PICK status \in UpstreamStatuses, bytes \in 0 .. 1 :
              \/ Conclude("streaming", Allowed(bytes, status))
              \/ \E class \in StreamClasses, extra \in 0 .. 1 :
                   Conclude("streaming", ResponseError(class, bytes + extra, status))
        BY <3>3 DEF StreamEnds
      <4>2. CASE Conclude("streaming", Allowed(bytes, status))
        BY <3>1, <4>2
      <4>3. ASSUME NEW class \in StreamClasses, NEW extra \in 0 .. 1,
                   Conclude("streaming", ResponseError(class, bytes + extra, status))
            PROVE  TypeInv'
        <5>1. bytes + extra \in Nat
          OBVIOUS
        <5>2. QED
          BY <3>1, <4>3, <5>1
      <4>4. QED
        BY <4>1, <4>2, <4>3
    <3>4. QED
      BY <2>7, <3>2, <3>3
  <2>8. ASSUME Restart \/ Rest \/ UNCHANGED vars PROVE TypeInv'
    BY <2>8 DEF Restart, Rest, vars, TypeInv, Locations, Accepted
  <2>9. QED
    BY <2>2, <2>3, <2>5, <2>6, <2>7, <2>8 DEF Next
<1>3. QED
  BY <1>1, <1>2, PTL DEF Spec

\* Every recorded event has the fields and the ranges of an AuditEvent, for every
\* target, plain or not (AuditEvent::new_at).
THEOREM TypeCorrect == Spec => []TypeOK
<1>1. TypeInv => TypeOK
  BY DEF TypeInv, TypeOK, EventOK
<1>2. QED
  BY <1>1, TypeInvariant, PTL
=============================================================================
