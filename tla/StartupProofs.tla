--------------------------- MODULE StartupProofs ---------------------------
(***************************************************************************)
(* Theorems about Startup, for every set of arguments operators may give,  *)
(* every supply of run tokens and any number of starts and events.         *)
(***************************************************************************)
EXTENDS Startup, TLAPS

\* What the parsers accept is what the documentation calls valid.
LEMMA ParsesIsValid ==
  ASSUME NEW a \in ArgumentsType
  PROVE  Parses(a) <=> Valid(a)
<1>1. DOMAIN Minimum = {"request_timeout", "audit_event", "concurrent", "request",
                        "request_header", "response", "response_header"}
  BY DEF Minimum
<1>2. /\ a.request_timeout \in Nat /\ a.audit_event \in Nat /\ a.concurrent \in Nat
      /\ a.request \in Nat /\ a.request_header \in Nat /\ a.response \in Nat
      /\ a.response_header \in Nat
      /\ a.operations.entries \in Nat /\ a.operations.empty \in Nat
      /\ a.operations.parses \in BOOLEAN /\ a.operations.distinct \in BOOLEAN
      /\ a.origin.bytes \in Nat /\ a.origin.port \in Nat
  BY DEF ArgumentsType
<1>3. MaxPermits \in Nat
  BY StartupAssumption DEF StartupAssumption
<1>4. (\A name \in DOMAIN Minimum : a[name] >= Minimum[name] /\ a[name] <= Maximum[name])
        <=> /\ RequestTimeout(a.request_timeout) /\ AuditEventBytes(a.audit_event)
            /\ ConcurrentRequests(a.concurrent) /\ RequestBodyBytes(a.request)
            /\ RequestHeaderBytes(a.request_header) /\ ResponseBodyBytes(a.response)
            /\ ResponseHeaderBytes(a.response_header)
  BY <1>1, <1>2, <1>3
     DEF Minimum, Maximum, RequestTimeout, AuditEventBytes, ConcurrentRequests,
         RequestBodyBytes, RequestHeaderBytes, ResponseBodyBytes, ResponseHeaderBytes,
         Bounded, MaxAuditEventBytes, MinAuditEventBytes, MaxRequestBytes,
         MaxRequestHeaderBytes, MaxResponseBytes, MaxResponseHeaderBytes, MaxTimeoutSeconds
<1>5. AllowedOperations(a.operations)
        <=> /\ a.operations.entries \in 1 .. 256 /\ a.operations.empty = 0
            /\ a.operations.parses /\ a.operations.distinct
  BY <1>2 DEF AllowedOperations, MaxOperations
<1>6. UpstreamOrigin(a.origin)
        <=> /\ a.origin.bytes <= 255 /\ a.origin.parses
            /\ a.origin.scheme \in {"http", "https"}
            /\ ~a.origin.wildcard /\ ~a.origin.components /\ ~a.origin.credentials
            /\ a.origin.port # 0
  BY DEF UpstreamOrigin, MaxOriginBytes
<1>7. QED
  BY <1>4, <1>5, <1>6 DEF Parses, Valid

-----------------------------------------------------------------------------
\* The type invariant, and a process that is up has been given arguments.
TypeInv == TypeOK /\ (process # "down" => args \in Arguments)

\* TypeInv holds in every reachable state.
LEMMA TypeInvariant == Spec => []TypeInv
<1>1. Init => TypeInv
  <2> SUFFICES ASSUME Init PROVE TypeInv
    OBVIOUS
  <2>1. log \in Seq(Event) /\ 0 \in 0 .. MaxEvents /\ 0 \in 0 .. MaxStarts
    BY StartupAssumption DEF StartupAssumption, Init
  <2>2. QED
    BY <2>1 DEF Init, TypeInv, TypeOK, Location
<1>2. TypeInv /\ [Next]_vars => TypeInv'
  <2> SUFFICES ASSUME TypeInv, [Next]_vars PROVE TypeInv'
    OBVIOUS
  <2>0. 0 \in 0 .. MaxEvents
    BY StartupAssumption DEF StartupAssumption
  <2> USE DEF TypeInv, TypeOK, Location
  <2>1. ASSUME NEW a \in Arguments, Start(a) PROVE TypeInv'
    <3>1. starts' \in 0 .. MaxStarts
      BY <2>1, StartupAssumption DEF Start, StartupAssumption
    <3>2. QED
      BY <2>1, <3>1 DEF Start, ids, file
  <2>2. ASSUME Configure PROVE TypeInv'
    <3>1. CASE process' = "adapters"
      <4>1. Goto("parse", "adapters") /\ UNCHANGED <<ids, opened, listening, file, spoiled>>
        BY <2>2, <3>1 DEF Configure, EndWithError, End
      <4>2. QED
        BY <4>1 DEF Goto, ids, file
    <3>2. CASE process' # "adapters"
      <4>1. (End(ConfigError) \/ End(Panicked)) /\ spoiled' \in BOOLEAN /\ UNCHANGED file
        BY <2>2, <3>2 DEF Configure, EndWithError, Goto
      <4>2. QED
        BY <4>1, <2>0 DEF End, file
    <3>3. QED
      BY <3>1, <3>2
  <2>3. ASSUME BuildAdapters PROVE TypeInv'
    <3>1. CASE process' = "open"
      <4>1. Goto("adapters", "open") /\ DrawToken
            /\ UNCHANGED <<allocated, opened, listening, file, spoiled>>
        BY <2>3, <3>1 DEF BuildAdapters, EndWithError, End
      <4>2. token' \in Tokens /\ drawn' \subseteq Tokens
        BY <4>1 DEF DrawToken
      <4>3. QED
        BY <4>1, <4>2 DEF Goto, file
    <3>2. CASE process' # "open"
      <4>1. (End(ServeError) \/ End(Panicked)) /\ spoiled' = TRUE /\ UNCHANGED file
        BY <2>3, <3>2 DEF BuildAdapters, EndWithError, Goto
      <4>2. QED
        BY <4>1, <2>0 DEF End, file
    <3>3. QED
      BY <3>1, <3>2
  <2>4. ASSUME OpenLog PROVE TypeInv'
    <3>1. CASE process' = "limit"
      <4>1. Goto("open", "limit") /\ opened' = TRUE /\ exists' = TRUE
            /\ UNCHANGED <<ids, listening, spoiled, log, torn>>
        BY <2>4, <3>1 DEF OpenLog, EndWithError, End
      <4>2. QED
        BY <4>1 DEF Goto, ids
    <3>2. CASE process' # "limit"
      <4>1. (End(ServeError) \/ End(Panicked)) /\ exists' \in BOOLEAN
            /\ spoiled' \in BOOLEAN /\ UNCHANGED <<log, torn>>
        BY <2>4, <3>2 DEF OpenLog, EndWithError, Goto
      <4>2. QED
        BY <4>1, <2>0 DEF End
    <3>3. QED
      BY <3>1, <3>2
  <2>5. ASSUME MakeSemaphore PROVE TypeInv'
    <3>1. CASE process' = "bind"
      <4>1. Goto("limit", "bind") /\ UNCHANGED <<ids, opened, listening, file, spoiled>>
        BY <2>5, <3>1 DEF MakeSemaphore, End
      <4>2. QED
        BY <4>1 DEF Goto, ids, file
    <3>2. CASE process' # "bind"
      <4>1. End(Panicked) /\ UNCHANGED <<file, spoiled>>
        BY <2>5, <3>2 DEF MakeSemaphore, Goto
      <4>2. QED
        BY <4>1, <2>0 DEF End, file
    <3>3. QED
      BY <3>1, <3>2
  <2>6. ASSUME Bind PROVE TypeInv'
    <3>1. CASE process' = "serving"
      <4>1. Goto("bind", "serving") /\ listening' = TRUE
            /\ UNCHANGED <<ids, opened, file, spoiled>>
        BY <2>6, <3>1 DEF Bind, EndWithError, End
      <4>2. QED
        BY <4>1 DEF Goto, ids, file
    <3>2. CASE process' # "serving"
      <4>1. (End(ServeError) \/ End(Panicked)) /\ spoiled' = TRUE /\ UNCHANGED file
        BY <2>6, <3>2 DEF Bind, EndWithError, Goto
      <4>2. QED
        BY <4>1, <2>0 DEF End, file
    <3>3. QED
      BY <3>1, <3>2
  <2>7. ASSUME Record PROVE TypeInv'
    <3>1. args \in Arguments /\ token \in Tokens \cup {ZeroToken}
      BY <2>7 DEF Record, Serving
    <3>2. allocated' \in 1 .. MaxEvents
      BY <2>7, StartupAssumption DEF Record, StartupAssumption
    <3>3. \A reads \in BOOLEAN : Recorded(reads) \in Event
      BY <3>1, <3>2 DEF Event, Recorded
    <3>4. \/ log' = log /\ fatal' = fatal
          \/ fatal' = fatal /\ \E reads \in BOOLEAN : log' = Append(log, Recorded(reads))
          \/ fatal' = TRUE /\ log' = log
      BY <2>7, Zenon DEF Record
    <3>5. log' \in Seq(Event)
      BY <3>3, <3>4
    <3>6. fatal' \in BOOLEAN
      BY <3>4, Zenon
    <3>7. allocated' \in 0 .. MaxEvents
      BY <3>2
    <3>8. QED
      BY <2>7, <3>5, <3>6, <3>7, Zenon DEF Record
  <2>8. ASSUME WriteFails PROVE TypeInv'
    BY <2>8, <2>0 DEF WriteFails, Serving, ids, file
  <2>9. ASSUME FatalStops PROVE TypeInv'
    BY <2>9, <2>0 DEF FatalStops, EndWithError, End, Goto, ids, file
  <2>10. ASSUME ServerStops PROVE TypeInv'
    BY <2>10, <2>0 DEF ServerStops, EndWithError, End, Goto, ids, file
  <2>11. ASSUME Kill PROVE TypeInv'
    BY <2>11, <2>0 DEF Kill, End, Goto, ids, file
  <2>12. ASSUME Healthcheck PROVE TypeInv'
    BY <2>12, <2>0 DEF Healthcheck, ids, file
  <2>13. CASE UNCHANGED vars
    BY <2>13, <2>0 DEF vars, ids, file
  <2>14. QED
    BY <2>1, <2>2, <2>3, <2>4, <2>5, <2>6, <2>7, <2>8, <2>9, <2>10, <2>11, <2>12, <2>13 DEF Next
<1>3. QED
  BY <1>1, <1>2, PTL DEF Spec

\* The variables keep their types over every number of starts: the log is opened
\* and the listener bound exactly while the process stands where they are.
THEOREM TypeCorrect == Spec => []TypeOK
<1>1. TypeInv => TypeOK
  BY DEF TypeInv
<1>2. QED
  BY <1>1, TypeInvariant, PTL

-----------------------------------------------------------------------------
(* Fail closed                                                             *)

\* What brings FailClosed about: past the parser the configuration is valid, and
\* past the reading of the log only a failure of this run tears it.
ClosedInv ==
  /\ process \notin {"down", "parse"} => Valid(args)
  /\ process \in {"limit", "bind", "serving"} /\ torn => spoiled

\* ClosedInv holds in every reachable state.
LEMMA ClosedInvariant == Spec => []ClosedInv
<1>1. Init => ClosedInv
  BY DEF Init, ClosedInv
<1>2. TypeInv /\ ClosedInv /\ [Next]_vars => ClosedInv'
  <2> SUFFICES ASSUME TypeInv, ClosedInv, [Next]_vars PROVE ClosedInv'
    OBVIOUS
  <2> USE DEF ClosedInv
  <2>1. ASSUME NEW a \in Arguments, Start(a) PROVE ClosedInv'
    BY <2>1 DEF Start
  <2>2. ASSUME Configure PROVE ClosedInv'
    <3>1. CASE process' = "down"
      BY <3>1
    <3>2. CASE process' # "down"
      <4>1. process = "parse" /\ process' = "adapters" /\ Parses(args) /\ args' = args
        BY <2>2, <3>2 DEF Configure, EndWithError, Goto, End
      <4>2. args \in ArgumentsType
        BY <4>1, StartupAssumption DEF StartupAssumption, TypeInv
      <4>3. Valid(args)
        BY <4>1, <4>2, ParsesIsValid
      <4>4. QED
        BY <4>1, <4>3
    <3>3. QED
      BY <3>1, <3>2
  <2>3. ASSUME BuildAdapters PROVE ClosedInv'
    BY <2>3 DEF BuildAdapters, EndWithError, Goto, End
  <2>4. ASSUME OpenLog PROVE ClosedInv'
    BY <2>4 DEF OpenLog, LogAccepted, EndWithError, Goto, End
  <2>5. ASSUME MakeSemaphore PROVE ClosedInv'
    BY <2>5 DEF MakeSemaphore, Goto, End, file
  <2>6. ASSUME Bind PROVE ClosedInv'
    BY <2>6 DEF Bind, EndWithError, Goto, End, file
  <2>7. ASSUME Record PROVE ClosedInv'
    <3>1. UNCHANGED <<process, args, torn, spoiled>>
      BY <2>7 DEF Record
    <3>2. QED
      BY <3>1
  <2>8. ASSUME WriteFails PROVE ClosedInv'
    BY <2>8 DEF WriteFails, Serving
  <2>9. ASSUME FatalStops \/ ServerStops \/ Kill PROVE ClosedInv'
    BY <2>9 DEF FatalStops, ServerStops, Kill, EndWithError, End
  <2>10. ASSUME Healthcheck PROVE ClosedInv'
    BY <2>10 DEF Healthcheck, file
  <2>11. CASE UNCHANGED vars
    BY <2>11 DEF vars
  <2>12. QED
    BY <2>1, <2>2, <2>3, <2>4, <2>5, <2>6, <2>7, <2>8, <2>9, <2>10, <2>11 DEF Next
<1>3. QED
  BY <1>1, <1>2, TypeInvariant, PTL DEF Spec

\* The listener is bound, and a healthcheck can succeed, only behind a valid
\* configuration and an opened log no earlier run left torn (http::serve's order).
THEOREM FailsClosed == Spec => []FailClosed
<1>1. TypeInv /\ ClosedInv => FailClosed
  BY DEF TypeInv, TypeOK, ClosedInv, FailClosed
<1>2. QED
  BY <1>1, TypeInvariant, ClosedInvariant, PTL

\* A run with an invalid configuration ends with exit code 78, or with the panic of
\* an error that could not be written, before it touches the log, and no run that
\* got past the parser ends with 78 (process.rs, main.rs).
THEOREM ConfigErrorsLeaveNoTrace == Spec => ConfigErrorLeavesNoTrace
<1> DEFINE Trace ==
      /\ file' # file => Valid(args)
      /\ process # "down" /\ process' = "down" =>
           /\ code' = ConfigError => ~Valid(args)
           /\ ~Valid(args) =>
                code' \in {ConfigError, Killed} \/ (code' = Panicked /\ spoiled')
<1>1. TypeInv /\ ClosedInv /\ [Next]_vars => [Trace]_vars
  <2> SUFFICES ASSUME TypeInv, ClosedInv, [Next]_vars PROVE Trace \/ UNCHANGED vars
    OBVIOUS
  <2> USE DEF ConfigError, ServeError, Panicked, Killed
  <2>1. ASSUME NEW a \in Arguments, Start(a) PROVE Trace
    BY <2>1 DEF Start
  <2>2. ASSUME Configure PROVE Trace
    <3>1. process = "parse" /\ UNCHANGED file
      BY <2>2 DEF Configure, Goto
    <3>2. Parses(args) <=> Valid(args)
      BY <3>1, StartupAssumption, ParsesIsValid DEF StartupAssumption, TypeInv
    <3>3. process' = "down" =>
            /\ ~Parses(args)
            /\ code' = ConfigError \/ (code' = Panicked /\ spoiled' = TRUE)
      BY <2>2 DEF Configure, EndWithError, Goto, End
    <3>4. QED
      BY <3>1, <3>2, <3>3
  <2>3. ASSUME BuildAdapters \/ OpenLog \/ MakeSemaphore \/ Bind PROVE Trace
    <3>1. process \in {"adapters", "open", "limit", "bind"}
      BY <2>3 DEF BuildAdapters, OpenLog, MakeSemaphore, Bind, Goto
    <3>2. Valid(args)
      BY <3>1 DEF ClosedInv
    <3>3. process' = "down" => code' \in {ServeError, Panicked}
      BY <2>3 DEF BuildAdapters, OpenLog, MakeSemaphore, Bind, EndWithError, Goto, End
    <3>4. QED
      BY <3>2, <3>3
  <2>4. ASSUME Record \/ WriteFails \/ FatalStops \/ ServerStops PROVE Trace
    <3>1. process = "serving"
      BY <2>4 DEF Record, WriteFails, FatalStops, ServerStops, Serving
    <3>2. Valid(args)
      BY <3>1 DEF ClosedInv
    <3>3. process' = "down" => code' \in {0, ServeError, Panicked}
      BY <2>4, <3>1 DEF Record, WriteFails, FatalStops, ServerStops, EndWithError, End
    <3>4. QED
      BY <3>2, <3>3
  <2>5. ASSUME Kill PROVE Trace
    <3>1. code' = Killed
      BY <2>5 DEF Kill, End
    <3>2. file' # file => opened
      BY <2>5 DEF Kill, file, TypeInv, TypeOK
    <3>3. opened => Valid(args)
      BY DEF TypeInv, TypeOK, ClosedInv
    <3>4. QED
      BY <3>1, <3>2, <3>3
  <2>6. ASSUME Healthcheck PROVE Trace
    BY <2>6 DEF Healthcheck
  <2>7. QED
    BY <2>1, <2>2, <2>3, <2>4, <2>5, <2>6 DEF Next
<1>2. QED
  BY <1>1, TypeInvariant, ClosedInvariant, PTL DEF Spec, ConfigErrorLeavesNoTrace

-----------------------------------------------------------------------------
(* Request ids                                                             *)

\* Why ids stay unique over runs: the log's tokens were all drawn, so a new run's
\* token is none of them, and the events under this run's token are those its
\* counter has passed.
IdsInv ==
  /\ \A i \in DOMAIN log : log[i].token \in drawn
  /\ \A i \in DOMAIN log : log[i].token = token => log[i].sequence <= allocated
  /\ process \in {"open", "limit", "bind", "serving"} => token \in drawn
  /\ IdsUnique

\* The sequence numbers in the log are numbers above zero.
LEMMA SequencesAreNat ==
  ASSUME TypeInv PROVE \A i \in DOMAIN log : log[i].sequence \in Nat \ {0}
<1>1. log \in Seq(Event)
  BY DEF TypeInv, TypeOK
<1>2. \A e \in Event : e.sequence \in Nat \ {0}
  BY DEF Event
<1>3. \A i \in DOMAIN log : log[i] \in Event
  BY <1>1
<1>4. QED
  BY <1>2, <1>3

\* An action that leaves the log alone, and either keeps the ids of the run, ends
\* the run or draws a token, preserves IdsInv.
LEMMA IdsKept ==
  ASSUME TypeInv, IdsInv, UNCHANGED log, drawn' \subseteq Tokens,
         \/ /\ UNCHANGED ids
            /\ process' \in {"open", "limit", "bind", "serving"} =>
                 process \in {"open", "limit", "bind", "serving"}
         \/ token' = ZeroToken /\ drawn' = drawn /\ process' = "down"
         \/ DrawToken
  PROVE  IdsInv'
<1> USE DEF IdsInv
<1>1. ZeroToken \notin drawn
  BY StartupAssumption DEF StartupAssumption, TypeInv, TypeOK
<1>2. CASE /\ UNCHANGED ids
           /\ process' \in {"open", "limit", "bind", "serving"} =>
                process \in {"open", "limit", "bind", "serving"}
  BY <1>2 DEF ids, IdsUnique
<1>3. CASE token' = ZeroToken /\ drawn' = drawn /\ process' = "down"
  BY <1>1, <1>3 DEF IdsUnique
<1>4. CASE DrawToken
  <2>1. token' \notin drawn /\ token' \in drawn' /\ drawn \subseteq drawn'
    BY <1>4 DEF DrawToken
  <2>2. QED
    BY <2>1 DEF IdsUnique
<1>5. QED
  BY <1>2, <1>3, <1>4

\* IdsInv holds in every reachable state.
LEMMA IdsInvariant == Spec => []IdsInv
<1>1. Init => IdsInv
  BY DEF Init, IdsInv, IdsUnique
<1>2. TypeInv /\ TypeInv' /\ IdsInv /\ [Next]_vars => IdsInv'
  <2> SUFFICES ASSUME TypeInv, TypeInv', IdsInv, [Next]_vars PROVE IdsInv'
    OBVIOUS
  <2>0. drawn' \subseteq Tokens
    BY DEF TypeInv, TypeOK
  <2>1. ASSUME NEW a \in Arguments, Start(a) PROVE IdsInv'
    BY <2>0, <2>1, IdsKept DEF Start, file
  <2>2. ASSUME Configure PROVE IdsInv'
    BY <2>0, <2>2, IdsKept DEF Configure, EndWithError, Goto, End, file
  <2>3. ASSUME BuildAdapters PROVE IdsInv'
    BY <2>0, <2>3, IdsKept DEF BuildAdapters, EndWithError, Goto, End, file
  <2>4. ASSUME OpenLog PROVE IdsInv'
    BY <2>0, <2>4, IdsKept DEF OpenLog, EndWithError, Goto, End
  <2>5. ASSUME MakeSemaphore PROVE IdsInv'
    BY <2>0, <2>5, IdsKept DEF MakeSemaphore, Goto, End, file
  <2>6. ASSUME Bind PROVE IdsInv'
    BY <2>0, <2>6, IdsKept DEF Bind, EndWithError, Goto, End, file
  <2>7. ASSUME Record PROVE IdsInv'
    <3>1. /\ process = "serving" /\ process' = process /\ token \in drawn
          /\ token' = token /\ drawn' = drawn /\ allocated' = allocated + 1
          /\ allocated \in Nat
      BY <2>7, StartupAssumption
         DEF Record, Serving, IdsInv, TypeInv, TypeOK, StartupAssumption
    <3>2. CASE log' = log
      BY <3>1, <3>2, SequencesAreNat DEF IdsInv, IdsUnique
    <3>3. CASE log' # log
      <4>1. PICK reads \in BOOLEAN : log' = Append(log, Recorded(reads))
        BY <2>7, <3>3, Zenon DEF Record
      <4>2. log \in Seq(Event) /\ \A i \in DOMAIN log : log[i].sequence \in Nat
        BY SequencesAreNat DEF TypeInv, TypeOK
      <4>3. /\ Len(log') = Len(log) + 1 /\ DOMAIN log' = 1 .. Len(log) + 1
            /\ DOMAIN log = 1 .. Len(log) /\ Len(log) \in Nat
            /\ \A i \in 1 .. Len(log) : log'[i] = log[i]
            /\ log'[Len(log) + 1].token = token
            /\ log'[Len(log) + 1].sequence = allocated + 1
        BY <3>1, <4>1, <4>2 DEF Recorded
      <4>4. \A i \in DOMAIN log' : i \in DOMAIN log \/ i = Len(log) + 1
        BY <4>3
      <4>5. \A i \in DOMAIN log : log[i].token = token => log[i].sequence # allocated + 1
        BY <3>1, <4>2 DEF IdsInv
      <4>6. IdsUnique'
        BY <4>3, <4>4, <4>5 DEF IdsInv, IdsUnique
      <4>7. \A i \in DOMAIN log' : log'[i].token \in drawn'
        BY <3>1, <4>3, <4>4 DEF IdsInv
      <4>8. \A i \in DOMAIN log' : log'[i].token = token' => log'[i].sequence <= allocated'
        BY <3>1, <4>2, <4>3, <4>4 DEF IdsInv
      <4>9. QED
        BY <3>1, <4>6, <4>7, <4>8 DEF IdsInv
    <3>4. QED
      BY <3>2, <3>3
  <2>8. ASSUME WriteFails PROVE IdsInv'
    BY <2>0, <2>8, IdsKept DEF WriteFails
  <2>9. ASSUME FatalStops \/ ServerStops \/ Kill PROVE IdsInv'
    BY <2>0, <2>9, IdsKept DEF FatalStops, ServerStops, Kill, EndWithError, End, file
  <2>10. ASSUME Healthcheck PROVE IdsInv'
    BY <2>0, <2>10, IdsKept DEF Healthcheck, file
  <2>11. CASE UNCHANGED vars
    BY <2>0, <2>11, IdsKept DEF vars, ids
  <2>12. QED
    BY <2>1, <2>2, <2>3, <2>4, <2>5, <2>6, <2>7, <2>8, <2>9, <2>10, <2>11 DEF Next
<1>3. QED
  BY <1>1, <1>2, TypeInvariant, PTL DEF Spec

\* However many runs append to one log, no two of its events share a request id
\* (SequentialRequestIds, adapters.rs), as long as the entropy never repeats.
THEOREM IdsAreUnique == Spec => []IdsUnique
<1>1. IdsInv => IdsUnique
  BY DEF IdsInv
<1>2. QED
  BY <1>1, IdsInvariant, PTL

-----------------------------------------------------------------------------
(* A valid configuration is never the cause of a failure                   *)

\* The largest event an origin allows fits in the smallest limit a run accepts.
LEMMA LargestEventFits ==
  ASSUME NEW a \in Arguments, Valid(a)
  PROVE  /\ SmallestEvent(a.origin) <= a.audit_event
         /\ LargestEvent(a.origin) <= a.audit_event
<1>1. a.audit_event \in Nat /\ a.origin.normal \in Nat
  BY StartupAssumption DEF StartupAssumption, ArgumentsType
<1>2. a.origin.normal <= MaxNormalBytes
  BY StartupAssumption DEF StartupAssumption, Valid
<1>3. a.audit_event >= 65536
  BY DEF Valid, Minimum
<1>4. QED
  BY <1>1, <1>2, <1>3
     DEF SmallestEvent, LargestEvent, EnvelopeBytes, MaxPathBytes, MaxQueryBytes,
         MaxNormalBytes

\* Every origin in the log is the normal form of one the parser accepted, and a
\* fatal error has an outside cause.
CauseInv ==
  /\ fatal => process = "serving" /\ spoiled
  /\ \A i \in DOMAIN log : \E a \in Arguments :
       log[i].origin = AsText(a.origin) /\ UpstreamOrigin(a.origin)
  /\ FailsOnlyWhenItMust

\* A log of distinct ids whose last line is whole is refused only for an event
\* whose origin became too long or whose other fields do not read.
LEMMA RefusedForAnEvent ==
  ASSUME TypeInv, IdsInv, CauseInv, ~LogAccepted, ~torn
  PROVE  \E i \in DOMAIN log : log[i].origin.bytes > MaxOriginBytes \/ ~log[i].reads
<1> SUFFICES ASSUME \A i \in DOMAIN log : log[i].reads
             PROVE  \E i \in DOMAIN log : log[i].origin.bytes > MaxOriginBytes
  OBVIOUS
<1>1. PICK i \in DOMAIN log : ~UpstreamOrigin(log[i].origin)
  BY SequencesAreNat DEF LogAccepted, FieldsRead, RequestIdReads, IdsInv, IdsUnique
<1>2. PICK a \in Arguments : log[i].origin = AsText(a.origin) /\ UpstreamOrigin(a.origin)
  BY <1>1 DEF CauseInv
<1>3. a.origin.normal \in Nat /\ a \in ArgumentsType
  BY <1>2, StartupAssumption DEF StartupAssumption, ArgumentsType
<1>4. log[i].origin.bytes = a.origin.normal
  BY <1>2, <1>3 DEF AsText, ArgumentsType
<1>5. ~(log[i].origin.bytes <= MaxOriginBytes)
  BY <1>1, <1>2, <1>3 DEF AsText, ArgumentsType, UpstreamOrigin
<1>6. QED
  BY <1>3, <1>4, <1>5 DEF MaxOriginBytes

\* CauseInv holds in every reachable state.
LEMMA CauseInvariant == Spec => []CauseInv
<1>1. Init => CauseInv
  BY DEF Init, CauseInv, FailsOnlyWhenItMust, Running, ServeError, Panicked
<1>2. TypeInv /\ ClosedInv /\ IdsInv /\ CauseInv /\ [Next]_vars => CauseInv'
  <2> SUFFICES ASSUME TypeInv, ClosedInv, IdsInv, CauseInv, [Next]_vars PROVE CauseInv'
    OBVIOUS
  <2> USE DEF CauseInv, FailsOnlyWhenItMust
  <2>0. /\ Running # ServeError /\ Running # Panicked /\ ConfigError # ServeError
        /\ ConfigError # Panicked /\ Killed # ServeError /\ Killed # Panicked
        /\ 0 # ServeError /\ 0 # Panicked
    BY DEF Running, ConfigError, ServeError, Panicked, Killed
  <2>1. ASSUME NEW a \in Arguments, Start(a) PROVE CauseInv'
    BY <2>0, <2>1 DEF Start, file
  <2>2. ASSUME Configure PROVE CauseInv'
    BY <2>0, <2>2 DEF Configure, EndWithError, Goto, End, file
  <2>3. ASSUME BuildAdapters PROVE CauseInv'
    BY <2>3 DEF BuildAdapters, EndWithError, Goto, End, file
  <2>4. ASSUME OpenLog PROVE CauseInv'
    <3>1. CASE process' = "limit"
      BY <2>4, <3>1 DEF OpenLog, EndWithError, Goto, End
    <3>2. CASE process' # "limit" /\ spoiled'
      BY <2>4, <3>2 DEF OpenLog, EndWithError, Goto, End
    <3>3. CASE process' # "limit" /\ ~spoiled'
      <4>1. ~LogAccepted /\ process' = "down" /\ fatal' = FALSE /\ UNCHANGED <<log, torn>>
        BY <2>4, <3>3 DEF OpenLog, EndWithError, Goto, End
      <4>2. torn \/ \E i \in DOMAIN log :
                      log[i].origin.bytes > MaxOriginBytes \/ ~log[i].reads
        BY <4>1, RefusedForAnEvent
      <4>3. QED
        BY <4>1, <4>2
    <3>4. QED
      BY <3>1, <3>2, <3>3
  <2>5. ASSUME MakeSemaphore PROVE CauseInv'
    <3>1. process = "limit"
      BY <2>5 DEF MakeSemaphore
    <3>2. args \in ArgumentsType /\ Valid(args)
      BY <3>1, StartupAssumption DEF StartupAssumption, TypeInv, ClosedInv
    <3>3. args.concurrent <= MaxPermits
      BY <3>2, ParsesIsValid DEF Parses, ConcurrentRequests, Bounded
    <3>4. QED
      <4>1. Goto("limit", "bind") /\ UNCHANGED <<file, spoiled>>
        BY <2>5, <3>3 DEF MakeSemaphore
      <4>2. UNCHANGED <<code, fatal, log, torn, spoiled>> /\ process # "serving"
        BY <4>1 DEF Goto, file
      <4>3. QED
        BY <4>2
  <2>6. ASSUME Bind PROVE CauseInv'
    BY <2>6 DEF Bind, EndWithError, Goto, End, file
  <2>7. ASSUME Record PROVE CauseInv'
    <3>1. process = "serving" /\ UNCHANGED <<process, code, spoiled, torn>>
      BY <2>7 DEF Record, Serving
    <3>2. args \in Arguments /\ args \in ArgumentsType /\ Valid(args)
      BY <3>1, StartupAssumption DEF StartupAssumption, TypeInv, ClosedInv
    <3>3. /\ fatal' = fatal
          /\ log' = log \/ \E reads \in BOOLEAN : log' = Append(log, Recorded(reads))
      <4>1. ASSUME NEW size \in {SmallestEvent(args.origin), LargestEvent(args.origin)}
            PROVE  size <= args.audit_event
        BY <3>2, LargestEventFits
      <4>2. QED
        BY <2>7, <4>1, Zenon DEF Record
    <3>4. UpstreamOrigin(args.origin)
      BY <3>2, ParsesIsValid DEF Parses
    <3>5. log \in Seq(Event)
      BY DEF TypeInv, TypeOK
    <3> DEFINE Extended ==
          /\ DOMAIN log \subseteq DOMAIN log'
          /\ \A i \in DOMAIN log : log'[i] = log[i]
          /\ \A i \in DOMAIN log' : i \in DOMAIN log \/ log'[i].origin = AsText(args.origin)
    <3>6. Extended
      <4>1. CASE log' = log
        BY <4>1
      <4>2. ASSUME NEW reads \in BOOLEAN, log' = Append(log, Recorded(reads))
            PROVE  Extended
        BY <3>5, <4>2 DEF Recorded
      <4>3. QED
        BY <3>3, <4>1, <4>2
    <3>7. \A i \in DOMAIN log' : \E a \in Arguments :
            log'[i].origin = AsText(a.origin) /\ UpstreamOrigin(a.origin)
      BY <3>2, <3>4, <3>6
    <3>8. QED
      BY <3>1, <3>3, <3>6, <3>7
  <2>8. ASSUME WriteFails PROVE CauseInv'
    BY <2>8 DEF WriteFails, Serving
  <2>9. ASSUME FatalStops PROVE CauseInv'
    <3>1. spoiled
      BY <2>9 DEF FatalStops
    <3>2. spoiled' = spoiled \/ spoiled' = TRUE
      BY <2>9, Zenon DEF FatalStops, EndWithError
    <3>3. spoiled'
      BY <3>1, <3>2, Zenon
    <3>4. fatal' = FALSE /\ UNCHANGED log
      BY <2>9 DEF FatalStops, EndWithError, End, file
    <3>5. QED
      BY <3>3, <3>4
  <2>10. ASSUME ServerStops PROVE CauseInv'
    BY <2>10 DEF ServerStops, EndWithError, End, file
  <2>11. ASSUME Kill PROVE CauseInv'
    BY <2>0, <2>11 DEF Kill, End
  <2>12. ASSUME Healthcheck PROVE CauseInv'
    BY <2>12 DEF Healthcheck, file
  <2>13. CASE UNCHANGED vars
    BY <2>13 DEF vars
  <2>14. QED
    BY <2>1, <2>2, <2>3, <2>4, <2>5, <2>6, <2>7, <2>8, <2>9, <2>10, <2>11, <2>12, <2>13 DEF Next
<1>3. QED
  BY <1>1, <1>2, TypeInvariant, ClosedInvariant, IdsInvariant, PTL DEF Spec

\* A run ends with an error, or a panic, only because something outside the
\* program failed, the log is torn, or the log holds an event the start refuses:
\* one that names an origin whose normal form is over the limit, or one of which
\* the validator does not read what the writer wrote (EventRefused).  No event is
\* too large, no limit panics and no ids are refused.
THEOREM FailuresHaveACause == Spec => []FailsOnlyWhenItMust
<1>1. CauseInv => FailsOnlyWhenItMust
  BY DEF CauseInv
<1>2. QED
  BY <1>1, CauseInvariant, PTL
=============================================================================
