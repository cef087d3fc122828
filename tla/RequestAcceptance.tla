------------------------- MODULE RequestAcceptance -------------------------
(***************************************************************************)
(* What decides whether one exchange is forwarded, and as what: the        *)
(* configured allowlist (AllowedOperations of config.rs), the origin-form  *)
(* path parser (target.rs), the allowlist match (allowlist.rs), the URL    *)
(* join (UpstreamOrigin) and the header filters (headers.rs).              *)
(*                                                                         *)
(* A text is a sequence of tokens: a byte of one class the code tells      *)
(* apart, or a whole percent escape known by the byte it stands for.  The  *)
(* URL library's path setter and a provider that decodes the path it gets  *)
(* are external, and written here as what they do.                         *)
(***************************************************************************)
EXTENDS Naturals, Sequences, FiniteSets, SequencesExt, FiniteSetsExt

CONSTANTS
  Inputs,             \* the configurations, requests and responses to try
  MaxPathBytes,       \* MAX_ORIGIN_FORM_PATH_BYTES
  MaxOperations,      \* MAX_ALLOWED_OPERATIONS
  MaxHeaderBytes      \* CUSTODE_MAX_REQUEST_HEADER_BYTES and the response's

(***************************************************************************)
(* Tokens.  "a" stands for any byte that is legal and means nothing else,  *)
(* "?" for the delimiters of other URL components, "^" for a byte no       *)
(* request target may hold, "%" for a percent sign without two hex digits. *)
(***************************************************************************)
Escapes == {"%61", "%2e", "%2f", "%5c"}
Decoded ==
  [escape \in Escapes |->
     CASE escape = "%61" -> "a" [] escape = "%2e" -> "."
       [] escape = "%2f" -> "/" [] escape = "%5c" -> "\\"]
Token == {"/", "\\", ".", "a", "?", "^", "%"} \cup Escapes

Decode(text) ==
  [i \in DOMAIN text |-> IF text[i] \in Escapes THEN Decoded[text[i]] ELSE text[i]]

Bytes(text) == Len(text) + 2 * Len(SelectSeq(text, LAMBDA token : token \in Escapes))

\* str::split: the texts between the tokens of a set, the empty ones included.
Split(text, separators) ==
  FoldLeft(LAMBDA parts, token :
             IF token \in separators THEN Append(parts, <<>>)
             ELSE [parts EXCEPT ![Len(parts)] = Append(@, token)],
           << <<>> >>, text)

-----------------------------------------------------------------------------
(* OriginFormPath::parse                                                   *)

\* A segment that decodes to one or two dots.
IsDotSegment(segment) == Decode(segment) \in {<<".">>, <<".", ".">>}

\* Mutant of HasDotSegment: only literal dots are seen.
HasDotSegment_LiteralOnly(path) ==
  \E segment \in ToSet(Split(path, {"/"})) : segment \in {<<".">>, <<".", ".">>}

HasDotSegment(path) == \E segment \in ToSet(Split(path, {"/"})) : IsDotSegment(segment)

\* Mutant of HasForbiddenSeparator: encoded separators pass.
HasForbiddenSeparator_LiteralOnly(path) == "\\" \in ToSet(path)

HasForbiddenSeparator(path) == {"\\", "%2f", "%5c"} \cap ToSet(path) # {}

None == "none"

\* The first fault the parser reports, None for an accepted path.
PathFault(path) ==
  IF Bytes(path) > MaxPathBytes THEN "path_too_long"
  ELSE IF ~IsPrefix(<<"/">>, path) \/ IsPrefix(<<"/", "/">>, path) THEN "non_origin_form"
  ELSE IF {"?", "^"} \cap ToSet(path) # {} THEN "non_origin_form"
  ELSE IF "%" \in ToSet(path) THEN "invalid_percent_encoding"
  ELSE IF HasForbiddenSeparator(path) THEN "encoded_path_separator"
  ELSE IF HasDotSegment(path) THEN "dot_segment"
  ELSE None

-----------------------------------------------------------------------------
(* AllowedOperations::parse                                                *)

Methods == {"GET", "POST", "CONNECT"}
Kinds == <<"exact", "prefix">>

\* What an operator lists as one operation; an empty text has no parts.
EmptyEntry == [method |-> "", kind |-> "", path |-> <<>>]

\* AllowedOperation::parse: the parts, the method, the kind and its path.
EntryParses(entry) ==
  /\ entry.method \in Methods \ {"CONNECT"}
  /\ entry.kind \in ToSet(Kinds)
  /\ PathFault(entry.path) = None
  /\ entry.kind = "prefix" => entry.path[Len(entry.path)] # "/"

\* The order of texts, which need only be some order of their tokens.
Rank(token) ==
  CHOOSE i \in 1 .. 11 :
    <<"%", "%2e", "%2f", "%5c", "%61", ".", "/", "?", "\\", "^", "a">>[i] = token

TextBefore(s, t) ==
  \/ IsStrictPrefix(s, t)
  \/ \E i \in DOMAIN s \cap DOMAIN t :
       SubSeq(s, 1, i - 1) = SubSeq(t, 1, i - 1) /\ Rank(s[i]) < Rank(t[i])

MethodBefore(m, n) == m = "GET" /\ n = "POST"

\* Mutant of Before: operations that differ in their kind compare equal.
Before_KindIgnored(a, b) ==
  \/ MethodBefore(a.method, b.method)
  \/ a.method = b.method /\ TextBefore(a.path, b.path)

\* AllowedOperation::cmp_config: by method, then kind, then path.
Before(a, b) ==
  \/ MethodBefore(a.method, b.method)
  \/ a.method = b.method /\ a.kind = "exact" /\ b.kind = "prefix"
  \/ a.method = b.method /\ a.kind = b.kind /\ TextBefore(a.path, b.path)

\* sort_unstable_by: any sorted arrangement, equal elements in any order.
Sorted(entries) ==
  {s \in {[i \in DOMAIN entries |-> entries[p[i]]] :
            p \in {q \in [DOMAIN entries -> DOMAIN entries] :
                     ToSet(q) = DOMAIN entries}} :
     \A i \in 1 .. Len(s) - 1 : ~Before(s[i + 1], s[i])}

HasNeighbouringDuplicates(s) == \E i \in 1 .. Len(s) - 1 : s[i] = s[i + 1]

-----------------------------------------------------------------------------
(* Allowlist and URL                                                       *)

\* Mutant of Matches: a prefix may end inside a segment.
Matches_InsideSegment(operation, method, path) ==
  /\ operation.method = method
  /\ \/ path = operation.path
     \/ operation.kind = "prefix" /\ IsPrefix(operation.path, path)

\* AllowedOperation::matches: a prefix ends at a segment boundary.
Matches(operation, method, path) ==
  /\ operation.method = method
  /\ \/ path = operation.path
     \/ operation.kind = "prefix" /\ IsPrefix(Append(operation.path, "/"), path)

\* The segments kept once one more is resolved: a dot segment goes, two dots take
\* the segment before them along, and a final one leaves "/" behind.
KeepSegment(kept, i, segments) ==
  LET dots == Decode(segments[i])
      up == IF dots = <<".", ".">> /\ kept # <<>> THEN Front(kept) ELSE kept
  IN  CASE ~IsDotSegment(segments[i]) -> Append(kept, segments[i])
        [] IsDotSegment(segments[i]) /\ i = Len(segments) -> Append(up, <<>>)
        [] OTHER -> up

\* The dot segments of a URL path are resolved, from left to right.
RemoveDotSegments(segments) ==
  FoldLeftDomain(LAMBDA kept, i : KeepSegment(kept, i, segments), <<>>, segments)

\* Url::set_path of an http URL: a backslash separates, dot segments go.
SetPath(path) ==
  FlattenSeq([i \in DOMAIN RemoveDotSegments(Tail(Split(path, {"/", "\\"}))) |->
                <<"/">> \o RemoveDotSegments(Tail(Split(path, {"/", "\\"})))[i]])

\* The segments a provider finds that decodes the whole path before it routes.
ReadByProvider(path) == RemoveDotSegments(Tail(Split(Decode(path), {"/", "\\"})))

-----------------------------------------------------------------------------
(* Header filters                                                          *)

\* A header map gives every name its values in order.  A Connection value is
\* the sequence of its tokens; "" stands for an empty or malformed one.
Standard ==
  {"connection", "keep-alive", "proxy-authenticate", "proxy-authorization",
   "proxy-connection", "te", "trailer", "transfer-encoding", "upgrade"}

ConnectionValues(headers) ==
  IF "connection" \in DOMAIN headers THEN headers["connection"] ELSE <<>>

\* Mutant of ConnectionTokens: only the first Connection line is read.
ConnectionTokens_FirstLine(headers) ==
  IF ConnectionValues(headers) = <<>> THEN {} ELSE ToSet(ConnectionValues(headers)[1].tokens)

\* connection_header_names collects the tokens of every line.
ConnectionTokens(headers) ==
  UNION {ToSet(value.tokens) : value \in ToSet(ConnectionValues(headers))}

NameBytes == 1
HeaderBytes(headers) ==
  MapThenSumSet(LAMBDA name :
                  FoldLeft(LAMBDA sum, value : sum + NameBytes + value.bytes, 0, headers[name]),
                DOMAIN headers)

\* Mutant of HeaderFault: the limit is not enforced.
HeaderFault_Unlimited(headers) ==
  IF "" \in ConnectionTokens(headers) THEN "invalid_connection_header" ELSE None

\* enforce_header_limit, then the Connection tokens must be header names.
HeaderFault(headers) ==
  IF HeaderBytes(headers) > MaxHeaderBytes THEN "headers_too_large"
  ELSE IF "" \in ConnectionTokens(headers) THEN "invalid_connection_header"
  ELSE None

\* The headers left when hop-by-hop ones and those of a set are removed.
EndToEnd(headers, removed) ==
  Restrict(headers, DOMAIN headers \ (Standard \cup ConnectionTokens(headers) \cup removed))

ForwardedToProvider(headers) == EndToEnd(headers, {"host", "content-length"})
ForwardedToHarness(headers) == EndToEnd(headers, {"content-length"})

-----------------------------------------------------------------------------
(* One exchange                                                            *)

(***************************************************************************)
(* An input is what the operator configures, what one request to the       *)
(* configured gateway asks for and what the provider answers it with.      *)
(***************************************************************************)
ASSUME AcceptanceAssumption ==
  {MaxPathBytes, MaxOperations, MaxHeaderBytes} \subseteq Nat \ {0}

\* Paths are texts, and a header map gives finitely many names their values.
IsHeaderMap(headers) ==
  /\ IsFiniteSet(DOMAIN headers)
  /\ \A name \in DOMAIN headers :
       headers[name] \in Seq([bytes : Nat, tokens : Seq(STRING)])

ASSUME InputsAssumption ==
  \A one \in Inputs :
    /\ one.operations \in Seq([method : STRING, kind : STRING, path : Seq(Token)])
    /\ one.path \in Seq(Token)
    /\ IsHeaderMap(one.headers) /\ IsHeaderMap(one.response)

VARIABLES
  at,          \* where the exchange stands
  input,       \* the input tried
  operations,  \* GatewayConfig.allowed_operations, once parsed
  denial,      \* why the gateway or its configuration was refused
  sent,        \* the path and headers the provider was sent
  received     \* the headers the harness was sent

vars == <<at, input, operations, denial, sent, received>>

Nothing == <<>>

TypeOK ==
  /\ at \in {"start", "unconfigured", "listening", "accepted", "allowed", "sending",
             "denied", "bad_gateway", "answered"}
  /\ \A i \in DOMAIN operations : EntryParses(operations[i])
  /\ Len(operations) <= MaxOperations
  /\ denial # None <=> at \in {"unconfigured", "denied", "bad_gateway"}
  /\ sent # Nothing =>
       HeaderBytes(sent.headers) <= MaxHeaderBytes /\ Bytes(sent.path) <= MaxPathBytes
  /\ received # Nothing => HeaderBytes(received.headers) <= MaxHeaderBytes

Init ==
  /\ at = "start"
  /\ input \in Inputs
  /\ operations = <<>>
  /\ denial = None
  /\ sent = Nothing
  /\ received = Nothing

Refuse(from, to, why) ==
  /\ at = from /\ at' = to
  /\ denial' = why
  /\ UNCHANGED <<input, operations, sent, received>>

Continue(from, to) ==
  /\ at = from /\ at' = to
  /\ UNCHANGED <<input, denial>>

\* AllowedOperations::parse, at startup.
Configure ==
  LET entries == input.operations
      IsEmpty == \A i \in DOMAIN entries : entries[i] = EmptyEntry
      TooMany == Len(entries) > MaxOperations
      Parses == \A i \in DOMAIN entries : EntryParses(entries[i])
  IN \/ IsEmpty /\ Refuse("start", "unconfigured", "empty_operations")
     \/ ~IsEmpty /\ TooMany /\ Refuse("start", "unconfigured", "too_many_operations")
     \/ ~IsEmpty /\ ~TooMany /\ ~Parses /\ Refuse("start", "unconfigured", "invalid_operation")
     \/ /\ ~IsEmpty /\ ~TooMany /\ Parses
        /\ \E s \in Sorted(entries) :
             \/ /\ HasNeighbouringDuplicates(s)
                /\ Refuse("start", "unconfigured", "duplicate_operation")
             \/ /\ ~HasNeighbouringDuplicates(s)
                /\ Continue("start", "listening")
                /\ operations' = s
                /\ UNCHANGED <<sent, received>>

\* accept_allowed_target: CONNECT is refused, then the path must parse.
AcceptTarget ==
  \/ /\ input.method = "CONNECT"
     /\ Refuse("listening", "denied", "connect_unsupported")
  \/ /\ input.method # "CONNECT" /\ PathFault(input.path) # None
     /\ Refuse("listening", "denied", PathFault(input.path))
  \/ /\ input.method # "CONNECT" /\ PathFault(input.path) = None
     /\ Continue("listening", "accepted")
     /\ UNCHANGED <<operations, sent, received>>

Allowed == \E i \in DOMAIN operations : Matches(operations[i], input.method, input.path)
HasMethod == \E i \in DOMAIN operations : operations[i].method = input.method

\* allow_target: a denial says whether another path would have been allowed.
AllowTarget ==
  \/ /\ Allowed
     /\ Continue("accepted", "allowed")
     /\ UNCHANGED <<operations, sent, received>>
  \/ ~Allowed /\ HasMethod /\ Refuse("accepted", "denied", "path_denied")
  \/ ~Allowed /\ ~HasMethod /\ Refuse("accepted", "denied", "method_denied")

\* forward_request_headers, then UpstreamRequest::from_target joins the URL.
ForwardRequest ==
  \/ /\ HeaderFault(input.headers) # None
     /\ Refuse("allowed", "denied", HeaderFault(input.headers))
  \/ /\ HeaderFault(input.headers) = None
     /\ Continue("allowed", "sending")
     /\ sent' = [path |-> SetPath(input.path), headers |-> ForwardedToProvider(input.headers)]
     /\ UNCHANGED <<operations, received>>

\* forward_response_headers: the provider's answer, or a bad gateway.
ForwardResponse ==
  \/ /\ HeaderFault(input.response) # None
     /\ Refuse("sending", "bad_gateway", HeaderFault(input.response))
  \/ /\ HeaderFault(input.response) = None
     /\ Continue("sending", "answered")
     /\ received' = [headers |-> ForwardedToHarness(input.response)]
     /\ UNCHANGED <<operations, sent>>

Rest ==
  /\ at \in {"unconfigured", "denied", "bad_gateway", "answered"}
  /\ UNCHANGED vars

Next ==
  Configure \/ AcceptTarget \/ AllowTarget \/ ForwardRequest \/ ForwardResponse \/ Rest

Spec == Init /\ [][Next]_vars

-----------------------------------------------------------------------------
(* Properties                                                              *)

\* The URL join never rewrites a path that was accepted: the provider is sent
\* the very path the allowlist matched and the audit log records.
JoinKeepsPath == sent # Nothing => sent.path = input.path

\* A provider that decodes the whole path before it splits it and resolves its
\* dots finds the segments the allowlist matched, one for one.
ProviderReadsMatchedSegments ==
  sent # Nothing =>
    LET matched == Tail(Split(input.path, {"/"})) IN
      ReadByProvider(sent.path) = [i \in DOMAIN matched |-> Decode(matched[i])]

\* What an operation covers, said over segments instead of over text.
Covers(entry, method, path) ==
  LET listed == Split(entry.path, {"/"})
      asked == Split(path, {"/"})
  IN  /\ entry.method = method
      /\ IF entry.kind = "prefix" THEN IsPrefix(listed, asked) ELSE listed = asked

\* A request that passed the parser is forwarded only if one listed operation
\* covers its segments, and is denied by the allowlist only if none does.
AllowedAsListed ==
  LET covered == \E i \in DOMAIN input.operations :
                   Covers(input.operations[i], input.method, input.path)
  IN  /\ at \in {"allowed", "sending", "bad_gateway", "answered"} => covered
      /\ denial \in {"path_denied", "method_denied"} => ~covered

\* A list an operator may give: it names an operation and not too many, each one
\* parses, and no two are the same.
Configurable(listed) ==
  /\ Len(listed) \in 1 .. MaxOperations
  /\ \A i \in DOMAIN listed : EntryParses(listed[i])
  /\ \A i, j \in DOMAIN listed : listed[i] = listed[j] => i = j

\* Exactly such a list is accepted, in whatever order it is given and although
\* duplicates are only sought among neighbours of the sorted list, and the
\* configuration could not have come out differently.
ConfigurationCanonical ==
  /\ at # "start" => (at # "unconfigured" <=> Configurable(input.operations))
  /\ at = "listening" =>
       /\ Cardinality(ToSet(operations)) = Len(operations)
       /\ Sorted(input.operations) = {operations}

\* What is forwarded of a header map: no header that a Connection line names, is
\* hop-by-hop by its own name or is to be removed, and every other one with all
\* its values.
FilteredTo(forwarded, headers, removed) ==
  /\ DOMAIN forwarded \subseteq DOMAIN headers
  /\ \A name \in DOMAIN headers :
       LET named == \E value \in ToSet(ConnectionValues(headers)) :
                      name \in ToSet(value.tokens)
       IN  IF named \/ name \in Standard \cup removed
             THEN name \notin DOMAIN forwarded
             ELSE name \in DOMAIN forwarded /\ forwarded[name] = headers[name]

\* In both directions a header ends at the gateway if any Connection line names it
\* or it is hop-by-hop, the length ends with it, and so does the host the harness
\* asked for; all other headers pass.
HeadersEndOrPass ==
  /\ sent # Nothing => FilteredTo(sent.headers, input.headers, {"host", "content-length"})
  /\ received # Nothing => FilteredTo(received.headers, input.response, {"content-length"})
=============================================================================
