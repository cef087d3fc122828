------------------------ MODULE MCRequestAcceptance ------------------------
(***************************************************************************)
(* A model-checking instance of RequestAcceptance: every short path under  *)
(* a few allowlists, every short list of operations, and every small       *)
(* header map in both directions.                                          *)
(***************************************************************************)
EXTENDS RequestAcceptance

Op(m, k, p) == [method |-> m, kind |-> k, path |-> p]

GetA == Op("GET", "exact", <<"/", "a">>)
UnderA == Op("GET", "prefix", <<"/", "a">>)
UnderEncoded == Op("POST", "prefix", <<"/", "%61", "/", "a">>)

Entries ==
  {EmptyEntry, GetA, UnderA, UnderEncoded, Op("CONNECT", "exact", <<"/">>),
   Op("GET", "exact", <<"/", ".">>), Op("GET", "prefix", <<"/", "a", "/">>),
   Op("GET", "prefix", <<"/">>), Op("GET", "glob", <<"/", "a">>),
   Op("GET", "exact", <<"/">>), Op("GET", "exact", <<"/", "a", "a">>)}

\* Every path of up to five tokens behind a slash, and some that lack it.
Paths ==
  {<<"/">> \o tail : tail \in UNION {[1 .. n -> Token] : n \in 0 .. 4}}
    \cup UNION {[1 .. n -> Token] : n \in 0 .. 1}
    \cup {<<"/", "a", "/", "%2e", "%2e", "/", "a">>, <<"/", "a", "/", ".", "%2e">>}

Line(bytes, tokens) == [bytes |-> bytes, tokens |-> tokens]
PlainLines == {<<Line(1, <<>>)>>, <<Line(1, <<>>), Line(2, <<>>)>>}
ConnectionLines ==
  {<<Line(1, <<t>>)>> : t \in {"x", "te", "", "host"}}
    \cup {<<Line(1, <<"te">>), Line(2, <<"x", "y">>)>>, <<Line(2, <<"x", "">>)>>}

HeaderMaps ==
  {h @@ c : h \in UNION {[names -> PlainLines] :
                           names \in SUBSET {"x", "y", "te", "host", "content-length"}},
            c \in {<<>>} \cup {"connection" :> lines : lines \in ConnectionLines}}

NoHeaders == <<>>
SmallHeaders == "x" :> <<Line(1, <<>>)>>

Request(ops, m, p, h, r) ==
  [operations |-> ops, method |-> m, path |-> p, headers |-> h, response |-> r]

MCInputs ==
  {Request(ops, "GET", p, NoHeaders, NoHeaders) :
     ops \in {<<UnderA, Op("GET", "exact", <<"/">>)>>}, p \in Paths}
  \cup
  {Request(ops, m, p, NoHeaders, NoHeaders) :
     ops \in UNION {[1 .. n -> Entries] : n \in 0 .. 3}
               \cup {<<GetA, UnderA, UnderEncoded, EmptyEntry>>},
     m \in Methods,
     p \in {<<"/", "a">>, <<"/", "a", "a">>, <<"/", "%61", "/", "a", "/">>}}
  \cup
  {Request(<<GetA>>, "GET", <<"/", "a">>, h, r) :
     h \in HeaderMaps, r \in {SmallHeaders}}
  \cup
  {Request(<<GetA>>, "GET", <<"/", "a">>, SmallHeaders, r) : r \in HeaderMaps}
=============================================================================
