------------------------------ MODULE MCStartup -----------------------------
(***************************************************************************)
(* A model-checking instance of Startup: every argument at and just past   *)
(* both of its bounds, every fault of an origin and of a list of           *)
(* operations, one at a time and the others at their defaults.             *)
(***************************************************************************)
EXTENDS Startup

Origin ==
  [bytes |-> 22, normal |-> 22, parses |-> TRUE, scheme |-> "https", wildcard |-> FALSE,
   port |-> 443, components |-> FALSE, credentials |-> FALSE]

Origins ==
  {Origin,
   [Origin EXCEPT !.bytes = 255, !.normal = 255],
   [Origin EXCEPT !.bytes = 255, !.normal = 600],
   [Origin EXCEPT !.bytes = 256, !.normal = 256],
   [Origin EXCEPT !.parses = FALSE],
   [Origin EXCEPT !.scheme = "ftp"],
   [Origin EXCEPT !.wildcard = TRUE],
   [Origin EXCEPT !.port = 0],
   [Origin EXCEPT !.components = TRUE],
   [Origin EXCEPT !.credentials = TRUE]}

Operations ==
  {[entries |-> n, empty |-> e, parses |-> p, distinct |-> d] :
     n \in {0, 1, 256, 257}, e \in {0, 1}, p \in BOOLEAN, d \in BOOLEAN}

Default ==
  [operations |-> [entries |-> 1, empty |-> 0, parses |-> TRUE, distinct |-> TRUE],
   request_timeout |-> 120, audit_event |-> 65536, concurrent |-> 8, request |-> 10485760,
   request_header |-> 32768, response |-> 104857600, response_header |-> 65536,
   origin |-> Origin]

OneChanged ==
  {Default}
  \cup {[Default EXCEPT !.operations = list] : list \in {l \in Operations : l.empty <= l.entries}}
  \cup {[Default EXCEPT !.origin = o] : o \in Origins}
  \cup UNION {{[Default EXCEPT ![name] = n] :
                 n \in {0, 1, Minimum[name] - 1, Minimum[name], Maximum[name], Maximum[name] + 1}} :
                 name \in DOMAIN Minimum}

\* Tokens are only compared, and every property is one of safety.
TokenSymmetry == Permutations(Tokens)
=============================================================================
