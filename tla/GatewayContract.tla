-------------------------- MODULE GatewayContract --------------------------
(***************************************************************************)
(* Gateway implements AuditContract under this refinement mapping.         *)
(***************************************************************************)
EXTENDS Gateway

\* The decision of the request's event in the log.
RecordOf(r) ==
  IF EventsOf(r) = {} THEN "unrecorded"
  ELSE log[CHOOSE i \in EventsOf(r) : TRUE].decision

\* The decision an answer stands for: a 500, a broken or a cut body stands for none.
ToldTo(r) ==
  CASE reply[r] \in {"none", "head"} -> "untold"
    [] reply[r] \in {"internal_error", "broken"} -> "refused"
    [] reply[r] = "cut" -> "cut_short"
    [] OTHER -> decision[r]

Gate ==
  IF closed # {} THEN "shut" ELSE IF audit_failed THEN "closing" ELSE "open"

Contract == INSTANCE AuditContract WITH
  Unrecordable <- Outgrowing,
  inflight <- {r \in Requests : pc[r] = "sending"},
  record   <- [r \in Requests |-> RecordOf(r)],
  told     <- [r \in Requests |-> ToldTo(r)],
  gate     <- Gate

\* Every step of the gateway is a step the audit contract allows, or changes
\* nothing the contract speaks of: the gateway keeps its audit promises.
ImplementsContract == Contract!ContractSpec
=============================================================================
