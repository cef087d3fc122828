--------------------------- MODULE AuditContract ---------------------------
(***************************************************************************)
(* What the gateway promises about auditing, without saying how: every     *)
(* request is told an outcome only after that outcome is recorded, a       *)
(* record is final, it tells whether the provider was contacted, and once  *)
(* the gateway has shut, the provider is not contacted again.  The one     *)
(* answer that is no outcome is a body that was cut short: it belongs to   *)
(* an exchange recorded as failed, or to one that can have no record.      *)
(***************************************************************************)
CONSTANTS
  Requests,
  Unrecordable   \* requests the gateway may fail to make a record of

VARIABLES
  contacted,   \* requests the provider was contacted for
  inflight,    \* requests the provider has not answered yet
  record,      \* request -> its recorded decision, or Unrecorded
  told,        \* request -> the decision its harness was told, or Untold
  gate         \* "open", "closing" or "shut"

contractVars == <<contacted, inflight, record, told, gate>>

Unrecorded == "unrecorded"
Untold == "untold"
Refused == "refused"
CutShort == "cut_short"

ContractInit ==
  /\ contacted = {}
  /\ inflight = {}
  /\ record = [r \in Requests |-> Unrecorded]
  /\ told = [r \in Requests |-> Untold]
  /\ gate = "open"

Contact(r) ==
  /\ gate = "open"
  /\ r \notin contacted /\ record[r] = Unrecorded /\ told[r] = Untold
  /\ contacted' = contacted \cup {r}
  /\ inflight' = inflight \cup {r}
  /\ UNCHANGED <<record, told, gate>>

Return(r) ==
  /\ inflight' = inflight \ {r}
  /\ UNCHANGED <<contacted, record, told, gate>>

Record(r, decision) ==
  /\ record[r] = Unrecorded /\ told[r] = Untold
  /\ decision = "denied" <=> r \notin contacted
  /\ r \notin inflight
  /\ record' = [record EXCEPT ![r] = decision]
  /\ UNCHANGED <<contacted, inflight, told, gate>>

\* The harness is told what was recorded.
Tell(r) ==
  /\ told[r] = Untold /\ record[r] # Unrecorded
  /\ told' = [told EXCEPT ![r] = record[r]]
  /\ UNCHANGED <<contacted, inflight, record, gate>>

\* The harness is told that its request failed, recorded or not.
Refuse(r) ==
  /\ told[r] = Untold
  /\ told' = [told EXCEPT ![r] = Refused]
  /\ UNCHANGED <<contacted, inflight, record, gate>>

\* The harness is given less than the provider's whole body, and no error.
Cut(r) ==
  /\ told[r] = Untold
  /\ r \in contacted /\ r \notin inflight
  /\ \/ record[r] = "response_error"
     \/ record[r] = Unrecorded /\ (gate # "open" \/ r \in Unrecordable)
  /\ told' = [told EXCEPT ![r] = CutShort]
  /\ UNCHANGED <<contacted, inflight, record, gate>>

StartClosing ==
  /\ gate = "open" /\ gate' = "closing"
  /\ UNCHANGED <<contacted, inflight, record, told>>

Shut ==
  /\ gate = "closing" /\ inflight = {}
  /\ gate' = "shut"
  /\ UNCHANGED <<contacted, inflight, record, told>>

ContractNext ==
  \/ \E r \in Requests :
       \/ Contact(r) \/ Return(r) \/ Tell(r) \/ Refuse(r) \/ Cut(r)
       \/ \E decision \in {"allowed", "denied", "upstream_error", "response_error"} :
            Record(r, decision)
  \/ StartClosing
  \/ Shut

ContractSpec == ContractInit /\ [][ContractNext]_contractVars
=============================================================================
