----------------------------- MODULE AuditSink -----------------------------
(***************************************************************************)
(* What the request path relies on from the audit log, without files,      *)
(* mutexes or background writes: lines are whole and are only added; while *)
(* a caller waits behind its line nobody else's is added, so the log is in *)
(* the order of the acknowledgements; a failure is final until the next    *)
(* start; and a crash takes no line that was acknowledged.                 *)
(***************************************************************************)
EXTENDS Naturals, Sequences

CONSTANT Events

VARIABLES
  lines,     \* the events in the log, in order
  caller,    \* event -> what its caller knows of it
  failed,    \* an append has failed in this run
  running    \* the log is open for appends

sinkState == <<lines, caller, failed, running>>

Logged(e) == \E i \in DOMAIN lines : lines[i] = e

SinkInit ==
  /\ lines = <<>>
  /\ caller = [e \in Events |-> "idle"]
  /\ failed = FALSE
  /\ running = FALSE

Start ==
  /\ ~running /\ running' = TRUE
  /\ UNCHANGED <<lines, caller, failed>>

Becomes(e, from, to) ==
  /\ running
  /\ caller[e] \in from
  /\ caller' = [caller EXCEPT ![e] = to]

Submit(e) ==
  /\ Becomes(e, {"idle"}, "waiting")
  /\ UNCHANGED <<lines, failed, running>>

\* The line of a caller that waits, or was dropped, is added once, as long as
\* nothing has failed and nobody waits behind a line of an answer of its own.
Land(e) ==
  /\ running /\ ~failed
  /\ caller[e] \in {"waiting", "dropped"} /\ ~Logged(e)
  /\ \A i \in DOMAIN lines : caller[lines[i]] # "waiting"
  /\ lines' = Append(lines, e)
  /\ UNCHANGED <<caller, failed, running>>

Acknowledge(e) ==
  /\ Logged(e)
  /\ Becomes(e, {"waiting"}, "acked")
  /\ UNCHANGED <<lines, failed, running>>

\* The line may be in the log although the append failed.
Fail(e) ==
  /\ ~failed /\ failed' = TRUE
  /\ Becomes(e, {"waiting"}, "failed")
  /\ UNCHANGED <<lines, running>>

\* An event is refused for its size, or because an append has failed before.
Refuse(e) ==
  /\ ~Logged(e)
  /\ Becomes(e, IF failed THEN {"idle", "waiting"} ELSE {"idle"}, "failed")
  /\ UNCHANGED <<lines, failed, running>>

Drop(e) ==
  /\ Becomes(e, {"waiting"}, "dropped")
  /\ UNCHANGED <<lines, failed, running>>

\* The run ends, or a start does.  Lines nobody was told of may go, from the end.
Stop ==
  /\ running' = FALSE /\ failed' = FALSE
  /\ caller' = [e \in Events |-> IF caller[e] = "waiting" THEN "lost" ELSE caller[e]]
  /\ \E kept \in 0 .. Len(lines) : lines' = SubSeq(lines, 1, kept)
  /\ \A e \in Events : caller[e] = "acked" => Logged(e)'

SinkNext ==
  \/ \E e \in Events :
       Submit(e) \/ Land(e) \/ Acknowledge(e) \/ Fail(e) \/ Refuse(e) \/ Drop(e)
  \/ Start
  \/ Stop

SinkSpec == SinkInit /\ [][SinkNext]_sinkState
=============================================================================
