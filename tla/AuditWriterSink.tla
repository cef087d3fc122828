-------------------------- MODULE AuditWriterSink --------------------------
(***************************************************************************)
(* AuditWriter implements AuditSink under this refinement mapping.         *)
(***************************************************************************)
EXTENDS AuditWriter

Waiting == {"queued", "write", "flush", "commit"}

\* The lines of the file, by their newlines: every second cell is one, since no
\* event is joined to a torn line.
LinesOf(cells) == [i \in 1 .. Len(cells) \div 2 |-> cells[2 * i][1]]
Lines == LinesOf(file)

CallerOf == [e \in Events |-> IF pc[e] \in Waiting THEN "waiting" ELSE pc[e]]
Up == process = "up"
Failed == poisoned /\ Up

Sink == INSTANCE AuditSink WITH
  lines <- Lines, caller <- CallerOf, failed <- Failed, running <- Up

\* Every step of the writer, its starts and its crashes is a step the sink allows,
\* or changes nothing it speaks of.
ImplementsSink == Sink!SinkSpec
=============================================================================
