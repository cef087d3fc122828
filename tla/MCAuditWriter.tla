--------------------------- MODULE MCAuditWriter ---------------------------
(***************************************************************************)
(* A model-checking instance of AuditWriter: four events, the callers of   *)
(* two may be dropped, another may be over the size limit.                 *)
(***************************************************************************)
EXTENDS AuditWriterSink

CONSTANTS e1, e2, e3, e4

AllEvents == {e1, e2, e3, e4}
Dropped == {e1, e2}
TooLong == {e4}
=============================================================================
