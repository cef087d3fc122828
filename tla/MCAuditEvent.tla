---------------------------- MODULE MCAuditEvent ----------------------------
(***************************************************************************)
(* Model-checking instances of AuditEvent: every target, and the targets   *)
(* on which the constructors and the checks of the next start agree.       *)
(***************************************************************************)
EXTENDS AuditEvent

\* No multi-byte character lies across a cut, a cut leaves an authority behind,
\* and the query behind an authority is cut only if the path is cut as well.
PlainTargets ==
  {t \in AllTargets :
     /\ "long_wide" \notin {t.path.shape, t.query.shape}
     /\ t.authority # "long"
     /\ t.authority # None /\ t.query.shape = "long" => t.path.shape = "long"}

\* What a provider may answer: its status is recorded as it came.
OkOrFailed == {200, 502}
=============================================================================
