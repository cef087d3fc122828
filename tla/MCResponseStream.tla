-------------------------- MODULE MCResponseStream --------------------------
(***************************************************************************)
(* A model-checking instance of ResponseStream: chunks of one or two bytes *)
(* against a limit that some bodies meet exactly and others pass.          *)
(***************************************************************************)
EXTENDS ResponseStream

OneOrTwo == {1, 2}
=============================================================================
