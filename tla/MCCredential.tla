---------------------------- MODULE MCCredential ----------------------------
(* The credential by itself, for two ticks. *)
EXTENDS Credential
=============================================================================
