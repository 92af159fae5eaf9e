----------------------------- MODULE MCCertAuth -----------------------------
(* Certificates whose files have different lengths. *)
EXTENDS CertAuth

MCSize == [client |-> 2, made |-> 1, foreign |-> 1]
=============================================================================
