------------------------------ MODULE MCEgress ------------------------------
(* Small instances of Egress. *)
EXTENDS Egress
=============================================================================
