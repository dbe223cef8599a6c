----------------------------- MODULE MCControl -----------------------------
(* Small instances of Control. *)
EXTENDS Control
=============================================================================
