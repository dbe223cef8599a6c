---------------------------- MODULE MCStateStore ----------------------------
(***************************************************************************)
(* Small instances of StateStore: goroutines over two flags that handlers  *)
(* report, the toggle and the kill switch, which main() may set too, and   *)
(* over the current location, a string.                                    *)
(***************************************************************************)
EXTENDS StateStore

CONSTANTS userOn, toggle, location

MCMaxWrites == [f \in Fields |-> IF f = location THEN 2 ELSE 1]

=============================================================================
