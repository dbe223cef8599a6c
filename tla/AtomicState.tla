---------------------------- MODULE AtomicState ----------------------------
(***************************************************************************)
(* What a persisted setting promises to the client that changed it: the    *)
(* stored settings change only by whole commits that never go back to an   *)
(* older write, and a write is acknowledged only once it is stored.        *)
(* A crash is a stutter: it loses nothing that was acknowledged.           *)
(*                                                                         *)
(* A write is named by its rank among the writes of the same setting, so   *)
(* "newer" is ">=".  StateStore refines this module.                       *)
(***************************************************************************)
EXTENDS Naturals

CONSTANT Settings    \* the settings whose durability is promised

VARIABLES
    saved,           \* saved[f]: rank of the write of f that is stored
    acked            \* acked[f]: newest write of f whose client was told "ok"

vars == <<saved, acked>>

Init ==
    /\ saved = [f \in Settings |-> 0]
    /\ acked = [f \in Settings |-> 0]

\* All settings are replaced at once by values that are at least as new.
Commit ==
    /\ saved' \in [Settings -> Nat]
    /\ \A f \in Settings : saved[f] <= saved'[f]
    /\ UNCHANGED acked

\* A write of f is acknowledged: it, or a newer one, is stored.
Acknowledge(f) ==
    /\ acked' \in [Settings -> Nat]
    /\ acked[f] <= acked'[f]
    /\ acked'[f] <= saved[f]
    /\ \A g \in Settings \ {f} : acked'[g] = acked[g]
    /\ UNCHANGED saved

Next == Commit \/ \E f \in Settings : Acknowledge(f)

Spec == Init /\ [][Next]_vars

=============================================================================
