------------------------------ MODULE MCNative ------------------------------
(***************************************************************************)
(* Small instances of Gateway and Failover, the parts of a tunnel that the *)
(* daemon would drive itself.  Nothing connects them at this commit: in a  *)
(* behaviour one of them moves, and the other keeps its initial state.     *)
(***************************************************************************)
EXTENDS Gateway, Failover

CONSTANT Last  \* the last location in the alphabet

MCLocations == 1 .. Last

\* An unset list, and one that begins with a location that no list offers.
MCPreferences == {<<>>, <<Last + 1, 3, 1>>}

VARIABLE part  \* which of them moves

allVars == <<part, vars, searchVars>>

NativeInit ==
    /\ Init
    /\ SearchInit
    /\ part \in {"routes", "search"}
    /\ part = "routes" => ~enabled /\ preferred = <<>> /\ available = {}

NativeNext ==
    \/ part = "routes" /\ Next /\ UNCHANGED <<part, searchVars>>
    \/ part = "search" /\ SearchNext /\ UNCHANGED <<part, vars>>

NativeSpec == NativeInit /\ [][NativeNext]_allVars /\ Fairness /\ SearchFairness

=============================================================================
