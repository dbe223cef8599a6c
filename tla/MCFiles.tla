------------------------------ MODULE MCFiles ------------------------------
(***************************************************************************)
(* Small instances of EnvFile and ConfigStore, the two modules about files *)
(* that os.WriteFile truncates and then writes.  They share nothing: in a  *)
(* behaviour one of them moves, and the other keeps its initial state.     *)
(***************************************************************************)
EXTENDS EnvFile, ConfigStore, TLC

VARIABLE part  \* which of them moves

allVars == <<part, vars, storeVars>>

FilesInit ==
    /\ Init
    /\ StoreInit
    /\ part \in {"edits", "store"}
    /\ part = "edits" => env = "none"
    /\ part = "store" => file.country = NoLine /\ file.city = NoLine

FilesNext ==
    \/ part = "edits" /\ Next /\ UNCHANGED <<part, storeVars>>
    \/ part = "store" /\ StoreNext /\ UNCHANGED <<part, vars>>

FilesSpec == FilesInit /\ [][FilesNext]_allVars

Symmetric == Permutations(Slugs) \cup Permutations(Versions) \cup Permutations(Keys)

=============================================================================
