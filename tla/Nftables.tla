------------------------------ MODULE Nftables ------------------------------
(***************************************************************************)
(* internal/iptables/rules.go: the table surfshark_exit, with the base     *)
(* rules and the kill switch, built by one nft command after the other.    *)
(* Any command can fail, with or without its effect.  A rule is an object  *)
(* that is there or not: a rule added twice does what it does once.        *)
(***************************************************************************)
EXTENDS Naturals, Sequences

VARIABLES
    stage,    \* where the operation is
    at,       \* ApplyBase: the step it is at
    objects,  \* what is in the kernel
    based,    \* ghost: ApplyBase returned nil and was not called since
    armed     \* ghost: ArmKillSwitch returned nil, and nothing was called since

vars == <<stage, at, objects, based, armed>>

\* ApplyBase's steps.
Base == <<"table", "forward", "postrouting", "masquerade", "out", "back">>
BaseObjects == {Base[i] : i \in DOMAIN Base}

KillSwitch == {"killswitch", "drop"}

Init ==
    /\ stage = "idle"
    /\ at = 1
    /\ objects = {}
    /\ based = FALSE
    /\ armed = FALSE

\* A command adds what it names, to a table or chain that is there.
Adds(o, within) == within \in objects \cup {o} /\ objects' = objects \cup {o}

\* It fails, having done its work or not.
Fails(o, within) == UNCHANGED objects \/ Adds(o, within)

-----------------------------------------------------------------------------
\* ApplyBase drops the whole table first, and ignores the error.
ApplyBase ==
    /\ stage = "idle"
    /\ objects' \in {{}, objects}
    /\ stage' = "base"
    /\ at' = 1
    /\ based' = FALSE
    /\ armed' = FALSE

BaseStep ==
    /\ stage = "base"
    /\ \/ /\ Adds(Base[at], "table")
          /\ \/ at < Len(Base) /\ at' = at + 1 /\ UNCHANGED <<stage, based>>
             \/ at = Len(Base) /\ at' = 1 /\ stage' = "idle" /\ based' = TRUE
       \/ /\ Fails(Base[at], "table")
          /\ stage' = "idle"
          /\ at' = 1
          /\ UNCHANGED based
    /\ UNCHANGED armed

\* ArmKillSwitch deletes the chain first, and ignores the error.
ArmKillSwitch ==
    /\ stage = "idle"
    /\ objects' \in {objects \ KillSwitch, objects}
    /\ stage' = "chain"
    /\ armed' = FALSE
    /\ UNCHANGED <<at, based>>

AddChain ==
    /\ stage = "chain"
    /\ \/ Adds("killswitch", "table") /\ stage' = "rule"
       \/ Fails("killswitch", "table") /\ stage' = "idle"
    /\ UNCHANGED <<at, based, armed>>

\* Mutant: the error of the last command is ignored.
AddRuleUnchecked ==
    /\ stage = "rule"
    /\ stage' = "idle"
    /\ armed' = TRUE
    /\ Fails("drop", "killswitch")
    /\ UNCHANGED <<at, based>>

AddRule ==
    /\ stage = "rule"
    /\ stage' = "idle"
    /\ \/ Adds("drop", "killswitch") /\ armed' = TRUE
       \/ Fails("drop", "killswitch") /\ UNCHANGED armed
    /\ UNCHANGED <<at, based>>

\* DisarmKillSwitch is one command; a chain that is not there is no error.
DisarmKillSwitch ==
    /\ stage = "idle"
    /\ objects' \in {objects \ KillSwitch, objects}
    /\ armed' = FALSE
    /\ UNCHANGED <<stage, at, based>>

Step == BaseStep \/ AddChain \/ AddRule

Next == ApplyBase \/ ArmKillSwitch \/ DisarmKillSwitch \/ Step

Spec == Init /\ [][Next]_vars

-----------------------------------------------------------------------------
(* Properties.                                                             *)

\* The type invariant.
TypeOK ==
    /\ stage \in {"idle", "base", "chain", "rule"}
    /\ at \in DOMAIN Base
    /\ objects \in SUBSET (BaseObjects \cup KillSwitch)
    /\ based \in BOOLEAN
    /\ armed \in BOOLEAN

\* What is in a chain is in the table; what was reported as built is there.
Built ==
    /\ objects # {} => "table" \in objects
    /\ "drop" \in objects => "killswitch" \in objects
    /\ stage = "base" => ~armed /\ ~based /\ \A i \in 1 .. at - 1 : Base[i] \in objects
    /\ stage \in {"chain", "rule"} => ~armed
    /\ stage = "rule" => "killswitch" \in objects
    /\ based => BaseObjects \subseteq objects
    /\ armed => KillSwitch \subseteq objects

IInv == TypeOK /\ Built

=============================================================================
