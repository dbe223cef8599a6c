------------------------------- MODULE Signal -------------------------------
(***************************************************************************)
(* What the event bus promises a dashboard that listens: after anything    *)
(* was published it has a reason to look again, until it has looked.       *)
(* Events themselves may be lost; "something changed since you last        *)
(* looked" may not.  EventBus refines this module.                         *)
(***************************************************************************)
CONSTANT Listeners

VARIABLES
    live,    \* the listeners that listen
    owed,    \* those for whom something was published since they looked
    ready    \* those that have a reason to look

vars == <<live, owed, ready>>

Init == live = {} /\ owed = {} /\ ready = {}

Join(l) ==
    /\ l \notin live
    /\ live' = live \cup {l}
    /\ UNCHANGED <<owed, ready>>

Leave(l) ==
    /\ l \in live
    /\ live' = live \ {l}
    /\ owed' = owed \ {l}
    /\ ready' = ready \ {l}

Raise(l) ==
    /\ l \in live
    /\ owed' = owed \cup {l}
    /\ ready' = ready \cup {l}
    /\ UNCHANGED live

\* A listener looks; it may have a reason to look once more.
Look(l) ==
    /\ l \in ready
    /\ owed' = owed \ {l}
    /\ ready' \in {ready, ready \ {l}}
    /\ UNCHANGED live

Next == \E l \in Listeners : Join(l) \/ Leave(l) \/ Raise(l) \/ Look(l)

Spec == Init /\ [][Next]_vars

\* No listener that stays is left without the news.
Woken == \A l \in Listeners : l \in owed ~> l \notin owed

=============================================================================
