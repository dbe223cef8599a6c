------------------------------ MODULE Failover ------------------------------
(***************************************************************************)
(* The WireGuard watchdog, internal/watchdog/wg.go: when the tunnel is not *)
(* healthy, recover tries the current location three times and then, with  *)
(* failover enabled, one location after the other until one is healthy or  *)
(* none is left.  (Its specification is SearchSpec, to stand beside those  *)
(* of Gateway.)                                                            *)
(*                                                                         *)
(* The lists it walks belong to the Switcher and change under its feet:    *)
(* they are read again for every candidate.  The outcomes of SwitchTo and  *)
(* of the probe are nondeterministic.  main() does not start this watchdog *)
(* at this commit.                                                         *)
(***************************************************************************)
EXTENDS Integers, FiniteSets, Sequences

CONSTANTS
    Locations,   \* the names of locations, as numbers in alphabetical order
    Preferences  \* the lists that the user may prefer

None == 0  \* the empty name

ASSUME FailoverAssumption ==
    /\ IsFiniteSet(Locations)
    /\ Locations \subseteq Nat \ {None}
    /\ Preferences \subseteq Seq(Nat)
    /\ Preferences # {}

Retries == 3

VARIABLES
    enabled,    \* WGWatchdog.enabled
    preferred,  \* what PreferredLocations() returns
    available,  \* what AvailableLocations() returns
    place,         \* where Run and recover are
    current,    \* recover's locals: the location that failed, ...
    attempt,    \* ... how often it was tried again, ...
    tried,      \* ... the locations not to try again, ...
    next,       \* ... and the candidate
    refuted,    \* ghost: locations that did not come up in this recovery
    event       \* ghost: what this recovery has published

lists == <<preferred, available>>
searchVars == <<enabled, lists, place, current, attempt, tried, next, refuted, event>>

-----------------------------------------------------------------------------
(* NextCandidateExcluding.                                                 *)

Min(S) == CHOOSE x \in S : \A y \in S : x <= y

\* The index of a name in the sorted list, and the name at an index.
Rank(l) == Cardinality({a \in available : a < l})
At(j) == CHOOSE l \in available : Rank(l) = j

\* The index the two loops over offsets meet at turn k: one to the right, one
\* to the left, two to the right, ...
Meets(k) == IF k % 2 = 1 THEN Rank(current) + (k + 1) \div 2
                         ELSE Rank(current) - k \div 2

\* Mutant: the loops stop at half of the list.
TurnsHalf == {k \in 1 .. Cardinality(available) - 1 :
                /\ Meets(k) \in 0 .. Cardinality(available) - 1
                /\ At(Meets(k)) \notin tried}

\* The turns at which they meet a location that was not tried.
Turns == {k \in 1 .. 2 * (Cardinality(available) - 1) :
            /\ Meets(k) \in 0 .. Cardinality(available) - 1
            /\ At(Meets(k)) \notin tried}

\* The places of the preferred list that can be tried.
Fit == {i \in DOMAIN preferred :
            /\ preferred[i] # current
            /\ preferred[i] \notin tried
            /\ preferred[i] \in available}

\* Mutant: the alphabetical neighbours come before the preferred locations.
CandidateUnpreferred ==
    IF current \in available
    THEN IF Turns = {} THEN None ELSE At(Meets(Min(Turns)))
    ELSE IF available \ tried = {} THEN None ELSE Min(available \ tried)

Candidate ==
    CASE Fit # {} -> preferred[Min(Fit)]
      [] Fit = {} /\ current \in available ->
            IF Turns = {} THEN None ELSE At(Meets(Min(Turns)))
      [] Fit = {} /\ current \notin available ->
            IF available \ tried = {} THEN None ELSE Min(available \ tried)

-----------------------------------------------------------------------------
SearchInit ==
    /\ enabled \in BOOLEAN
    /\ preferred \in Preferences
    /\ available \in SUBSET Locations
    /\ place = "wait"
    /\ current = None
    /\ attempt = 0
    /\ tried = {}
    /\ next = None
    /\ refuted = {}
    /\ event = "none"

\* recover returns: its locals are gone.
Return(published) ==
    /\ place' = "wait"
    /\ event' = published
    /\ current' = None
    /\ attempt' = 0
    /\ tried' = {}
    /\ next' = None

\* A tick finds the tunnel unhealthy; the switcher's location may be unset.
Tick ==
    /\ place = "wait"
    /\ place' = "retry"
    /\ current' \in Locations \cup {None}
    /\ refuted' = {}
    /\ event' = "none"
    /\ UNCHANGED <<enabled, lists, attempt, tried, next>>

\* SwitchTo succeeds; then five seconds of sleep.
SwitchBack ==
    /\ place = "retry"
    /\ place' = "reprobe"
    /\ UNCHANGED <<enabled, lists, current, attempt, tried, next, refuted, event>>

\* SwitchTo fails, or the tunnel is still unhealthy after it.
RetryFails ==
    /\ place \in {"retry", "reprobe"}
    /\ refuted' = refuted \cup {current}
    /\ \/ /\ attempt + 1 < Retries
          /\ place' = "retry"
          /\ attempt' = attempt + 1
          /\ UNCHANGED <<current, tried, next, event>>
       \/ /\ attempt + 1 = Retries
          /\ enabled
          /\ place' = "choose"
          /\ attempt' = Retries
          /\ tried' = {current}
          /\ UNCHANGED <<current, next, event>>
       \/ /\ attempt + 1 = Retries
          /\ ~enabled
          /\ Return("all_failed")
    /\ UNCHANGED <<enabled, lists>>

\* Mutant: a candidate is not remembered, and may be chosen again.
ChooseForgotten ==
    /\ place = "choose"
    /\ Candidate # None
    /\ place' = "switch"
    /\ next' = Candidate
    /\ UNCHANGED <<enabled, lists, current, attempt, tried, refuted, event>>

Choose ==
    /\ place = "choose"
    /\ Candidate # None
    /\ place' = "switch"
    /\ next' = Candidate
    /\ tried' = tried \cup {Candidate}
    /\ UNCHANGED <<enabled, lists, current, attempt, refuted, event>>

GiveUp ==
    /\ place = "choose"
    /\ Candidate = None
    /\ Return("all_failed")
    /\ UNCHANGED <<enabled, lists, refuted>>

SwitchOver ==
    /\ place = "switch"
    /\ place' = "probe"
    /\ UNCHANGED <<enabled, lists, current, attempt, tried, next, refuted, event>>

CandidateFails ==
    /\ place \in {"switch", "probe"}
    /\ place' = "choose"
    /\ refuted' = refuted \cup {next}
    /\ UNCHANGED <<enabled, lists, current, attempt, tried, next, event>>

\* The probe is content: with the current location, or with another one.
Recovered ==
    /\ place \in {"reprobe", "probe"}
    /\ Return(IF place = "probe" THEN "auto_failover" ELSE "none")
    /\ UNCHANGED <<enabled, lists, refuted>>

\* The user or the server list changes what the switcher returns: the
\* preferences, or a location (a new list is a change of several).
Relist ==
    /\ \/ preferred' \in Preferences /\ UNCHANGED available
       \/ /\ \E l \in Locations : available' \in {available \cup {l}, available \ {l}}
          /\ UNCHANGED preferred
    /\ UNCHANGED <<enabled, place, current, attempt, tried, next, refuted, event>>

Recover ==
    \/ SwitchBack
    \/ RetryFails
    \/ Choose
    \/ GiveUp
    \/ SwitchOver
    \/ CandidateFails
    \/ Recovered

SearchNext == Tick \/ Recover \/ Relist

\* SwitchTo and the probe return, and the watchdog's goroutine is scheduled.
SearchFairness == WF_searchVars(Recover)

SearchSpec == SearchInit /\ [][SearchNext]_searchVars /\ SearchFairness

-----------------------------------------------------------------------------
(* Properties.                                                             *)

\* The type invariant.
TypeOK ==
    /\ enabled \in BOOLEAN
    /\ preferred \in Preferences
    /\ available \in SUBSET Locations
    /\ place \in {"wait", "retry", "reprobe", "choose", "switch", "probe"}
    /\ current \in Locations \cup {None}
    /\ attempt \in 0 .. Retries
    /\ tried \in SUBSET (Locations \cup {None})
    /\ next \in Locations \cup {None}
    /\ refuted \in SUBSET (Locations \cup {None})
    /\ event \in {"none", "all_failed", "auto_failover"}

\* The search has tried exactly what has failed, and the candidate at hand.
TriedIsRefuted ==
    /\ place \in {"retry", "reprobe"} => refuted \subseteq {current}
    /\ place \in {"choose", "switch", "probe"} => enabled /\ current \in tried
    /\ place = "choose" => tried = refuted
    /\ place \in {"switch", "probe"} =>
        next \notin refuted /\ tried = refuted \cup {next}

\* The inductive invariant: while the watchdog searches, no location is tried
\* a second time, and none is written off that was not tried.
SearchInv ==
    /\ TypeOK
    /\ TriedIsRefuted
    /\ place \in {"wait", "retry", "reprobe"} => attempt < Retries /\ tried = {}

GivesUp == event = "none" /\ event' = "all_failed"

\* "all_failed" is published only when every location that is available at
\* that moment was switched to in this recovery and did not come up, however
\* the lists have changed since it began: the two loops of
\* NextCandidateExcluding miss none, and take over when the preferred list is
\* "exhausted (or empty)" (wg.go:29).  The design asks for less: see
\* ThreeNeighbours.
GivesUpExhausted == [][GivesUp /\ enabled => available \subseteq refuted]_searchVars

\* The locations in the alphabet from the current one to l.
Between(l) == {a \in available : a \in l .. current - 1 \cup current + 1 .. l}

Open == available \ tried

\* The candidate is the first preferred location that is left, else one with
\* no nearer neighbour in the alphabet, and the next one at equal distance
\* (the promise of NextCandidate's comment); the first of the list when the
\* current one is no longer in it.
NextIsNearest ==
    [][place = "choose" /\ place' = "switch" =>
        /\ next' \in Open
        /\ IF \E i \in DOMAIN preferred : preferred[i] \in Open
           THEN \E i \in DOMAIN preferred :
                    /\ preferred[i] = next'
                    /\ \A j \in 1 .. i - 1 : preferred[j] \notin Open
           ELSE \A l \in Open :
                    IF current \in available
                    THEN LET near == Cardinality(Between(next'))
                             far  == Cardinality(Between(l))
                         IN near < far \/ (near = far /\ l <= next')
                    ELSE next' <= l]_searchVars

\* "If empty, fall back to the 3 alphabetically nearest neighbors of the current
\* location name" (section 4.5 of the design): without preferred locations, no
\* more than two of the others are nearer than the candidate.
ThreeNeighbours ==
    [][place = "choose" /\ place' = "switch" /\ preferred = <<>> /\ current \in available =>
        LET nearer == {l \in available \ {current} :
                          Cardinality(Between(l)) < Cardinality(Between(next'))}
        IN Cardinality(nearer) < 3]_searchVars

\* Every recovery ends, although the lists may change between any two steps.
RecoverEnds == place # "wait" ~> place = "wait"

=============================================================================
