--------------------------- MODULE FailoverProofs ---------------------------
(***************************************************************************)
(* For any finite set of locations and any lists, changing at any moment:  *)
(* the search of recover tries each location at most once, its candidate   *)
(* is the one that NextCandidateExcluding promises, and it gives up only   *)
(* when none of the available locations is left.                           *)
(***************************************************************************)
EXTENDS Failover, FiniteSetTheorems, TLAPS

-----------------------------------------------------------------------------
(* The sorted list: ranks and least elements.                              *)

\* A set of numbers has a least one.
LEMMA MinIsLeast ==
    ASSUME NEW S \in SUBSET Nat, S # {}
    PROVE  Min(S) \in S /\ \A y \in S : Min(S) <= y
<1>1. PICK m \in S : \A k \in S : <<k, m>> \notin OpToRel(<, Nat)
  BY WFMin, NatLessThanWellFounded, Zenon
<1>2. \A k \in S : ~(k < m)
  BY <1>1, Zenon DEF OpToRel
<1>3. \A k \in S : m <= k
  BY <1>2
<1> QED
  BY <1>3 DEF Min

\* The available locations are finitely many numbers.
LEMMA AvailableFinite ==
    ASSUME TypeOK
    PROVE  /\ available \subseteq Nat \ {None}
           /\ \A S \in SUBSET available :
                IsFiniteSet(S) /\ Cardinality(S) \in Nat
                /\ Cardinality(S) <= Cardinality(available)
<1>1. available \in SUBSET Locations
  BY DEF TypeOK
<1>2. IsFiniteSet(available)
  BY <1>1, FailoverAssumption, FS_Subset
<1>3. \A S \in SUBSET available : IsFiniteSet(S) /\ Cardinality(S) <= Cardinality(available)
  BY <1>2, FS_Subset
<1> QED
  BY <1>1, <1>3, FailoverAssumption, FS_CardinalityType

\* Counting the names up to l instead of before it adds one.
LEMMA UpTo ==
    ASSUME TypeOK, NEW l \in available
    PROVE  Cardinality({a \in available : a <= l}) = Rank(l) + 1
<1> DEFINE B == {a \in available : a < l}
<1>1. IsFiniteSet(B)
  BY AvailableFinite
<1>a. l \notin B
  BY AvailableFinite
<1>b. Cardinality(B \cup {l}) = IF l \in B THEN Cardinality(B) ELSE Cardinality(B) + 1
  <2> HIDE DEF B
  <2> QED
    BY <1>1, FS_AddElement, Zenon
<1>2. Cardinality(B \cup {l}) = Cardinality(B) + 1
  <2> HIDE DEF B
  <2> QED
    BY <1>a, <1>b
<1>3. B \cup {l} = {a \in available : a <= l}
  BY AvailableFinite
<1> QED
  BY <1>2, <1>3 DEF Rank

\* How far apart two names are in the list.
LEMMA BetweenIsDistance ==
    ASSUME TypeOK, NEW l \in available, NEW m \in available, l < m
    PROVE  Cardinality({a \in available : l < a /\ a <= m}) = Rank(m) - Rank(l)
<1> DEFINE A == {a \in available : a <= l}
           B == {a \in available : l < a /\ a <= m}
<1>1. A \cup B = {a \in available : a <= m} /\ A \cap B = {}
  BY AvailableFinite
<1>2. IsFiniteSet(A) /\ IsFiniteSet(B)
  BY AvailableFinite
<1>3. Cardinality(A \cup B) = Cardinality(A) + Cardinality(B) - Cardinality(A \cap B)
  BY <1>2, FS_Union
<1>4. Cardinality(A \cap B) = 0
  BY <1>1, FS_EmptySet
<1>5. Cardinality(A) = Rank(l) + 1 /\ Cardinality(A \cup B) = Rank(m) + 1
  BY <1>1, UpTo
<1>6. Cardinality(B) \in Nat /\ Rank(l) \in Nat /\ Rank(m) \in Nat
  BY AvailableFinite DEF Rank
<1> QED
  BY <1>3, <1>4, <1>5, <1>6

\* Ranks are indices of the list, in its order.
LEMMA RankIsIndex ==
    ASSUME TypeOK
    PROVE  /\ \A l \in available : Rank(l) \in 0 .. Cardinality(available) - 1
           /\ \A l, m \in available : l < m => Rank(l) < Rank(m)
           /\ Cardinality(available) \in Nat
<1>1. ASSUME NEW l \in available PROVE Rank(l) \in 0 .. Cardinality(available) - 1
  <2>1. Rank(l) + 1 <= Cardinality(available)
    BY UpTo, AvailableFinite
  <2> QED
    BY <2>1, AvailableFinite DEF Rank
<1>2. ASSUME NEW l \in available, NEW m \in available, l < m PROVE Rank(l) < Rank(m)
  <2> DEFINE B == {a \in available : l < a /\ a <= m}
  <2>1. IsFiniteSet(B) /\ Cardinality(B) \in Nat /\ m \in B
    BY <1>2, AvailableFinite
  <2>2. Cardinality(B) # 0
    BY <2>1, FS_EmptySet
  <2>3. Rank(l) \in Nat /\ Rank(m) \in Nat
    BY AvailableFinite DEF Rank
  <2> QED
    BY <1>2, <2>1, <2>2, <2>3, BetweenIsDistance
<1> QED
  BY <1>1, <1>2, AvailableFinite

\* At inverts Rank: the list has one name at each of its indices.
LEMMA AtInvertsRank ==
    ASSUME TypeOK
    PROVE  /\ \A l \in available : At(Rank(l)) = l
           /\ \A j \in 0 .. Cardinality(available) - 1 :
                At(j) \in available /\ Rank(At(j)) = j
<1> DEFINE n == Cardinality(available)
           r == [l \in available |-> Rank(l)]
<1>1. \A l, m \in available : Rank(l) = Rank(m) => l = m
  BY RankIsIndex, AvailableFinite
<1>2. r \in [available -> 0 .. n - 1]
  BY RankIsIndex
<1>3. r \in Injection(available, 0 .. n - 1)
  BY <1>1, <1>2 DEF Injection, IsInjective
<1>4. IsFiniteSet(available) /\ n \in Nat /\ Cardinality(0 .. n - 1) = n
  BY AvailableFinite, FS_Interval
<1>5. r \in Surjection(available, 0 .. n - 1)
  <2>1. Cardinality(available) = Cardinality(0 .. n - 1)
    BY <1>4
  <2> DEFINE T == 0 .. n - 1
  <2>2. r \in Injection(available, T) /\ Cardinality(available) = Cardinality(T)
    BY <1>3, <2>1
  <2>3. IsFiniteSet(T)
    BY <1>4, FS_Interval
  <2> HIDE DEF r, T
  <2>4. r \in Surjection(available, T)
    BY <2>2, <2>3, FS_Injection
  <2> QED
    BY <2>4 DEF T
<1>6. \A j \in 0 .. n - 1 : \E l \in available : Rank(l) = j
  BY <1>5 DEF Surjection
<1> QED
  BY <1>1, <1>6 DEF At

-----------------------------------------------------------------------------
(* NextCandidateExcluding.                                                 *)

\* The turn at which the loops meet a name of the list.
Turn(l) == IF Rank(l) > Rank(current) THEN 2 * (Rank(l) - Rank(current)) - 1
                                      ELSE 2 * (Rank(current) - Rank(l))

\* The loops meet every name of the list but the current one.
LEMMA LoopsMeetAll ==
    ASSUME TypeOK, current \in available, current \in tried
    PROVE  /\ \A l \in Open : Turn(l) \in Turns /\ At(Meets(Turn(l))) = l
           /\ \A k \in Turns : /\ At(Meets(k)) \in Open
                               /\ Turn(At(Meets(k))) = k
<1> DEFINE n == Cardinality(available)
<1>1. Rank(current) \in 0 .. n - 1 /\ n \in Nat
  BY RankIsIndex
<1>2. ASSUME NEW l \in Open PROVE Turn(l) \in Turns /\ At(Meets(Turn(l))) = l
  <2>1. l \in available /\ l \notin tried /\ l # current
    BY <1>2 DEF Open
  <2>2. Rank(l) \in 0 .. n - 1 /\ Rank(l) # Rank(current)
    BY <2>1, RankIsIndex, AtInvertsRank
  <2>3. Turn(l) \in 1 .. 2 * (n - 1) /\ Meets(Turn(l)) = Rank(l)
    BY <1>1, <2>2 DEF Turn, Meets
  <2> QED
    BY <2>1, <2>2, <2>3, AtInvertsRank DEF Turns
<1>3. ASSUME NEW k \in Turns PROVE At(Meets(k)) \in Open /\ Turn(At(Meets(k))) = k
  <2>1. k \in 1 .. 2 * (n - 1) /\ Meets(k) \in 0 .. n - 1 /\ At(Meets(k)) \notin tried
    BY <1>3 DEF Turns
  <2>2. At(Meets(k)) \in available /\ Rank(At(Meets(k))) = Meets(k)
    BY <2>1, AtInvertsRank
  <2>3. Turn(At(Meets(k))) = k
    BY <1>1, <2>1, <2>2 DEF Turn, Meets
  <2> QED
    BY <2>1, <2>2, <2>3 DEF Open
<1> QED
  BY <1>2, <1>3

\* The places of the preferred list that can be tried.
LEMMA FitIsOpen ==
    ASSUME TypeOK, current \in tried
    PROVE  /\ Fit \subseteq Nat
           /\ \A i \in DOMAIN preferred : i \in Fit <=> preferred[i] \in Open
<1>1. preferred \in Seq(Nat)
  BY FailoverAssumption DEF TypeOK
<1> QED
  BY <1>1 DEF Fit, Open

\* What the search does when no preferred location is left.
LEMMA NeighbourIsNearest ==
    ASSUME TypeOK, current \in tried, Fit = {}
    PROVE  /\ Candidate = None <=> Open = {}
           /\ Open # {} =>
                /\ Candidate \in Open
                /\ current \notin available => \A l \in Open : Candidate <= l
                /\ current \in available => \A l \in Open : Turn(Candidate) <= Turn(l)
<1>1. None \notin available /\ Open \subseteq available /\ available \subseteq Nat
  BY AvailableFinite DEF Open
<1>2. CASE current \notin available
  <2>1. Candidate = IF Open = {} THEN None ELSE Min(Open)
    BY <1>2 DEF Candidate, Open
  <2> QED
    BY <1>1, <1>2, <2>1, MinIsLeast
<1>3. CASE current \in available
  <2>1. Candidate = IF Turns = {} THEN None ELSE At(Meets(Min(Turns)))
    BY <1>3 DEF Candidate
  <2>2. Turns = {} <=> Open = {}
    BY <1>3, LoopsMeetAll
  <2>3. Turns \subseteq Nat
    BY RankIsIndex DEF Turns
  <2>4. ASSUME Open # {}
        PROVE  Candidate \in Open /\ \A l \in Open : Turn(Candidate) <= Turn(l)
    <3>1. Min(Turns) \in Turns /\ \A k \in Turns : Min(Turns) <= k
      BY <2>2, <2>3, <2>4, MinIsLeast
    <3>2. Candidate \in Open /\ Turn(Candidate) = Min(Turns)
      BY <1>3, <2>1, <2>2, <2>4, <3>1, LoopsMeetAll
    <3> QED
      BY <1>3, <3>1, <3>2, LoopsMeetAll
  <2> QED
    BY <1>1, <1>3, <2>1, <2>2, <2>4
<1> QED
  BY <1>2, <1>3

\* The candidate is untried and available, and there is one if there can be.
LEMMA CandidateIsOpen ==
    ASSUME TypeOK, current \in tried
    PROVE  /\ Candidate = None <=> Open = {}
           /\ Candidate # None => Candidate \in Open
<1>1. CASE Fit = {}
  BY <1>1, NeighbourIsNearest
<1>2. CASE Fit # {}
  <2>1. Candidate = preferred[Min(Fit)]
    BY <1>2 DEF Candidate
  <2>2. Min(Fit) \in Fit
    BY <1>2, FitIsOpen, MinIsLeast
  <2>3. Candidate \in Open /\ Candidate # None
    BY <2>1, <2>2, FitIsOpen, AvailableFinite DEF Fit, Open
  <2> QED
    BY <2>3
<1> QED
  BY <1>1, <1>2

-----------------------------------------------------------------------------
(* The inductive invariant.                                                *)

\* The invariant holds at the start.
LEMMA InitInv == SearchInit => SearchInv
BY DEF SearchInit, SearchInv, TypeOK, TriedIsRefuted, Retries

\* Every step keeps the invariant.
LEMMA StepInv == SearchInv /\ [SearchNext]_searchVars => SearchInv'
<1> SUFFICES ASSUME SearchInv, [SearchNext]_searchVars PROVE SearchInv'
  OBVIOUS
<1> USE DEF SearchInv, TypeOK, TriedIsRefuted, Retries, lists
<1>1. CASE Tick
  BY <1>1 DEF Tick
<1>2. CASE SwitchBack
  BY <1>2 DEF SwitchBack
<1>3. CASE RetryFails
  <2>1. attempt < Retries /\ attempt \in Nat /\ refuted' = refuted \cup {current}
    BY <1>3 DEF RetryFails
  <2>2. refuted' \in SUBSET (Locations \cup {None})
    BY <2>1
  <2>3. CASE attempt + 1 < Retries
    BY <1>3, <2>1, <2>2, <2>3 DEF RetryFails
  <2>4. CASE attempt + 1 = Retries /\ enabled
    BY <1>3, <2>1, <2>2, <2>4 DEF RetryFails
  <2>5. CASE attempt + 1 = Retries /\ ~enabled
    BY <1>3, <2>1, <2>2, <2>5 DEF RetryFails, Return
  <2> QED
    BY <1>3, <2>3, <2>4, <2>5 DEF RetryFails
<1>4. CASE Choose
  <2>1. Candidate \in available \ tried
    BY <1>4, CandidateIsOpen DEF Choose, Open
  <2> QED
    BY <1>4, <2>1 DEF Choose
<1>5. CASE GiveUp
  BY <1>5 DEF GiveUp, Return
<1>6. CASE SwitchOver
  BY <1>6 DEF SwitchOver
<1>7. CASE CandidateFails
  BY <1>7 DEF CandidateFails
<1>8. CASE Recovered
  BY <1>8 DEF Recovered, Return
<1>9. CASE Relist
  BY <1>9 DEF Relist
<1>10. CASE UNCHANGED searchVars
  BY <1>10 DEF searchVars
<1> QED
  BY <1>1, <1>2, <1>3, <1>4, <1>5, <1>6, <1>7, <1>8, <1>9, <1>10 DEF SearchNext, Recover

\* The search writes off exactly what it has tried, and tries nothing twice.
THEOREM Invariance == SearchSpec => []SearchInv
  BY InitInv, StepInv, PTL DEF SearchSpec

\* Type correctness.
THEOREM TypeCorrect == SearchSpec => []TypeOK
<1>1. SearchInv => TypeOK
  BY DEF SearchInv
<1> QED
  BY <1>1, Invariance, PTL

-----------------------------------------------------------------------------
(* The action properties.                                                  *)

\* A step that gives up finds every available location tried.
LEMMA StepGivesUp ==
    ASSUME SearchInv, [SearchNext]_searchVars, GivesUp, enabled
    PROVE  available \subseteq refuted
<1>1. GiveUp
  BY DEF SearchNext, Recover, GivesUp, Tick, SwitchBack, RetryFails, Choose, SwitchOver,
         CandidateFails, Recovered, Relist, Return, searchVars
<1>2. Open = {} /\ tried = refuted
  BY <1>1, CandidateIsOpen DEF GiveUp, SearchInv, TriedIsRefuted
<1> QED
  BY <1>2 DEF Open

\* "all_failed" after an exhausted search means that every available location
\* was tried and did not come up.
THEOREM GivesUpOnlyExhausted == SearchSpec => GivesUpExhausted
<1>1. SearchInv /\ [SearchNext]_searchVars =>
        [GivesUp /\ enabled => available \subseteq refuted]_searchVars
  BY StepGivesUp
<1> QED
  BY <1>1, Invariance, PTL DEF SearchSpec, GivesUpExhausted

\* What Between counts is the distance in the list.
LEMMA BetweenIsOffset ==
    ASSUME TypeOK, current \in available, NEW l \in available, l # current
    PROVE  Cardinality(Between(l)) = IF current < l THEN Rank(l) - Rank(current)
                                                    ELSE Rank(current) - Rank(l)
<1>1. l \in Nat /\ current \in Nat /\ available \subseteq Nat
  BY AvailableFinite
<1>2. CASE current < l
  <2>1. Between(l) = {a \in available : current < a /\ a <= l}
    <3>1. ASSUME NEW a \in available
          PROVE  a \in l .. current - 1 \cup current + 1 .. l <=> current < a /\ a <= l
      BY <1>1, <1>2
    <3> QED
      BY <3>1 DEF Between
  <2> QED
    BY <1>2, <2>1, BetweenIsDistance
<1>3. CASE l < current
  <2> DEFINE B == {a \in available : l <= a /\ a < current}
             C == {a \in available : l < a /\ a <= current}
  <2>1. Between(l) = B
    <3>1. ASSUME NEW a \in available
          PROVE  a \in l .. current - 1 \cup current + 1 .. l <=> l <= a /\ a < current
      BY <1>1, <1>3
    <3> QED
      BY <3>1 DEF Between
  <2>2. l \in B /\ current \notin B /\ C \subseteq available /\ B \subseteq available
    BY <1>1, <1>3
  <2>3. C = (B \ {l}) \cup {current}
    <3>1. ASSUME NEW a \in available
          PROVE  a \in C <=> a \in (B \ {l}) \cup {current}
      BY <1>1, <1>3
    <3> HIDE DEF B, C
    <3> QED
      BY <2>2, <3>1
  <2>4. IsFiniteSet(B) /\ Cardinality(B) \in Nat
    BY AvailableFinite
  <2>5. Cardinality(B \ {l}) = Cardinality(B) - 1 /\ IsFiniteSet(B \ {l})
    BY <2>2, <2>4, FS_RemoveElement
  <2>6. Cardinality(C) = Cardinality(B)
    <3>1. current \notin B \ {l}
      BY <2>2
    <3> DEFINE D == B \ {l}
    <3>2. IsFiniteSet(D) /\ current \notin D /\ C = D \cup {current}
      BY <2>3, <2>5, <3>1
    <3>3. Cardinality(D) = Cardinality(B) - 1
      BY <2>5
    <3> HIDE DEF B, C, D
    <3>4. Cardinality(C) = Cardinality(D) + 1
      BY <3>2, FS_AddElement
    <3> QED
      BY <2>4, <3>3, <3>4
  <2> QED
    BY <1>1, <1>3, <2>1, <2>6, BetweenIsDistance
<1> QED
  BY <1>1, <1>2, <1>3

\* Of two names the loops meet the nearer one first, and of two equally near
\* the one further on.
LEMMA TurnIsDistance ==
    ASSUME TypeOK, current \in available, current \in tried,
           NEW l \in Open, NEW m \in Open, Turn(l) <= Turn(m)
    PROVE  \/ Cardinality(Between(l)) < Cardinality(Between(m))
           \/ Cardinality(Between(l)) = Cardinality(Between(m)) /\ m <= l
<1>1. l \in available /\ m \in available /\ l # current /\ m # current
      /\ l \in Nat /\ m \in Nat /\ current \in Nat
  BY AvailableFinite DEF Open
<1>2. /\ Rank(l) \in Nat /\ Rank(m) \in Nat /\ Rank(current) \in Nat
      /\ l < m => Rank(l) < Rank(m)
      /\ m < l => Rank(m) < Rank(l)
      /\ l < current => Rank(l) < Rank(current)
      /\ current < l => Rank(current) < Rank(l)
      /\ m < current => Rank(m) < Rank(current)
      /\ current < m => Rank(current) < Rank(m)
  BY <1>1, RankIsIndex
<1>3. /\ Cardinality(Between(l)) = IF current < l THEN Rank(l) - Rank(current)
                                                  ELSE Rank(current) - Rank(l)
      /\ Cardinality(Between(m)) = IF current < m THEN Rank(m) - Rank(current)
                                                  ELSE Rank(current) - Rank(m)
  BY <1>1, BetweenIsOffset
<1> QED
  BY <1>1, <1>2, <1>3 DEF Turn

\* The step that picks a candidate.
LEMMA StepNearest ==
    ASSUME SearchInv, Choose
    PROVE  /\ next' \in Open
           /\ IF \E i \in DOMAIN preferred : preferred[i] \in Open
              THEN \E i \in DOMAIN preferred :
                       /\ preferred[i] = next'
                       /\ \A j \in 1 .. i - 1 : preferred[j] \notin Open
              ELSE \A l \in Open :
                       IF current \in available
                       THEN LET near == Cardinality(Between(next'))
                                far  == Cardinality(Between(l))
                            IN near < far \/ (near = far /\ l <= next')
                       ELSE next' <= l
<1>1. TypeOK /\ current \in tried /\ next' = Candidate /\ Candidate # None
  BY DEF SearchInv, TriedIsRefuted, Choose
<1>2. next' \in Open
  BY <1>1, CandidateIsOpen
<1>3. preferred \in Seq(Nat)
  BY <1>1, FailoverAssumption DEF TypeOK
<1>4. CASE \E i \in DOMAIN preferred : preferred[i] \in Open
  <2>1. Fit # {} /\ Fit \subseteq DOMAIN preferred
    BY <1>1, <1>4, FitIsOpen DEF Fit
  <2>2. Min(Fit) \in Fit /\ \A k \in Fit : Min(Fit) <= k
    BY <1>1, <2>1, FitIsOpen, MinIsLeast
  <2>3. next' = preferred[Min(Fit)]
    BY <1>1, <2>1 DEF Candidate
  <2>4. ASSUME NEW j \in 1 .. Min(Fit) - 1 PROVE preferred[j] \notin Open
    <3>1. Min(Fit) \in 1 .. Len(preferred) /\ DOMAIN preferred = 1 .. Len(preferred)
      BY <1>3, <2>1, <2>2
    <3>2. j \in DOMAIN preferred /\ j \notin Fit
      BY <2>2, <3>1
    <3> QED
      BY <1>1, <3>2, FitIsOpen
  <2> QED
    BY <1>2, <1>4, <2>1, <2>2, <2>3, <2>4
<1>5. CASE ~\E i \in DOMAIN preferred : preferred[i] \in Open
  <2>1. Fit = {}
    BY <1>1, <1>5, FitIsOpen DEF Fit
  <2>2. ASSUME NEW l \in Open, current \in available
        PROVE  \/ Cardinality(Between(next')) < Cardinality(Between(l))
               \/ Cardinality(Between(next')) = Cardinality(Between(l)) /\ l <= next'
    BY <1>1, <1>2, <2>1, <2>2, NeighbourIsNearest, TurnIsDistance
  <2>3. ASSUME NEW l \in Open, current \notin available PROVE next' <= l
    BY <1>1, <1>2, <2>1, <2>3, NeighbourIsNearest
  <2> QED
    BY <1>2, <1>5, <2>2, <2>3
<1> QED
  BY <1>4, <1>5

\* Candidates come in the promised order: the preferred ones as listed, then
\* the nearest in the alphabet.
THEOREM CandidatesInOrder == SearchSpec => NextIsNearest
<1> DEFINE Picks == place = "choose" /\ place' = "switch"
           Right ==
               /\ next' \in Open
               /\ IF \E i \in DOMAIN preferred : preferred[i] \in Open
                  THEN \E i \in DOMAIN preferred :
                           /\ preferred[i] = next'
                           /\ \A j \in 1 .. i - 1 : preferred[j] \notin Open
                  ELSE \A l \in Open :
                           IF current \in available
                           THEN LET near == Cardinality(Between(next'))
                                    far  == Cardinality(Between(l))
                                IN near < far \/ (near = far /\ l <= next')
                           ELSE next' <= l
<1>1. ASSUME SearchInv, [SearchNext]_searchVars, Picks PROVE Right
  <2>1. Choose
    BY <1>1 DEF SearchNext, Recover, Tick, SwitchBack, RetryFails, GiveUp, SwitchOver,
                CandidateFails, Recovered, Relist, Return, searchVars
  <2> HIDE DEF Right
  <2> QED
    BY <1>1, <2>1, StepNearest DEF Right
<1>2. SearchInv /\ [SearchNext]_searchVars => [Picks => Right]_searchVars
  BY <1>1
<1> QED
  BY <1>2, Invariance, PTL DEF SearchSpec, NextIsNearest

-----------------------------------------------------------------------------
(* Why RecoverEnds: a recovery has a bounded number of steps.              *)

\* What recover may still switch to.
Untried == (Locations \cup {None}) \ tried

\* A bound on the steps that recover has still to take: a location costs three, and a
\* further attempt at the current one two.  The lists do not count, for they change.
StepsLeft ==
    IF place = "wait" THEN 0
    ELSE 3 * Cardinality(Untried) + 2 * (Retries - attempt)
         + (IF place \in {"retry", "choose"} THEN 2
            ELSE IF place = "switch" THEN 4
            ELSE IF place = "probe" THEN 3
            ELSE 1)

\* The locations that are left are finitely many, and one that is tried leaves one less.
LEMMA UntriedFinite ==
    ASSUME NEW T
    PROVE  LET left == (Locations \cup {None}) \ T
           IN  /\ Cardinality(left) \in Nat
               /\ \A l \in left : Cardinality(left \ {l}) = Cardinality(left) - 1
               /\ \A S \in SUBSET left : Cardinality(S) <= Cardinality(left)
<1> DEFINE left == (Locations \cup {None}) \ T
<1>1. IsFiniteSet(Locations \cup {None})
  BY FailoverAssumption, FS_AddElement
<1>2. IsFiniteSet(left)
  BY <1>1, FS_Subset
<1> HIDE DEF left
<1>3. Cardinality(left) \in Nat
  BY <1>2, FS_CardinalityType
<1>4. ASSUME NEW l \in left PROVE Cardinality(left \ {l}) = Cardinality(left) - 1
  BY <1>2, <1>4, FS_RemoveElement
<1>5. ASSUME NEW S \in SUBSET left PROVE Cardinality(S) <= Cardinality(left)
  BY <1>2, <1>5, FS_Subset
<1> QED
  BY <1>3, <1>4, <1>5 DEF left

\* Each step of a recovery leaves less to do, and only the lists change beside it.
LEMMA StepShrinks ==
    ASSUME SearchInv, [SearchNext]_searchVars, place # "wait"
    PROVE  \/ StepsLeft \in Nat /\ StepsLeft' \in Nat /\ StepsLeft' < StepsLeft
           \/ UNCHANGED <<place, current, attempt, tried, next>>
<1> DEFINE n == Cardinality(Untried)
<1>1. TypeOK /\ TypeOK' /\ n \in Nat /\ n' \in Nat
  <2>1. TypeOK /\ TypeOK'
    BY StepInv DEF SearchInv
  <2>2. Cardinality(Untried) \in Nat
    BY UntriedFinite DEF Untried
  <2>3. Cardinality(Untried') \in Nat
    BY UntriedFinite DEF Untried
  <2> QED
    BY <2>1, <2>2, <2>3
<1>2. attempt \in 0..3 /\ attempt' \in 0..3
  BY <1>1 DEF TypeOK, Retries
<1>3. ASSUME UNCHANGED tried PROVE n' = n
  BY <1>3 DEF Untried
<1>4. place \in {"wait", "retry", "reprobe", "choose", "switch", "probe"}
  BY <1>1 DEF TypeOK
<1> HIDE DEF n
<1>5. StepsLeft = 3 * n + 2 * (3 - attempt) + (IF place \in {"retry", "choose"} THEN 2
                                               ELSE IF place = "switch" THEN 4
                                               ELSE IF place = "probe" THEN 3
                                               ELSE 1)
  BY DEF StepsLeft, Retries, n
<1>6. StepsLeft' = IF place' = "wait" THEN 0
                   ELSE 3 * n' + 2 * (3 - attempt') + (IF place' \in {"retry", "choose"} THEN 2
                                                       ELSE IF place' = "switch" THEN 4
                                                       ELSE IF place' = "probe" THEN 3
                                                       ELSE 1)
  BY DEF StepsLeft, Retries, n
<1>7. CASE SwitchBack
  BY <1>1, <1>2, <1>3, <1>5, <1>6, <1>7 DEF SwitchBack
<1>8. CASE RetryFails
  <2>1. n' <= n
    <3>1. tried = {}
      BY <1>8 DEF SearchInv, RetryFails
    <3>2. Untried' \in SUBSET Untried
      BY <3>1 DEF Untried
    <3> QED
      BY <3>2, UntriedFinite DEF n, Untried
  <2>0. StepsLeft >= 3 * n + 2 * (3 - attempt) + 1 /\ StepsLeft \in Nat
    BY <1>1, <1>2, <1>5
  <2>2. CASE place' = "wait"
    BY <1>1, <1>2, <1>6, <2>0, <2>2
  <2>3. CASE place' = "retry" /\ attempt' = attempt + 1
    <3>1. StepsLeft' = 3 * n' + 2 * (3 - attempt') + 2
      BY <1>6, <2>3
    <3>2. PICK m \in Nat : m = 2 * (3 - attempt) /\ m - 2 = 2 * (3 - attempt')
      BY <1>2, <2>3
    <3>3. StepsLeft' = 3 * n' + m /\ StepsLeft >= 3 * n + m + 1
      BY <1>1, <2>0, <3>1, <3>2
    <3> QED
      BY <1>1, <2>0, <2>1, <3>2, <3>3
  <2>4. CASE place' = "choose" /\ attempt + 1 = 3 /\ attempt' = 3
    <3>1. StepsLeft' = 3 * n' + 2 * (3 - attempt') + 2
      BY <1>6, <2>4
    <3>2. 2 * (3 - attempt') = 0 /\ 2 * (3 - attempt) = 2
      BY <1>2, <2>4
    <3> QED
      BY <1>1, <2>0, <2>1, <3>1, <3>2
  <2> QED
    BY <1>8, <2>2, <2>3, <2>4 DEF RetryFails, Return, Retries
<1>9. CASE Choose
  <2>1. Candidate \in Untried /\ Untried' = Untried \ {Candidate}
    <3>1. Candidate \in available \ tried /\ available \subseteq Locations
      BY <1>1, <1>9, CandidateIsOpen DEF Choose, Open, TypeOK, SearchInv, TriedIsRefuted
    <3> QED
      BY <1>9, <3>1 DEF Choose, Untried
  <2>2. n' = n - 1
    BY <2>1, UntriedFinite DEF n, Untried
  <2> QED
    BY <1>1, <1>2, <1>5, <1>6, <1>9, <2>2 DEF Choose
<1>10. CASE GiveUp
  BY <1>1, <1>2, <1>5, <1>6, <1>10 DEF GiveUp, Return
<1>11. CASE SwitchOver
  BY <1>1, <1>2, <1>3, <1>5, <1>6, <1>11 DEF SwitchOver
<1>12. CASE CandidateFails
  BY <1>1, <1>2, <1>3, <1>5, <1>6, <1>12 DEF CandidateFails
<1>13. CASE Recovered
  BY <1>1, <1>2, <1>5, <1>6, <1>13 DEF Recovered, Return
<1>14. CASE Relist \/ UNCHANGED searchVars
  BY <1>14 DEF Relist, searchVars
<1> QED
  BY <1>7, <1>8, <1>9, <1>10, <1>11, <1>12, <1>13, <1>14 DEF SearchNext, Recover, Tick

\* No recovery goes round in circles, whatever becomes of the lists between two of its
\* steps: each of its steps decreases a number that the locations bound.
THEOREM RecoveryShrinks ==
    SearchSpec => [][place # "wait" =>
                 \/ StepsLeft \in Nat /\ StepsLeft' \in Nat /\ StepsLeft' < StepsLeft
                 \/ UNCHANGED <<place, current, attempt, tried, next>>]_searchVars
<1>1. SearchInv /\ [SearchNext]_searchVars =>
        [place # "wait" => \/ StepsLeft \in Nat /\ StepsLeft' \in Nat /\ StepsLeft' < StepsLeft
                        \/ UNCHANGED <<place, current, attempt, tried, next>>]_searchVars
  BY StepShrinks
<1> QED
  BY <1>1, Invariance, PTL DEF SearchSpec

=============================================================================
