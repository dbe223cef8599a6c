-------------------------- MODULE DashboardProofs --------------------------
(***************************************************************************)
(* The invariants of Dashboard, for any locations, addresses and users,    *)
(* and any number of status requests, changes and faults.                  *)
(*                                                                         *)
(* IInv is inductive.  OneAction is about the identity of an action over   *)
(* its rounds: the overlay's flag stands for one action, and the one       *)
(* awaited status request for that action in its round.  LastIsFresh and   *)
(* CaughtUp are about the order of events: a change makes every copy stale *)
(* and announces news; the news sends a status request, which has copied   *)
(* nothing yet; only an answer that arrives out of order, a lost one or a  *)
(* missed event leaves the page with neither.                              *)
(***************************************************************************)
EXTENDS Dashboard, SequenceTheorems, TLAPS

USE DashboardAssumption

\* A sequence without its i-th element: gets, after a status request has ended.
LEMMA RemoveAtFacts ==
    ASSUME NEW S, NEW s \in Seq(S), NEW i \in 1..Len(s)
    PROVE  /\ RemoveAt(s, i) \in Seq(S)
           /\ Len(RemoveAt(s, i)) = Len(s) - 1
           /\ \A j \in 1 .. Len(s) - 1 :
                RemoveAt(s, i)[j] = IF j < i THEN s[j] ELSE s[j + 1]
<1>1. PICK a : a = SubSeq(s, 1, i - 1)
  OBVIOUS
<1>2. PICK b : b = SubSeq(s, i + 1, Len(s))
  OBVIOUS
<1>3. Len(s) \in Nat /\ i \in Nat /\ 1 <= i /\ i <= Len(s)
  OBVIOUS
<1>4. a \in Seq(S) /\ Len(a) = i - 1 /\ \A j \in 1 .. i - 1 : a[j] = s[j]
  BY <1>1
<1>5. b \in Seq(S) /\ Len(b) = Len(s) - i /\ \A j \in 1 .. Len(s) - i : b[j] = s[i + j]
  BY <1>2
<1>6. RemoveAt(s, i) = a \o b
  BY <1>1, <1>2 DEF RemoveAt
<1>7. a \o b \in Seq(S) /\ Len(a \o b) = Len(a) + Len(b)
  BY <1>4, <1>5, ConcatProperties
<1>8. ASSUME NEW j \in 1 .. Len(s) - 1
      PROVE  (a \o b)[j] = IF j < i THEN s[j] ELSE s[j + 1]
  <2>1. (a \o b)[j] = IF j <= Len(a) THEN a[j] ELSE b[j - Len(a)]
    BY <1>3, <1>4, <1>5
  <2>2. CASE j < i
    BY <1>3, <1>4, <2>1, <2>2
  <2>3. CASE ~(j < i)
    <3>1. j - Len(a) \in 1 .. Len(s) - i /\ i + (j - Len(a)) = j + 1
      BY <1>3, <1>4, <2>3
    <3>2. (a \o b)[j] = b[j - Len(a)]
      BY <1>3, <1>4, <2>1, <2>3
    <3>3. b[j - Len(a)] = s[i + (j - Len(a))]
      BY <1>5, <3>1
    <3> QED
      BY <3>1, <3>2, <3>3, <2>3
  <2> QED
    BY <2>2, <2>3
<1> QED
  BY <1>3, <1>4, <1>5, <1>6, <1>7, <1>8

\* The three structs that handleStatus copies are the fields of the State.
LEMMA StructsFields ==
    /\ DOMAIN Structs = 1..3
    /\ Fields = {"toggle", "location", "kill_switch", "public_ip"}
    /\ \A k \in 1..3 : Structs[k] \subseteq Fields
BY DEF Structs, Fields, Values

\* A State is a function on the fields, and stays a State when a field is assigned one
\* of its values.
LEMMA StateValues ==
    ASSUME NEW s \in States
    PROVE  /\ s = [f \in Fields |-> s[f]]
           /\ \A f \in Fields : s[f] \in Values[f]
           /\ \A f \in Fields : \A v \in Values[f] : [s EXCEPT ![f] = v] \in States
BY DEF States, Fields, Values

\* A status request that has copied every field has copied a State.
LEMMA WholeCopy ==
    ASSUME NEW g \in Gets, DOMAIN g.val = Fields
    PROVE  g.val \in States
<1>1. PICK F \in SUBSET Fields : g.val \in [F -> AnyValue]
  BY DEF Gets
<1>2. \A f \in Fields : g.val[f] \in Values[f]
  BY DEF Gets
<1> HIDE DEF Gets
<1> QED
  BY <1>1, <1>2 DEF Fields, Values, States

\* A status request that is sent is a status request.
LEMMA GetType == \A awaited \in BOOLEAN : Get(awaited) \in Gets
<1> SUFFICES ASSUME NEW awaited \in BOOLEAN PROVE Get(awaited) \in Gets
  OBVIOUS
<1>1. [f \in {} |-> NoState] \in [{} -> AnyValue]
  OBVIOUS
<1>2. {} \in SUBSET Fields
  OBVIOUS
<1> QED
  BY <1>1, <1>2 DEF Get, Gets

-----------------------------------------------------------------------------
(* What the parts of the actions do.                                       *)

\* A change of which the daemon's and the page's positions are set is that record.
LEMMA PostExcept ==
    ASSUME NEW c \in Posts, NEW at, NEW page
    PROVE  [c EXCEPT !.at = at, !.page = page] =
                [field |-> c.field, value |-> c.value, at |-> at, page |-> page]
<1>1. PICK d : d = [c EXCEPT !.at = at]
  OBVIOUS
<1>2. d = [field |-> c.field, value |-> c.value, at |-> at, page |-> c.page]
  BY <1>1 DEF Posts
<1>3. [d EXCEPT !.page = page] = [field |-> d.field, value |-> d.value, at |-> d.at, page |-> page]
  BY <1>2
<1> QED
  BY <1>1, <1>2, <1>3

\* What Goto does to the changes under way: to change i, and to no other.
LEMMA GotoFacts ==
    ASSUME TypeOK, NEW i \in DOMAIN posts, NEW at \in Stages,
           NEW page \in Waiting \cup {"over"}, Goto(i, at, page)
    PROVE  /\ posts' \in [DOMAIN posts' -> Posts]
           /\ DOMAIN posts' \subseteq DOMAIN posts
           /\ DOMAIN posts \ {i} \subseteq DOMAIN posts'
           /\ \A j \in DOMAIN posts' \ {i} : posts'[j] = posts[j]
           /\ i \in DOMAIN posts' =>
                /\ posts'[i].field = posts[i].field /\ posts'[i].value = posts[i].value
                /\ posts'[i].at = at /\ posts'[i].page = page
           /\ at \notin {"answered", "gone"} \/ page # "over" => i \in DOMAIN posts'
<1>1. posts[i] \in Posts
  BY DEF TypeOK
<1>2. CASE at \in {"answered", "gone"} /\ page = "over"
  BY <1>2 DEF Goto, Restrict, TypeOK
<1>3. CASE ~(at \in {"answered", "gone"} /\ page = "over")
  <2>1. posts' = [posts EXCEPT ![i] =
            [field |-> posts[i].field, value |-> posts[i].value, at |-> at, page |-> page]]
    <3>1. posts' = [posts EXCEPT ![i] = [posts[i] EXCEPT !.at = at, !.page = page]]
      BY <1>3 DEF Goto
    <3>2. [posts[i] EXCEPT !.at = at, !.page = page] =
            [field |-> posts[i].field, value |-> posts[i].value, at |-> at, page |-> page]
      BY <1>1, PostExcept
    <3> QED
      BY <3>1, <3>2
  <2>2. [field |-> posts[i].field, value |-> posts[i].value, at |-> at, page |-> page] \in Posts
    BY <1>1 DEF Posts
  <2> QED
    BY <1>3, <2>1, <2>2 DEF TypeOK
<1> QED
  BY <1>2, <1>3

\* A change that begins has a number of its own, and disturbs no other.
LEMMA BeginFacts ==
    ASSUME TypeOK, NEW c \in Posts, Begin(c)
    PROVE  /\ changes' \in 0..MaxChanges
           /\ posts' \in [DOMAIN posts' -> Posts]
           /\ DOMAIN posts' = DOMAIN posts \cup {changes'}
           /\ DOMAIN posts' \subseteq 1..changes'
           /\ changes' \notin DOMAIN posts
           /\ posts'[changes'] = c
           /\ \A j \in DOMAIN posts : posts'[j] = posts[j]
<1>1. changes' \in 0..MaxChanges /\ changes' = changes + 1
  BY DEF Begin, TypeOK
<1>2. changes' \notin DOMAIN posts
  BY <1>1 DEF TypeOK
<1> QED
  BY <1>1, <1>2 DEF Begin, TypeOK

\* Another client's assignment: it is to be published and the page knows nothing of it.
LEMMA ForeignBegins ==
    ASSUME TypeOK, Foreign
    PROVE  /\ \E c \in Posts : Begin(c) /\ c.at = "changed" /\ c.page = "over"
           /\ st' \in States
           /\ UNCHANGED <<admitted, armed, bus, state, wait, gets, faults, slip>>
<1>1. PICK f \in Others : \E v \in Values[f] : /\ Begin([Change(f, v, "over") EXCEPT !.at = "changed"])
                                             /\ st' = [st EXCEPT ![f] = v]
  BY DEF Foreign
<1>2. PICK v \in Values[f] : /\ Begin([Change(f, v, "over") EXCEPT !.at = "changed"])
                             /\ st' = [st EXCEPT ![f] = v]
  BY <1>1
<1>3. PICK c : c = [Change(f, v, "over") EXCEPT !.at = "changed"]
  OBVIOUS
<1>4. c = [field |-> f, value |-> v, at |-> "changed", page |-> "over"]
  BY <1>3 DEF Change
<1>5. c \in Posts
  BY <1>4 DEF Posts, Stages, AnyValue
<1>6. st' \in States
  BY <1>2, StateValues DEF TypeOK
<1>7. Begin(c) /\ c.at = "changed" /\ c.page = "over"
  BY <1>2, <1>3, <1>4
<1> QED
  BY <1>5, <1>6, <1>7 DEF Foreign

\* toggleKillSwitch posts its change from a page that shows something.
LEMMA ToggleBegins ==
    ASSUME TypeOK, ToggleKillSwitch
    PROVE  /\ \E c \in Posts : /\ Begin(c) /\ c.at = "coming"
                              /\ c.page = "posted" /\ c.field = "kill_switch"
           /\ state \in States /\ state' \in States
<1>1. state \in States
  BY DEF ToggleKillSwitch, TypeOK
<1>2. PICK v \in BOOLEAN : v = ~state.kill_switch
  BY <1>1 DEF States, Values
<1>3. PICK c : c = Change("kill_switch", v, "posted")
  OBVIOUS
<1>4. c \in Posts /\ c.at = "coming" /\ c.page = "posted" /\ c.field = "kill_switch"
  BY <1>2, <1>3 DEF Change, Posts, Stages, Waiting, AnyValue, Fields, Values
<1>5. Begin(c) /\ state' = [state EXCEPT !.kill_switch = v]
  BY <1>2, <1>3 DEF ToggleKillSwitch
<1>6. state' \in States
  BY <1>1, <1>5 DEF States, Values
<1> QED
  BY <1>1, <1>4, <1>5, <1>6

\* togglePower and switchLocation post theirs.
LEMMA PowerBegins ==
    ASSUME TypeOK, Power
    PROVE  /\ \E c \in Posts : /\ Begin(c) /\ c.at = "coming"
                              /\ c.page = "posted" /\ c.field # "kill_switch"
           /\ state \in States
<1>1. state \in States
  BY DEF Power, TypeOK
<1>2. ASSUME NEW f \in {"toggle", "location"}, NEW v \in Values[f], Begin(Change(f, v, "posted"))
      PROVE  \E c \in Posts : /\ Begin(c) /\ c.at = "coming"
                             /\ c.page = "posted" /\ c.field # "kill_switch"
  <2>1. PICK c : c = Change(f, v, "posted")
    OBVIOUS
  <2>2. c \in Posts /\ c.at = "coming" /\ c.page = "posted" /\ c.field # "kill_switch"
    BY <2>1 DEF Change, Posts, Stages, Waiting, AnyValue, Fields, Values
  <2> QED
    BY <1>2, <2>1, <2>2
<1>3. CASE Begin(Change("toggle", ~state.toggle, "posted"))
  <2>1. PICK v \in BOOLEAN : v = ~state.toggle
    BY <1>1 DEF States, Values
  <2>2. v \in Values["toggle"] /\ Begin(Change("toggle", v, "posted"))
    BY <1>3, <2>1 DEF Values
  <2> QED
    BY <1>1, <1>2, <2>2
<1>4. ASSUME NEW l \in Picks, Begin(Change("location", l, "posted"))
      PROVE  \E c \in Posts : /\ Begin(c) /\ c.at = "coming"
                             /\ c.page = "posted" /\ c.field # "kill_switch"
  <2>1. l \in Values["location"]
    BY DEF Values
  <2> QED
    BY <1>2, <1>4, <2>1
<1> QED
  BY <1>1, <1>3, <1>4 DEF Power

\* What fetchStatus does to the status requests in flight.
LEMMA FetchFacts ==
    ASSUME NEW rest \in Seq(Gets), NEW awaited \in BOOLEAN, NEW missed \in BOOLEAN,
           FetchAfter(rest, awaited, missed)
    PROVE  /\ gets' \in Seq(Gets)
           /\ Len(gets') = Len(rest) + 1
           /\ gets'[Len(rest) + 1] = Get(awaited)
           /\ \A j \in 1..Len(rest) : gets'[j] = rest[j]
           /\ slip' \in BOOLEAN
           /\ slip' <=> missed /\ rest # <<>>
<1>1. gets' = Append(rest, Get(awaited)) /\ Get(awaited) \in Gets
  BY GetType DEF FetchAfter
<1>2. slip' \in BOOLEAN /\ (slip' <=> missed /\ rest # <<>>)
  BY DEF FetchAfter
<1> QED
  BY <1>1, <1>2, AppendProperties

\* What handleStatus does to the answer: it adds one struct, as the State is then.
LEMMA CopyFacts ==
    ASSUME TypeOK, NEW i \in DOMAIN gets, Copy(i)
    PROVE  /\ gets' \in Seq(Gets)
           /\ DOMAIN gets' = DOMAIN gets
           /\ Len(gets') = Len(gets)
           /\ \A j \in DOMAIN gets \ {i} : gets'[j] = gets[j]
           /\ gets'[i].awaited = gets[i].awaited
           /\ \A f \in DOMAIN gets'[i].val :
                gets'[i].val[f] = IF f \in DOMAIN gets[i].val THEN gets[i].val[f] ELSE st[f]
<1>0. \A k \in 2..3 : Structs[k] \cap UNION {Structs[j] : j \in 1 .. k - 1} = {}
  BY DEF Structs
<1>1. PICK k \in DOMAIN Structs :
          /\ DOMAIN gets[i].val = UNION {Structs[j] : j \in 1 .. k - 1}
          /\ gets' = [gets EXCEPT ![i].val =
                [f \in DOMAIN @ \cup Structs[k] |-> IF f \in Structs[k] THEN st[f] ELSE @[f]]]
  BY DEF Copy
<1> DEFINE new == [f \in DOMAIN gets[i].val \cup Structs[k] |->
                      IF f \in Structs[k] THEN st[f] ELSE gets[i].val[f]]
<1>2. gets[i] \in Gets
  BY DEF TypeOK
<1>3. gets' = [gets EXCEPT ![i] = [val |-> new, awaited |-> gets[i].awaited]]
  <2>1. gets' = [gets EXCEPT ![i] = [gets[i] EXCEPT !.val = new]]
    BY <1>1
  <2>2. [gets[i] EXCEPT !.val = new] = [val |-> new, awaited |-> gets[i].awaited]
    BY <1>2 DEF Gets
  <2> QED
    BY <2>1, <2>2
<1>4. [val |-> new, awaited |-> gets[i].awaited] \in Gets
  <2>1. Structs[k] \subseteq Fields /\ \A f \in Structs[k] : st[f] \in Values[f]
    BY <1>1, StructsFields, StateValues DEF TypeOK
  <2>2. DOMAIN gets[i].val \subseteq Fields /\ \A f \in DOMAIN gets[i].val : gets[i].val[f] \in Values[f]
    BY <1>2 DEF Gets
  <2>3. \A f \in DOMAIN new : new[f] \in Values[f] /\ new[f] \in AnyValue
    BY <2>1, <2>2 DEF AnyValue
  <2>4. new \in [DOMAIN new -> AnyValue] /\ DOMAIN new \in SUBSET Fields
    BY <2>1, <2>2, <2>3
  <2> QED
    BY <1>2, <2>3, <2>4 DEF Gets
<1> HIDE DEF new
<1>5. gets' \in Seq(Gets) /\ Len(gets') = Len(gets) /\ DOMAIN gets' = DOMAIN gets
  BY <1>3, <1>4 DEF TypeOK
<1>6. \A f \in DOMAIN gets[i].val : f \notin Structs[k]
  BY <1>0, <1>1, StructsFields
<1>7. \A f \in DOMAIN new : new[f] = IF f \in DOMAIN gets[i].val THEN gets[i].val[f] ELSE st[f]
  BY <1>6 DEF new
<1> QED
  BY <1>3, <1>5, <1>7 DEF TypeOK

\* What a restart leaves of the changes under way.
LEMMA RestartFacts ==
    ASSUME TypeOK, Restart, NEW i \in DOMAIN posts'
    PROVE  /\ i \in DOMAIN posts /\ posts[i].page # "over"
           /\ posts'[i] \in Posts
           /\ posts'[i].field = posts[i].field
           /\ posts'[i].page = IF posts[i].page = "asking" THEN "sleep" ELSE posts[i].page
<1>1. i \in DOMAIN posts /\ posts[i].page # "over" /\ posts[i] \in Posts
  BY DEF Restart, TypeOK
<1>2. posts'[i] = [posts[i] EXCEPT !.at = IF posts[i].at = "answered" THEN posts[i].at ELSE "gone",
                                   !.page = IF posts[i].page = "asking" THEN "sleep"
                                            ELSE posts[i].page]
  BY DEF Restart
<1>3. PICK at \in Stages, page \in Waiting \cup {"over"} :
          /\ posts'[i] = [posts[i] EXCEPT !.at = at, !.page = page]
          /\ page = IF posts[i].page = "asking" THEN "sleep" ELSE posts[i].page
  BY <1>1, <1>2 DEF Posts, Stages, Waiting
<1>4. posts'[i] = [field |-> posts[i].field, value |-> posts[i].value, at |-> at, page |-> page]
  BY <1>1, <1>3, PostExcept
<1> QED
  BY <1>1, <1>3, <1>4 DEF Posts

\* What an action's end does beside Goto.
LEMMA EndsFacts ==
    ASSUME TypeOK, NEW i \in DOMAIN posts, NEW at \in Stages, Ends(i, at)
    PROVE  /\ Goto(i, at, "over")
           /\ switching' \in BOOLEAN /\ rounds' \in 0..Rounds /\ prevIp' \in Values.public_ip
           /\ posts[i].field = "kill_switch" => UNCHANGED wait
           /\ posts[i].field # "kill_switch" => switching' = FALSE
<1>1. NoIp \in Values.public_ip /\ 0 \in 0..Rounds
  BY DEF Values
<1>2. CASE posts[i].field = "kill_switch"
  BY <1>2 DEF Ends, TypeOK, wait
<1>3. CASE posts[i].field # "kill_switch"
  BY <1>1, <1>3 DEF Ends
<1> QED
  BY <1>2, <1>3

\* The outcomes of a status request that ends: nobody awaits it, or an action does, which
\* ends or sleeps.
LEMMA ReturnFacts ==
    ASSUME TypeOK, NEW i \in DOMAIN gets, NEW s, NEW missed \in BOOLEAN, Return(i, s, missed)
    PROVE  /\ state' = s
           /\ UNCHANGED <<daemon, bus, changes>>
           /\ RemoveAt(gets, i) \in Seq(Gets)
           /\ \/ /\ ~gets[i].awaited
                 /\ gets' = RemoveAt(gets, i)
                 /\ slip' = missed
                 /\ UNCHANGED <<posts, wait>>
              \/ /\ gets[i].awaited
                 /\ \E p \in DOMAIN posts :
                     /\ posts[p].page = "asking"
                     /\ FetchAfter(RemoveAt(gets, i), FALSE, missed)
                     /\ Ends(p, posts[p].at)
              \/ /\ gets[i].awaited
                 /\ gets' = RemoveAt(gets, i)
                 /\ slip' = missed
                 /\ UNCHANGED wait
                 /\ \E p \in DOMAIN posts :
                     /\ posts[p].page = "asking"
                     /\ Goto(p, posts[p].at, "sleep")
<1>1. RemoveAt(gets, i) \in Seq(Gets)
  BY RemoveAtFacts DEF TypeOK
<1>2. state' = s /\ UNCHANGED <<daemon, bus, changes>>
  BY DEF Return
<1>3. CASE ~gets[i].awaited
  BY <1>1, <1>2, <1>3 DEF Return
<1>4. CASE gets[i].awaited
  <2>1. PICK p \in DOMAIN posts :
            /\ posts[p].page = "asking"
            /\ IF Met(posts[p], s)
               THEN FetchAfter(RemoveAt(gets, i), FALSE, missed) /\ Ends(p, posts[p].at)
               ELSE /\ gets' = RemoveAt(gets, i)
                    /\ slip' = missed
                    /\ Goto(p, posts[p].at, "sleep")
                    /\ UNCHANGED wait
    BY <1>4 DEF Return
  <2>2. CASE Met(posts[p], s)
    BY <1>1, <1>2, <1>4, <2>1, <2>2
  <2>3. CASE ~Met(posts[p], s)
    BY <1>1, <1>2, <1>4, <2>1, <2>3
  <2> QED
    BY <2>2, <2>3
<1> QED
  BY <1>3, <1>4

-----------------------------------------------------------------------------
(* Types.                                                                  *)

\* The variables of the page are well formed after a status request has ended.
LEMMA ReturnType ==
    ASSUME TypeOK, NEW i \in DOMAIN gets, NEW s \in States \cup {NoState},
           NEW missed \in BOOLEAN, Return(i, s, missed), faults' \in 0..MaxFaults
    PROVE  TypeOK'
<1>1. /\ state' = s /\ UNCHANGED <<daemon, bus, changes>>
      /\ RemoveAt(gets, i) \in Seq(Gets)
  BY ReturnFacts
<1>2. CASE UNCHANGED <<posts, wait>> /\ gets' = RemoveAt(gets, i) /\ slip' = missed
  BY <1>1, <1>2 DEF TypeOK, daemon, bus, wait
<1>3. ASSUME NEW p \in DOMAIN posts, FetchAfter(RemoveAt(gets, i), FALSE, missed),
             Ends(p, posts[p].at)
      PROVE  TypeOK'
  <2>1. posts[p].at \in Stages
    BY DEF TypeOK, Posts
  <2>2. posts' \in [DOMAIN posts' -> Posts] /\ DOMAIN posts' \subseteq DOMAIN posts
    BY <1>3, <2>1, EndsFacts, GotoFacts
  <2>3. switching' \in BOOLEAN /\ rounds' \in 0..Rounds /\ prevIp' \in Values.public_ip
    BY <1>3, <2>1, EndsFacts
  <2>4. gets' \in Seq(Gets) /\ slip' \in BOOLEAN
    BY <1>1, <1>3, FetchFacts
  <2> QED
    BY <1>1, <2>2, <2>3, <2>4 DEF TypeOK, daemon, bus
<1>4. ASSUME NEW p \in DOMAIN posts, Goto(p, posts[p].at, "sleep"), UNCHANGED wait,
             gets' = RemoveAt(gets, i), slip' = missed
      PROVE  TypeOK'
  <2>1. posts[p].at \in Stages
    BY DEF TypeOK, Posts
  <2>2. posts' \in [DOMAIN posts' -> Posts] /\ DOMAIN posts' \subseteq DOMAIN posts
    BY <1>4, <2>1, GotoFacts DEF Waiting
  <2> QED
    BY <1>1, <1>4, <2>2 DEF TypeOK, daemon, bus, wait
<1> QED
  BY <1>2, <1>3, <1>4, ReturnFacts

\* Every step keeps the types.  That a page which acts has shown something is needed: its
\* actions read the State that it shows.
LEMMA TypeStep == TypeOK /\ AskedFromShown /\ [Next]_vars => TypeOK'
<1> SUFFICES ASSUME TypeOK, AskedFromShown, [Next]_vars PROVE TypeOK'
  OBVIOUS
<1> USE DEF daemon, bus, wait
<1>1. CASE Foreign
  BY <1>1, ForeignBegins, BeginFacts DEF TypeOK
<1>2. CASE ToggleKillSwitch
  BY <1>2, ToggleBegins, BeginFacts DEF ToggleKillSwitch, TypeOK
<1>3. CASE Power
  BY <1>3, PowerBegins, BeginFacts DEF Power, TypeOK
<1>4. ASSUME NEW i \in DOMAIN posts, Handle(i) PROVE TypeOK'
  <2>1. posts[i] \in Posts /\ posts[i].page \in Waiting \cup {"over"}
    BY DEF TypeOK, Posts
  <2>2. CASE Apply(i)
    <3>1. st' \in States
      BY <2>1, <2>2, StateValues DEF Apply, TypeOK, Posts
    <3>2. posts' \in [DOMAIN posts' -> Posts] /\ DOMAIN posts' \subseteq DOMAIN posts
      BY <2>1, <2>2, GotoFacts DEF Apply, Stages
    <3> QED
      BY <2>2, <3>1, <3>2 DEF Apply, TypeOK
  <2>3. CASE Refused(i)
    <3>1. posts' \in [DOMAIN posts' -> Posts] /\ DOMAIN posts' \subseteq DOMAIN posts
      BY <2>1, <2>3, GotoFacts DEF Refused, Stages
    <3> QED
      BY <2>3, <3>1 DEF Refused, TypeOK
  <2>4. CASE Publish(i)
    <3>1. posts' \in [DOMAIN posts' -> Posts] /\ DOMAIN posts' \subseteq DOMAIN posts
      BY <2>1, <2>4, GotoFacts DEF Publish, Stages
    <3>2. UNION {live, owed, ready}' \subseteq {Page} /\ slip' \in BOOLEAN
      BY <2>4 DEF Publish, TypeOK, Bus!Raise
    <3> QED
      BY <2>4, <3>1, <3>2 DEF Publish, TypeOK
  <2> QED
    BY <1>4, <2>2, <2>3, <2>4 DEF Handle
<1>5. ASSUME NEW i \in DOMAIN posts, GoOn(i) PROVE TypeOK'
  <2>0. posts[i] \in Posts /\ posts[i].at \in Stages /\ gets \in Seq(Gets) /\ slip \in BOOLEAN
    BY DEF TypeOK, Posts
  <2> DEFINE Typed(at, page) ==
        Goto(i, at, page) =>
            posts' \in [DOMAIN posts' -> Posts] /\ DOMAIN posts' \subseteq DOMAIN posts
  <2>1. \A at \in Stages : \A page \in Waiting \cup {"over"} : Typed(at, page)
    BY GotoFacts
  <2>2. ASSUME NEW awaited \in BOOLEAN, Fetch(awaited)
        PROVE  gets' \in Seq(Gets) /\ slip' \in BOOLEAN
    BY <2>0, <2>2, FetchFacts DEF Fetch
  <2>3. ASSUME NEW at \in Stages, Ends(i, at), Fetch(FALSE), faults' \in 0..MaxFaults,
               UNCHANGED <<daemon, bus, state, changes>>
        PROVE  TypeOK'
    <3>1. posts' \in [DOMAIN posts' -> Posts] /\ DOMAIN posts' \subseteq DOMAIN posts
      BY <2>1, <2>3, EndsFacts
    <3>2. switching' \in BOOLEAN /\ rounds' \in 0..Rounds /\ prevIp' \in Values.public_ip
      BY <2>3, EndsFacts
    <3> QED
      BY <2>2, <2>3, <3>1, <3>2 DEF TypeOK
  <2>4. ASSUME NEW at \in Stages, Goto(i, at, "asking"), Fetch(TRUE), rounds' \in 0..Rounds,
               prevIp' \in Values.public_ip,
               UNCHANGED <<daemon, bus, state, changes, switching, faults>>
        PROVE  TypeOK'
    <3>1. posts' \in [DOMAIN posts' -> Posts] /\ DOMAIN posts' \subseteq DOMAIN posts
      BY <2>1, <2>4 DEF Waiting
    <3> QED
      BY <2>2, <2>4, <3>1 DEF TypeOK
  <2>5. CASE PostReturns(i)
    <3>1. CASE posts[i].field = "kill_switch"
      BY <2>3, <2>5, <3>1 DEF PostReturns, Stages, TypeOK
    <3>2. CASE posts[i].field # "kill_switch"
      <4>1. state \in States
        BY <2>5 DEF PostReturns, AskedFromShown, TypeOK
      <4>2. prevIp' \in Values.public_ip /\ rounds' \in 0..Rounds
        BY <2>5, <3>2, <4>1, StateValues DEF PostReturns, States, Values
      <4> QED
        BY <2>4, <2>5, <3>2, <4>2 DEF PostReturns, Stages
    <3> QED
      BY <3>1, <3>2
  <2>6. CASE PostThrows(i)
    <3>1. faults' \in 0..MaxFaults
      BY <2>6 DEF PostThrows, Fault, TypeOK
    <3>2. PICK at \in Stages : Ends(i, at)
      BY <2>0, <2>6 DEF PostThrows, Stages
    <3> QED
      BY <2>3, <2>6, <3>1, <3>2 DEF PostThrows
  <2>7. CASE NextRound(i)
    <3>1. CASE rounds > 0
      <4>1. rounds' \in 0..Rounds /\ prevIp' \in Values.public_ip
        BY <2>7, <3>1 DEF NextRound, TypeOK
      <4> QED
        BY <2>0, <2>4, <2>7, <3>1, <4>1 DEF NextRound
    <3>2. CASE ~(rounds > 0)
      BY <2>0, <2>3, <2>7, <3>2 DEF NextRound, TypeOK
    <3> QED
      BY <3>1, <3>2
  <2> QED
    BY <1>5, <2>5, <2>6, <2>7 DEF GoOn
<1>6. ASSUME NEW i \in DOMAIN gets, Serve(i) PROVE TypeOK'
  <2>1. CASE Copy(i)
    BY <2>1, CopyFacts DEF Copy, TypeOK
  <2>2. CASE Arrive(i)
    <3>1. gets[i].val \in States
      BY <2>2, WholeCopy DEF Arrive, TypeOK
    <3>2. (slip \/ i # 1) \in BOOLEAN /\ faults' \in 0..MaxFaults
      BY <2>2 DEF Arrive, TypeOK
    <3> QED
      BY <2>2, <3>1, <3>2, ReturnType DEF Arrive
  <2>3. CASE Fail(i)
    <3>1. faults' \in 0..MaxFaults /\ state \in States \cup {NoState}
      BY <2>3 DEF Fail, Fault, TypeOK
    <3> QED
      BY <2>3, <3>1, ReturnType DEF Fail
  <2> QED
    BY <1>6, <2>1, <2>2, <2>3 DEF Serve
<1>7. CASE Restart
  <2>1. st' \in States
    BY <1>7 DEF Restart, TypeOK, States, Values
  <2>2. posts' \in [DOMAIN posts' -> Posts] /\ DOMAIN posts' \subseteq DOMAIN posts
    <3>1. \A i \in DOMAIN posts' : i \in DOMAIN posts /\ posts'[i] \in Posts
      BY <1>7, RestartFacts
    <3>2. posts' = [i \in DOMAIN posts' |-> posts'[i]]
      BY <1>7 DEF Restart
    <3> QED
      BY <3>1, <3>2
  <2>3. faults' \in 0..MaxFaults /\ gets' \in Seq(Gets) /\ slip' \in BOOLEAN
    <3>1. faults' \in 0..MaxFaults
      <4>1. Fault
        BY <1>7 DEF Restart
      <4> QED
        BY <4>1 DEF Fault, TypeOK
    <3>2. gets' = <<>> /\ slip' = TRUE
      BY <1>7 DEF Restart
    <3> QED
      BY <3>1, <3>2
  <2>4. UNION {live', owed', ready'} \subseteq {Page}
    <3>1. CASE Bus!Leave(Page)
      BY <3>1 DEF Bus!Leave, TypeOK
    <3>2. CASE UNCHANGED bus
      BY <3>2 DEF TypeOK
    <3> QED
      BY <1>7, <3>1, <3>2 DEF Restart
  <2> QED
    BY <1>7, <2>1, <2>2, <2>3, <2>4 DEF Restart, TypeOK
<1>8. CASE Connect
  BY <1>8 DEF Connect, Bus!Join, TypeOK
<1>9. CASE Disconnect
  BY <1>9 DEF Disconnect, Fault, Bus!Leave, TypeOK
<1>10. CASE Listen
  <2>1. gets' \in Seq(Gets) /\ slip' \in BOOLEAN
    BY <1>10, FetchFacts DEF Listen, Fetch, TypeOK
  <2> QED
    BY <1>10, <2>1 DEF Listen, Bus!Look, TypeOK
<1>11. CASE Tick
  <2>1. gets' \in Seq(Gets) /\ slip' \in BOOLEAN
    BY <1>11, FetchFacts DEF Tick, Fetch, TypeOK
  <2> QED
    BY <1>11, <2>1 DEF Tick, TypeOK
<1>12. CASE UNCHANGED vars
  BY <1>12 DEF vars, TypeOK
<1> QED
  BY <1>1, <1>2, <1>3, <1>4, <1>5, <1>6, <1>7, <1>8, <1>9, <1>10, <1>11, <1>12 DEF Next

-----------------------------------------------------------------------------
(* One action, one status request that it awaits.                          *)

\* The page's actions after one of them, or the daemon, has gone on.
LEMMA ActionsOfGoto ==
    ASSUME TypeOK, NEW i \in DOMAIN posts, NEW at \in Stages,
           NEW page \in Waiting \cup {"over"}, Goto(i, at, page)
    PROVE  /\ page \in Waiting /\ posts[i].page \in Waiting => Actions' = Actions
           /\ page = posts[i].page =>
                Actions' = Actions /\ \A j \in Actions : posts'[j].page = posts[j].page
           /\ page = "over" => Actions' = Actions \ {i}
           /\ \A j \in Actions' \ {i} : posts'[j].page = posts[j].page
           /\ i \in Actions' => posts'[i].page = page
<1>1. /\ DOMAIN posts' \subseteq DOMAIN posts
      /\ DOMAIN posts \ {i} \subseteq DOMAIN posts'
      /\ \A j \in DOMAIN posts' \ {i} : posts'[j] = posts[j]
  BY GotoFacts
<1>2. i \in DOMAIN posts' => posts'[i].field = posts[i].field /\ posts'[i].page = page
  BY GotoFacts
<1>3. page # "over" => i \in DOMAIN posts'
  BY GotoFacts
<1> QED
  BY <1>1, <1>2, <1>3 DEF Actions, Waiting

\* The page's actions after a change has begun.
LEMMA ActionsOfBegin ==
    ASSUME TypeOK, NEW c \in Posts, Begin(c)
    PROVE  /\ Actions' = IF c.page \in Waiting /\ c.field # "kill_switch"
                         THEN Actions \cup {changes'} ELSE Actions
           /\ \A j \in Actions : posts'[j].page = posts[j].page
           /\ changes' \notin Actions /\ posts'[changes'].page = c.page
BY BeginFacts DEF Actions

\* What is awaited after a status request has been sent.
LEMMA AwaitedOfFetch ==
    ASSUME TypeOK, NEW awaited \in BOOLEAN, Fetch(awaited)
    PROVE  Awaited' = IF awaited THEN Awaited \cup {Len(gets) + 1} ELSE Awaited
<1>1. gets \in Seq(Gets) /\ slip \in BOOLEAN
  BY DEF TypeOK
<1>2. /\ gets' \in Seq(Gets)
      /\ Len(gets') = Len(gets) + 1
      /\ gets'[Len(gets) + 1] = Get(awaited)
      /\ \A j \in 1..Len(gets) : gets'[j] = gets[j]
  BY <1>1, FetchFacts DEF Fetch
<1>3. Get(awaited).awaited = awaited
  BY DEF Get
<1> QED
  BY <1>1, <1>2, <1>3 DEF Awaited

\* What is awaited after the i-th status request has ended: nothing, if that was awaited.
LEMMA AwaitedAfter ==
    ASSUME TypeOK, OneAction, NEW i \in DOMAIN gets, NEW missed \in BOOLEAN,
           gets' = RemoveAt(gets, i) \/ FetchAfter(RemoveAt(gets, i), FALSE, missed)
    PROVE  /\ gets[i].awaited => Awaited' = {}
           /\ ~gets[i].awaited => /\ \A j, k \in Awaited' : j = k
                                  /\ Awaited' # {} <=> Awaited # {}
<1> DEFINE rest == RemoveAt(gets, i)
<1>1. gets \in Seq(Gets) /\ i \in 1..Len(gets)
  BY DEF TypeOK
<1>2. /\ rest \in Seq(Gets)
      /\ Len(rest) = Len(gets) - 1
      /\ \A j \in 1 .. Len(gets) - 1 : rest[j] = IF j < i THEN gets[j] ELSE gets[j + 1]
  BY <1>1, RemoveAtFacts
<1> HIDE DEF rest
<1>3. Awaited' = {j \in 1..Len(rest) : rest[j].awaited}
  <2>1. CASE gets' = rest
    BY <1>2, <2>1 DEF Awaited
  <2>2. CASE FetchAfter(rest, FALSE, missed)
    <3>1. /\ gets' \in Seq(Gets)
          /\ Len(gets') = Len(rest) + 1
          /\ gets'[Len(rest) + 1] = Get(FALSE)
          /\ \A j \in 1..Len(rest) : gets'[j] = rest[j]
      BY <1>2, <2>2, FetchFacts
    <3>2. ~Get(FALSE).awaited
      BY DEF Get
    <3>3. DOMAIN gets' = 1 .. Len(rest) + 1 /\ Len(rest) \in Nat
      BY <1>2, <3>1
    <3>4. ASSUME NEW j \in 1 .. Len(rest) + 1
          PROVE  gets'[j].awaited <=> j \in 1..Len(rest) /\ rest[j].awaited
      <4>1. CASE j \in 1..Len(rest)
        BY <3>1, <4>1
      <4>2. CASE j \notin 1..Len(rest)
        <5>1. j = Len(rest) + 1
          BY <3>3, <4>2
        <5> QED
          BY <3>1, <3>2, <4>2, <5>1
      <4> QED
        BY <4>1, <4>2
    <3> QED
      BY <3>3, <3>4 DEF Awaited
  <2> QED
    BY <2>1, <2>2 DEF rest
<1>4. ASSUME NEW j \in Awaited'
      PROVE  (IF j < i THEN j ELSE j + 1) \in Awaited \ {i}
  <2>1. j \in 1 .. Len(gets) - 1 /\ rest[j].awaited
    BY <1>2, <1>3
  <2>2. CASE j < i
    BY <1>1, <1>2, <2>1, <2>2 DEF Awaited
  <2>3. CASE ~(j < i)
    BY <1>1, <1>2, <2>1, <2>3 DEF Awaited
  <2> QED
    BY <2>2, <2>3
<1>5. ASSUME NEW j \in Awaited \ {i}
      PROVE  Awaited' # {}
  <2>1. j \in 1..Len(gets) /\ gets[j].awaited
    BY <1>1 DEF Awaited
  <2>2. CASE j < i
    <3>1. j \in 1 .. Len(gets) - 1 /\ rest[j] = gets[j]
      BY <1>1, <1>2, <2>1, <2>2
    <3> QED
      BY <1>2, <1>3, <2>1, <3>1
  <2>3. CASE ~(j < i)
    <3>1. j - 1 \in 1 .. Len(gets) - 1 /\ rest[j - 1] = gets[j]
      BY <1>1, <1>2, <2>1, <2>3
    <3> QED
      BY <1>2, <1>3, <2>1, <3>1
  <2> QED
    BY <2>2, <2>3
<1>6. \A j, k \in Awaited : j = k
  BY DEF OneAction
<1>7. CASE gets[i].awaited
  <2>1. i \in Awaited
    BY <1>7 DEF Awaited
  <2> QED
    BY <1>4, <1>6, <1>7, <2>1
<1>8. CASE ~gets[i].awaited
  <2>1. i \notin Awaited
    BY <1>8 DEF Awaited
  <2>2. \A j \in Awaited' : j \in Nat
    BY <1>1, <1>2, <1>3
  <2>3. ASSUME NEW j \in Awaited', NEW k \in Awaited' PROVE j = k
    <3>1. (IF j < i THEN j ELSE j + 1) = (IF k < i THEN k ELSE k + 1)
      BY <1>4, <1>6
    <3> QED
      BY <1>1, <2>2, <3>1
  <2> QED
    BY <1>4, <1>5, <1>8, <2>1, <2>3
<1> QED
  BY <1>7, <1>8

\* Every step keeps it: the overlay is up for exactly one action, in which one status
\* request is awaited while it asks.
LEMMA OneActionStep == TypeOK /\ AskedFromShown /\ OneAction /\ [Next]_vars => OneAction'
<1> SUFFICES ASSUME TypeOK, AskedFromShown, OneAction, [Next]_vars PROVE OneAction'
  OBVIOUS
<1> USE DEF bus, wait
<1>1. ASSUME Actions' = Actions, \A j \in Actions : posts'[j].page = posts[j].page,
             UNCHANGED switching, Awaited' = Awaited
      PROVE  OneAction'
  BY <1>1 DEF OneAction
<1>2. ASSUME UNCHANGED posts PROVE Actions' = Actions /\ \A j \in Actions : posts'[j].page = posts[j].page
  BY <1>2 DEF Actions
<1>3. ASSUME UNCHANGED gets PROVE Awaited' = Awaited
  BY <1>3 DEF Awaited
<1>4. ASSUME NEW i \in DOMAIN posts
      PROVE  /\ posts[i] \in Posts /\ posts[i].at \in Stages
             /\ posts[i].page \in Waiting \cup {"over"}
             /\ posts[i].page \in {"asking", "sleep"} => posts[i].field # "kill_switch"
  BY DEF TypeOK, Posts, AskedFromShown, Waiting
\* The action i asks for a status request and awaits it.
<1>5. ASSUME NEW i \in DOMAIN posts, posts[i].page \in {"posted", "sleep"},
             posts[i].field # "kill_switch", NEW at \in Stages, Goto(i, at, "asking"), Fetch(TRUE),
             UNCHANGED switching
      PROVE  OneAction'
  <2>1. i \in Actions /\ Actions = {i} /\ Awaited = {}
    BY <1>5 DEF Actions, Waiting, OneAction
  <2>2. Actions' = {i} /\ posts'[i].page = "asking"
    BY <1>5, <2>1, ActionsOfGoto DEF Waiting
  <2>3. Awaited' = {Len(gets) + 1}
    BY <1>5, <2>1, AwaitedOfFetch
  <2> QED
    BY <1>5, <2>1, <2>2, <2>3 DEF OneAction
\* The action i ends, and nothing is awaited any more.
<1>6. ASSUME NEW i \in DOMAIN posts, posts[i].field # "kill_switch", posts[i].page \in Waiting,
             NEW at \in Stages, Ends(i, at), Awaited' = {}
      PROVE  OneAction'
  <2>1. i \in Actions /\ Actions = {i}
    BY <1>6 DEF Actions, OneAction
  <2>2. Actions' = {} /\ switching' = FALSE
    BY <1>6, <2>1, EndsFacts, ActionsOfGoto
  <2> QED
    BY <1>6, <2>2 DEF OneAction
\* The action of the kill switch ends.
<1>7. ASSUME NEW i \in DOMAIN posts, posts[i].field = "kill_switch",
             NEW at \in Stages, Ends(i, at), Fetch(FALSE)
      PROVE  OneAction'
  <2>1. Goto(i, at, "over") /\ UNCHANGED switching
    BY <1>7, EndsFacts
  <2>2. Actions' = Actions \ {i} /\ \A j \in Actions' \ {i} : posts'[j].page = posts[j].page
    BY <2>1, ActionsOfGoto
  <2>3. i \notin Actions
    BY <1>7 DEF Actions
  <2>4. Awaited' = Awaited
    BY <1>7, AwaitedOfFetch
  <2> QED
    BY <1>1, <2>1, <2>2, <2>3, <2>4
\* A change goes on in the daemon only.
<1>8. ASSUME NEW i \in DOMAIN posts, NEW at \in Stages, Goto(i, at, posts[i].page),
             UNCHANGED <<switching, gets>>
      PROVE  OneAction'
  <2>1. Actions' = Actions /\ \A j \in Actions : posts'[j].page = posts[j].page
    BY <1>4, <1>8, ActionsOfGoto
  <2> QED
    BY <1>1, <1>3, <1>8, <2>1
\* A status request ends.
<1>9. ASSUME NEW i \in DOMAIN gets, NEW s, NEW missed \in BOOLEAN, Return(i, s, missed)
      PROVE  OneAction'
  <2>1. CASE /\ ~gets[i].awaited /\ gets' = RemoveAt(gets, i)
             /\ UNCHANGED <<posts, wait>>
    <3>1. (\A j, k \in Awaited' : j = k) /\ (Awaited' # {} <=> Awaited # {})
      BY <2>1, AwaitedAfter
    <3> QED
      BY <1>2, <2>1, <3>1 DEF OneAction
  <2>2. ASSUME gets[i].awaited, NEW p \in DOMAIN posts, posts[p].page = "asking",
               FetchAfter(RemoveAt(gets, i), FALSE, missed), Ends(p, posts[p].at)
        PROVE  OneAction'
    <3>1. Awaited' = {}
      BY <2>2, AwaitedAfter
    <3> QED
      BY <1>4, <1>6, <2>2, <3>1 DEF Waiting
  <2>3. ASSUME gets[i].awaited, gets' = RemoveAt(gets, i), UNCHANGED wait,
               NEW p \in DOMAIN posts, posts[p].page = "asking", Goto(p, posts[p].at, "sleep")
        PROVE  OneAction'
    <3>1. Awaited' = {}
      BY <2>3, AwaitedAfter
    <3>2. p \in Actions /\ Actions = {p}
      BY <1>4, <2>3 DEF Actions, Waiting, OneAction
    <3>3. Actions' = {p} /\ posts'[p].page = "sleep"
      BY <1>4, <2>3, <3>2, ActionsOfGoto DEF Waiting
    <3> QED
      BY <2>3, <3>1, <3>2, <3>3 DEF OneAction
  <2> QED
    BY <1>9, <2>1, <2>2, <2>3, ReturnFacts
<1>10. CASE Foreign
  <2>1. PICK c \in Posts : Begin(c) /\ c.page = "over"
    BY <1>10, ForeignBegins
  <2>2. Actions' = Actions /\ \A j \in Actions : posts'[j].page = posts[j].page
    BY <2>1, ActionsOfBegin DEF Waiting
  <2> QED
    BY <1>1, <1>3, <1>10, <2>2 DEF Foreign
<1>11. CASE ToggleKillSwitch
  <2>1. PICK c \in Posts : Begin(c) /\ c.field = "kill_switch"
    BY <1>11, ToggleBegins
  <2>2. Actions' = Actions /\ \A j \in Actions : posts'[j].page = posts[j].page
    BY <2>1, ActionsOfBegin
  <2> QED
    BY <1>1, <1>3, <1>11, <2>2 DEF ToggleKillSwitch
<1>12. CASE Power
  <2>1. PICK c \in Posts : Begin(c) /\ c.page = "posted" /\ c.field # "kill_switch"
    BY <1>12, PowerBegins
  <2>2. Actions = {} /\ Awaited = {} /\ switching' = TRUE
    BY <1>12 DEF Power, OneAction
  <2>3. Actions' = {changes'} /\ posts'[changes'].page = "posted"
    BY <2>1, <2>2, ActionsOfBegin DEF Waiting
  <2>4. Awaited' = {}
    BY <1>3, <1>12, <2>2 DEF Power
  <2> QED
    BY <2>2, <2>3, <2>4 DEF OneAction
<1>13. ASSUME NEW i \in DOMAIN posts, Handle(i) PROVE OneAction'
  <2>1. CASE Apply(i)
    BY <1>8, <2>1 DEF Apply, Stages
  <2>2. CASE Refused(i)
    BY <1>8, <2>2 DEF Refused, Stages
  <2>3. CASE Publish(i)
    BY <1>8, <2>3 DEF Publish, Stages
  <2> QED
    BY <1>13, <2>1, <2>2, <2>3 DEF Handle
<1>14. ASSUME NEW i \in DOMAIN posts, GoOn(i) PROVE OneAction'
  <2>1. ASSUME posts[i].page = "posted" \/ posts[i].page = "sleep",
               posts[i].field # "kill_switch", Fetch(FALSE), NEW at \in Stages, Ends(i, at)
        PROVE  OneAction'
    <3>1. Awaited = {}
      BY <2>1 DEF OneAction, Actions, Waiting
    <3>2. Awaited' = {}
      BY <2>1, <3>1, AwaitedOfFetch
    <3> QED
      BY <1>6, <2>1, <3>2 DEF Waiting
  <2>2. CASE PostReturns(i)
    <3>1. CASE posts[i].field = "kill_switch"
      BY <1>7, <2>2, <3>1 DEF PostReturns, Stages
    <3>2. CASE posts[i].field # "kill_switch"
      BY <1>5, <2>2, <3>2 DEF PostReturns, Stages
    <3> QED
      BY <3>1, <3>2
  <2>3. CASE PostThrows(i)
    <3>1. PICK at \in Stages : Ends(i, at)
      BY <1>4, <2>3 DEF PostThrows, Stages
    <3>2. posts[i].page = "posted" /\ Fetch(FALSE)
      BY <2>3 DEF PostThrows
    <3> QED
      BY <1>7, <2>1, <3>1, <3>2
  <2>4. CASE NextRound(i)
    <3>1. posts[i].page = "sleep" /\ posts[i].field # "kill_switch" /\ posts[i].at \in Stages
      BY <1>4, <2>4 DEF NextRound
    <3>2. CASE rounds > 0
      BY <1>5, <2>4, <3>1, <3>2 DEF NextRound
    <3>3. CASE ~(rounds > 0)
      BY <2>1, <2>4, <3>1, <3>3 DEF NextRound
    <3> QED
      BY <3>2, <3>3
  <2> QED
    BY <1>14, <2>2, <2>3, <2>4 DEF GoOn
<1>15. ASSUME NEW i \in DOMAIN gets, Serve(i) PROVE OneAction'
  <2>1. CASE Copy(i)
    <3>1. Awaited' = Awaited
      BY <2>1, CopyFacts DEF Awaited
    <3> QED
      BY <1>1, <1>2, <2>1, <3>1 DEF Copy
  <2>2. CASE Arrive(i)
    <3>1. (slip \/ i # 1) \in BOOLEAN
      OBVIOUS
    <3> QED
      BY <1>9, <2>2, <3>1 DEF Arrive
  <2>3. CASE Fail(i)
    BY <1>9, <2>3 DEF Fail
  <2> QED
    BY <1>15, <2>1, <2>2, <2>3 DEF Serve
<1>16. CASE Restart
  <2>1. Awaited' = {} /\ UNCHANGED switching
    <3>1. gets' = <<>> /\ UNCHANGED switching
      BY <1>16 DEF Restart
    <3> QED
      BY <3>1 DEF Awaited
  <2>3. \A i \in DOMAIN posts : posts[i].page # "over" => i \in DOMAIN posts'
    BY <1>16 DEF Restart
  <2>4. Actions' = Actions
    BY <1>4, <1>16, <2>3, RestartFacts DEF Actions, Waiting
  <2>5. \A i \in Actions' : posts'[i].page # "asking"
    BY <1>16, RestartFacts DEF Actions
  <2> QED
    BY <2>1, <2>4, <2>5 DEF OneAction
<1>17. CASE Connect
  BY <1>1, <1>2, <1>3, <1>17 DEF Connect
<1>18. CASE Disconnect
  BY <1>1, <1>2, <1>3, <1>18 DEF Disconnect
<1>19. CASE Listen
  BY <1>1, <1>2, <1>19, AwaitedOfFetch DEF Listen
<1>20. CASE Tick
  BY <1>1, <1>2, <1>20, AwaitedOfFetch DEF Tick
<1>21. CASE UNCHANGED vars
  BY <1>1, <1>2, <1>3, <1>21 DEF vars
<1> QED
  BY <1>10, <1>11, <1>12, <1>13, <1>14, <1>15, <1>16, <1>17, <1>18, <1>19, <1>20, <1>21 DEF Next

-----------------------------------------------------------------------------
(* What is asked is asked from a page that shows something, and only a     *)
(* page that is admitted does.                                             *)

\* Every step keeps it: an action began on a page that showed something, and the page
\* never shows nothing again.
LEMMA AskedStep == TypeOK /\ AskedFromShown /\ [Next]_vars => AskedFromShown'
<1> SUFFICES ASSUME TypeOK, AskedFromShown, [Next]_vars PROVE AskedFromShown'
  OBVIOUS
<1> USE DEF bus, wait
<1>1. ASSUME NEW i \in DOMAIN posts
      PROVE  posts[i].at \in Stages /\ posts[i].page \in Waiting \cup {"over"}
  BY DEF TypeOK, Posts
\* What the page has it keeps, and of changes under way only one goes on.
<1>2. ASSUME state # NoState => state' # NoState, UNCHANGED posts PROVE AskedFromShown'
  BY <1>2 DEF AskedFromShown
<1>3. ASSUME NEW i \in DOMAIN posts, NEW at \in Stages, NEW page \in Waiting \cup {"over"},
             Goto(i, at, page), state # NoState => state' # NoState,
             page \in {"over", posts[i].page} \/ posts[i].field # "kill_switch",
             posts[i].page = "over" => page = "over"
      PROVE  AskedFromShown'
  <2>1. /\ DOMAIN posts' \subseteq DOMAIN posts
        /\ \A j \in DOMAIN posts' \ {i} : posts'[j] = posts[j]
        /\ i \in DOMAIN posts' => posts'[i].field = posts[i].field /\ posts'[i].page = page
    BY <1>3, GotoFacts
  <2> QED
    BY <1>3, <2>1 DEF AskedFromShown
<1>4. ASSUME NEW c \in Posts, Begin(c), state # NoState => state' # NoState,
             c.page = "over" \/ (c.page = "posted" /\ state # NoState)
      PROVE  AskedFromShown'
  <2>1. /\ DOMAIN posts' = DOMAIN posts \cup {changes'}
        /\ posts'[changes'] = c
        /\ \A j \in DOMAIN posts : posts'[j] = posts[j]
    BY <1>4, BeginFacts
  <2> QED
    BY <1>4, <2>1 DEF AskedFromShown
<1>5. ASSUME NEW i \in DOMAIN posts, NEW at \in Stages, Ends(i, at), UNCHANGED state
      PROVE  AskedFromShown'
  BY <1>3, <1>5, EndsFacts
<1>6. ASSUME NEW i \in DOMAIN gets, NEW s, NEW missed \in BOOLEAN, Return(i, s, missed),
             state # NoState => s # NoState
      PROVE  AskedFromShown'
  <2>1. state' = s
    BY <1>6, ReturnFacts
  <2>2. ASSUME NEW p \in DOMAIN posts, posts[p].page = "asking"
        PROVE  posts[p].field # "kill_switch" /\ posts[p].at \in Stages
    BY <1>1, <2>2 DEF AskedFromShown
  <2>3. CASE UNCHANGED <<posts, wait>>
    BY <1>2, <1>6, <2>1, <2>3
  <2>4. ASSUME NEW p \in DOMAIN posts, posts[p].page = "asking", Ends(p, posts[p].at)
        PROVE  AskedFromShown'
    BY <1>3, <1>6, <2>1, <2>2, <2>4, EndsFacts
  <2>5. ASSUME NEW p \in DOMAIN posts, posts[p].page = "asking", Goto(p, posts[p].at, "sleep")
        PROVE  AskedFromShown'
    BY <1>3, <1>6, <2>1, <2>2, <2>5 DEF Waiting
  <2> QED
    BY <1>6, <2>3, <2>4, <2>5, ReturnFacts
<1>10. CASE Foreign
  BY <1>4, <1>10, ForeignBegins
<1>11. CASE ToggleKillSwitch
  BY <1>4, <1>11, ToggleBegins
<1>12. CASE Power
  BY <1>4, <1>12, PowerBegins DEF Power
<1>13. ASSUME NEW i \in DOMAIN posts, Handle(i) PROVE AskedFromShown'
  <2>1. CASE Apply(i)
    BY <1>1, <1>3, <2>1 DEF Apply, Stages
  <2>2. CASE Refused(i)
    BY <1>1, <1>3, <2>2 DEF Refused, Stages
  <2>3. CASE Publish(i)
    BY <1>1, <1>3, <2>3 DEF Publish, Stages
  <2> QED
    BY <1>13, <2>1, <2>2, <2>3 DEF Handle
<1>14. ASSUME NEW i \in DOMAIN posts, GoOn(i) PROVE AskedFromShown'
  <2>1. CASE PostReturns(i)
    <3>1. CASE posts[i].field = "kill_switch"
      BY <1>5, <2>1, <3>1 DEF PostReturns, Stages
    <3>2. CASE posts[i].field # "kill_switch"
      BY <1>3, <2>1, <3>2 DEF PostReturns, Stages, Waiting
    <3> QED
      BY <3>1, <3>2
  <2>2. CASE PostThrows(i)
    <3>1. PICK at \in Stages : Ends(i, at)
      BY <1>1, <2>2 DEF PostThrows, Stages
    <3> QED
      BY <1>5, <2>2, <3>1 DEF PostThrows
  <2>3. CASE NextRound(i)
    <3>1. posts[i].field # "kill_switch" /\ posts[i].at \in Stages
      BY <1>1, <2>3 DEF NextRound, AskedFromShown
    <3>2. CASE rounds > 0
      BY <1>3, <2>3, <3>1, <3>2 DEF NextRound, Waiting
    <3>3. CASE ~(rounds > 0)
      BY <1>5, <2>3, <3>1, <3>3 DEF NextRound
    <3> QED
      BY <3>2, <3>3
  <2> QED
    BY <1>14, <2>1, <2>2, <2>3 DEF GoOn
<1>15. ASSUME NEW i \in DOMAIN gets, Serve(i) PROVE AskedFromShown'
  <2>1. CASE Copy(i)
    BY <1>2, <2>1 DEF Copy
  <2>2. CASE Arrive(i)
    <3>1. gets[i].val # NoState /\ (slip \/ i # 1) \in BOOLEAN
      BY <2>2, WholeCopy DEF Arrive, TypeOK
    <3> QED
      BY <1>6, <2>2, <3>1 DEF Arrive
  <2>3. CASE Fail(i)
    BY <1>6, <2>3 DEF Fail
  <2> QED
    BY <1>15, <2>1, <2>2, <2>3 DEF Serve
<1>16. CASE Restart
  <2>1. ASSUME NEW i \in DOMAIN posts'
        PROVE  /\ i \in DOMAIN posts /\ posts[i].page # "over"
               /\ posts'[i].field = posts[i].field
               /\ posts'[i].page = IF posts[i].page = "asking" THEN "sleep" ELSE posts[i].page
    BY <1>16, <2>1, RestartFacts
  <2> QED
    BY <1>16, <2>1 DEF Restart, AskedFromShown
<1>17. CASE Connect
  BY <1>2, <1>17 DEF Connect
<1>18. CASE Disconnect
  BY <1>2, <1>18 DEF Disconnect
<1>19. CASE Listen
  BY <1>2, <1>19 DEF Listen
<1>20. CASE Tick
  BY <1>2, <1>20 DEF Tick
<1>21. CASE UNCHANGED vars
  BY <1>2, <1>21 DEF vars
<1> QED
  BY <1>10, <1>11, <1>12, <1>13, <1>14, <1>15, <1>16, <1>17, <1>18, <1>19, <1>20, <1>21 DEF Next

\* Every step keeps it: a page that is not admitted shows nothing, and none of its status
\* requests is served.
LEMMA ShownStep == TypeOK /\ ShownToAdmitted /\ [Next]_vars => ShownToAdmitted'
<1> SUFFICES ASSUME TypeOK, ShownToAdmitted, [Next]_vars, ~admitted'
             PROVE  state' = NoState /\ \A i \in DOMAIN gets' : DOMAIN gets'[i].val = {}
  BY DEF ShownToAdmitted
<1> USE DEF daemon, bus, wait
<1>1. ~admitted => state = NoState /\ \A i \in DOMAIN gets : DOMAIN gets[i].val = {}
  BY DEF ShownToAdmitted
<1>2. \A awaited \in BOOLEAN : DOMAIN Get(awaited).val = {}
  BY DEF Get
<1>3. gets \in Seq(Gets) /\ slip \in BOOLEAN
  BY DEF TypeOK
<1>4. ASSUME NEW rest \in Seq(Gets), \A i \in 1..Len(rest) : DOMAIN rest[i].val = {},
             NEW awaited \in BOOLEAN, NEW missed \in BOOLEAN, FetchAfter(rest, awaited, missed)
      PROVE  \A i \in DOMAIN gets' : DOMAIN gets'[i].val = {}
  <2>1. /\ gets' \in Seq(Gets)
        /\ Len(gets') = Len(rest) + 1
        /\ gets'[Len(rest) + 1] = Get(awaited)
        /\ \A j \in 1..Len(rest) : gets'[j] = rest[j]
    BY <1>4, FetchFacts
  <2>2. DOMAIN gets' = 1 .. Len(rest) + 1 /\ Len(rest) \in Nat
    BY <1>4, <2>1
  <2> QED
    BY <1>2, <1>4, <2>1, <2>2
<1>5. ASSUME NEW awaited \in BOOLEAN, Fetch(awaited), UNCHANGED <<admitted, state>>
      PROVE  state' = NoState /\ \A i \in DOMAIN gets' : DOMAIN gets'[i].val = {}
  BY <1>1, <1>3, <1>4, <1>5 DEF Fetch
<1>6. ASSUME NEW i \in DOMAIN gets, NEW s, NEW missed \in BOOLEAN, Return(i, s, missed), s = state
      PROVE  state' = NoState /\ \A j \in DOMAIN gets' : DOMAIN gets'[j].val = {}
  <2> DEFINE rest == RemoveAt(gets, i)
  <2>1. state' = s /\ UNCHANGED admitted
    BY <1>6, ReturnFacts
  <2>2. /\ rest \in Seq(Gets)
        /\ Len(rest) = Len(gets) - 1
        /\ \A j \in 1 .. Len(gets) - 1 : rest[j] = IF j < i THEN gets[j] ELSE gets[j + 1]
    <3>1. i \in 1..Len(gets)
      BY <1>3
    <3> QED
      BY <1>3, <3>1, RemoveAtFacts
  <2> HIDE DEF rest
  <2>3. \A j \in 1..Len(rest) : DOMAIN rest[j].val = {}
    <3>1. \A j \in 1 .. Len(gets) - 1 : j \in DOMAIN gets /\ j + 1 \in DOMAIN gets
      BY <1>3
    <3> QED
      BY <1>1, <2>1, <2>2, <3>1
  <2>4. gets' = rest \/ FetchAfter(rest, FALSE, missed)
    BY <1>6, ReturnFacts DEF rest
  <2>5. CASE gets' = rest
    BY <1>1, <1>6, <2>1, <2>2, <2>3, <2>5
  <2>6. CASE FetchAfter(rest, FALSE, missed)
    BY <1>1, <1>4, <1>6, <2>1, <2>2, <2>3, <2>6
  <2> QED
    BY <2>4, <2>5, <2>6
<1>10. CASE Foreign
  BY <1>1, <1>10 DEF Foreign
<1>11. CASE ToggleKillSwitch
  BY <1>1, <1>11 DEF ToggleKillSwitch
<1>12. CASE Power
  BY <1>1, <1>12 DEF Power
<1>13. ASSUME NEW i \in DOMAIN posts, Handle(i)
       PROVE  state' = NoState /\ \A j \in DOMAIN gets' : DOMAIN gets'[j].val = {}
  BY <1>1, <1>13 DEF Handle, Apply, Refused, Publish
<1>14. ASSUME NEW i \in DOMAIN posts, GoOn(i)
       PROVE  state' = NoState /\ \A j \in DOMAIN gets' : DOMAIN gets'[j].val = {}
  <2>1. PICK awaited \in BOOLEAN : Fetch(awaited) /\ UNCHANGED <<admitted, state>>
    BY <1>14 DEF GoOn, PostReturns, PostThrows, NextRound
  <2> QED
    BY <1>5, <2>1
<1>15. ASSUME NEW i \in DOMAIN gets, Serve(i)
       PROVE  state' = NoState /\ \A j \in DOMAIN gets' : DOMAIN gets'[j].val = {}
  <2>1. CASE Copy(i)
    BY <2>1 DEF Copy
  <2>2. CASE Arrive(i)
    <3>1. admitted
      BY <1>1, <2>2, StructsFields DEF Arrive
    <3> QED
      BY <2>2, <3>1 DEF Arrive, Return
  <2>3. CASE Fail(i)
    BY <1>6, <2>3 DEF Fail
  <2> QED
    BY <1>15, <2>1, <2>2, <2>3 DEF Serve
<1>16. CASE Restart
  <2>1. gets' = <<>> /\ UNCHANGED <<admitted, state>>
    BY <1>16 DEF Restart
  <2>2. DOMAIN gets' = {}
    BY <2>1
  <2> QED
    BY <1>1, <2>1, <2>2
<1>17. CASE Connect
  BY <1>1, <1>17 DEF Connect
<1>18. CASE Disconnect
  BY <1>1, <1>18 DEF Disconnect
<1>19. CASE Listen
  BY <1>5, <1>19 DEF Listen
<1>20. CASE Tick
  BY <1>5, <1>20 DEF Tick
<1>21. CASE UNCHANGED vars
  BY <1>1, <1>21 DEF vars
<1> QED
  BY <1>10, <1>11, <1>12, <1>13, <1>14, <1>15, <1>16, <1>17, <1>18, <1>19, <1>20, <1>21 DEF Next

-----------------------------------------------------------------------------
(* The page catches up.                                                    *)

\* Every step keeps it: the last status request has copied nothing that is stale, unless
\* news is coming or something was missed; and with none in flight the page is right.
LEMMA FreshStep ==
    TypeOK /\ LastIsFresh /\ CaughtUp /\ [Next]_vars => LastIsFresh' /\ CaughtUp'
<1> SUFFICES ASSUME TypeOK, LastIsFresh, CaughtUp, [Next]_vars PROVE LastIsFresh' /\ CaughtUp'
  OBVIOUS
<1> USE DEF daemon, bus, wait
<1>1. gets \in Seq(Gets) /\ slip \in BOOLEAN /\ DOMAIN gets = 1..Len(gets)
  BY DEF TypeOK
<1>2. ASSUME NEW i \in DOMAIN posts PROVE posts[i].at \in Stages /\ posts[i].page \in Waiting \cup {"over"}
  BY DEF TypeOK, Posts
\* A status request sent now is up to date.
<1>3. ASSUME NEW rest \in Seq(Gets), NEW awaited \in BOOLEAN, NEW missed \in BOOLEAN,
             FetchAfter(rest, awaited, missed)
      PROVE  LastIsFresh' /\ CaughtUp'
  <2>1. /\ gets' \in Seq(Gets)
        /\ Len(gets') = Len(rest) + 1
        /\ gets'[Len(rest) + 1] = Get(awaited)
    BY <1>3, FetchFacts
  <2>2. UpToDate(Last(gets))' /\ gets' # <<>>
    BY <2>1 DEF Last, UpToDate, Get
  <2> QED
    BY <2>2 DEF LastIsFresh, CaughtUp
<1>4. ASSUME NEW awaited \in BOOLEAN, Fetch(awaited) PROVE LastIsFresh' /\ CaughtUp'
  BY <1>1, <1>3, <1>4 DEF Fetch
<1>5. ASSUME NewsComing' \/ slip' PROVE LastIsFresh' /\ CaughtUp'
  BY <1>5 DEF LastIsFresh, CaughtUp
\* Nothing of it is disturbed.
<1>6. ASSUME NewsComing => NewsComing', ClickComing => ClickComing',
             UNCHANGED <<st, state, gets, slip>>
      PROVE  LastIsFresh' /\ CaughtUp'
  BY <1>6 DEF LastIsFresh, CaughtUp, UpToDate
<1>7. ASSUME NEW i \in DOMAIN posts, NEW at \in Stages, NEW page \in Waiting \cup {"over"},
             Goto(i, at, page), posts[i].at = "changed" => at = "changed", UNCHANGED ready
      PROVE  NewsComing => NewsComing'
  <2>1. /\ DOMAIN posts \ {i} \subseteq DOMAIN posts'
        /\ \A j \in DOMAIN posts' \ {i} : posts'[j] = posts[j]
        /\ i \in DOMAIN posts' => posts'[i].at = at
        /\ at = "changed" => i \in DOMAIN posts'
    BY <1>7, GotoFacts
  <2> QED
    BY <1>7, <2>1 DEF NewsComing
<1>8. ASSUME NEW c \in Posts, Begin(c), UNCHANGED ready
      PROVE  /\ NewsComing => NewsComing'
             /\ ClickComing => ClickComing'
             /\ c.at = "changed" => NewsComing'
             /\ c.page = "posted" /\ c.field = "kill_switch" => ClickComing'
  BY <1>8, BeginFacts DEF NewsComing, ClickComing
<1>10. CASE Foreign
  BY <1>5, <1>8, <1>10, ForeignBegins
<1>11. CASE ToggleKillSwitch
  <2>1. (NewsComing => NewsComing') /\ ClickComing'
    BY <1>8, <1>11, ToggleBegins DEF ToggleKillSwitch
  <2>2. UNCHANGED <<st, gets, slip>>
    BY <1>11 DEF ToggleKillSwitch
  <2> QED
    BY <2>1, <2>2 DEF LastIsFresh, CaughtUp, UpToDate
<1>12. CASE Power
  BY <1>6, <1>8, <1>12, PowerBegins DEF Power
<1>13. ASSUME NEW i \in DOMAIN posts, Handle(i) PROVE LastIsFresh' /\ CaughtUp'
  <2>1. CASE Apply(i)
    <3>1. i \in DOMAIN posts' /\ posts'[i].at = "changed"
      BY <1>2, <2>1, GotoFacts DEF Apply, Stages
    <3> QED
      BY <1>5, <3>1 DEF NewsComing
  <2>2. CASE Refused(i)
    <3>1. NewsComing => NewsComing'
      BY <1>2, <1>7, <2>2 DEF Refused, Stages
    <3>2. \A j \in DOMAIN posts : posts[j].page = "posted" =>
            j \in DOMAIN posts' /\ posts'[j].page = "posted" /\ posts'[j].field = posts[j].field
      BY <1>2, <2>2, GotoFacts DEF Refused, Stages
    <3>3. ClickComing => ClickComing'
      BY <3>2 DEF ClickComing
    <3> QED
      BY <1>6, <2>2, <3>1, <3>3 DEF Refused
  <2>3. CASE Publish(i)
    <3>1. Page \in ready' \/ slip'
      BY <2>3 DEF Publish, Bus!Raise
    <3> QED
      BY <1>5, <3>1 DEF NewsComing
  <2> QED
    BY <1>13, <2>1, <2>2, <2>3 DEF Handle
<1>14. ASSUME NEW i \in DOMAIN posts, GoOn(i) PROVE LastIsFresh' /\ CaughtUp'
  <2>1. PICK awaited \in BOOLEAN : Fetch(awaited)
    BY <1>14 DEF GoOn, PostReturns, PostThrows, NextRound
  <2> QED
    BY <1>4, <2>1
<1>15. ASSUME NEW i \in DOMAIN gets, Copy(i) PROVE LastIsFresh' /\ CaughtUp'
  <2>1. /\ Len(gets') = Len(gets)
        /\ \A j \in DOMAIN gets \ {i} : gets'[j] = gets[j]
        /\ \A f \in DOMAIN gets'[i].val :
             gets'[i].val[f] = IF f \in DOMAIN gets[i].val THEN gets[i].val[f] ELSE st[f]
    BY <1>15, CopyFacts
  <2>2. UNCHANGED <<st, posts, ready, slip>>
    BY <1>15 DEF Copy
  <2>3. Len(gets) \in DOMAIN gets /\ gets # <<>> /\ gets' # <<>>
    BY <1>1, <2>1
  <2>4. UpToDate(Last(gets)) => UpToDate(Last(gets))'
    BY <2>1, <2>2, <2>3 DEF UpToDate, Last
  <2> QED
    BY <2>2, <2>3, <2>4 DEF LastIsFresh, CaughtUp, NewsComing
<1>16. ASSUME NEW i \in DOMAIN gets, NEW s, NEW missed \in BOOLEAN, Return(i, s, missed)
       PROVE  \/ LastIsFresh' /\ CaughtUp'
              \/ /\ gets' = RemoveAt(gets, i)
                 /\ slip' = missed
                 /\ NewsComing => NewsComing'
  <2>1. UNCHANGED ready /\ RemoveAt(gets, i) \in Seq(Gets)
    BY <1>16, ReturnFacts
  <2>2. CASE UNCHANGED posts /\ gets' = RemoveAt(gets, i) /\ slip' = missed
    BY <2>1, <2>2 DEF NewsComing
  <2>3. CASE FetchAfter(RemoveAt(gets, i), FALSE, missed)
    BY <1>3, <1>16, <2>1, <2>3
  <2>4. ASSUME NEW p \in DOMAIN posts, Goto(p, posts[p].at, "sleep")
        PROVE  NewsComing => NewsComing'
    BY <1>2, <1>7, <2>1, <2>4 DEF Waiting
  <2> QED
    BY <1>16, <2>2, <2>3, <2>4, ReturnFacts
<1>17. ASSUME NEW i \in DOMAIN gets, Arrive(i) PROVE LastIsFresh' /\ CaughtUp'
  <2> SUFFICES ASSUME ~slip', ~NewsComing', gets' = RemoveAt(gets, i), slip' = (slip \/ i # 1),
                      NewsComing => NewsComing'
               PROVE  LastIsFresh' /\ CaughtUp'
    <3>1. (slip \/ i # 1) \in BOOLEAN
      OBVIOUS
    <3> QED
      BY <1>5, <1>16, <1>17, <3>1 DEF Arrive
  <2>1. ~slip /\ i = 1 /\ ~NewsComing /\ UpToDate(Last(gets)) /\ UNCHANGED st
    <3>1. ~slip /\ i = 1 /\ ~NewsComing
      OBVIOUS
    <3>2. gets # <<>>
      BY <1>1, <3>1
    <3>3. UNCHANGED st
      BY <1>17 DEF Arrive, Return
    <3> QED
      BY <3>1, <3>2, <3>3 DEF LastIsFresh
  <2>2. /\ gets' \in Seq(Gets)
        /\ Len(gets') = Len(gets) - 1
        /\ \A j \in 1 .. Len(gets) - 1 : gets'[j] = gets[j + 1]
    <3>1. 1 \in 1..Len(gets) /\ gets' = RemoveAt(gets, 1) /\ \A j \in 1 .. Len(gets) - 1 : ~(j < 1)
      BY <1>1, <2>1
    <3> QED
      BY <1>1, <3>1, RemoveAtFacts
  <2>3. CASE Len(gets) = 1
    <3>1. gets' = <<>> /\ Last(gets) = gets[1]
      BY <2>2, <2>3 DEF Last
    <3>2. gets[1].val \in States /\ state' = gets[1].val
      BY <1>17, <2>1, WholeCopy, ReturnFacts DEF Arrive, Return, TypeOK
    <3>3. state' = st
      <4>1. \A f \in Fields : gets[1].val[f] = st[f]
        BY <1>17, <2>1, <3>1 DEF Arrive, UpToDate
      <4>2. st \in States
        BY DEF TypeOK
      <4> QED
        BY <3>2, <4>1, <4>2, StateValues
    <3> QED
      BY <2>1, <3>1, <3>3 DEF LastIsFresh, CaughtUp
  <2>4. CASE Len(gets) # 1
    <3>1. Len(gets') >= 1 /\ gets' # <<>> /\ Last(gets') = Last(gets)
      BY <1>1, <1>17, <2>2, <2>4 DEF Last
    <3> QED
      BY <2>1, <3>1 DEF LastIsFresh, CaughtUp, UpToDate
  <2> QED
    BY <2>3, <2>4
<1>18. ASSUME NEW i \in DOMAIN gets, Fail(i) PROVE LastIsFresh' /\ CaughtUp'
  BY <1>5, <1>16, <1>18 DEF Fail
<1>19. CASE Restart
  BY <1>5, <1>19 DEF Restart
<1>20. CASE Connect
  BY <1>6, <1>20 DEF Connect, Bus!Join, NewsComing, ClickComing
<1>21. CASE Disconnect
  BY <1>5, <1>21 DEF Disconnect
<1>22. CASE Listen
  BY <1>4, <1>22 DEF Listen
<1>23. CASE Tick
  BY <1>4, <1>23 DEF Tick
<1>24. CASE UNCHANGED vars
  BY <1>6, <1>24 DEF vars, NewsComing, ClickComing
<1> QED
  BY <1>10, <1>11, <1>12, <1>13, <1>14, <1>15, <1>17, <1>18, <1>19, <1>20, <1>21, <1>22, <1>23, <1>24
  DEF Next, Serve

-----------------------------------------------------------------------------

\* At the start the page has sent its first status request.
LEMMA InitInv == Init => IInv
<1> SUFFICES ASSUME Init PROVE IInv
  OBVIOUS
<1>1. PICK g \in Gets : gets = <<g>> /\ DOMAIN g.val = {} /\ g.awaited = FALSE
  <2>1. Get(FALSE) \in Gets
    BY GetType
  <2>2. DOMAIN Get(FALSE).val = {} /\ Get(FALSE).awaited = FALSE
    BY DEF Get
  <2> QED
    BY <2>1, <2>2 DEF Init
<1>2. /\ DOMAIN gets = {1} /\ Len(gets) = 1 /\ gets[1] = g /\ gets \in Seq(Gets)
      /\ Last(gets) = g
  BY <1>1 DEF Last
<1>3. DOMAIN posts = {} /\ posts \in [{} -> Posts]
  BY DEF Init
<1>4. TypeOK
  <2>1. admitted \in BOOLEAN /\ armed \in BOOLEAN
    <3>1. \A v : ParseBool(v, TRUE) \in BOOLEAN
      BY DEF ParseBool
    <3>2. PICK env \in Envs, q \in Callers :
            /\ admitted = (Status(Config(env).users, q) = 200)
            /\ armed = Config(env).killSwitch
      BY DEF Init
    <3>3. Config(env).killSwitch = ParseBool(env.killSwitch, TRUE)
      BY DEF Config
    <3>4. (Status(Config(env).users, q) = 200) \in BOOLEAN
      OBVIOUS
    <3> QED
      BY <3>1, <3>2, <3>3, <3>4
  <2>2. st \in States
    <3>1. st \in [toggle : {FALSE}, location : Locs \ Picks, kill_switch : {armed}, public_ip : {NoIp}]
      BY DEF Init
    <3> QED
      BY <2>1, <3>1 DEF States, Values
  <2>3. live = {} /\ owed = {} /\ ready = {}
    BY DEF Init, Bus!Init
  <2>4. rounds \in 0..Rounds /\ changes \in 0..MaxChanges /\ faults \in 0..MaxFaults
    BY DEF Init
  <2>5. prevIp \in Values.public_ip /\ state = NoState /\ switching = FALSE /\ slip = FALSE
    BY DEF Init, Values
  <2> QED
    BY <1>2, <1>3, <2>1, <2>2, <2>3, <2>4, <2>5 DEF TypeOK
<1>5. OneAction
  <2>1. Actions = {}
    BY <1>3 DEF Actions
  <2>2. Awaited = {}
    BY <1>1, <1>2 DEF Awaited
  <2>3. switching = FALSE
    BY DEF Init
  <2> QED
    BY <2>1, <2>2, <2>3 DEF OneAction
<1>6. ShownToAdmitted
  BY <1>1, <1>2 DEF Init, ShownToAdmitted
<1>7. AskedFromShown
  BY <1>3 DEF AskedFromShown
<1>8. UpToDate(Last(gets)) /\ gets # <<>>
  BY <1>1, <1>2 DEF UpToDate
<1> QED
  BY <1>4, <1>5, <1>6, <1>7, <1>8 DEF IInv, LastIsFresh, CaughtUp

\* IInv is inductive.
LEMMA StepInv == IInv /\ [Next]_vars => IInv'
BY TypeStep, OneActionStep, AskedStep, ShownStep, FreshStep DEF IInv

\* The inductive invariant of the page and the daemon: one action at a time, nothing shown
\* to those the middleware turns away, and the reasons why the page catches up.
THEOREM Invariance == Spec => []IInv
<1> QED
  BY InitInv, StepInv, PTL DEF Spec

\* The type invariant.
THEOREM TypeCorrect == Spec => []TypeOK
<1>1. IInv => TypeOK
  BY DEF IInv
<1> QED
  BY <1>1, Invariance, PTL

\* A page that shows something else than the daemon's State has a reason: an event or an
\* answer missed or overtaken, news or a click under way, or an up-to-date request.
THEOREM StaleExplained == Spec => []StaleHasReason
<1>1. IInv => StaleHasReason
  <2> SUFFICES ASSUME IInv PROVE StaleHasReason
    OBVIOUS
  <2>1. gets # <<>> => Len(gets) \in DOMAIN gets
    BY DEF IInv, TypeOK
  <2> QED
    BY <2>1 DEF IInv, LastIsFresh, CaughtUp, StaleHasReason, Last
<1> QED
  BY <1>1, Invariance, PTL

-----------------------------------------------------------------------------
(* The page as a listener of the bus.                                      *)

\* The daemon and the page use the bus as Signal, which EventBus implements, allows.
LEMMA StepBus == [Next]_vars => [Bus!Next]_Bus!vars
<1> SUFFICES ASSUME [Next]_vars PROVE [Bus!Next]_Bus!vars
  OBVIOUS
<1>1. ASSUME Bus!Join(Page) \/ Bus!Leave(Page) \/ Bus!Raise(Page) \/ Bus!Look(Page)
      PROVE  Bus!Next
  BY <1>1 DEF Bus!Next
<1>2. ASSUME UNCHANGED bus PROVE UNCHANGED Bus!vars
  BY <1>2 DEF bus, Bus!vars
<1>3. CASE Foreign \/ ToggleKillSwitch \/ Power \/ Tick
  BY <1>2, <1>3 DEF Foreign, ToggleKillSwitch, Power, Tick
<1>4. ASSUME NEW i \in DOMAIN posts, Handle(i) PROVE [Bus!Next]_Bus!vars
  BY <1>1, <1>2, <1>4 DEF Handle, Apply, Refused, Publish
<1>5. ASSUME NEW i \in DOMAIN posts, GoOn(i) PROVE UNCHANGED bus
  BY <1>5 DEF GoOn, PostReturns, PostThrows, NextRound
<1>6. ASSUME NEW i \in DOMAIN gets, Serve(i) PROVE UNCHANGED bus
  BY <1>6 DEF Serve, Copy, Arrive, Fail, Return
<1>7. CASE Restart
  BY <1>1, <1>2, <1>7 DEF Restart
<1>8. CASE Connect \/ Disconnect \/ Listen
  BY <1>1, <1>8 DEF Connect, Disconnect, Listen
<1>9. CASE UNCHANGED vars
  BY <1>2, <1>9 DEF vars, bus
<1> QED
  BY <1>2, <1>3, <1>4, <1>5, <1>6, <1>7, <1>8, <1>9 DEF Next

\* The composition is sound: what the dashboard and the daemon do to the bus is what
\* Signal, proved to be implemented by EventBus, lets its users do.
THEOREM UsesSignal == Spec => Bus!Spec
<1>1. Init => Bus!Init
  BY DEF Init
<1> QED
  BY <1>1, StepBus, PTL DEF Spec, Bus!Spec

\* News is never owed to the page without a reason to look, and only a page that listens
\* has one: no event of an earlier connection comes through a later one.
THEOREM NewsIsReason == Spec => [](owed \subseteq ready /\ ready \subseteq live)
<1> DEFINE Kept == owed \subseteq ready /\ ready \subseteq live
<1>1. Bus!Init => Kept
  BY DEF Bus!Init
<1>2. Kept /\ [Bus!Next]_Bus!vars => Kept'
  BY DEF Bus!Next, Bus!vars, Bus!Join, Bus!Leave, Bus!Raise, Bus!Look
<1> QED
  BY <1>1, <1>2, UsesSignal, PTL DEF Bus!Spec

-----------------------------------------------------------------------------
(* The overlay of an action cannot stay for ever.                          *)

\* A bound on what the page's side of action i has still to do: two steps a round of
\* waitForCondition.
RoundsLeft(i) ==
    IF posts[i].page = "posted" THEN 2 * Rounds + 1
    ELSE IF posts[i].page = "asking" THEN 2 * rounds + 1
    ELSE 2 * rounds

\* What the step of an action leaves it to do.
LEMMA StepAction ==
    ASSUME IInv, [Next]_vars, NEW i \in Actions, i \in Actions'
    PROVE  \/ posts'[i].page = posts[i].page /\ RoundsLeft(i)' = RoundsLeft(i)
           \/ RoundsLeft(i)' < RoundsLeft(i)
<1> USE DEF bus, wait
<1>1. /\ TypeOK /\ AskedFromShown
      /\ i \in DOMAIN posts /\ posts[i].page \in Waiting /\ posts[i].field # "kill_switch"
      /\ rounds \in Nat /\ Rounds \in Nat \ {0}
  BY DEF IInv, Actions, TypeOK
<1>2. ASSUME NEW k \in DOMAIN posts
      PROVE  /\ posts[k].at \in Stages
             /\ posts[k].page \in Waiting \cup {"over"}
             /\ posts[k].page \in {"asking", "sleep"} => posts[k].field # "kill_switch"
  BY <1>1 DEF TypeOK, Posts, AskedFromShown, Waiting
<1>3. ASSUME NEW k \in DOMAIN posts, posts[k].field # "kill_switch", posts[k].page \in Waiting
      PROVE  k = i
  BY <1>3 DEF IInv, OneAction, Actions
\* Nothing happens to the action.
<1>4. ASSUME posts'[i].page = posts[i].page, UNCHANGED rounds
      PROVE  posts'[i].page = posts[i].page /\ RoundsLeft(i)' = RoundsLeft(i)
  BY <1>4 DEF RoundsLeft
<1>5. ASSUME NEW k \in DOMAIN posts, NEW at \in Stages, NEW page \in Waiting \cup {"over"},
             Goto(k, at, page)
      PROVE  IF k = i THEN posts'[i].page = page ELSE posts'[i].page = posts[i].page
  BY <1>1, <1>5, ActionsOfGoto
\* An action ends: it is another one, that of the kill switch.
<1>6. ASSUME NEW k \in DOMAIN posts, NEW at \in Stages, Ends(k, at)
      PROVE  k # i /\ (posts[k].field = "kill_switch" =>
                            posts'[i].page = posts[i].page /\ UNCHANGED rounds)
  <2>1. Goto(k, at, "over") /\ (posts[k].field = "kill_switch" => UNCHANGED rounds)
    BY <1>1, <1>6, EndsFacts
  <2>2. k # i
    BY <1>1, <1>6, <2>1, ActionsOfGoto
  <2> QED
    BY <1>5, <1>6, <2>1, <2>2
<1>10. ASSUME NEW c \in Posts, Begin(c), UNCHANGED rounds
       PROVE  posts'[i].page = posts[i].page /\ RoundsLeft(i)' = RoundsLeft(i)
  BY <1>1, <1>4, <1>10, BeginFacts
<1>11. CASE Foreign
  BY <1>1, <1>10, <1>11, ForeignBegins DEF Foreign
<1>12. CASE ToggleKillSwitch
  BY <1>1, <1>10, <1>12, ToggleBegins DEF ToggleKillSwitch
<1>13. CASE Power
  BY <1>1, <1>10, <1>13, PowerBegins DEF Power
<1>14. ASSUME NEW k \in DOMAIN posts, Handle(k) PROVE posts'[i].page = posts[i].page /\ UNCHANGED rounds
  <2>1. PICK at \in Stages : Goto(k, at, posts[k].page) /\ UNCHANGED rounds
    BY <1>14 DEF Handle, Apply, Refused, Publish, Stages
  <2> QED
    BY <1>2, <1>5, <2>1
<1>15. ASSUME NEW k \in DOMAIN posts, GoOn(k)
       PROVE  \/ posts'[i].page = posts[i].page /\ UNCHANGED rounds
              \/ RoundsLeft(i)' < RoundsLeft(i)
  <2>1. CASE PostReturns(k)
    <3>1. CASE posts[k].field = "kill_switch"
      BY <1>6, <2>1, <3>1 DEF PostReturns, Stages
    <3>2. CASE posts[k].field # "kill_switch"
      <4>1. k = i /\ posts[i].page = "posted" /\ rounds' = Rounds - 1 /\ Goto(i, "answered", "asking")
        BY <1>3, <2>1, <3>2 DEF PostReturns, Waiting
      <4>2. posts'[i].page = "asking"
        BY <1>1, <1>5, <4>1 DEF Stages, Waiting
      <4> QED
        BY <1>1, <4>1, <4>2 DEF RoundsLeft
    <3> QED
      BY <3>1, <3>2
  <2>2. CASE PostThrows(k)
    <3>1. PICK at \in Stages : Ends(k, at)
      BY <1>2, <2>2 DEF PostThrows, Stages
    <3>2. posts[k].field = "kill_switch"
      BY <1>3, <1>6, <2>2, <3>1 DEF PostThrows, Waiting
    <3> QED
      BY <1>6, <3>1, <3>2
  <2>3. CASE NextRound(k)
    <3>1. k = i /\ posts[i].page = "sleep"
      BY <1>2, <1>3, <2>3 DEF NextRound, Waiting
    <3>2. rounds > 0 /\ rounds' = rounds - 1 /\ Goto(i, posts[i].at, "asking")
      BY <1>2, <1>6, <2>3, <3>1 DEF NextRound
    <3>3. posts'[i].page = "asking"
      BY <1>1, <1>2, <1>5, <3>2 DEF Waiting
    <3> QED
      BY <1>1, <3>1, <3>2, <3>3 DEF RoundsLeft
  <2> QED
    BY <1>15, <2>1, <2>2, <2>3 DEF GoOn
<1>16. ASSUME NEW g \in DOMAIN gets, NEW s, NEW missed \in BOOLEAN, Return(g, s, missed)
       PROVE  \/ posts'[i].page = posts[i].page /\ UNCHANGED rounds
              \/ RoundsLeft(i)' < RoundsLeft(i)
  <2>1. CASE UNCHANGED <<posts, wait>>
    BY <2>1
  <2>2. ASSUME NEW p \in DOMAIN posts, posts[p].page = "asking", Ends(p, posts[p].at)
        PROVE  FALSE
    BY <1>2, <1>3, <1>6, <2>2 DEF Waiting
  <2>3. ASSUME NEW p \in DOMAIN posts, posts[p].page = "asking", Goto(p, posts[p].at, "sleep"),
               UNCHANGED rounds
        PROVE  RoundsLeft(i)' < RoundsLeft(i)
    <3>1. p = i /\ posts'[i].page = "sleep"
      BY <1>2, <1>3, <1>5, <2>3 DEF Waiting
    <3> QED
      BY <1>1, <2>3, <3>1 DEF RoundsLeft
  <2> QED
    BY <1>1, <1>16, <2>1, <2>2, <2>3, ReturnFacts
<1>17. ASSUME NEW g \in DOMAIN gets, Serve(g)
       PROVE  \/ posts'[i].page = posts[i].page /\ UNCHANGED rounds
              \/ RoundsLeft(i)' < RoundsLeft(i)
  <2>1. CASE Copy(g)
    BY <2>1 DEF Copy
  <2>2. CASE Arrive(g)
    <3>1. (slip \/ g # 1) \in BOOLEAN
      BY <1>1 DEF TypeOK
    <3> QED
      BY <1>16, <2>2, <3>1 DEF Arrive
  <2>3. CASE Fail(g)
    BY <1>16, <2>3 DEF Fail
  <2> QED
    BY <1>17, <2>1, <2>2, <2>3 DEF Serve
<1>18. CASE Restart
  <2>1. i \in DOMAIN posts' /\ UNCHANGED rounds
    BY <1>18 DEF Restart, Actions
  <2>2. posts'[i].page = IF posts[i].page = "asking" THEN "sleep" ELSE posts[i].page
    BY <1>1, <1>18, <2>1, RestartFacts
  <2>3. CASE posts[i].page = "asking"
    BY <1>1, <2>1, <2>2, <2>3 DEF RoundsLeft
  <2>4. CASE posts[i].page # "asking"
    BY <1>4, <2>1, <2>2, <2>4
  <2> QED
    BY <2>3, <2>4
<1>19. CASE Connect \/ Disconnect \/ Listen \/ Tick
  BY <1>4, <1>19 DEF Connect, Disconnect, Listen, Tick
<1>20. CASE UNCHANGED vars
  BY <1>4, <1>20 DEF vars
<1> QED
  BY <1>4, <1>11, <1>12, <1>13, <1>14, <1>15, <1>17, <1>18, <1>19, <1>20 DEF Next

\* An action under the overlay only goes forward: whatever restarts, lost requests and
\* answers in the wrong order there are, it asks for at most Rounds status requests.
THEOREM ActionsGoOn ==
    Spec => [][\A i \in Actions \cap Actions' :
                  \/ posts'[i].page = posts[i].page /\ RoundsLeft(i)' = RoundsLeft(i)
                  \/ RoundsLeft(i)' < RoundsLeft(i)]_vars
<1>1. IInv /\ [Next]_vars =>
        [\A i \in Actions \cap Actions' :
            \/ posts'[i].page = posts[i].page /\ RoundsLeft(i)' = RoundsLeft(i)
            \/ RoundsLeft(i)' < RoundsLeft(i)]_vars
  BY StepAction
<1> QED
  BY <1>1, Invariance, PTL DEF Spec

=============================================================================
