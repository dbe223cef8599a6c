----------------------------- MODULE Dashboard -----------------------------
(***************************************************************************)
(* The dashboard, web/app.js, in one browser, with the daemon as it sees   *)
(* it: the handlers of internal/httpapi behind the middleware, the         *)
(* operations they call, and the event bus, here by its promise, Signal.   *)
(*                                                                         *)
(* Status requests are in flight at the same time, for the interval, for   *)
(* events and after each action; they are served and answered in any       *)
(* order, and the answer that arrives last is what the page shows.         *)
(* handleStatus copies the State struct by struct while other requests     *)
(* change it.                                                              *)
(***************************************************************************)
EXTENDS Access, SequencesExt

CONSTANTS
    Locs,        \* locations
    Ips,         \* public addresses
    NoIp,        \* none measured yet
    NoState,     \* the page has had no answer
    Page,        \* the page, as a listener of the bus
    Envs,        \* environments of the daemon
    Callers,     \* what the page's requests look like to the middleware
    Others,      \* bound: the fields that others change
    Picks,       \* bound: the locations that the user picks
    Rounds,      \* the rounds of waitForCondition
    MaxGets,     \* bound: status requests in flight
    MaxChanges,  \* bound: changes
    MaxFaults    \* bound: lost requests, lost connections, restarts

Values == [toggle |-> BOOLEAN, location |-> Locs, kill_switch |-> BOOLEAN,
           public_ip |-> Ips \cup {NoIp}]

Fields == DOMAIN Values

States == [toggle : Values.toggle, location : Values.location,
           kill_switch : Values.kill_switch, public_ip : Values.public_ip]

ASSUME DashboardAssumption ==
    /\ NoState \notin States
    /\ Others \subseteq Fields
    /\ Picks \subseteq Locs
    /\ Rounds \in Nat \ {0}
    /\ {MaxGets, MaxChanges, MaxFaults} \subseteq Nat

VARIABLES
    admitted,    \* the middleware lets the page's requests through
    armed,       \* KILL_SWITCH of the daemon's configuration
    st,          \* the daemon's State
    live, owed, ready,  \* the bus
    posts,       \* the changes under way, the page's and others', by number
    state,       \* app.js: state
    switching,   \* app.js: switching
    rounds,      \* waitForCondition: rounds left
    prevIp,      \* switchLocation: prevIp
    gets,        \* the status requests in flight, in the order of sending
    changes,     \* ghost: changes so far
    faults,      \* ghost: faults so far
    slip         \* ghost: an event missed, an answer lost or overtaken, and no
                 \* status request alone in flight since

daemon == <<admitted, armed, st>>
bus == <<live, owed, ready>>
wait == <<switching, rounds, prevIp>>
vars == <<admitted, armed, st, live, owed, ready, posts, state, switching,
          rounds, prevIp, gets, changes, faults, slip>>

Bus == INSTANCE Signal WITH Listeners <- {Page}

-----------------------------------------------------------------------------
\* The structs that handleStatus copies, one after the other.
Structs == <<{"toggle", "location"}, {"kill_switch"}, {"public_ip"}>>

\* A change: of a field, to a value; where the daemon is with it, and the page.
Change(f, v, page) == [field |-> f, value |-> v, at |-> "coming", page |-> page]

\* A status request: what handleStatus has copied, and whether an action awaits
\* the answer.
Get(awaited) == [val |-> [f \in {} |-> NoState], awaited |-> awaited]

\* main() arms the kill switch at each start if its environment says so.
Init ==
    /\ \E env \in {e \in Envs : Loads(e)}, q \in Callers :
        /\ admitted = (Status(Config(env).users, q) = 200)
        /\ armed = Config(env).killSwitch
    /\ st \in [toggle : {FALSE}, location : Locs \ Picks,
               kill_switch : {armed}, public_ip : {NoIp}]
    /\ Bus!Init
    /\ posts = [i \in {} |-> NoState]
    /\ state = NoState
    /\ switching = FALSE
    /\ rounds = 0
    /\ prevIp = NoIp
    /\ gets = <<Get(FALSE)>>
    /\ changes = 0
    /\ faults = 0
    /\ slip = FALSE

Fault ==
    /\ faults < MaxFaults
    /\ faults' = faults + 1

-----------------------------------------------------------------------------
(* The daemon.                                                             *)

Begin(c) ==
    /\ changes < MaxChanges
    /\ changes' = changes + 1
    /\ posts' = [i \in DOMAIN posts \cup {changes'} |-> IF i = changes' THEN c ELSE posts[i]]

\* The change is forgotten when both the daemon and the page are done with it.
Goto(i, at, page) ==
    posts' = IF at \in {"answered", "gone"} /\ page = "over"
             THEN Restrict(posts, DOMAIN posts \ {i})
             ELSE [posts EXCEPT ![i] = [@ EXCEPT !.at = at, !.page = page]]

\* Another client's request, or the poller's measurement, assigns to the State.
Foreign ==
    /\ \E f \in Others : \E v \in Values[f] \ {st[f], NoIp} :
        /\ Begin([Change(f, v, "over") EXCEPT !.at = "changed"])
        /\ st' = [st EXCEPT ![f] = v]
    /\ UNCHANGED <<admitted, armed, bus, state, wait, gets, faults, slip>>

\* The operation that the page asked for assigns to the State ...
Apply(i) ==
    /\ posts[i].at = "coming"
    /\ st' = [st EXCEPT ![posts[i].field] = posts[i].value]
    /\ Goto(i, "changed", posts[i].page)
    /\ UNCHANGED <<admitted, armed, bus, state, wait, gets, changes, faults, slip>>

\* ... or is refused by gluetun.
Refused(i) ==
    /\ posts[i].at = "coming"
    /\ posts[i].field \in {"toggle", "location"}
    /\ Goto(i, "answered", posts[i].page)
    /\ UNCHANGED <<daemon, bus, state, wait, gets, changes, faults, slip>>

\* Mutant: the operation does not publish.
PublishForgotten(i) ==
    /\ posts[i].at = "changed"
    /\ Goto(i, "answered", posts[i].page)
    /\ UNCHANGED <<daemon, bus, state, wait, gets, changes, faults, slip>>

\* Then it publishes, and the handler answers.
Publish(i) ==
    /\ posts[i].at = "changed"
    /\ IF Page \in live THEN Bus!Raise(Page) /\ UNCHANGED slip
                       ELSE slip' = TRUE /\ UNCHANGED bus
    /\ Goto(i, "answered", posts[i].page)
    /\ UNCHANGED <<daemon, state, wait, gets, changes, faults>>

\* The daemon restarts, with its State from the disk and its environment's
\* kill switch; what it was about fails.
Restart ==
    /\ Fault
    /\ st' = [st EXCEPT !.kill_switch = @ \/ armed]
    /\ posts' = [i \in {j \in DOMAIN posts : posts[j].page # "over"} |->
                    [posts[i] EXCEPT !.at = IF @ = "answered" THEN @ ELSE "gone",
                                     !.page = IF @ = "asking" THEN "sleep" ELSE @]]
    /\ gets' = <<>>
    /\ IF Page \in live THEN Bus!Leave(Page) ELSE UNCHANGED bus
    /\ slip' = TRUE
    /\ UNCHANGED <<admitted, armed, state, wait, changes>>

-----------------------------------------------------------------------------
(* fetchStatus.                                                            *)

\* After the status requests in flight are those of rest.
FetchAfter(rest, awaited, missed) ==
    /\ Len(rest) < MaxGets
    /\ gets' = Append(rest, Get(awaited))
    /\ slip' = (missed /\ rest # <<>>)

Fetch(awaited) == FetchAfter(gets, awaited, slip)

\* handleStatus copies the next struct.
Copy(i) ==
    /\ admitted
    /\ \E k \in DOMAIN Structs :
        /\ DOMAIN gets[i].val = UNION {Structs[j] : j \in 1 .. k - 1}
        /\ gets' = [gets EXCEPT ![i].val =
                [f \in DOMAIN @ \cup Structs[k] |-> IF f \in Structs[k] THEN st[f] ELSE @[f]]]
    /\ UNCHANGED <<daemon, bus, posts, state, wait, changes, faults, slip>>

\* The conditions of togglePower and switchLocation, on what the page has then.
Met(c, s) ==
    /\ s # NoState
    /\ s[c.field] = c.value
    /\ c.field = "location" => s.public_ip \notin {NoIp, prevIp}

\* The finally block of an action, before its status request.
Ends(i, where) ==
    /\ Goto(i, where, "over")
    /\ IF posts[i].field = "kill_switch"
       THEN UNCHANGED wait
       ELSE switching' = FALSE /\ rounds' = 0 /\ prevIp' = NoIp

\* A status request ends and the page shows s.  An action that awaits it goes on,
\* to its end and one more status request if its condition is met.
Return(i, s, missed) ==
    LET rest == RemoveAt(gets, i)
    IN  /\ state' = s
        /\ \/ /\ ~gets[i].awaited
              /\ gets' = rest
              /\ slip' = missed
              /\ UNCHANGED <<posts, wait>>
           \/ /\ gets[i].awaited
              /\ \E p \in DOMAIN posts :
                  /\ posts[p].page = "asking"
                  /\ IF Met(posts[p], s)
                     THEN FetchAfter(rest, FALSE, missed) /\ Ends(p, posts[p].at)
                     ELSE /\ gets' = rest
                          /\ slip' = missed
                          /\ Goto(p, posts[p].at, "sleep")
                          /\ UNCHANGED wait
        /\ UNCHANGED <<daemon, bus, changes>>

Arrive(i) ==
    /\ DOMAIN gets[i].val = Fields
    /\ Return(i, gets[i].val, slip \/ i # 1)
    /\ UNCHANGED faults

\* It fails, or is not admitted: for the page, the same.
Fail(i) ==
    /\ Fault \/ (~admitted /\ UNCHANGED faults)
    /\ Return(i, state, TRUE)

\* Mutant: the interval ends with the first answer.
TickOnce ==
    /\ state = NoState
    /\ Fetch(FALSE)
    /\ UNCHANGED <<daemon, bus, posts, state, wait, changes, faults>>

\* setInterval.
Tick ==
    /\ Fetch(FALSE)
    /\ UNCHANGED <<daemon, bus, posts, state, wait, changes, faults>>

-----------------------------------------------------------------------------
(* startSSE: the browser connects, and connects again.                     *)

Connect ==
    /\ admitted
    /\ Bus!Join(Page)
    /\ UNCHANGED <<daemon, posts, state, wait, gets, changes, faults, slip>>

Disconnect ==
    /\ Fault
    /\ Bus!Leave(Page)
    /\ slip' = TRUE
    /\ UNCHANGED <<daemon, posts, state, wait, gets, changes>>

\* An event.
Listen ==
    /\ Bus!Look(Page)
    /\ Fetch(FALSE)
    /\ UNCHANGED <<daemon, posts, state, wait, changes, faults>>

-----------------------------------------------------------------------------
(* The user's actions.                                                     *)

\* toggleKillSwitch: the page shows the new value at once.
ToggleKillSwitch ==
    /\ state # NoState
    /\ Begin(Change("kill_switch", ~state.kill_switch, "posted"))
    /\ state' = [state EXCEPT !.kill_switch = ~@]
    /\ UNCHANGED <<daemon, bus, wait, gets, faults, slip>>

\* Mutant: an action may begin during another.
PowerAgain ==
    /\ state # NoState
    /\ \/ Begin(Change("toggle", ~state.toggle, "posted"))
       \/ \E l \in Picks : Begin(Change("location", l, "posted"))
    /\ switching' = TRUE
    /\ UNCHANGED <<daemon, bus, state, rounds, prevIp, gets, faults, slip>>

\* togglePower and switchLocation.
Power ==
    /\ state # NoState
    /\ ~switching
    /\ \/ Begin(Change("toggle", ~state.toggle, "posted"))
       \/ \E l \in Picks : Begin(Change("location", l, "posted"))
    /\ switching' = TRUE
    /\ UNCHANGED <<daemon, bus, state, rounds, prevIp, gets, faults, slip>>

\* The answer, of whatever status: the kill switch's action ends, the others await
\* their condition.
PostReturns(i) ==
    /\ posts[i].page = "posted"
    /\ posts[i].at = "answered"
    /\ IF posts[i].field = "kill_switch"
       THEN Fetch(FALSE) /\ Ends(i, "answered")
       ELSE /\ Fetch(TRUE)
            /\ Goto(i, "answered", "asking")
            /\ rounds' = Rounds - 1
            /\ prevIp' = IF posts[i].field = "location" THEN state.public_ip ELSE NoIp
            /\ UNCHANGED switching
    /\ UNCHANGED <<daemon, bus, state, changes, faults>>

\* An error of the network; the request may still be on its way to the daemon.
PostThrows(i) ==
    /\ posts[i].page = "posted"
    /\ (posts[i].at = "gone" /\ UNCHANGED faults) \/ Fault
    /\ Fetch(FALSE)
    /\ Ends(i, posts[i].at) \/ (posts[i].at = "coming" /\ Ends(i, "gone"))
    /\ UNCHANGED <<daemon, bus, state, changes>>

\* A second after a round: the next one, or the end.
NextRound(i) ==
    /\ posts[i].page = "sleep"
    /\ IF rounds > 0
       THEN /\ Fetch(TRUE)
            /\ Goto(i, posts[i].at, "asking")
            /\ rounds' = rounds - 1
            /\ UNCHANGED <<switching, prevIp>>
       ELSE Fetch(FALSE) /\ Ends(i, posts[i].at)
    /\ UNCHANGED <<daemon, bus, state, changes, faults>>

-----------------------------------------------------------------------------
Handle(i) == Apply(i) \/ Refused(i) \/ Publish(i)

GoOn(i) == PostReturns(i) \/ PostThrows(i) \/ NextRound(i)

Serve(i) == Copy(i) \/ Arrive(i) \/ Fail(i)

Next ==
    \/ Foreign
    \/ ToggleKillSwitch
    \/ Power
    \/ \E i \in DOMAIN posts : Handle(i) \/ GoOn(i)
    \/ \E i \in DOMAIN gets : Serve(i)
    \/ Restart
    \/ Connect
    \/ Disconnect
    \/ Listen
    \/ Tick

\* Handlers end, the oldest status request is answered or fails, and the page's
\* timers and continuations run: that the bound on requests keeps them waiting is
\* no reason not to.  Nothing is assumed of the events.
Fairness ==
    /\ WF_vars(gets # <<>> /\ Serve(1))
    /\ WF_vars(\E i \in DOMAIN posts : Handle(i))
    /\ SF_vars(\E i \in DOMAIN posts : GoOn(i))
    /\ SF_vars(Tick)

Spec == Init /\ [][Next]_vars /\ Fairness

-----------------------------------------------------------------------------
(* Properties.                                                             *)

Waiting == {"posted", "asking", "sleep"}

\* The type invariant.
AnyValue == UNION {Values[f] : f \in Fields}

Stages == {"coming", "changed", "answered", "gone"}

Posts == {c \in [field : Fields, value : AnyValue, at : Stages, page : Waiting \cup {"over"}] :
            c.value \in Values[c.field]}

Gets == {g \in [val : UNION {[F -> AnyValue] : F \in SUBSET Fields}, awaited : BOOLEAN] :
            \A f \in DOMAIN g.val : g.val[f] \in Values[f]}

TypeOK ==
    /\ {admitted, armed, switching, slip} \subseteq BOOLEAN
    /\ st \in States
    /\ UNION {live, owed, ready} \subseteq {Page}
    /\ posts \in [DOMAIN posts -> Posts]
    /\ DOMAIN posts \subseteq 1..changes
    /\ state \in States \cup {NoState}
    /\ rounds \in 0..Rounds
    /\ prevIp \in Values.public_ip
    /\ gets \in Seq(Gets)
    /\ changes \in 0..MaxChanges
    /\ faults \in 0..MaxFaults

\* The overlay is shown for exactly one action that is on its way, and a status
\* request that is awaited is that one's.
Actions == {i \in DOMAIN posts : posts[i].page \in Waiting /\ posts[i].field # "kill_switch"}

Awaited == {i \in DOMAIN gets : gets[i].awaited}

OneAction ==
    /\ \A i, j \in Actions : i = j
    /\ switching <=> Actions # {}
    /\ \A i, j \in Awaited : i = j
    /\ Awaited # {} <=> \E i \in Actions : posts[i].page = "asking"

\* Only a caller that the middleware admits is shown anything, or sent it.
ShownToAdmitted ==
    ~admitted => /\ state = NoState
                 /\ \A i \in DOMAIN gets : DOMAIN gets[i].val = {}

\* What the user asked for began on a page that showed something.  The action of
\* the kill switch awaits no condition.
AskedFromShown ==
    \A i \in DOMAIN posts :
        posts[i].page # "over" =>
            /\ state # NoState
            /\ posts[i].field = "kill_switch" => posts[i].page = "posted"

\* What it has copied so far is still so.
UpToDate(g) == \A f \in DOMAIN g.val : g.val[f] = st[f]

\* A change is about to be published, or its event is in the channel.
NewsComing ==
    \/ Page \in ready
    \/ \E i \in DOMAIN posts : posts[i].at = "changed"

\* The user's click on the kill switch is on its way.
ClickComing ==
    \E i \in DOMAIN posts : posts[i].page = "posted" /\ posts[i].field = "kill_switch"

\* Why the page catches up: the status request sent last has copied nothing that
\* has changed since, or news of the change will send another; and once none is in
\* flight the page shows the daemon's State.
LastIsFresh ==
    slip \/ NewsComing \/ gets = <<>> \/ UpToDate(Last(gets))

CaughtUp ==
    slip \/ NewsComing \/ ClickComing \/ gets # <<>> \/ state = st

IInv ==
    /\ TypeOK
    /\ OneAction
    /\ ShownToAdmitted
    /\ AskedFromShown
    /\ LastIsFresh
    /\ CaughtUp

\* A page that does not show the daemon's State is about to, unless an event or an
\* answer was missed or overtaken: news or the user's click is on its way, or a
\* status request will bring what is so.
StaleHasReason ==
    admitted =>
        \/ state = st
        \/ slip
        \/ NewsComing
        \/ ClickComing
        \/ \E i \in DOMAIN gets : UpToDate(gets[i])

\* Once nobody changes the State any more the page shows it for good, and no overlay,
\* whatever was lost or overtaken: of answers in the wrong order the interval makes
\* up for the last, and every action ends.
PageSettles == admitted => <>[](state = st /\ ~switching)

=============================================================================
