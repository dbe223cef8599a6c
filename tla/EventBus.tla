------------------------------ MODULE EventBus ------------------------------
(***************************************************************************)
(* internal/eventbus/bus.go, and its subscribers, the SSE handlers of      *)
(* internal/httpapi/sse.go.                                                *)
(*                                                                         *)
(* Publish sends to one channel after the other, under the mutex, while    *)
(* the handlers receive without it.  A full channel drops the event.       *)
(* An event is its rank in the order of publication.  A connection         *)
(* subscribes once; a browser that reconnects is another connection.       *)
(***************************************************************************)
EXTENDS Integers, Sequences

CONSTANTS
    Publishers,   \* goroutines that publish
    Conns,        \* SSE connections
    NoProc,       \* nobody holds the mutex
    BufLen,       \* the argument of New
    MaxEvents     \* bound: events

ASSUME BusAssumption ==
    /\ NoProc \notin Publishers
    /\ BufLen \in Int
    /\ MaxEvents \in Nat

VARIABLES
    mu,       \* the publisher that holds Bus.mu, or NoProc
    subs,     \* Bus.subs: the connections whose channel is registered
    buf,      \* buf[c]: what c's channel holds
    closed,   \* the connections whose channel is closed
    at,       \* at[c]: where c's handler is
    todo,     \* todo[p]: the channels that p's Publish has still to visit
    events,   \* ghost: how many events have been published
    seen,     \* ghost: seen[c]: the newest event c has written to its client
    owed      \* ghost: connections offered an event since they last received

vars == <<mu, subs, buf, closed, at, todo, events, seen, owed>>

\* Mutant: Subscribe makes an unbuffered channel, and no handler waits on it.
CapacityUnbuffered == 0

\* New replaces a length that is not positive.
Capacity == IF BufLen <= 0 THEN 8 ELSE BufLen

Init ==
    /\ mu = NoProc
    /\ subs = {}
    /\ buf = [c \in Conns |-> <<>>]
    /\ closed = {}
    /\ at = [c \in Conns |-> "away"]
    /\ todo = [p \in Publishers |-> {}]
    /\ events = 0
    /\ seen = [c \in Conns |-> 0]
    /\ owed = {}

-----------------------------------------------------------------------------
(* Publish.                                                                *)

\* Mutant: Publish does not lock.
LockNoMutex(p) ==
    /\ todo[p] = {}
    /\ events < MaxEvents
    /\ mu' = p
    /\ events' = events + 1
    /\ todo' = [todo EXCEPT ![p] = subs]
    /\ UNCHANGED <<subs, buf, closed, at, seen, owed>>

Lock(p) ==
    /\ mu = NoProc
    /\ events < MaxEvents
    /\ mu' = p
    /\ events' = events + 1
    /\ todo' = [todo EXCEPT ![p] = subs]
    /\ UNCHANGED <<subs, buf, closed, at, seen, owed>>

\* Mutant: the send waits for room.
SendWaiting(p, c) ==
    /\ c \in todo[p]
    /\ Len(buf[c]) < Capacity
    /\ buf' = [buf EXCEPT ![c] = Append(@, events)]
    /\ owed' = owed \cup {c}
    /\ todo' = [todo EXCEPT ![p] = @ \ {c}]
    /\ UNCHANGED <<mu, subs, closed, at, events, seen>>

\* select with a default: the event goes into the channel, or is dropped.  The
\* event of the Publish that has locked is the newest.
Send(p, c) ==
    /\ c \in todo[p]
    /\ buf' = [buf EXCEPT ![c] = IF Len(@) < Capacity
                                 THEN Append(@, events) ELSE @]
    /\ owed' = owed \cup {c}
    /\ todo' = [todo EXCEPT ![p] = @ \ {c}]
    /\ UNCHANGED <<mu, subs, closed, at, events, seen>>

Unlock(p) ==
    /\ mu = p
    /\ todo[p] = {}
    /\ mu' = NoProc
    /\ UNCHANGED <<subs, buf, closed, at, todo, events, seen, owed>>

-----------------------------------------------------------------------------
(* An SSE handler.                                                         *)

Subscribe(c) ==
    /\ at[c] = "away"
    /\ mu = NoProc
    /\ subs' = subs \cup {c}
    /\ at' = [at EXCEPT ![c] = "open"]
    /\ UNCHANGED <<mu, buf, closed, todo, events, seen, owed>>

\* The handler receives an event and writes it to its client.
Receive(c) ==
    /\ at[c] = "open"
    /\ buf[c] # <<>>
    /\ seen' = [seen EXCEPT ![c] = Head(buf[c])]
    /\ buf' = [buf EXCEPT ![c] = Tail(@)]
    /\ owed' = owed \ {c}
    /\ UNCHANGED <<mu, subs, closed, at, todo, events>>

\* The request's context is done; select may choose it at any time.
Disconnect(c) ==
    /\ at[c] = "open"
    /\ at' = [at EXCEPT ![c] = "leaving"]
    /\ UNCHANGED <<mu, subs, buf, closed, todo, events, seen, owed>>

\* Mutant: Unsubscribe does not lock.
UnsubscribeNoMutex(c) ==
    /\ at[c] = "leaving"
    /\ subs' = subs \ {c}
    /\ closed' = closed \cup {c}
    /\ at' = [at EXCEPT ![c] = "gone"]
    /\ UNCHANGED <<mu, buf, todo, events, seen, owed>>

\* The deferred Unsubscribe removes the channel and closes it.
Unsubscribe(c) ==
    /\ at[c] = "leaving"
    /\ mu = NoProc
    /\ subs' = subs \ {c}
    /\ closed' = closed \cup {c}
    /\ at' = [at EXCEPT ![c] = "gone"]
    /\ UNCHANGED <<mu, buf, todo, events, seen, owed>>

-----------------------------------------------------------------------------
Publish(p) == Lock(p) \/ (\E c \in Conns : Send(p, c)) \/ Unlock(p)

Handle(c) == Subscribe(c) \/ Receive(c) \/ Disconnect(c) \/ Unsubscribe(c)

Next == (\E p \in Publishers : Publish(p)) \/ (\E c \in Conns : Handle(c))

\* A Publish that has begun goes on, and the starvation-free mutex admits a
\* handler that leaves.  Nothing is assumed of the clients' speed.
Fairness ==
    /\ \A p \in Publishers :
        WF_vars((\E c \in Conns : Send(p, c)) \/ Unlock(p))
    /\ \A c \in Conns : SF_vars(Unsubscribe(c))

Spec == Init /\ [][Next]_vars /\ Fairness

-----------------------------------------------------------------------------
(* Properties.                                                             *)

\* The type invariant.
TypeOK ==
    /\ mu \in Publishers \cup {NoProc}
    /\ subs \in SUBSET Conns
    /\ buf \in [Conns -> Seq(Nat)]
    /\ closed \in SUBSET Conns
    /\ at \in [Conns -> {"away", "open", "leaving", "gone"}]
    /\ todo \in [Publishers -> SUBSET Conns]
    /\ events \in Nat
    /\ seen \in [Conns -> Nat]
    /\ owed \in SUBSET Conns

\* Publish never sends on a channel that Unsubscribe has closed: that would
\* panic, and take the daemon down.
NoSendOnClosed == \A p \in Publishers : todo[p] \cap closed = {}

\* Whatever was dropped, a handler offered an event since it last received
\* one has something to receive: its client looks again after the change.
NoLostWakeup == \A c \in owed : at[c] = "open" => buf[c] # <<>>

\* Events reach a client in the order in which they were published.
InOrder ==
    \A c \in Conns :
        /\ \A i \in 1..Len(buf[c]) : seen[c] < buf[c][i]
        /\ \A i, j \in 1..Len(buf[c]) : i < j => buf[c][i] < buf[c][j]

\* A client that stops reading never holds up the goroutine that publishes,
\* nor another client's departure.
NobodyWaits ==
    /\ \A p \in Publishers : mu = p ~> mu # p
    /\ \A c \in Conns : at[c] = "leaving" ~> at[c] = "gone"

\* The bus is a signal to those who listen: what it drops never leaves one of
\* them without a reason to look again.
Listening == {c \in Conns : at[c] = "open"}

Wakes == INSTANCE Signal WITH Listeners <- Conns,
                              live <- Listening,
                              owed <- owed \cap Listening,
                              ready <- {c \in Listening : buf[c] # <<>>}

WakesSpec == Wakes!Spec

\* If every open handler goes on reading, none is left waiting for the news.
Reading == \A c \in Conns : WF_vars(Receive(c))

ReadersWoken == Reading => Wakes!Woken

-----------------------------------------------------------------------------
(* Why: the inductive invariant.                                           *)

\* Only the holder of the mutex has channels to visit, all of them registered.
VisitsRegistered ==
    \A p \in Publishers : todo[p] # {} => mu = p /\ todo[p] \subseteq subs

\* A channel is registered while its handler runs, and closed after.
Registered ==
    /\ \A c \in Conns : c \in subs <=> at[c] \in {"open", "leaving"}
    /\ \A c \in Conns : c \in closed <=> at[c] = "gone"
    /\ \A c \in Conns : at[c] = "away" => c \notin owed /\ buf[c] = <<>>

\* Nothing in a channel is newer than the newest event, which is in the
\* channels that Publish has visited but not in the others.
Recent ==
    \A c \in Conns :
        /\ \A i \in 1..Len(buf[c]) :
            /\ buf[c][i] <= events
            /\ (mu # NoProc /\ c \in todo[mu]) => buf[c][i] < events
        /\ seen[c] <= events
        /\ (mu # NoProc /\ c \in todo[mu]) => seen[c] < events

IInv ==
    /\ TypeOK
    /\ VisitsRegistered
    /\ Registered
    /\ NoLostWakeup
    /\ Recent
    /\ InOrder

=============================================================================
