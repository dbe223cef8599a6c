--------------------------- MODULE EventBusProofs ---------------------------
(***************************************************************************)
(* For any number of publishers and connections, and any buffer length:    *)
(* no send on a closed channel, no lost wakeup, no event out of order.     *)
(***************************************************************************)
EXTENDS EventBus, TLAPS

\* A channel has room for an event.
LEMMA CapacityPositive == Capacity \in Nat /\ Capacity > 0
BY BusAssumption DEF Capacity

\* After Send, whether the event went in or was dropped, the channel holds
\* something: a full channel is not empty.
LEMMA SendFills ==
    ASSUME TypeOK, NEW p \in Publishers, NEW c \in Conns, Send(p, c)
    PROVE  buf'[c] # <<>>
<1>1. buf[c] \in Seq(Nat) /\ events \in Nat
  BY DEF TypeOK
<1>2. CASE Len(buf[c]) < Capacity
  <2>1. buf'[c] = Append(buf[c], events)
    BY <1>2 DEF Send, TypeOK
  <2>2. \A s \in Seq(Nat), n \in Nat : Append(s, n) # <<>>
    OBVIOUS
  <2> QED
    BY <1>1, <2>1, <2>2
<1>3. CASE ~(Len(buf[c]) < Capacity)
  <2>1. buf'[c] = buf[c]
    BY <1>3 DEF Send, TypeOK
  <2>2. Len(buf[c]) # 0
    BY <1>1, <1>3, CapacityPositive
  <2> QED
    BY <1>1, <2>1, <2>2
<1> QED
  BY <1>2, <1>3

\* The invariant holds at the start.
LEMMA InitInv == Init => IInv
BY BusAssumption DEF Init, IInv, TypeOK, VisitsRegistered, Registered,
   NoLostWakeup, Recent, InOrder

\* Every step keeps the invariant.
LEMMA StepInv == IInv /\ [Next]_vars => IInv'
<1> SUFFICES ASSUME IInv, [Next]_vars PROVE IInv'
  OBVIOUS
<1> USE BusAssumption, CapacityPositive DEF IInv
<1>1. ASSUME NEW p \in Publishers, Lock(p) PROVE IInv'
  <2>1. TypeOK'
    BY <1>1 DEF Lock, TypeOK
  <2>2. VisitsRegistered'
    BY <1>1 DEF Lock, VisitsRegistered, TypeOK, Registered
  <2>3. Registered'
    BY <1>1 DEF Lock, Registered, TypeOK
  <2>4. NoLostWakeup'
    BY <1>1 DEF Lock, NoLostWakeup, TypeOK, VisitsRegistered, Registered
  <2>5. Recent'
    BY <1>1 DEF Lock, Recent, TypeOK, VisitsRegistered, Registered, InOrder
  <2>6. InOrder'
    BY <1>1 DEF Lock, InOrder, TypeOK, Recent, VisitsRegistered
  <2> QED
    BY <2>1, <2>2, <2>3, <2>4, <2>5, <2>6
<1>2. ASSUME NEW p \in Publishers, NEW c \in Conns, Send(p, c) PROVE IInv'
  <2>1. TypeOK'
    BY <1>2 DEF Send, TypeOK
  <2>2. VisitsRegistered'
    BY <1>2 DEF Send, VisitsRegistered, TypeOK, Registered
  <2>3. Registered'
    BY <1>2 DEF Send, Registered, VisitsRegistered, TypeOK
  <2>4. NoLostWakeup'
    <3>1. buf'[c] # <<>>
      BY <1>2, SendFills
    <3>2. \A d \in Conns \ {c} : buf'[d] = buf[d]
      BY <1>2 DEF Send, TypeOK
    <3>3. at' = at /\ owed' = owed \cup {c} /\ owed \subseteq Conns
      BY <1>2 DEF Send, TypeOK
    <3> QED
      BY <3>1, <3>2, <3>3 DEF NoLostWakeup
  <2>5. Recent'
    BY <1>2 DEF Send, Recent, TypeOK, VisitsRegistered, Registered, InOrder
  <2>6. InOrder'
    <3>1. mu = p /\ mu # NoProc /\ c \in todo[mu]
      BY <1>2 DEF Send, VisitsRegistered
    <3>2. /\ buf[c] \in Seq(Nat) /\ events \in Nat /\ seen[c] \in Nat
          /\ \A i \in 1..Len(buf[c]) : buf[c][i] \in Nat
      BY DEF TypeOK
    <3>3. /\ seen[c] < events
          /\ \A i \in 1..Len(buf[c]) : buf[c][i] < events
      BY <3>1 DEF Recent
    <3>4. /\ seen' = seen
          /\ \A d \in Conns \ {c} : buf'[d] = buf[d]
      BY <1>2 DEF Send, TypeOK
    <3>5. CASE buf'[c] = buf[c]
      BY <3>4, <3>5 DEF InOrder
    <3>6. CASE buf'[c] = Append(buf[c], events)
      <4>1. /\ Len(buf'[c]) = Len(buf[c]) + 1
            /\ buf'[c][Len(buf[c]) + 1] = events
            /\ \A i \in 1..Len(buf[c]) : buf'[c][i] = buf[c][i]
        BY <3>2, <3>6
      <4>2. \A i \in 1..Len(buf'[c]) : seen[c] < buf'[c][i]
        BY <3>2, <3>3, <4>1 DEF InOrder
      <4>3. \A i, j \in 1..Len(buf'[c]) : i < j => buf'[c][i] < buf'[c][j]
        <5>1. SUFFICES ASSUME NEW i \in 1..Len(buf'[c]),
                              NEW j \in 1..Len(buf'[c]), i < j
                       PROVE  buf'[c][i] < buf'[c][j]
          OBVIOUS
        <5>2. i \in 1..Len(buf[c]) /\ buf'[c][i] = buf[c][i]
          BY <3>2, <4>1, <5>1
        <5>3. CASE j = Len(buf[c]) + 1
          BY <3>3, <4>1, <5>2, <5>3
        <5>4. CASE j # Len(buf[c]) + 1
          <6>1. j \in 1..Len(buf[c]) /\ buf'[c][j] = buf[c][j]
            BY <3>2, <4>1, <5>4
          <6> QED
            BY <5>1, <5>2, <6>1 DEF InOrder
        <5> QED
          BY <5>3, <5>4
      <4> QED
        BY <3>4, <4>2, <4>3 DEF InOrder
    <3> QED
      BY <1>2, <3>5, <3>6 DEF Send, TypeOK
  <2> QED
    BY <2>1, <2>2, <2>3, <2>4, <2>5, <2>6
<1>3. ASSUME NEW p \in Publishers, Unlock(p) PROVE IInv'
  <2>1. TypeOK'
    BY <1>3 DEF Unlock, TypeOK
  <2>2. VisitsRegistered'
    BY <1>3 DEF Unlock, VisitsRegistered, TypeOK, Registered
  <2>3. Registered'
    BY <1>3 DEF Unlock, Registered, TypeOK
  <2>4. NoLostWakeup'
    BY <1>3 DEF Unlock, NoLostWakeup, TypeOK, VisitsRegistered, Registered
  <2>5. Recent'
    BY <1>3 DEF Unlock, Recent, TypeOK, VisitsRegistered, Registered, InOrder
  <2>6. InOrder'
    BY <1>3 DEF Unlock, InOrder, TypeOK, Recent, VisitsRegistered
  <2> QED
    BY <2>1, <2>2, <2>3, <2>4, <2>5, <2>6
<1>4. ASSUME NEW c \in Conns, Subscribe(c) PROVE IInv'
  <2>1. TypeOK'
    BY <1>4 DEF Subscribe, TypeOK
  <2>2. VisitsRegistered'
    BY <1>4 DEF Subscribe, VisitsRegistered, TypeOK, Registered
  <2>3. Registered'
    BY <1>4 DEF Subscribe, Registered, TypeOK
  <2>4. NoLostWakeup'
    BY <1>4 DEF Subscribe, NoLostWakeup, TypeOK, VisitsRegistered, Registered
  <2>5. Recent'
    BY <1>4 DEF Subscribe, Recent, TypeOK, VisitsRegistered, Registered, InOrder
  <2>6. InOrder'
    BY <1>4 DEF Subscribe, InOrder, TypeOK, Recent, VisitsRegistered
  <2> QED
    BY <2>1, <2>2, <2>3, <2>4, <2>5, <2>6
<1>5. ASSUME NEW c \in Conns, Receive(c) PROVE IInv'
  <2>1. TypeOK'
    BY <1>5 DEF Receive, TypeOK
  <2>2. VisitsRegistered'
    BY <1>5 DEF Receive, VisitsRegistered, TypeOK, Registered
  <2>3. Registered'
    BY <1>5 DEF Receive, Registered, TypeOK
  <2>4. NoLostWakeup'
    BY <1>5 DEF Receive, NoLostWakeup, TypeOK, VisitsRegistered, Registered
  <2>5. Recent'
    BY <1>5 DEF Receive, Recent, TypeOK, VisitsRegistered, Registered, InOrder
  <2>6. InOrder'
    BY <1>5 DEF Receive, InOrder, TypeOK, Recent, VisitsRegistered
  <2> QED
    BY <2>1, <2>2, <2>3, <2>4, <2>5, <2>6
<1>6. ASSUME NEW c \in Conns, Disconnect(c) PROVE IInv'
  <2>1. TypeOK'
    BY <1>6 DEF Disconnect, TypeOK
  <2>2. VisitsRegistered'
    BY <1>6 DEF Disconnect, VisitsRegistered, TypeOK, Registered
  <2>3. Registered'
    BY <1>6 DEF Disconnect, Registered, TypeOK
  <2>4. NoLostWakeup'
    BY <1>6 DEF Disconnect, NoLostWakeup, TypeOK, VisitsRegistered, Registered
  <2>5. Recent'
    BY <1>6 DEF Disconnect, Recent, TypeOK, VisitsRegistered, Registered,
       InOrder
  <2>6. InOrder'
    BY <1>6 DEF Disconnect, InOrder, TypeOK, Recent, VisitsRegistered
  <2> QED
    BY <2>1, <2>2, <2>3, <2>4, <2>5, <2>6
<1>7. ASSUME NEW c \in Conns, Unsubscribe(c) PROVE IInv'
  <2>1. TypeOK'
    BY <1>7 DEF Unsubscribe, TypeOK
  <2>2. VisitsRegistered'
    BY <1>7 DEF Unsubscribe, VisitsRegistered, TypeOK, Registered
  <2>3. Registered'
    BY <1>7 DEF Unsubscribe, Registered, TypeOK
  <2>4. NoLostWakeup'
    BY <1>7 DEF Unsubscribe, NoLostWakeup, TypeOK, VisitsRegistered, Registered
  <2>5. Recent'
    BY <1>7 DEF Unsubscribe, Recent, TypeOK, VisitsRegistered, Registered,
       InOrder
  <2>6. InOrder'
    BY <1>7 DEF Unsubscribe, InOrder, TypeOK, Recent, VisitsRegistered
  <2> QED
    BY <2>1, <2>2, <2>3, <2>4, <2>5, <2>6
<1>8. CASE UNCHANGED vars
  BY <1>8 DEF vars, TypeOK, VisitsRegistered, Registered, NoLostWakeup,
     Recent, InOrder
<1> QED
  BY <1>1, <1>2, <1>3, <1>4, <1>5, <1>6, <1>7, <1>8 DEF Next, Publish, Handle

\* The strengthening holds in every reachable state.
THEOREM Invariance == Spec => []IInv
BY InitInv, StepInv, PTL DEF Spec

\* Type correctness.
THEOREM TypeCorrect == Spec => []TypeOK
<1>1. IInv => TypeOK
  BY DEF IInv
<1> QED
  BY <1>1, Invariance, PTL

\* Publish never panics on a closed channel.
THEOREM NoPanic == Spec => []NoSendOnClosed
<1>1. IInv => NoSendOnClosed
  BY DEF IInv, TypeOK, VisitsRegistered, Registered, NoSendOnClosed
<1> QED
  BY <1>1, Invariance, PTL

\* Dropping events when a channel is full loses none of the wakeups.
THEOREM WakeupsKept == Spec => []NoLostWakeup
<1>1. IInv => NoLostWakeup
  BY DEF IInv
<1> QED
  BY <1>1, Invariance, PTL

\* Every client sees the events in the order of publication.
THEOREM OrderKept == Spec => []InOrder
<1>1. IInv => InOrder
  BY DEF IInv
<1> QED
  BY <1>1, Invariance, PTL

-----------------------------------------------------------------------------
(* The bus implements Signal.                                              *)

\* The bus starts as a signal does.
LEMMA InitSignal == Init => Wakes!Init
BY DEF Init, Wakes!Init, Listening

\* Each step of the bus is a step of the signal, or changes neither who
\* listens nor who of them is owed a wakeup.
LEMMA StepSignal == IInv /\ [Next]_vars => [Wakes!Next]_(Wakes!vars)
<1> SUFFICES ASSUME IInv, [Next]_vars PROVE [Wakes!Next]_(Wakes!vars)
  OBVIOUS
<1> USE DEF IInv, TypeOK, Listening
<1>1. ASSUME NEW p \in Publishers, Lock(p) PROVE UNCHANGED Wakes!vars
  BY <1>1 DEF Lock, Wakes!vars
<1>2. ASSUME NEW p \in Publishers, NEW c \in Conns, Send(p, c)
      PROVE  Wakes!Raise(c) \/ UNCHANGED Wakes!vars
  <2>1. /\ at' = at /\ owed' = owed \cup {c}
        /\ \A d \in Conns \ {c} : buf'[d] = buf[d]
    BY <1>2 DEF Send
  <2>2. buf'[c] # <<>>
    BY <1>2, SendFills
  <2>3. CASE at[c] = "open"
    BY <2>1, <2>2, <2>3 DEF Wakes!Raise
  <2>4. CASE at[c] # "open"
    BY <2>1, <2>4 DEF Wakes!vars
  <2> QED
    BY <2>3, <2>4
<1>3. ASSUME NEW p \in Publishers, Unlock(p) PROVE UNCHANGED Wakes!vars
  BY <1>3 DEF Unlock, Wakes!vars
<1>4. ASSUME NEW c \in Conns, Subscribe(c) PROVE Wakes!Join(c)
  <2>1. /\ at[c] = "away" /\ at' = [at EXCEPT ![c] = "open"]
        /\ owed' = owed /\ buf' = buf
    BY <1>4 DEF Subscribe
  <2>2. c \notin owed /\ buf[c] = <<>>
    BY <2>1 DEF Registered
  <2>3. Listening' = Listening \cup {c} /\ c \notin Listening
    BY <2>1
  <2> QED
    BY <2>1, <2>2, <2>3 DEF Wakes!Join
<1>5. ASSUME NEW c \in Conns, Receive(c) PROVE Wakes!Look(c)
  <2>1. /\ at' = at /\ at[c] = "open"
        /\ owed' = owed \ {c} /\ buf[c] # <<>>
        /\ \A d \in Conns \ {c} : buf'[d] = buf[d]
    BY <1>5 DEF Receive
  <2> QED
    BY <2>1 DEF Wakes!Look
<1>6. ASSUME NEW c \in Conns, Disconnect(c) PROVE Wakes!Leave(c)
  <2>1. /\ at[c] = "open" /\ at' = [at EXCEPT ![c] = "leaving"]
        /\ owed' = owed /\ buf' = buf
    BY <1>6 DEF Disconnect
  <2>2. Listening' = Listening \ {c} /\ c \in Listening
    BY <2>1
  <2> QED
    BY <2>1, <2>2 DEF Wakes!Leave
<1>7. ASSUME NEW c \in Conns, Unsubscribe(c) PROVE UNCHANGED Wakes!vars
  <2>1. /\ at[c] = "leaving" /\ at' = [at EXCEPT ![c] = "gone"]
        /\ owed' = owed /\ buf' = buf
    BY <1>7 DEF Unsubscribe
  <2> QED
    BY <2>1 DEF Wakes!vars
<1>8. CASE UNCHANGED vars
  BY <1>8 DEF vars, Wakes!vars
<1> QED
  BY <1>1, <1>2, <1>3, <1>4, <1>5, <1>6, <1>7, <1>8
     DEF Next, Publish, Handle, Wakes!Next

\* The bus is a signal to those who listen, however many publish at once.
THEOREM Refinement == Spec => WakesSpec
BY Invariance, InitSignal, StepSignal, PTL DEF Spec, WakesSpec, Wakes!Spec

-----------------------------------------------------------------------------
(* Why NobodyWaits: nobody gives the holder of the mutex more to do.       *)

\* A step moves each Publish on, or leaves it where it is.
LEMMA StepPublish ==
    ASSUME IInv, [Next]_vars, NEW p \in Publishers, mu = p
    PROVE  \/ mu' = p /\ UNCHANGED subs /\ \E S \in {{}} \cup {{c} : c \in todo[p]} : todo'[p] = todo[p] \ S
           \/ mu' = NoProc /\ UNCHANGED subs /\ todo[p] = {}
<1>1. p # NoProc /\ todo \in [Publishers -> SUBSET Conns]
  BY BusAssumption DEF IInv, TypeOK
<1>2. CASE UNCHANGED <<mu, subs, todo>>
  BY <1>2
<1>3. ASSUME NEW q \in Publishers, Lock(q) PROVE FALSE
  BY <1>1, <1>3 DEF Lock
<1>4. ASSUME NEW q \in Publishers, NEW c \in Conns, Send(q, c)
      PROVE  mu' = p /\ UNCHANGED subs /\ \E d \in todo[p] : todo'[p] = todo[p] \ {d}
  <2>1. q = p
    BY <1>4 DEF Send, IInv, VisitsRegistered
  <2> QED
    BY <1>1, <1>4, <2>1 DEF Send
<1>5. ASSUME NEW q \in Publishers, Unlock(q)
      PROVE  mu' = NoProc /\ UNCHANGED subs /\ todo[p] = {}
  BY <1>5 DEF Unlock
<1>6. ASSUME NEW c \in Conns, Handle(c) PROVE UNCHANGED <<mu, subs, todo>>
  BY <1>1, <1>6 DEF Handle, Subscribe, Receive, Disconnect, Unsubscribe
<1>7. CASE UNCHANGED vars
  BY <1>7 DEF vars
<1> QED
  BY <1>2, <1>3, <1>4, <1>5, <1>6, <1>7 DEF Next, Publish

\* A Publish visits the channels that were registered when it locked, each once, and
\* then unlocks: no client that comes, leaves or does not read adds to that.
THEOREM PublishGoesOn ==
    Spec => [][\A p \in Publishers : mu = p =>
                  \/ /\ mu' = p
                     /\ UNCHANGED subs
                     /\ \E S \in {{}} \cup {{c} : c \in todo[p]} : todo'[p] = todo[p] \ S
                  \/ mu' = NoProc /\ UNCHANGED subs /\ todo[p] = {}]_vars
<1>1. IInv /\ [Next]_vars =>
        [\A p \in Publishers : mu = p =>
            \/ /\ mu' = p
               /\ UNCHANGED subs
               /\ \E S \in {{}} \cup {{c} : c \in todo[p]} : todo'[p] = todo[p] \ S
            \/ mu' = NoProc /\ UNCHANGED subs /\ todo[p] = {}]_vars
  BY StepPublish
<1> QED
  BY <1>1, Invariance, PTL DEF Spec

=============================================================================
