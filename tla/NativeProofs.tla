---------------------------- MODULE NativeProofs ----------------------------
(***************************************************************************)
(* The two components of the exit node that does without gluetun.          *)
(*                                                                         *)
(* Gateway, for any peers, with every command failing at will: the routes  *)
(* into the tunnel never outlive the exception for its peer, a failed      *)
(* installation takes back what it added, and an armed kill switch lets no *)
(* client out by the LAN.                                                  *)
(*                                                                         *)
(* ConfigStore, for any locations and any number of draws, crashes and     *)
(* failed writes: the private key of a rendered wg0.conf stays, and a      *)
(* complete WriteAll leaves exactly the list it was given.                 *)
(***************************************************************************)
EXTENDS Gateway, ConfigStore, Naturals, Sequences, TLAPS

USE DEF W!Polling, W!call, W!wg0, W!ghosts, W!routesOnly

-----------------------------------------------------------------------------
(* The controller.                                                         *)

\* The routes' invariant holds at the start.
LEMMA WireguardInit == W!Init => W!IInv
BY EndpointAssumption DEF W!Init, W!IInv, W!TypeOK, W!RoutesInOrder, W!NoLoop, W!RolledBack

\* Every step of the controller keeps it.
LEMMA WireguardStep == W!IInv /\ [W!Next]_routing => W!IInv'
<1> SUFFICES ASSUME W!IInv, [W!Next]_routing PROVE W!IInv'
  OBVIOUS
<1> USE EndpointAssumption
<1> USE DEF W!IInv, W!TypeOK, W!RoutesInOrder, W!NoLoop, W!RolledBack
<1>1. CASE W!CallUp \/ W!CallDown
  BY <1>1 DEF W!CallUp, W!CallDown, W!Call
<1>2. CASE W!Loop
  BY <1>2 DEF W!Loop, W!UpReturns, W!UpGoes, W!Return
<1>3. CASE W!Look
  BY <1>3 DEF W!Look, W!UpReturns, W!UpGoes, W!Return
<1>4. CASE W!Pause
  BY <1>4 DEF W!Pause, W!UpReturns, W!UpGoes, W!Return
<1>5. CASE W!Down
  BY <1>5 DEF W!Down, W!LinkGone, W!Return
<1>6. CASE W!LinkUp
  BY <1>6 DEF W!LinkUp, W!Return
<1>7. CASE W!PeerRoute
  BY <1>7 DEF W!PeerRoute
<1>8. CASE W!HalfRoute
  BY <1>8 DEF W!HalfRoute, W!Return
<1>9. CASE W!UndoLow
  BY <1>9 DEF W!UndoLow, W!DeleteHalf
<1>10. CASE W!UndoHigh
  <2>1. W!TypeOK'
    BY <1>10 DEF W!UndoHigh, W!DeleteHalf, W!Return, W!Undone
  <2>2. W!RoutesInOrder' /\ W!NoLoop'
    <3>1. CASE halves' = halves \ {"high"} /\ UNCHANGED spoiled
      BY <1>10, <3>1 DEF W!UndoHigh, W!Return, W!Undone
    <3>2. CASE UNCHANGED halves /\ spoiled' = (spoiled \/ "high" \in halves)
      <4>1. spoiled' <=> spoiled \/ "high" \in halves
        BY <3>2
      <4>2. ~spoiled' => halves' = {}
        BY <1>10, <3>2, <4>1 DEF W!UndoHigh
      <4> QED
        BY <1>10, <3>2, <4>1, <4>2 DEF W!UndoHigh, W!Return, W!Undone
    <3> QED
      BY <1>10, <3>1, <3>2 DEF W!UndoHigh, W!DeleteHalf
  <2>3. W!RolledBack'
    BY <1>10 DEF W!UndoHigh, W!DeleteHalf, W!Return, W!Undone
  <2> QED
    BY <2>1, <2>2, <2>3
<1>11. CASE W!UndoPeer
  BY <1>11 DEF W!UndoPeer, W!Return, W!Undone
<1>12. ASSUME NEW e \in Endpoints, W!CallInstall(e) \/ W!AddPeerException(e)
       PROVE  W!IInv'
  BY <1>12 DEF W!CallInstall, W!AddPeerException, W!Call
<1>13. ASSUME NEW e \in Endpoints \cup {NoEndpoint}, W!CallRemove(e)
       PROVE  W!IInv'
  BY <1>13 DEF W!CallRemove, W!Call
<1>14. CASE W!QuickMakes \/ W!QuickKilled \/ W!Expire
  <2>1. CASE W!QuickMakes
    BY <2>1 DEF W!QuickMakes
  <2>2. CASE W!QuickKilled
    BY <2>2 DEF W!QuickKilled
  <2>3. CASE W!Expire
    BY <2>3 DEF W!Expire
  <2> QED
    BY <1>14, <2>1, <2>2, <2>3
<1>15. CASE W!QuickEnds
  <2>0. /\ quick' \in {"ok", "failed"}
        /\ UNCHANGED <<pc, op, arg, result, expired, exc, via, spoiled>>
        /\ UNCHANGED <<link, halves>> \/ (link' = FALSE /\ halves' = {})
    BY <1>15 DEF W!QuickEnds
  <2>1. CASE UNCHANGED <<link, halves>>
    BY <2>0, <2>1
  <2>2. CASE link' = FALSE /\ halves' = {}
    <3>1. link' \in BOOLEAN /\ halves' \in SUBSET {"low", "high"}
      BY <2>2
    <3>2. W!TypeOK'
      BY <2>0, <3>1
    <3>3. W!RoutesInOrder' /\ W!NoLoop' /\ W!RolledBack'
      BY <2>0, <2>2
    <3> QED
      BY <3>2, <3>3
  <2> QED
    BY <2>0, <2>1, <2>2
<1>16. CASE W!LinkDies
  <2>1. W!TypeOK'
    BY <1>16 DEF W!LinkDies, W!LinkGone
  <2>2. W!RoutesInOrder' /\ W!NoLoop'
    BY <1>16 DEF W!LinkDies, W!LinkGone
  <2>3. W!RolledBack'
    BY <1>16 DEF W!LinkDies, W!LinkGone
  <2> QED
    BY <2>1, <2>2, <2>3
<1>17. CASE UNCHANGED routing
  BY <1>17 DEF routing
<1> QED
  BY <1>1, <1>2, <1>3, <1>4, <1>5, <1>6, <1>7, <1>8, <1>9, <1>10, <1>11, <1>12,
     <1>13, <1>14, <1>15, <1>16, <1>17 DEF W!Next, W!Step,
       W!Poll, W!Install, W!Untimed

-----------------------------------------------------------------------------
(* The rules.                                                              *)

\* The base rules are six objects.
LEMMA SixSteps ==
    /\ DOMAIN N!Base = 1 .. 6 /\ Len(N!Base) = 6
    /\ \A i \in 1 .. 6 : N!Base[i] \in N!BaseObjects
    /\ N!BaseObjects = {N!Base[i] : i \in 1 .. 6}
BY DEF N!BaseObjects, N!Base

\* The rules' invariant holds at the start.
LEMMA RulesInit == N!Init => N!IInv
<1> SUFFICES ASSUME N!Init PROVE N!TypeOK /\ N!Built
  BY DEF N!IInv
<1>1. N!TypeOK
  <2>1. 1 \in DOMAIN N!Base
    BY SixSteps
  <2> QED
    BY <2>1 DEF N!Init, N!TypeOK
<1>2. N!Built
  BY DEF N!Init, N!Built
<1> QED
  BY <1>1, <1>2

\* Every step of the rules' manager keeps it.
LEMMA RulesStep == N!IInv /\ [N!Next]_rules => N!IInv'
<1> SUFFICES ASSUME N!IInv, [N!Next]_rules PROVE N!TypeOK' /\ N!Built'
  BY DEF N!IInv
<1>0. N!TypeOK /\ N!Built
  BY DEF N!IInv
<1>a. at \in 1 .. 6 /\ 1 \in DOMAIN N!Base /\ (at + 1 <= 6 => at + 1 \in DOMAIN N!Base)
  BY <1>0, SixSteps DEF N!TypeOK
<1>b. N!Base[at] \in N!BaseObjects
  BY <1>a, SixSteps
<1>1. CASE N!ApplyBase
  <2>1. N!TypeOK'
    BY <1>0, <1>1, <1>a DEF N!ApplyBase, N!TypeOK
  <2>2. N!Built'
    BY <1>0, <1>1 DEF N!ApplyBase, N!Built
  <2> QED
    BY <2>1, <2>2
<1>2. CASE N!BaseStep
  <2>1. objects' \in {objects, objects \cup {N!Base[at]}} /\ armed' = armed
    BY <1>2 DEF N!BaseStep, N!Adds, N!Fails
  <2>2. ~based /\ ~armed /\ \A i \in 1 .. at - 1 : N!Base[i] \in objects
    BY <1>0, <1>2 DEF N!BaseStep, N!Built
  <2>3. N!TypeOK'
    <3>1. objects' \in SUBSET (N!BaseObjects \cup N!KillSwitch)
      BY <1>0, <1>b, <2>1 DEF N!TypeOK
    <3>2. at' \in DOMAIN N!Base
      BY <1>2, <1>a, SixSteps DEF N!BaseStep
    <3> QED
      BY <1>0, <1>2, <2>1, <3>1, <3>2 DEF N!BaseStep, N!TypeOK
  <2>4. "drop" \notin N!BaseObjects
    BY DEF N!BaseObjects, N!Base
  <2>5. /\ objects' # {} => "table" \in objects'
        /\ "drop" \in objects' => "killswitch" \in objects'
    BY <1>0, <1>2, <1>b, <2>1, <2>4 DEF N!BaseStep, N!Adds, N!Fails, N!Built
  <2>6. CASE N!Adds(N!Base[at], "table") /\ at < 6 /\ at' = at + 1 /\ UNCHANGED <<stage, based>>
    <3>1. N!Base[at] \in objects' /\ objects \subseteq objects'
      BY <2>6 DEF N!Adds
    <3>2. \A i \in 1 .. at' - 1 : N!Base[i] \in objects'
      BY <1>a, <2>2, <2>6, <3>1
    <3> QED
      BY <1>2, <2>1, <2>2, <2>3, <2>5, <2>6, <3>2 DEF N!BaseStep, N!Built
  <2>7. CASE N!Adds(N!Base[at], "table") /\ at = 6 /\ at' = 1 /\ stage' = "idle" /\ based' = TRUE
    <3>1. \A i \in 1 .. 6 : N!Base[i] \in objects'
      BY <2>2, <2>7 DEF N!Adds
    <3>2. N!BaseObjects \subseteq objects'
      BY <3>1, SixSteps
    <3> QED
      BY <2>1, <2>2, <2>3, <2>5, <2>7, <3>2 DEF N!Built
  <2>8. CASE stage' = "idle" /\ at' = 1 /\ based' = based
    BY <2>1, <2>2, <2>3, <2>5, <2>8 DEF N!Built
  <2> QED
    BY <1>2, <2>3, <2>6, <2>7, <2>8, SixSteps DEF N!BaseStep
<1>3. CASE N!ArmKillSwitch \/ N!DisarmKillSwitch
  <2>1. N!TypeOK'
    BY <1>0, <1>3 DEF N!ArmKillSwitch, N!DisarmKillSwitch, N!TypeOK
  <2>2. ASSUME objects' = objects \ {"killswitch", "drop"}
        PROVE  /\ objects' # {} => "table" \in objects'
               /\ "drop" \notin objects'
               /\ N!BaseObjects \subseteq objects => N!BaseObjects \subseteq objects'
    <3>1. "drop" \notin N!BaseObjects /\ "killswitch" \notin N!BaseObjects
      BY DEF N!BaseObjects, N!Base
    <3> QED
      BY <1>0, <2>2, <3>1 DEF N!Built
  <2>3. N!Built'
    BY <1>0, <1>3, <2>2 DEF N!ArmKillSwitch, N!DisarmKillSwitch, N!KillSwitch, N!Built
  <2> QED
    BY <2>1, <2>3
<1>4. CASE N!AddChain \/ N!AddRule
  <2>1. N!TypeOK'
    BY <1>0, <1>4 DEF N!AddChain, N!AddRule, N!Adds, N!Fails, N!TypeOK, N!KillSwitch
  <2>2. N!Built'
    BY <1>0, <1>4 DEF N!AddChain, N!AddRule, N!Adds, N!Fails, N!Built, N!KillSwitch
  <2> QED
    BY <2>1, <2>2
<1>5. CASE UNCHANGED rules
  BY <1>0, <1>5 DEF rules, N!TypeOK, N!Built
<1> QED
  BY <1>1, <1>2, <1>3, <1>4, <1>5 DEF N!Next, N!Step

-----------------------------------------------------------------------------
(* The gateway: controller and rules side by side.                         *)

\* Every step of the composition keeps both.
LEMMA StepInv == IInv /\ [Next]_vars => IInv'
<1>1. [Next]_vars => [W!Next]_routing /\ [N!Next]_rules
  BY DEF Next, vars
<1> QED
  BY <1>1, WireguardStep, RulesStep DEF IInv

\* The inductive invariants of the parts hold of the whole: an installation
\* that failed has taken back its routes, and what was built is there.
THEOREM Invariance == Spec => []IInv
<1>1. Init => IInv
  BY WireguardInit, RulesInit DEF Init, IInv
<1> QED
  BY <1>1, StepInv, PTL DEF Spec

\* Type correctness of both parts.
THEOREM TypeCorrect == Spec => [](W!TypeOK /\ N!TypeOK)
<1>1. IInv => W!TypeOK /\ N!TypeOK
  BY DEF IInv, W!IInv, N!IInv
<1> QED
  BY <1>1, Invariance, PTL

\* WireGuard's packets to its peer never enter the tunnel.
THEOREM LoopFree == Spec => []NoLoop
<1>1. IInv => NoLoop
  BY DEF IInv, W!IInv, NoLoop
<1> QED
  BY <1>1, Invariance, PTL

\* An armed kill switch lets no client's packet out by the LAN.
THEOREM KillSwitchHolds == Spec => []ArmedBlocks
<1>1. IInv => ArmedBlocks
  <2> SUFFICES ASSUME IInv, armed PROVE "lan" \notin ClientPath
    BY DEF ArmedBlocks
  <2>1. "drop" \in objects
    BY DEF IInv, N!IInv, N!Built, N!KillSwitch
  <2> QED
    BY <2>1 DEF ClientPath
<1> QED
  BY <1>1, Invariance, PTL

-----------------------------------------------------------------------------
(* Why CallsEnd: an operation has a bounded number of commands.            *)

\* The steps that an operation has still to take at most, once time is up.
StepsToReturn ==
    [idle |-> 0, loop |-> 3, look |-> 2, pause |-> 1, check |-> 2, grace |-> 1, down |-> 1,
     linkup |-> 7, peer |-> 6, low |-> 5, high |-> 4,
     undolow |-> 3, undohigh |-> 2, undopeer |-> 1]

\* A step brings the operation nearer to its end, or leaves it where it is; only a
\* poll within the ten seconds begins again, and nothing gives it more time.
LEMMA StepReturns ==
    ASSUME IInv, [Next]_vars, pc # "idle"
    PROVE  /\ \/ pc' = pc
              \/ StepsToReturn[pc'] < StepsToReturn[pc]
              \/ pc = "pause" /\ pc' = "loop" /\ ~expired
           /\ expired /\ pc' # "idle" => expired'
<1>1. pc \in DOMAIN StepsToReturn
  BY DEF IInv, W!IInv, W!TypeOK, StepsToReturn
<1>2. CASE UNCHANGED routing
  BY <1>2 DEF routing
<1>3. CASE W!Loop \/ W!Look \/ W!Pause
  BY <1>3 DEF W!Loop, W!Look, W!Pause, W!UpReturns, W!Return, W!UpGoes, StepsToReturn
<1>4. CASE W!Down \/ W!LinkUp \/ W!PeerRoute \/ W!HalfRoute
  BY <1>4 DEF W!Down, W!LinkUp, W!PeerRoute, W!HalfRoute, W!Return, StepsToReturn
<1>5. CASE W!UndoLow \/ W!UndoHigh \/ W!UndoPeer
  BY <1>5 DEF W!UndoLow, W!UndoHigh, W!UndoPeer, W!Return, StepsToReturn
<1>6. CASE W!QuickMakes \/ W!QuickEnds \/ W!QuickKilled \/ W!Expire \/ W!LinkDies
  BY <1>6 DEF W!QuickMakes, W!QuickEnds, W!QuickKilled, W!Expire, W!LinkDies
<1>7. ASSUME NEW o, NEW e, NEW first, W!Call(o, e, first) PROVE FALSE
  BY <1>7 DEF W!Call
<1>8. W!Next => W!Step \/ W!QuickMakes \/ W!QuickEnds \/ W!QuickKilled \/ W!Expire \/ W!LinkDies
  BY <1>7 DEF W!Next, W!CallUp, W!CallDown, W!CallInstall, W!CallRemove, W!AddPeerException
<1>9. W!Next \/ UNCHANGED routing
  BY DEF Next, vars
<1> QED
  BY <1>2, <1>3, <1>4, <1>5, <1>6, <1>8, <1>9 DEF W!Step, W!Poll, W!Install, W!Untimed

\* Whatever wg-quick, wg0 and the rules do meanwhile, an operation on wg0 is over after
\* at most seven of its commands, not counting the polls of Up within its ten seconds.
THEOREM CallsGoOn ==
    Spec => [][pc # "idle" =>
                 /\ \/ pc' = pc
                    \/ StepsToReturn[pc'] < StepsToReturn[pc]
                    \/ pc = "pause" /\ pc' = "loop" /\ ~expired
                 /\ expired /\ pc' # "idle" => expired']_vars
<1>1. IInv /\ [Next]_vars =>
        [pc # "idle" =>
            /\ \/ pc' = pc
               \/ StepsToReturn[pc'] < StepsToReturn[pc]
               \/ pc = "pause" /\ pc' = "loop" /\ ~expired
            /\ expired /\ pc' # "idle" => expired']_vars
  BY StepReturns
<1> QED
  BY <1>1, Invariance, PTL DEF Spec

-----------------------------------------------------------------------------
(* ConfigStore's lists.                                                    *)

HIDE DEF W!Polling, W!call, W!wg0, W!ghosts, W!routesOnly

USE ConfigAssumption

\* A list gives a version to each of its slugs.
LEMMA ListType ==
    ASSUME NEW l \in Lists
    PROVE  DOMAIN l \in SUBSET Slugs /\ \A s \in DOMAIN l : l[s] \in Versions
<1>1. PICK S \in SUBSET Slugs : l \in [S -> Versions]
  BY DEF Lists
<1> QED
  BY <1>1

-----------------------------------------------------------------------------
(* Rendering: StoreTypeOK, PubMarksPriv and KeyKept.                            *)

RenderInv == RenderTypeOK /\ PubMarksPriv /\ KeyKept

\* The keys' invariant holds at the start.
LEMMA RenderInit == StoreInit => RenderInv
BY DEF StoreInit, RenderInv, RenderTypeOK, PubMarksPriv, KeyKept

\* Every step of a rendering keeps it, and so does a restart.
LEMMA RenderStep == RenderInv /\ (Render \/ Restart \/ UNCHANGED rendering) => RenderInv'
<1> SUFFICES ASSUME RenderInv, Render \/ Restart \/ UNCHANGED rendering PROVE RenderInv'
  OBVIOUS
<1> USE DEF RenderInv, RenderTypeOK, PubMarksPriv, KeyKept, Goto
<1>1. CASE LoadServer
  BY <1>1 DEF LoadServer
<1>2. CASE UseEnvKey
  BY <1>2 DEF UseEnvKey
<1>3. CASE ReadKeys
  BY <1>3 DEF ReadKeys
<1>4. CASE DrawKey
  BY <1>4 DEF DrawKey
<1>5. CASE WritePriv
  BY <1>5 DEF WritePriv
<1>6. CASE TruncatePub
  BY <1>6 DEF TruncatePub
<1>7. CASE WritePub
  BY <1>7 DEF WritePub
<1>8. CASE TruncateConf
  BY <1>8 DEF TruncateConf
<1>9. CASE WriteConf
  BY <1>9 DEF WriteConf
<1>10. CASE RenderFails
  BY <1>10 DEF RenderFails
<1>11. CASE Restart
  BY <1>11 DEF Restart
<1>12. CASE UNCHANGED rendering
  BY <1>12 DEF rendering
<1> QED
  BY <1>1, <1>2, <1>3, <1>4, <1>5, <1>6, <1>7, <1>8, <1>9, <1>10, <1>11, <1>12
  DEF Render

-----------------------------------------------------------------------------
(* The list: what WriteAll has begun, written and removed.                 *)

ListInv == ListTypeOK /\ Progress /\ ListExact

\* The list's invariant holds at the start.
LEMMA ListInit == StoreInit => ListInv
<1> SUFFICES ASSUME StoreInit PROVE ListInv
  OBVIOUS
<1>1. servers \in Lists /\ DOMAIN servers = {}
  BY DEF StoreInit, Lists
<1> QED
  BY <1>1 DEF StoreInit, ListInv, ListTypeOK, Progress, ListExact

\* Every step of WriteAll keeps it, and so does a restart.
LEMMA ListStep == ListInv /\ (Refresh \/ Restart \/ UNCHANGED listing) => ListInv'
<1> SUFFICES ASSUME ListInv, Refresh \/ Restart \/ UNCHANGED listing PROVE ListInv'
  OBVIOUS
<1> USE DEF ListInv, ListTypeOK, Progress, ListExact
<1>0. DOMAIN servers \in SUBSET Slugs /\ \A s \in DOMAIN servers : servers[s] \in Versions
  BY ListType
<1>1. CASE BeginRefresh
  <2>1. DOMAIN servers' \in SUBSET Slugs
    BY <1>1, ListType DEF BeginRefresh
  <2>2. DOMAIN servers' \ todo' = {}
    BY <1>1 DEF BeginRefresh
  <2> QED
    BY <1>1, <2>1, <2>2 DEF BeginRefresh
<1>2. CASE TruncateServer
  <2>1. PICK s \in todo : files' = [files EXCEPT ![s] = Empty] /\ todo' = todo \ {s}
    BY <1>2 DEF TruncateServer
  <2>2. s \in DOMAIN servers /\ s \in Slugs /\ files'[s] = Empty /\ s \in DOMAIN servers \ todo'
    BY <1>2, <2>1 DEF TruncateServer
  <2>3. \A r \in (DOMAIN servers \ todo') \ {s} : files'[r] = servers[r]
    BY <1>0, <1>2, <2>1 DEF TruncateServer
  <2> QED
    BY <1>0, <1>2, <2>1, <2>2, <2>3 DEF TruncateServer
<1>3. CASE WriteServer
  <2>1. PICK e \in DOMAIN servers \ todo :
            files[e] = Empty /\ \A s \in (DOMAIN servers \ todo) \ {e} : files[s] = servers[s]
    BY <1>3 DEF WriteServer
  <2>2. PICK s \in DOMAIN servers \ todo :
            files[s] = Empty /\ files' = [files EXCEPT ![s] = servers[s]]
    BY <1>3 DEF WriteServer
  <2>3. s = e
    BY <1>0, <2>1, <2>2
  <2>4. \A r \in DOMAIN servers \ todo : files'[r] = servers[r]
    BY <1>0, <2>1, <2>2, <2>3
  <2>5. files' \in [Slugs -> Versions \cup {Absent, Empty}]
    BY <1>0, <2>2
  <2> QED
    BY <1>0, <1>3, <2>4, <2>5 DEF WriteServer
<1>4. CASE RefreshFails
  BY <1>0, <1>4 DEF RefreshFails
<1>5. CASE ReadDir
  BY <1>0, <1>5 DEF ReadDir
<1>6. CASE Remove
  <2>1. PICK s \in todo :
            /\ todo' = todo \ {s}
            /\ \/ files' = [files EXCEPT ![s] = Absent] /\ UNCHANGED skipped
               \/ UNCHANGED files /\ skipped' = TRUE
    BY <1>6 DEF Remove
  <2>2. s \in Slugs /\ s \notin DOMAIN servers
    BY <1>6, <2>1 DEF Remove
  <2>3. CASE files' = [files EXCEPT ![s] = Absent] /\ UNCHANGED skipped
    BY <1>0, <1>6, <2>1, <2>2, <2>3 DEF Remove
  <2>4. CASE UNCHANGED files /\ skipped' = TRUE
    BY <1>0, <1>6, <2>1, <2>2, <2>4 DEF Remove
  <2> QED
    BY <2>1, <2>3, <2>4
<1>7. CASE RefreshReturns
  BY <1>0, <1>7 DEF RefreshReturns
<1>8. CASE Restart
  BY <1>0, <1>8 DEF Restart
<1>9. CASE UNCHANGED listing
  BY <1>9 DEF listing
<1> QED
  BY <1>1, <1>2, <1>3, <1>4, <1>5, <1>6, <1>7, <1>8, <1>9 DEF Refresh

-----------------------------------------------------------------------------
(* The store.                                                              *)

\* The inductive invariant, of both goroutines together.
THEOREM StoreInvariance == StoreSpec => []StoreInv
<1>1. StoreInit => RenderInv /\ ListInv
  BY RenderInit, ListInit
<1>2. RenderInv /\ ListInv /\ [StoreNext]_storeVars => RenderInv' /\ ListInv'
  <2> SUFFICES ASSUME RenderInv, ListInv, [StoreNext]_storeVars PROVE RenderInv' /\ ListInv'
    OBVIOUS
  <2>1. Render \/ Restart \/ UNCHANGED rendering
    BY DEF StoreNext, storeVars
  <2>2. Refresh \/ Restart \/ UNCHANGED listing
    BY DEF StoreNext, storeVars
  <2> QED
    BY <2>1, <2>2, RenderStep, ListStep
<1>3. RenderInv /\ ListInv => StoreInv
  BY DEF RenderInv, ListInv, StoreInv, StoreTypeOK
<1> QED
  BY <1>1, <1>2, <1>3, PTL DEF StoreSpec

\* Type correctness.
THEOREM StoreTypeCorrect == StoreSpec => []StoreTypeOK
<1>1. StoreInv => StoreTypeOK
  BY DEF StoreInv
<1> QED
  BY <1>1, StoreInvariance, PTL

\* A private key in use is never replaced.
THEOREM KeyIsKept == StoreSpec => []KeyKept
<1>1. StoreInv => KeyKept
  BY DEF StoreInv
<1> QED
  BY <1>1, StoreInvariance, PTL

\* A complete WriteAll heals whatever earlier crashes have left.
THEOREM ListIsExact == StoreSpec => []ListExact
<1>1. StoreInv => ListExact
  BY DEF StoreInv
<1> QED
  BY <1>1, StoreInvariance, PTL

=============================================================================
