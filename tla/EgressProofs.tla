---------------------------- MODULE EgressProofs ----------------------------
(***************************************************************************)
(* Whatever the settings do, and however often the container or the host   *)
(* restarts: the watcher's last_mode tells where the packets go, and the   *)
(* host's own connection is used only for a reason.                        *)
(***************************************************************************)
EXTENDS Egress, TLAPS

USE DEF Modes, Rules, Phases

-----------------------------------------------------------------------------
\* The invariant holds at the start.
LEMMA InitInv == Init => IInv
<1> SUFFICES ASSUME Init PROVE IInv
  OBVIOUS
<1>1. /\ toggle \in BOOLEAN /\ userOn \in BOOLEAN /\ api \in BOOLEAN
      /\ admits \in BOOLEAN /\ tun \in BOOLEAN /\ vpn \in BOOLEAN
  BY EgressAssumption DEF Init
<1>2. TypeOK
  BY <1>1 DEF Init, TypeOK
<1>3. WatcherOfRun
  BY DEF Init, WatcherOfRun
<1>4. ScriptProgress
  BY DEF Init, ScriptProgress
<1>5. RulesOfStep
  BY DEF Init, RulesOfStep
<1> QED
  BY <1>2, <1>3, <1>4, <1>5 DEF IInv

\* The settings are no part of the invariant but for their types.
LEMMA DaemonInv == IInv /\ Daemon => IInv'
<1> SUFFICES ASSUME IInv, Daemon PROVE IInv'
  OBVIOUS
<1>1. UNCHANGED <<table, rules, tun, front, pc, vpn, mode, last, stops>>
  BY DEF Daemon, SetToggle, SetKillSwitch, DaemonStop, DaemonStart, Change,
         kernel, watcher
<1>2. /\ toggle' \in BOOLEAN /\ userOn' \in BOOLEAN /\ api' \in BOOLEAN
      /\ admits' \in BOOLEAN
  BY EgressAssumption DEF IInv, TypeOK, Daemon, SetToggle, SetKillSwitch,
         DaemonStop, DaemonStart, Change
<1>3. changes' \in Nat
  BY DEF IInv, TypeOK, Daemon, SetToggle, SetKillSwitch, DaemonStop,
         DaemonStart, Change
<1>4. TypeOK'
  BY <1>1, <1>2, <1>3 DEF IInv, TypeOK
<1> QED
  BY <1>1, <1>4 DEF IInv, WatcherOfRun, ScriptProgress, RulesOfStep, RulesOf

\* The steps of the script keep the invariant.
LEMMA ScriptInv == IInv /\ Script => IInv'
<1> SUFFICES ASSUME IInv, Script PROVE IInv'
  OBVIOUS
<1> USE DEF IInv, TypeOK, WatcherOfRun, ScriptProgress, RulesOfStep, RulesOf,
            Reach, settings, kernel, watcher
<1>1. CASE FrontStart
  BY <1>1 DEF FrontStart
<1>2. CASE TailscaleUp
  BY <1>2 DEF TailscaleUp
<1>3. CASE FlushTable
  BY <1>3 DEF FlushTable
<1>4. CASE AddRoute
  BY <1>4 DEF AddRoute
<1>5. CASE ClearRules
  BY <1>5 DEF ClearRules
<1>6. CASE AddLookup
  BY <1>6 DEF AddLookup
<1>7. CASE StartWatcher
  BY <1>7 DEF StartWatcher
<1> QED
  BY <1>1, <1>2, <1>3, <1>4, <1>5, <1>6, <1>7 DEF Script

\* The end of the container keeps the kernel's rules; a reboot clears them.
LEMMA StopInv == IInv /\ (FrontExit \/ HostReboot) => IInv'
<1> SUFFICES ASSUME IInv, FrontExit \/ HostReboot PROVE IInv'
  OBVIOUS
<1>1. /\ front' = "down" /\ ~tun' /\ tun' \in BOOLEAN
      /\ pc' = "off" /\ mode' = "init" /\ last' = "init"
  BY DEF FrontExit, HostReboot, Ends
<1>2. stops' = stops + 1 /\ stops \in Nat
  BY DEF FrontExit, HostReboot, Ends, IInv, TypeOK
<1>3. vpn' \in BOOLEAN
  BY DEF FrontExit, HostReboot, Ends
<1>4. UNCHANGED <<toggle, userOn, admits, changes>> /\ api' \in BOOLEAN
  BY DEF FrontExit, HostReboot, settings, IInv, TypeOK
<1>5. (table' = table \/ table' = "empty") /\ (rules' = rules \/ rules' = {})
  BY DEF FrontExit, HostReboot, kernel
<1>6. TypeOK'
  <2>1. table' \in {"empty", "gluetun"} /\ rules' \in SUBSET Rules
    BY <1>5 DEF IInv, TypeOK
  <2>2. stops' \in Nat
    BY <1>2
  <2>3. /\ toggle' \in BOOLEAN /\ userOn' \in BOOLEAN /\ admits' \in BOOLEAN
        /\ changes' \in Nat
    BY <1>4 DEF IInv, TypeOK
  <2>4. /\ front' \in Phases
        /\ pc' \in {"off", "poll", "read", "unblock", "unroute", "add",
                  "refused", "dead"}
        /\ mode' \in Modes \cup {"init"} /\ last' \in Modes \cup {"init"}
    BY <1>1
  <2> QED
    BY <1>1, <1>3, <1>4, <2>1, <2>2, <2>3, <2>4 DEF TypeOK
<1>7. WatcherOfRun' /\ ScriptProgress' /\ RulesOfStep'
  BY <1>1, <1>5 DEF IInv, WatcherOfRun, ScriptProgress, RulesOfStep
<1> QED
  BY <1>6, <1>7 DEF IInv

\* The steps of the watcher keep the invariant.
LEMMA WatchInv == IInv /\ Watch => IInv'
<1> SUFFICES ASSUME IInv, Watch PROVE IInv'
  OBVIOUS
<1> USE DEF IInv, TypeOK, WatcherOfRun, ScriptProgress, RulesOfStep, RulesOf,
            settings, kernel
<1>1. CASE PollToggle
  BY <1>1 DEF PollToggle, Wanted, Decide
<1>2. CASE PollUserOn
  BY <1>2 DEF PollUserOn, Decide
<1>3. CASE PollLost
  BY <1>3 DEF PollLost
<1>4. CASE PollForbidden
  BY <1>4 DEF PollForbidden
<1>5. CASE DeleteBlock
  BY <1>5 DEF DeleteBlock
<1>6. CASE DeleteLookup
  BY <1>6 DEF DeleteLookup
<1>7. CASE AddRule
  BY <1>7 DEF AddRule
<1>8. CASE AddFails
  BY <1>8 DEF AddFails
<1> QED
  BY <1>1, <1>2, <1>3, <1>4, <1>5, <1>6, <1>7, <1>8 DEF Watch

\* Every step keeps the invariant.
LEMMA StepInv == IInv /\ [Next]_vars => IInv'
<1>1. IInv /\ UNCHANGED vars => IInv'
  BY DEF vars, IInv, TypeOK, WatcherOfRun, ScriptProgress, RulesOfStep, RulesOf
<1> QED
  BY <1>1, DaemonInv, ScriptInv, StopInv, WatchInv DEF Next

\* The strengthening holds in every reachable state.
THEOREM Invariance == Spec => []IInv
BY InitInv, StepInv, PTL DEF Spec

\* Type correctness.
THEOREM TypeCorrect == Spec => []TypeOK
<1>1. IInv => TypeOK
  BY DEF IInv
<1> QED
  BY <1>1, Invariance, PTL

\* Between two applications the clients' packets go where last_mode says.
THEOREM LastModeIsHonest == Spec => []HonestLast
<1>1. IInv => HonestLast
  BY DEF IInv, TypeOK, WatcherOfRun, ScriptProgress, RulesOfStep, RulesOf,
         HonestLast, ClientPath, PathOf
<1> QED
  BY <1>1, Invariance, PTL

\* The host's own connection is used by choice, during a switch, before the
\* script has installed its rule, or after a failed command, and never else.
THEOREM HostPathHasReason == Spec => []HostPathExplained
<1>1. IInv => HostPathExplained
  BY DEF IInv, TypeOK, WatcherOfRun, ScriptProgress, RulesOfStep, RulesOf,
         HostPathExplained, ClientPath
<1> QED
  BY <1>1, Invariance, PTL

-----------------------------------------------------------------------------
(* Why Converges: the way from any step of the watcher to the right rules. *)

\* The watcher runs.
Live == {"poll", "read", "unblock", "unroute", "add"}

\* The watcher has applied what the settings ask for, and nothing else is under way.
Settled ==
    /\ pc \in {"poll", "read"}
    /\ last = Wanted
    /\ pc = "read" => vpn = toggle

\* The steps of the watcher until it is settled: what it has read or decided before the
\* settings changed it applies first, and then polls once more.
StepsToGo ==
    IF Settled THEN 0
    ELSE IF pc = "poll" THEN 5
    ELSE IF pc = "read" THEN (IF vpn = toggle THEN 4 ELSE 9)
    ELSE (IF mode = Wanted THEN 0 ELSE 5)
         + (IF pc = "add" THEN 1 ELSE IF pc = "unroute" THEN 2 ELSE 3)

\* A watcher that is settled has sent the packets where the settings want them.
THEOREM SettledIsRight == Spec => [](Settled => ClientPath = PathOf(Wanted))
<1>1. HonestLast => (Settled => ClientPath = PathOf(Wanted))
  BY DEF HonestLast, Settled, Wanted, Decide
<1> QED
  BY <1>1, LastModeIsHonest, PTL

\* What a step of the watcher does to the way that is left.
LEMMA StepSettles ==
    ASSUME IInv, [Next]_vars, UNCHANGED <<toggle, userOn>>, pc \in Live, pc' \in Live
    PROVE  /\ Settled => Settled'
           /\ api => StepsToGo' < StepsToGo \/ (Settled /\ Settled') \/ UNCHANGED watcher
<1>1. Wanted' = Wanted /\ Wanted \in Modes
  BY DEF Wanted, Decide
<1>2. front = "running"
  BY DEF IInv, WatcherOfRun, Live
<1>3. CASE UNCHANGED watcher
  BY <1>1, <1>3 DEF Settled, watcher
<1>4. CASE PollToggle
  BY <1>1, <1>4 DEF PollToggle, Settled, StepsToGo, settings
<1>5. CASE PollUserOn
  <2>1. /\ pc = "read" /\ UNCHANGED <<vpn, last>>
        /\ mode' = Decide(vpn, userOn)
        /\ pc' = IF mode' = last THEN "poll" ELSE "unblock"
    BY <1>5 DEF PollUserOn
  <2>2. vpn \in BOOLEAN /\ toggle \in BOOLEAN
    BY DEF IInv, TypeOK
  <2>3. mode' = Wanted <=> vpn = toggle
    BY <2>1, <2>2 DEF Wanted, Decide
  <2> QED
    BY <1>1, <2>1, <2>3 DEF Settled, StepsToGo
<1>6. CASE PollLost
  BY <1>1, <1>6 DEF PollLost, Settled
<1>7. CASE PollForbidden \/ AddFails
  BY <1>7 DEF PollForbidden, AddFails, Live
<1>8. CASE DeleteBlock
  BY <1>1, <1>8 DEF DeleteBlock, Settled, StepsToGo
<1>9. CASE DeleteLookup
  BY <1>1, <1>9 DEF DeleteLookup, Settled, StepsToGo
<1>10. CASE AddRule
  BY <1>1, <1>10 DEF AddRule, Settled, StepsToGo
<1>11. CASE Daemon
  BY <1>3, <1>11 DEF Daemon, SetToggle, SetKillSwitch, DaemonStop, DaemonStart
<1>12. CASE Script
  BY <1>2, <1>12 DEF Script, FrontStart, TailscaleUp, FlushTable, AddRoute, ClearRules,
                     AddLookup, StartWatcher, Reach
<1>13. CASE FrontExit \/ HostReboot
  BY <1>13 DEF FrontExit, HostReboot, Ends, Live
<1>14. CASE UNCHANGED vars
  BY <1>3, <1>14 DEF vars, watcher
<1> QED
  BY <1>3, <1>4, <1>5, <1>6, <1>7, <1>8, <1>9, <1>10, <1>11, <1>12, <1>13, <1>14
  DEF Next, Watch

\* While the settings stay, a settled watcher stays settled; any other is settled after
\* at most nine of its steps while the daemon answers it.
THEOREM SettlesSoon ==
    Spec => [][UNCHANGED <<toggle, userOn>> /\ pc \in Live /\ pc' \in Live =>
                 /\ Settled => Settled'
                 /\ api => \/ StepsToGo' < StepsToGo
                           \/ Settled /\ Settled'
                           \/ UNCHANGED watcher]_vars
<1>1. IInv /\ [Next]_vars =>
        [UNCHANGED <<toggle, userOn>> /\ pc \in Live /\ pc' \in Live =>
            /\ Settled => Settled'
            /\ api => \/ StepsToGo' < StepsToGo
                      \/ Settled /\ Settled'
                      \/ UNCHANGED watcher]_vars
  BY StepSettles
<1> QED
  BY <1>1, Invariance, PTL DEF Spec

=============================================================================
