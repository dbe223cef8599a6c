--------------------------- MODULE ControlProofs ---------------------------
(***************************************************************************)
(* For any number of concurrent requests and cycles: while no call fails,  *)
(* a stopped VPN is the user's wish or about to be started, and a tunnel   *)
(* at the wrong place is about to be cycled.  Whatever fails, the recorded *)
(* locations are ones that gluetun accepted.                               *)
(***************************************************************************)
EXTENDS Control, TLAPS

USE DEF Places, InFlight, Commands

\* A call in flight is a command.
LEMMA CommandType ==
    ASSUME TypeOK, NEW p \in Slots, pc[p] \in InFlight
    PROVE  /\ Command(p) \in Commands
           /\ pc[p] = "toggle" => Command(p).do \in {"start", "stop"} /\ Command(p).who = "user"
           /\ pc[p] # "toggle" => Command(p).do = pc[p]
           /\ Command(p).dest = dest[p]
BY DEF TypeOK, Command

\* What gluetun does with a command.
LEMMA PerformType ==
    ASSUME TypeOK, NEW c \in Commands, Perform(c)
    PROVE  /\ run' \in {"running", "stopped"} /\ target' \in Locs /\ tunnel' \in Locs
           /\ by' \in {"nobody", "user", "cycle"} /\ tried' \in SUBSET Locs
           /\ tried \subseteq tried'
BY DEF TypeOK, Perform

-----------------------------------------------------------------------------
(* The type invariant.                                                     *)

\* The initial states have their types.
LEMMA InitType == Init => TypeOK
<1> SUFFICES ASSUME Init PROVE TypeOK
  OBVIOUS
<1> USE ControlAssumption
<1>1. up \in BOOLEAN /\ toggle \in BOOLEAN
  BY DEF Init
<1>2. disk \in [toggle : BOOLEAN, loc : Locs]
  BY DEF Init
<1>3. on \in [Slots -> BOOLEAN]
  BY DEF Init
<1> QED
  BY <1>1, <1>2, <1>3 DEF Init, TypeOK

\* Every step keeps the types.
LEMMA StepType == TypeOK /\ [Next]_vars => TypeOK'
<1> SUFFICES ASSUME TypeOK, [Next]_vars PROVE TypeOK'
  OBVIOUS
<1> USE ControlAssumption
<1>0. Saved \in [toggle : BOOLEAN, loc : Locs]
  BY DEF Saved, TypeOK
<1>1. CASE Boot
  BY <1>0, <1>1 DEF Boot, TypeOK, routine, gluetun, bounds
<1>2. CASE DaemonCrash
  <2>1. late' \in SUBSET Commands
    <3>1. PICK some \in SUBSET {p \in Slots : pc[p] \in InFlight} :
            late' = late \cup {Command(p) : p \in some}
      BY <1>2 DEF DaemonCrash
    <3>2. ASSUME NEW p \in some PROVE Command(p) \in Commands
      <4>1. p \in Slots /\ pc[p] \in InFlight
        BY DEF InFlight
      <4> QED
        BY <4>1, CommandType
    <3>3. late \in SUBSET Commands
      BY DEF TypeOK
    <3> QED
      BY <3>1, <3>2, <3>3
  <2>2. ~up' /\ stops' = stops + 1 /\ pc' = [p \in Slots |-> "idle"]
    BY <1>2 DEF DaemonCrash, Stopped
  <2>3. /\ UNCHANGED <<toggle, loc, disk, env, on, dest, ops, faults>>
        /\ UNCHANGED <<run, target, tunnel, by, tried>>
    BY <1>2 DEF DaemonCrash, Stopped, gluetun
  <2>4. up' \in BOOLEAN
    BY <1>2 DEF DaemonCrash, Stopped
  <2>5. stops' \in Nat /\ pc' \in [Slots -> Places]
    BY <2>2 DEF TypeOK
  <2> QED
    BY <2>1, <2>3, <2>4, <2>5 DEF TypeOK
<1>3. CASE HostReboot
  <2>1. late' = {} /\ run' = "running" /\ by' = "nobody"
    BY <1>3 DEF HostReboot
  <2>2. ~up' /\ stops' = stops + 1 /\ pc' = [p \in Slots |-> "idle"]
    BY <1>3 DEF HostReboot, Stopped
  <2>3. UNCHANGED <<toggle, loc, disk, env, on, dest, ops, faults>>
    BY <1>3 DEF HostReboot, Stopped
  <2>4. up' \in BOOLEAN
    BY <1>3 DEF HostReboot, Stopped
  <2>5. stops' \in Nat /\ pc' \in [Slots -> Places]
    BY <2>2 DEF TypeOK
  <2>6. target' \in Locs /\ tunnel' \in Locs /\ tried' \in SUBSET Locs
    BY <1>3 DEF HostReboot, TypeOK
  <2> QED
    BY <2>1, <2>3, <2>4, <2>5, <2>6 DEF TypeOK
<1>4. CASE ServeLate
  <2>1. PICK c \in late : Perform(c) /\ late' = late \ {c}
    BY <1>4 DEF ServeLate
  <2>2. c \in Commands
    BY <2>1 DEF TypeOK
  <2>3. UNCHANGED <<up, toggle, loc, disk, env, pc, on, dest, ops, faults, stops>>
    BY <1>4 DEF ServeLate, state, routine, bounds
  <2> QED
    BY <2>1, <2>2, <2>3, PerformType DEF TypeOK
<1>5. CASE OtherSaves
  BY <1>0, <1>5 DEF OtherSaves, TypeOK, routine, gluetun, bounds
<1>6. ASSUME NEW p \in Slots, StartToggle(p) PROVE TypeOK'
  BY <1>0, <1>6 DEF StartToggle, Begin, Goto, TypeOK, gluetun
<1>7. ASSUME NEW p \in Slots, StartSwitch(p) PROVE TypeOK'
  BY <1>0, <1>7 DEF StartSwitch, Begin, Goto, TypeOK, gluetun
<1>9. ASSUME NEW p \in Slots, Serve(p) PROVE TypeOK'
  <2>1. /\ pc[p] \in InFlight /\ Perform(Command(p))
        /\ pc' = [pc EXCEPT ![p] = AfterCall(pc[p])]
    BY <1>9 DEF Serve, Goto
  <2>2. UNCHANGED <<up, toggle, loc, disk, env, on, dest, late, ops, faults, stops>>
    BY <1>9 DEF Serve, state, bounds
  <2>3. AfterCall(pc[p]) \in Places
    BY <2>1 DEF AfterCall
  <2>4. pc' \in [Slots -> Places]
    BY <2>1, <2>3 DEF TypeOK
  <2>5. Command(p) \in Commands
    BY <2>1, CommandType
  <2> QED
    BY <2>1, <2>2, <2>4, <2>5, PerformType DEF TypeOK
<1>10. ASSUME NEW p \in Slots, Refuse(p) PROVE TypeOK'
  BY <1>0, <1>10 DEF Refuse, Fault, Goto, TypeOK, state, gluetun
<1>11. ASSUME NEW p \in Slots, GiveUp(p) PROVE TypeOK'
  <2>1. Command(p) \in Commands
    BY <1>11, CommandType DEF GiveUp
  <2> QED
    BY <1>11, <2>1 DEF GiveUp, Fault, Goto, TypeOK, state, gluetun
<1>12. ASSUME NEW p \in Slots, RecordToggle(p) PROVE TypeOK'
  BY <1>0, <1>12 DEF RecordToggle, Goto, TypeOK, gluetun, bounds
<1>13. ASSUME NEW p \in Slots, WriteEnv(p) PROVE TypeOK'
  BY <1>0, <1>13 DEF WriteEnv, Fault, Goto, TypeOK, gluetun
<1>14. ASSUME NEW p \in Slots, RecordSwitch(p) PROVE TypeOK'
  BY <1>0, <1>14 DEF RecordSwitch, Goto, TypeOK, gluetun, bounds
<1>15. ASSUME NEW p \in Slots, Save(p) PROVE TypeOK'
  BY <1>0, <1>15 DEF Save, AfterSave, Goto, TypeOK, gluetun, bounds
<1>16. ASSUME NEW p \in Slots, SaveFails(p) PROVE TypeOK'
  BY <1>0, <1>16 DEF SaveFails, AfterSave, Fault, Goto, TypeOK, state, gluetun
<1>17. CASE UNCHANGED vars
  BY <1>17 DEF vars, TypeOK
<1> QED
  BY <1>1, <1>2, <1>3, <1>4, <1>5, <1>6, <1>7, <1>9, <1>10, <1>11,
     <1>12, <1>13, <1>14, <1>15, <1>16, <1>17 DEF Next, Advance

-----------------------------------------------------------------------------
(* While nothing goes wrong.                                               *)

\* The invariant holds at the start.
LEMMA InitInv == Init => IInv
<1> SUFFICES ASSUME Init PROVE IInv
  OBVIOUS
<1>1. TypeOK
  BY InitType
<1>2. late = {} /\ run = "running" /\ tunnel = target
  BY DEF Init
<1> QED
  BY <1>1, <1>2 DEF IInv, NothingLate, StoppedHasOwner, TunnelFollowsTarget

\* Faults and stops are never forgotten, and only they leave a command late.
LEMMA SmoothStep ==
    IInv /\ [Next]_vars /\ Smooth' =>
        /\ Smooth
        /\ late' = {}
        /\ \/ \E p \in Slots : Serve(p)
           \/ /\ UNCHANGED <<run, target, tunnel, by>>
              /\ \A q \in Slots : pc[q] = "start" => pc'[q] = "start"
              /\ \A q \in Slots : pc[q] \in {"targeted", "noted", "moved", "stop"}
                                    => pc'[q] \in {"targeted", "noted", "moved", "stop"}
<1> DEFINE Keeps(q) ==
            /\ pc[q] = "start" => pc'[q] = "start"
            /\ pc[q] \in {"targeted", "noted", "moved", "stop"}
                 => pc'[q] \in {"targeted", "noted", "moved", "stop"}
           Calm == /\ Smooth /\ late' = {} /\ UNCHANGED <<run, target, tunnel, by>>
                   /\ \A q \in Slots : Keeps(q)
<1> SUFFICES ASSUME IInv, [Next]_vars, Smooth'
             PROVE  Calm \/ \E p \in Slots : Serve(p) /\ Smooth /\ late' = {}
  OBVIOUS
<1>t. TypeOK /\ NothingLate
  BY DEF IInv
<1> USE <1>t DEF Smooth, NothingLate
<1>1. ASSUME Boot PROVE Calm
  BY <1>1 DEF Boot, gluetun, routine, bounds
<1>2. ~DaemonCrash /\ ~HostReboot
  BY DEF DaemonCrash, HostReboot, Stopped, TypeOK
<1>3. ~ServeLate
  BY DEF ServeLate, bounds
<1>4. ASSUME OtherSaves PROVE Calm
  BY <1>4 DEF OtherSaves, gluetun, routine, bounds
<1>5. ASSUME NEW p \in Slots, StartToggle(p) \/ StartSwitch(p)
      PROVE  Calm
  BY <1>5 DEF StartToggle, StartSwitch, Begin, Goto, gluetun,
     TypeOK
<1>6. ASSUME NEW p \in Slots, Serve(p) PROVE Smooth /\ late' = {}
  BY <1>6 DEF Serve, bounds
<1>7. ASSUME NEW p \in Slots PROVE ~Refuse(p) /\ ~GiveUp(p) /\ ~SaveFails(p)
  BY DEF Refuse, GiveUp, SaveFails, Fault, TypeOK
<1>8. ASSUME NEW p \in Slots, RecordToggle(p) PROVE Calm
  BY <1>8 DEF RecordToggle, Goto, gluetun, bounds, TypeOK
<1>9. ASSUME NEW p \in Slots, WriteEnv(p) PROVE Calm
  BY <1>9 DEF WriteEnv, Fault, Goto, gluetun, TypeOK
<1>10. ASSUME NEW p \in Slots, RecordSwitch(p) PROVE Calm
  BY <1>10 DEF RecordSwitch, Goto, gluetun, bounds, TypeOK
<1>11. ASSUME NEW p \in Slots, Save(p) PROVE Calm
  BY <1>11 DEF Save, AfterSave, Goto, gluetun, bounds, TypeOK
<1>12. ASSUME UNCHANGED vars PROVE Calm
  BY <1>12 DEF vars
<1> HIDE DEF Calm
<1> QED
  BY <1>1, <1>2, <1>3, <1>4, <1>5, <1>6, <1>7, <1>8, <1>9, <1>10, <1>11, <1>12
     DEF Next, Advance

\* What an accepted call does to the VPN and to the caller's place.
LEMMA ServeStep ==
    ASSUME TypeOK, NEW p \in Slots, Serve(p)
    PROVE  /\ \A q \in Slots \ {p} : pc'[q] = pc[q]
           /\ \/ /\ run' = "running"
                 /\ tunnel' = IF run = "stopped" THEN target ELSE tunnel
                 /\ target' = target /\ pc[p] \in {"toggle", "start"}
              \/ /\ run' = "stopped"
                 /\ by' = "user" \/ pc'[p] = "start"
              \/ /\ run' = run /\ tunnel' = tunnel /\ by' = by
                 /\ pc[p] = "target" /\ pc'[p] = "targeted"
<1>1. /\ pc[p] \in InFlight /\ Perform(Command(p))
      /\ pc' = [pc EXCEPT ![p] = AfterCall(pc[p])]
  BY DEF Serve, Goto
<1>2. pc'[p] = AfterCall(pc[p]) /\ \A q \in Slots \ {p} : pc'[q] = pc[q]
  BY <1>1 DEF TypeOK
<1>3. CASE pc[p] = "toggle"
  BY <1>1, <1>2, <1>3, CommandType DEF Perform
<1>4. CASE pc[p] = "stop"
  BY <1>1, <1>2, <1>4, CommandType DEF Perform, AfterCall
<1>5. CASE pc[p] = "start"
  BY <1>1, <1>2, <1>5, CommandType DEF Perform
<1>6. CASE pc[p] = "target"
  BY <1>1, <1>2, <1>6, CommandType DEF Perform, AfterCall
<1> QED
  BY <1>1, <1>2, <1>3, <1>4, <1>5, <1>6

\* Every step keeps the invariant: the types, and without faults what the
\* two lemmas before say.
LEMMA StepInv == IInv /\ [Next]_vars => IInv'
<1> SUFFICES ASSUME IInv, [Next]_vars PROVE IInv'
  OBVIOUS
<1>t. TypeOK /\ TypeOK'
  BY StepType DEF IInv
<1>1. NothingLate'
  BY SmoothStep DEF NothingLate
<1>2. StoppedHasOwner'
  <2> SUFFICES ASSUME Smooth', run' = "stopped"
               PROVE  by' = "user" \/ \E p \in Slots : pc'[p] = "start"
    BY DEF StoppedHasOwner
  <2>1. Smooth /\ (run = "stopped" => by = "user" \/ \E p \in Slots : pc[p] = "start")
    BY SmoothStep DEF IInv, StoppedHasOwner
  <2>2. ASSUME NEW p \in Slots, Serve(p)
        PROVE  by' = "user" \/ \E q \in Slots : pc'[q] = "start"
    BY <1>t, <2>1, <2>2, ServeStep
  <2> QED
    BY <2>1, <2>2, SmoothStep
<1>3. TunnelFollowsTarget'
  <2> DEFINE About(l) == l \in {"targeted", "noted", "moved", "stop"}
  <2> SUFFICES ASSUME Smooth', run' = "running", tunnel' # target'
               PROVE  \E p \in Slots : About(pc'[p])
    BY DEF TunnelFollowsTarget
  <2>1. Smooth /\ (run = "running" /\ tunnel # target
                     => \E p \in Slots : About(pc[p]))
    BY SmoothStep DEF IInv, TunnelFollowsTarget
  <2>2. ASSUME NEW p \in Slots, Serve(p) PROVE \E q \in Slots : About(pc'[q])
    BY <1>t, <2>1, <2>2, ServeStep DEF TypeOK
  <2> QED
    BY <2>1, <2>2, SmoothStep
<1> QED
  BY <1>t, <1>1, <1>2, <1>3 DEF IInv

\* The strengthening holds in every reachable state.
THEOREM Invariance == Spec => []IInv
BY InitInv, StepInv, PTL DEF Spec

\* Type correctness.
THEOREM TypeCorrect == Spec => []TypeOK
<1>1. IInv => TypeOK
  BY DEF IInv
<1> QED
  BY <1>1, Invariance, PTL

\* However cycles and toggles cross, none leaves the VPN stopped by itself.
THEOREM NoStrandedStop == Spec => []StoppedHasOwner
<1>1. IInv => StoppedHasOwner
  BY DEF IInv
<1> QED
  BY <1>1, Invariance, PTL

\* However switches cross, the tunnel ends at the location chosen last.
THEOREM TunnelCatchesUp == Spec => []TunnelFollowsTarget
<1>1. IInv => TunnelFollowsTarget
  BY DEF IInv
<1> QED
  BY <1>1, Invariance, PTL

-----------------------------------------------------------------------------
(* Whatever goes wrong.                                                    *)

\* At the start nothing was recorded that gluetun had not accepted.
LEMMA InitAccepted == Init => RecordsAccepted
BY ControlAssumption DEF Init, RecordsAccepted, LocWasTarget

\* Every step records only what gluetun has accepted.
LEMMA StepAccepted == TypeOK /\ RecordsAccepted /\ [Next]_vars => RecordsAccepted'
<1> SUFFICES ASSUME TypeOK, RecordsAccepted, [Next]_vars PROVE RecordsAccepted'
  OBVIOUS
<1> USE DEF RecordsAccepted, LocWasTarget
<1>1. CASE Boot
  BY <1>1 DEF Boot, gluetun, routine, Saved
<1>2. CASE DaemonCrash
  BY <1>2 DEF DaemonCrash, Stopped, gluetun
<1>3. CASE HostReboot
  BY <1>3 DEF HostReboot, Stopped
<1>4. CASE ServeLate
  <2>1. PICK c \in late : Perform(c)
    BY <1>4 DEF ServeLate
  <2>2. c \in Commands
    BY DEF TypeOK
  <2> QED
    BY <1>4, <2>1, <2>2, PerformType DEF ServeLate, state, routine
<1>5. CASE OtherSaves
  BY <1>5 DEF OtherSaves, Saved, gluetun, routine
<1>6. ASSUME NEW p \in Slots, StartToggle(p) \/ StartSwitch(p)
      PROVE  RecordsAccepted'
  <2>1. /\ UNCHANGED <<loc, disk, env, tried>>
        /\ \A q \in Slots : \/ pc'[q] = pc[q] /\ dest'[q] = dest[q]
                            \/ pc'[q] \in {"toggle", "target"}
    BY <1>6 DEF StartToggle, StartSwitch, Begin, Goto, gluetun,
       TypeOK
  <2> QED
    BY <2>1
<1>7. ASSUME NEW p \in Slots, Serve(p) PROVE RecordsAccepted'
  <2>1. /\ pc[p] \in InFlight /\ Perform(Command(p))
        /\ UNCHANGED <<loc, disk, env, dest>>
        /\ pc' = [pc EXCEPT ![p] = AfterCall(pc[p])]
    BY <1>7 DEF Serve, Goto, state
  <2>2. /\ Command(p) \in Commands
        /\ pc[p] = "target" => Command(p).do = "target" /\ Command(p).dest = dest[p]
    BY <2>1, CommandType
  <2>3. tried \subseteq tried'
    BY <2>1, <2>2, PerformType
  <2>4. pc[p] = "target" => dest[p] \in tried'
    BY <2>1, <2>2 DEF Perform
  <2>5. pc'[p] \in {"targeted", "noted"} => pc[p] = "target"
    BY <2>1 DEF AfterCall, TypeOK
  <2>6. \A q \in Slots \ {p} : pc'[q] = pc[q]
    BY <2>1 DEF TypeOK
  <2> QED
    BY <2>1, <2>3, <2>4, <2>5, <2>6
<1>8. ASSUME NEW p \in Slots, Refuse(p) \/ GiveUp(p) PROVE RecordsAccepted'
  BY <1>8 DEF Refuse, GiveUp, Goto, state, gluetun, TypeOK
<1>9. ASSUME NEW p \in Slots, RecordToggle(p) PROVE RecordsAccepted'
  BY <1>9 DEF RecordToggle, Goto, gluetun, TypeOK
<1>10. ASSUME NEW p \in Slots, WriteEnv(p) PROVE RecordsAccepted'
  BY <1>10 DEF WriteEnv, Goto, gluetun, TypeOK
<1>11. ASSUME NEW p \in Slots, RecordSwitch(p) PROVE RecordsAccepted'
  BY <1>11 DEF RecordSwitch, Goto, gluetun, TypeOK
<1>12. ASSUME NEW p \in Slots, Save(p) PROVE RecordsAccepted'
  BY <1>12 DEF Save, Saved, AfterSave, Goto, gluetun, TypeOK
<1>13. ASSUME NEW p \in Slots, SaveFails(p) PROVE RecordsAccepted'
  BY <1>13 DEF SaveFails, AfterSave, Goto, state, gluetun, TypeOK
<1>14. CASE UNCHANGED vars
  BY <1>14 DEF vars
<1> QED
  BY <1>1, <1>2, <1>3, <1>4, <1>5, <1>6, <1>7, <1>8, <1>9, <1>10, <1>11,
     <1>12, <1>13, <1>14 DEF Next, Advance

\* Failed calls, answers that come late, failed saves, crashes and reboots:
\* no location is recorded that gluetun has not accepted.
THEOREM RecordsTrue == Spec => []LocWasTarget
<1>1. RecordsAccepted => LocWasTarget
  BY DEF RecordsAccepted
<1> QED
  BY <1>1, InitAccepted, StepAccepted, TypeCorrect, PTL DEF Spec

-----------------------------------------------------------------------------
(* Why OpsEnd: an operation has a bounded number of steps.                 *)

\* The steps that a goroutine has still to take at most.
StepsToEnd ==
    [idle |-> 0, start |-> 1, set |-> 1, stop |-> 2, toggled |-> 2, moved |-> 3,
     toggle |-> 3, noted |-> 4, targeted |-> 5, target |-> 6]

\* A step moves each goroutine on, or leaves it where it is.
LEMMA StepForward ==
    ASSUME TypeOK, [Next]_vars, NEW p \in Slots, pc[p] # "idle"
    PROVE  pc'[p] = pc[p] \/ StepsToEnd[pc'[p]] < StepsToEnd[pc[p]]
<1> USE DEF StepsToEnd, Goto, TypeOK
<1>1. CASE Boot \/ ServeLate \/ OtherSaves \/ UNCHANGED vars
  BY <1>1 DEF Boot, ServeLate, OtherSaves, routine, vars
<1>2. CASE DaemonCrash \/ HostReboot
  <2>1. pc'[p] = "idle"
    BY <1>2 DEF DaemonCrash, HostReboot, Stopped
  <2> QED
    BY <2>1
<1>3. ASSUME NEW q \in Slots, StartToggle(q) \/ StartSwitch(q)
      PROVE  pc'[p] = pc[p]
  BY <1>3 DEF StartToggle, StartSwitch, Begin
<1>4. ASSUME NEW q \in Slots, Advance(q)
      PROVE  pc'[p] = pc[p] \/ StepsToEnd[pc'[p]] < StepsToEnd[pc[p]]
  <2>1. CASE Serve(q)
    BY <2>1 DEF Serve, AfterCall
  <2>2. CASE Refuse(q) \/ GiveUp(q)
    BY <2>2 DEF Refuse, GiveUp
  <2>3. CASE RecordToggle(q)
    BY <2>3 DEF RecordToggle
  <2>4. CASE WriteEnv(q)
    BY <2>4 DEF WriteEnv
  <2>5. CASE RecordSwitch(q)
    BY <2>5 DEF RecordSwitch
  <2>6. CASE Save(q)
    BY <2>6 DEF Save, AfterSave
  <2>7. CASE SaveFails(q)
    BY <2>7 DEF SaveFails, AfterSave
  <2> QED
    BY <1>4, <2>1, <2>2, <2>3, <2>4, <2>5, <2>6, <2>7 DEF Advance
<1> QED
  BY <1>1, <1>2, <1>3, <1>4 DEF Next

\* However many requests and cycles run at once, and whatever gluetun does with their
\* calls, none of them sets another back or begins anew: each is over after at most six
\* steps of its own.
THEOREM OnlyForward ==
    Spec => [][\A p \in Slots : pc[p] # "idle" =>
                  pc'[p] = pc[p] \/ StepsToEnd[pc'[p]] < StepsToEnd[pc[p]]]_vars
<1>1. TypeOK /\ [Next]_vars =>
        [\A p \in Slots : pc[p] # "idle" =>
            pc'[p] = pc[p] \/ StepsToEnd[pc'[p]] < StepsToEnd[pc[p]]]_vars
  BY StepForward
<1> QED
  BY <1>1, TypeCorrect, PTL DEF Spec

=============================================================================
