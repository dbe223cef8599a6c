------------------------------ MODULE Control ------------------------------
(***************************************************************************)
(* The daemon's operations on gluetun: Ops in cmd/surfshark-control, the   *)
(* handlers of internal/httpapi that call them, and the client in          *)
(* internal/gluetun.                                                       *)
(*                                                                         *)
(* Every HTTP request runs in its own goroutine, and SwitchLocation leaves *)
(* one behind that stops and starts the VPN; nothing orders them.  A call  *)
(* to gluetun may be refused, or given up by the client and carried out    *)
(* later all the same.  gluetun itself is modelled as the daemon uses it:  *)
(* a status, the settings that the next start will use, and the location   *)
(* of the running tunnel.  It always starts running, at BootLoc.           *)
(*                                                                         *)
(* Save is one step here; StateStore has its details, and the settings     *)
(* that gluetun does not know of.                                          *)
(***************************************************************************)
EXTENDS Naturals

CONSTANTS
    Slots,         \* goroutines that may serve a request at the same time
    Locs,          \* locations
    BootLoc,       \* the location in gluetun's environment
    SavedToggle,   \* the toggle in state.json at the start
    MaxOps,        \* bound: operations
    MaxFaults,     \* bound: failed calls and failed saves
    MaxStops       \* bound: crashes of the daemon, and reboots

ASSUME ControlAssumption ==
    /\ BootLoc \in Locs
    /\ SavedToggle \in BOOLEAN
    /\ MaxOps \in Nat
    /\ MaxFaults \in Nat
    /\ MaxStops \in Nat

VARIABLES
    up,       \* the daemon runs
    toggle,   \* State.Surfshark.Toggle
    loc,      \* State.Surfshark.CurrentLocation
    disk,     \* the same two in state.json
    env,      \* SURFSHARK_COUNTRY in .env
    pc,       \* pc[p]: what goroutine p is about
    on,       \* on[p]: the argument of p's Toggle
    dest,     \* dest[p]: the argument of p's SwitchLocation
    run,      \* gluetun's status
    target,   \* gluetun's settings
    tunnel,   \* the location of gluetun's tunnel, or of its last one
    late,     \* commands given up by the client that gluetun may still carry out
    by,       \* ghost: who asked for the last stop that gluetun carried out
    tried,    \* ghost: every location that gluetun's settings have had
    ops,      \* ghost: operations so far
    faults,   \* ghost: faults so far
    stops     \* ghost: stops so far

state == <<up, toggle, loc, disk, env>>
routine == <<pc, on, dest>>
gluetun == <<run, target, tunnel, by, tried>>
bounds == <<ops, faults, stops>>
vars == <<up, toggle, loc, disk, env, pc, on, dest, run, target, tunnel,
          late, by, tried, ops, faults, stops>>

-----------------------------------------------------------------------------
\* A call to gluetun in flight: SetRunning of Toggle, SwitchTarget, and the
\* SetRunning(false) and SetRunning(true) of a cycle.
InFlight == {"toggle", "target", "stop", "start"}

\* What a goroutine is about; "set" and "moved" are Saves.
Places == {"idle", "toggled", "set", "targeted", "noted", "moved"} \cup InFlight

\* What a goroutine's call asks of gluetun.
Command(p) ==
    [do   |-> CASE pc[p] = "toggle" -> IF on[p] THEN "start" ELSE "stop"
                [] OTHER            -> pc[p],
     dest |-> dest[p],
     who  |-> IF pc[p] = "toggle" THEN "user" ELSE "cycle"]

\* gluetun carries out a command: a start uses the settings of the moment,
\* and one that changes nothing is answered alike.
Perform(c) ==
    \/ /\ c.do = "start"
       /\ run' = "running"
       /\ tunnel' = IF run = "stopped" THEN target ELSE tunnel
       /\ UNCHANGED <<target, by, tried>>
    \/ /\ c.do = "stop"
       /\ run' = "stopped"
       /\ by' = c.who
       /\ UNCHANGED <<target, tunnel, tried>>
    \/ /\ c.do = "target"
       /\ target' = c.dest
       /\ tried' = tried \cup {c.dest}
       /\ UNCHANGED <<run, tunnel, by>>

Saved == [toggle |-> toggle, loc |-> loc]

\* The daemon has run before, and saved its State.
Init ==
    /\ up = FALSE
    /\ toggle = FALSE
    /\ loc = BootLoc
    /\ disk = [toggle |-> SavedToggle, loc |-> BootLoc]
    /\ env = BootLoc
    /\ pc = [p \in Slots |-> "idle"]
    /\ on = [p \in Slots |-> FALSE]
    /\ dest = [p \in Slots |-> BootLoc]
    /\ run = "running"
    /\ target = BootLoc
    /\ tunnel = BootLoc
    /\ late = {}
    /\ by = "nobody"
    /\ tried = {BootLoc}
    /\ ops = 0
    /\ faults = 0
    /\ stops = 0

Goto(p, place) == pc' = [pc EXCEPT ![p] = place]

-----------------------------------------------------------------------------
(* The daemon starts, and stops.                                           *)

\* main() loads the State.  It asks gluetun for nothing.
Boot ==
    /\ ~up
    /\ up' = TRUE
    /\ toggle' = disk.toggle
    /\ loc' = disk.loc
    /\ UNCHANGED <<disk, env, routine, gluetun, late, bounds>>

\* The goroutines are gone.
Stopped ==
    /\ stops < MaxStops
    /\ stops' = stops + 1
    /\ up' = FALSE
    /\ pc' = [p \in Slots |-> "idle"]
    /\ UNCHANGED <<toggle, loc, disk, env, on, dest, ops, faults>>

\* The daemon dies; of the calls in flight gluetun may have any.
DaemonCrash ==
    /\ up
    /\ Stopped
    /\ \E some \in SUBSET {p \in Slots : pc[p] \in InFlight} :
        late' = late \cup {Command(p) : p \in some}
    /\ UNCHANGED gluetun

\* Everything restarts: gluetun from the environment of its container or,
\* if "docker compose up" creates it anew, from .env.
HostReboot ==
    /\ Stopped
    /\ run' = "running"
    /\ target' \in {BootLoc, env}
    /\ tunnel' = target'
    /\ by' = "nobody"
    /\ tried' = tried \cup {target'}
    /\ late' = {}

-----------------------------------------------------------------------------
(* The handlers.                                                           *)

Begin(p) ==
    /\ up
    /\ pc[p] = "idle"
    /\ ops < MaxOps
    /\ ops' = ops + 1
    /\ UNCHANGED <<up, toggle, loc, disk, env, gluetun, late, faults, stops>>

\* handleToggle.
StartToggle(p) ==
    /\ Begin(p)
    /\ \E v \in BOOLEAN : on' = [on EXCEPT ![p] = v]
    /\ Goto(p, "toggle")
    /\ UNCHANGED dest

\* handleSwitch.
StartSwitch(p) ==
    /\ Begin(p)
    /\ \E l \in Locs : dest' = [dest EXCEPT ![p] = l]
    /\ Goto(p, "target")
    /\ UNCHANGED on

-----------------------------------------------------------------------------
(* A call to gluetun.                                                      *)

\* Mutant: a cycle ends with its stop.
AfterCallNoStart(place) ==
    CASE place = "toggle" -> "toggled"
      [] place = "target" -> "targeted"
      [] place = "stop"   -> "idle"
      [] place = "start"  -> "idle"

\* Mutant: a switch is recorded and not followed by a cycle.
AfterCallNoCycle(place) ==
    CASE place = "toggle" -> "toggled"
      [] place = "target" -> "set"
      [] place = "stop"   -> "start"
      [] place = "start"  -> "idle"

\* What follows an accepted call.  The start of a cycle is called half a
\* second after its stop has returned.
AfterCall(place) ==
    CASE place = "toggle" -> "toggled"
      [] place = "target" -> "targeted"
      [] place = "stop"   -> "start"
      [] place = "start"  -> "idle"

\* gluetun carries out the call, and the client gets the answer.
Serve(p) ==
    /\ pc[p] \in InFlight
    /\ Perform(Command(p))
    /\ Goto(p, AfterCall(pc[p]))
    /\ UNCHANGED <<state, on, dest, late, bounds>>

Fault ==
    /\ faults < MaxFaults
    /\ faults' = faults + 1

\* Mutant: the error of the call is ignored.
RefuseIgnored(p) ==
    /\ pc[p] \in InFlight
    /\ Fault
    /\ Goto(p, AfterCall(pc[p]))
    /\ UNCHANGED <<state, on, dest, gluetun, late, ops, stops>>

\* The call fails and has no effect: the operation or the cycle ends.
Refuse(p) ==
    /\ pc[p] \in InFlight
    /\ Fault
    /\ Goto(p, "idle")
    /\ UNCHANGED <<state, on, dest, gluetun, late, ops, stops>>

\* The client gives up (15 s, or the caller's context): the operation or the
\* cycle ends with an error, and gluetun may still carry out the call.
GiveUp(p) ==
    /\ pc[p] \in InFlight
    /\ Fault
    /\ Goto(p, "idle")
    /\ late' = late \cup {Command(p)}
    /\ UNCHANGED <<state, on, dest, gluetun, ops, stops>>

ServeLate ==
    /\ \E c \in late :
        /\ Perform(c)
        /\ late' = late \ {c}
    /\ UNCHANGED <<state, routine, bounds>>

-----------------------------------------------------------------------------
(* After the call.                                                         *)

\* Ops.Toggle, once SetRunning has succeeded.
RecordToggle(p) ==
    /\ pc[p] = "toggled"
    /\ toggle' = on[p]
    /\ Goto(p, "set")
    /\ UNCHANGED <<up, loc, disk, env, on, dest, gluetun, late, bounds>>

\* Ops.SwitchLocation, once SwitchTarget has succeeded: the new country goes
\* into .env, if it can be written ...
WriteEnv(p) ==
    /\ pc[p] = "targeted"
    /\ \/ env' = dest[p] /\ UNCHANGED faults
       \/ Fault /\ UNCHANGED env
    /\ Goto(p, "noted")
    /\ UNCHANGED <<up, toggle, loc, disk, on, dest, gluetun, late, ops, stops>>

\* ... and the location into the State.
RecordSwitch(p) ==
    /\ pc[p] = "noted"
    /\ loc' = dest[p]
    /\ Goto(p, "moved")
    /\ UNCHANGED <<up, toggle, disk, env, on, dest, gluetun, late, bounds>>

\* Mutant: the handler does not return.
AfterSaveStuck(place) == IF place = "moved" THEN "stop" ELSE "done"

\* Save ends an operation; a switch continues with its cycle.
AfterSave(place) == IF place = "moved" THEN "stop" ELSE "idle"

Save(p) ==
    /\ pc[p] \in {"set", "moved"}
    /\ disk' = Saved
    /\ Goto(p, AfterSave(pc[p]))
    /\ UNCHANGED <<up, toggle, loc, env, on, dest, gluetun, late, bounds>>

\* SwitchLocation ignores the error.
SaveFails(p) ==
    /\ pc[p] \in {"set", "moved"}
    /\ Fault
    /\ Goto(p, AfterSave(pc[p]))
    /\ UNCHANGED <<state, on, dest, gluetun, late, ops, stops>>

\* The poller saves the State when the public IP has changed, and so do the
\* handlers of the other settings.
OtherSaves ==
    /\ up
    /\ disk' = Saved
    /\ UNCHANGED <<up, toggle, loc, env, routine, gluetun, late, bounds>>

-----------------------------------------------------------------------------
\* The steps of an operation or a cycle that has begun.
Advance(p) ==
    \/ Serve(p)
    \/ Refuse(p)
    \/ GiveUp(p)
    \/ RecordToggle(p)
    \/ WriteEnv(p)
    \/ RecordSwitch(p)
    \/ Save(p)
    \/ SaveFails(p)

Next ==
    \/ Boot
    \/ DaemonCrash
    \/ HostReboot
    \/ ServeLate
    \/ OtherSaves
    \/ \E p \in Slots :
        \/ StartToggle(p)
        \/ StartSwitch(p)
        \/ Advance(p)

\* Docker restarts the daemon, and a call ends: the client has a timeout.
Fairness == WF_vars(Boot) /\ \A p \in Slots : WF_vars(Advance(p))

Spec == Init /\ [][Next]_vars /\ Fairness

-----------------------------------------------------------------------------
(* Properties.                                                             *)

Commands == [do : {"start", "stop", "target"}, dest : Locs, who : {"user", "cycle"}]

\* The type invariant.
TypeOK ==
    /\ up \in BOOLEAN
    /\ toggle \in BOOLEAN
    /\ loc \in Locs
    /\ disk \in [toggle : BOOLEAN, loc : Locs]
    /\ env \in Locs
    /\ pc \in [Slots -> Places]
    /\ on \in [Slots -> BOOLEAN]
    /\ dest \in [Slots -> Locs]
    /\ run \in {"running", "stopped"}
    /\ target \in Locs
    /\ tunnel \in Locs
    /\ late \in SUBSET Commands
    /\ by \in {"nobody", "user", "cycle"}
    /\ tried \in SUBSET Locs
    /\ ops \in Nat
    /\ faults \in Nat
    /\ stops \in Nat

\* Nothing went wrong so far.
Smooth == faults = 0 /\ stops = 0

\* While nothing goes wrong, a cycle that stops the VPN starts it again, in
\* whatever order the cycles and the toggles of several requests reach
\* gluetun: a stopped VPN was stopped by the user, or is about to be started.
StoppedHasOwner ==
    Smooth /\ run = "stopped" => by = "user" \/ \E p \in Slots : pc[p] = "start"

\* While nothing goes wrong, a tunnel that is not at the chosen location is
\* about to be cycled: two crossing switches never leave it at the older one.
TunnelFollowsTarget ==
    Smooth /\ run = "running" /\ tunnel # target =>
        \E p \in Slots : pc[p] \in {"targeted", "noted", "moved", "stop"}

\* Whatever goes wrong, the location that the State shows, in memory and in
\* state.json, and the one that .env has for the next deployment, were
\* accepted by gluetun before.
LocWasTarget == {loc, disk.loc, env} \subseteq tried

\* Every request and every cycle ends.
OpsEnd == \A p \in Slots : pc[p] # "idle" ~> pc[p] = "idle"

\* "The brief tunnel-down window" of SwitchLocation: a tunnel that a cycle
\* took down comes up again, unless the user has it off.  This holds while
\* nothing goes wrong: a start that fails is logged and not tried again.
CycleRestores ==
    run = "stopped" ~> run = "running" \/ by = "user" \/ ~Smooth

-----------------------------------------------------------------------------
(* The inductive invariant.                                                *)

\* Only a call that was given up, or cut off by a crash, is carried out late.
NothingLate == Smooth => late = {}

IInv ==
    /\ TypeOK
    /\ NothingLate
    /\ StoppedHasOwner
    /\ TunnelFollowsTarget

\* What a goroutine of a switch is about to record, gluetun has accepted.
RecordsAccepted ==
    /\ LocWasTarget
    /\ BootLoc \in tried
    /\ \A p \in Slots : pc[p] \in {"targeted", "noted"} => dest[p] \in tried

-----------------------------------------------------------------------------
(* What the design says, and the code does not do.                         *)

Quiet == up /\ late = {} /\ \A p \in Slots : pc[p] = "idle"

\* The design's '"Surfshark ON" state == wg0 interface present and healthy':
\* when nothing is under way, the toggle is on exactly if the VPN runs.
ToggleIsStatus == Smooth /\ Quiet => (toggle <=> run = "running")

=============================================================================
