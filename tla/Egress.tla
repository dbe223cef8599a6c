------------------------------- MODULE Egress -------------------------------
(***************************************************************************)
(* The egress policy of the exit node: docker/entrypoint-front.sh, which   *)
(* sets up policy routing on the host and then polls the daemon's          *)
(* /api/status to choose where the clients' packets go.                    *)
(*                                                                         *)
(* The kernel's ip rules and the routing table outlive the container; a    *)
(* reboot of the host clears them.  The daemon is here only what the       *)
(* watcher sees of it: the two booleans of its State, each read on its     *)
(* own, since the status handler takes no lock.                            *)
(***************************************************************************)
EXTENDS Naturals

CONSTANTS
    Allowing,        \* what TS_ALLOWED_USERS may say of the watcher: it passes or not
    KillSwitchEnv,   \* KILL_SWITCH in the daemon's environment
    AddMayFail,      \* "ip rule add" may fail
    MaxChanges,      \* bound: changes of the settings, and stops of the daemon
    MaxStops         \* bound: stops of the container, and reboots

ASSUME EgressAssumption ==
    /\ Allowing \in SUBSET BOOLEAN
    /\ KillSwitchEnv \in BOOLEAN
    /\ AddMayFail \in BOOLEAN
    /\ MaxChanges \in Nat
    /\ MaxStops \in Nat

VARIABLES
    toggle,   \* State.Surfshark.Toggle
    userOn,   \* State.KillSwitch.UserOn
    api,      \* the daemon answers
    admits,   \* TS_ALLOWED_USERS of its container is "*": the watcher's requests pass
    table,    \* the default route of table tss-egress, or "empty"
    rules,    \* the ip rules of the front's interface
    tun,      \* the exit node is up: clients' packets arrive on the interface
    front,    \* how far the front's entrypoint is
    pc,       \* where its watcher is
    vpn,      \* the watcher's vpn: what it read of toggle
    mode,     \* the watcher's mode: what it decided last
    last,     \* the watcher's last_mode: what it applied last
    changes,  \* ghost: changes so far
    stops     \* ghost: stops so far

settings == <<toggle, userOn, api, admits>>
kernel == <<table, rules>>
watcher == <<pc, vpn, mode, last>>
vars == <<toggle, userOn, api, admits, table, rules, tun, front,
          pc, vpn, mode, last, changes, stops>>

-----------------------------------------------------------------------------
Modes == {"gluetun", "block", "direct"}

\* Priority 50, and priority 100.
Rules == {"unreachable", "lookup"}

\* Mutant: a fourth outcome, which egress_apply does not know.
DecideUnknown(v, ks) == IF v THEN "gluetun" ELSE IF ks THEN "block" ELSE "free"

\* The comment table of the three modes, and the watcher's if/elif/else.
Decide(v, ks) == IF v THEN "gluetun" ELSE IF ks THEN "block" ELSE "direct"

Wanted == Decide(toggle, userOn)

\* The rules that egress_apply leaves.
RulesOf(m) == CASE m = "gluetun" -> {"lookup"}
                [] m = "block"   -> {"unreachable"}
                [] m = "direct"  -> {}

\* Where a client's packet goes: the rules in order of priority; a lookup in
\* an empty table falls through to the host's default route.
ClientPath ==
    IF ~tun THEN "none"
    ELSE IF "unreachable" \in rules THEN "dropped"
    ELSE IF "lookup" \in rules /\ table = "gluetun" THEN "gluetun"
    ELSE "host"

PathOf(m) == CASE m = "gluetun" -> "gluetun"
               [] m = "block"   -> "dropped"
               [] m = "direct"  -> "host"

\* The steps of the entrypoint after which something is different.
Phases == {"down", "starting", "joined", "flushed", "routed", "cleared",
           "ruled", "running"}

Init ==
    /\ toggle \in BOOLEAN
    /\ userOn \in BOOLEAN
    /\ api = FALSE
    /\ admits \in Allowing
    /\ table = "empty"
    /\ rules = {}
    /\ tun = FALSE
    /\ front = "down"
    /\ pc = "off"
    /\ vpn = FALSE
    /\ mode = "init"
    /\ last = "init"
    /\ changes = 0
    /\ stops = 0

-----------------------------------------------------------------------------
(* The daemon.                                                             *)

\* A setting changes, or the daemon stops.
Change ==
    /\ api
    /\ changes < MaxChanges
    /\ changes' = changes + 1

\* Ops.Toggle, once gluetun has accepted.
SetToggle ==
    /\ toggle' = ~toggle
    /\ UNCHANGED userOn
    /\ Change
    /\ UNCHANGED <<api, admits, kernel, tun, front, watcher, stops>>

\* Ops.SetKillSwitch.
SetKillSwitch ==
    /\ userOn' = ~userOn
    /\ UNCHANGED toggle
    /\ Change
    /\ UNCHANGED <<api, admits, kernel, tun, front, watcher, stops>>

\* The daemon's container stops; its State is on disk.
DaemonStop ==
    /\ Change
    /\ api' = FALSE
    /\ UNCHANGED <<toggle, userOn, admits, kernel, tun, front, watcher, stops>>

\* main() turns the kill switch on when the environment says so.  The
\* operator may have edited TS_ALLOWED_USERS in .env meanwhile.
DaemonStart ==
    /\ ~api
    /\ api' = TRUE
    /\ admits' \in Allowing
    /\ userOn' = (userOn \/ KillSwitchEnv)
    /\ UNCHANGED <<toggle, kernel, tun, front, watcher, changes, stops>>

-----------------------------------------------------------------------------
(* The front's entrypoint.                                                 *)

\* The script moves from one phase to the next.
Reach(from, to) ==
    /\ front = from
    /\ front' = to

\* The container starts, and tailscaled; its socket appears.
FrontStart ==
    /\ Reach("down", "starting")
    /\ UNCHANGED <<settings, kernel, tun, watcher, changes, stops>>

\* "tailscale up --advertise-exit-node" brings up the interface.
TailscaleUp ==
    /\ Reach("starting", "joined")
    /\ tun' = TRUE
    /\ UNCHANGED <<settings, kernel, watcher, changes, stops>>

FlushTable ==
    /\ Reach("joined", "flushed")
    /\ table' = "empty"
    /\ UNCHANGED <<settings, rules, tun, watcher, changes, stops>>

AddRoute ==
    /\ Reach("flushed", "routed")
    /\ table' = "gluetun"
    /\ UNCHANGED <<settings, rules, tun, watcher, changes, stops>>

\* The rule of priority 50 is not a rule of the table: it stays.
ClearRules ==
    /\ Reach("routed", "cleared")
    /\ rules' = rules \ {"lookup"}
    /\ UNCHANGED <<settings, table, tun, watcher, changes, stops>>

\* Mutant: the old rules are removed and none is installed.
AddLookupForgotten ==
    /\ Reach("cleared", "ruled")
    /\ UNCHANGED <<settings, kernel, tun, watcher, changes, stops>>

AddLookup ==
    /\ Reach("cleared", "ruled")
    /\ rules' = rules \cup {"lookup"}
    /\ UNCHANGED <<settings, table, tun, watcher, changes, stops>>

StartWatcher ==
    /\ Reach("ruled", "running")
    /\ pc' = "poll"
    /\ UNCHANGED <<settings, kernel, tun, vpn, mode, last, changes, stops>>

\* tailscaled and the watcher end with the container.
Ends ==
    /\ stops < MaxStops
    /\ stops' = stops + 1
    /\ front' = "down"
    /\ tun' = FALSE
    /\ pc' = "off"
    /\ vpn' = FALSE
    /\ mode' = "init"
    /\ last' = "init"

\* tailscaled dies, a step of the script fails, or the container is stopped.
FrontExit ==
    /\ front # "down"
    /\ Ends
    /\ UNCHANGED <<settings, kernel, changes>>

\* The host's kernel forgets the rules and the table.
HostReboot ==
    /\ Ends
    /\ api' = FALSE
    /\ table' = "empty"
    /\ rules' = {}
    /\ UNCHANGED <<toggle, userOn, admits, changes>>

-----------------------------------------------------------------------------
(* egress_watcher and egress_apply.                                        *)

\* The status handler copies State.Surfshark, without the mutex ...
PollToggle ==
    /\ pc = "poll"
    /\ api
    /\ admits
    /\ vpn' = toggle
    /\ pc' = "read"
    /\ UNCHANGED <<settings, kernel, tun, front, mode, last, changes, stops>>

\* ... and State.KillSwitch after it.
PollUserOn ==
    /\ pc = "read"
    /\ api
    /\ mode' = Decide(vpn, userOn)
    /\ pc' = IF mode' = last THEN "poll" ELSE "unblock"
    /\ UNCHANGED <<settings, kernel, tun, front, vpn, last, changes, stops>>

\* The daemon stops before it answers: curl fails, and the watcher sleeps.
PollLost ==
    /\ pc = "read"
    /\ ~api
    /\ pc' = "poll"
    /\ UNCHANGED <<settings, kernel, tun, front, vpn, mode, last, changes, stops>>

\* The middleware answers 403: grep finds no toggle in the body, the pipeline
\* fails, and "set -e" with pipefail ends the watcher's subshell.
PollForbidden ==
    /\ pc = "poll"
    /\ api
    /\ ~admits
    /\ pc' = "refused"
    /\ UNCHANGED <<settings, kernel, tun, front, vpn, mode, last, changes, stops>>

\* Mutant: a block is kept until its successor is in place, and forgotten.
DeleteBlockKept ==
    /\ pc = "unblock"
    /\ pc' = "unroute"
    /\ UNCHANGED <<settings, kernel, tun, front, vpn, mode, last, changes, stops>>

DeleteBlock ==
    /\ pc = "unblock"
    /\ rules' = rules \ {"unreachable"}
    /\ pc' = "unroute"
    /\ UNCHANGED <<settings, table, tun, front, vpn, mode, last, changes, stops>>

DeleteLookup ==
    /\ pc = "unroute"
    /\ rules' = rules \ {"lookup"}
    /\ pc' = "add"
    /\ UNCHANGED <<settings, table, tun, front, vpn, mode, last, changes, stops>>

\* Mutant: last_mode is not recorded as what was applied.
AddRuleUnrecorded ==
    /\ pc = "add"
    /\ rules' = rules \cup RulesOf(mode)
    /\ last' = Wanted
    /\ pc' = "poll"
    /\ UNCHANGED <<settings, table, tun, front, vpn, mode, changes, stops>>

AddRule ==
    /\ pc = "add"
    /\ rules' = rules \cup RulesOf(mode)
    /\ last' = mode
    /\ pc' = "poll"
    /\ UNCHANGED <<settings, table, tun, front, vpn, mode, changes, stops>>

\* "ip rule add" fails: "set -e" ends the watcher's subshell.
AddFails ==
    /\ AddMayFail
    /\ pc = "add"
    /\ mode # "direct"
    /\ pc' = "dead"
    /\ UNCHANGED <<settings, kernel, tun, front, vpn, mode, last, changes, stops>>

-----------------------------------------------------------------------------
Daemon == SetToggle \/ SetKillSwitch \/ DaemonStop \/ DaemonStart

Script ==
    \/ FrontStart
    \/ TailscaleUp
    \/ FlushTable
    \/ AddRoute
    \/ ClearRules
    \/ AddLookup
    \/ StartWatcher

Watch ==
    \/ PollToggle
    \/ PollUserOn
    \/ PollLost
    \/ PollForbidden
    \/ DeleteBlock
    \/ DeleteLookup
    \/ AddRule
    \/ AddFails

Next == Daemon \/ Script \/ FrontExit \/ HostReboot \/ Watch

\* Docker restarts both containers (restart: unless-stopped), the script does
\* not stop by itself, and the watcher is a loop.
Fairness == WF_vars(DaemonStart) /\ WF_vars(Script) /\ WF_vars(Watch)

Spec == Init /\ [][Next]_vars /\ Fairness

-----------------------------------------------------------------------------
(* Properties.                                                             *)

\* The type invariant.
TypeOK ==
    /\ toggle \in BOOLEAN
    /\ userOn \in BOOLEAN
    /\ api \in BOOLEAN
    /\ admits \in BOOLEAN
    /\ table \in {"empty", "gluetun"}
    /\ rules \in SUBSET Rules
    /\ tun \in BOOLEAN
    /\ front \in Phases
    /\ pc \in {"off", "poll", "read", "unblock", "unroute", "add",
              "refused", "dead"}
    /\ vpn \in BOOLEAN
    /\ mode \in Modes \cup {"init"}
    /\ last \in Modes \cup {"init"}
    /\ changes \in Nat
    /\ stops \in Nat

\* Between two applications the clients' packets go where last_mode says,
\* whatever the rules were that an earlier container left: "if mode is
\* last_mode there is nothing to do" is right only because of this.  A
\* watcher that a request refused has ended leaves them there.
HonestLast ==
    pc \in {"poll", "read", "unblock", "refused"} /\ last # "init" =>
        ClientPath = PathOf(last)

\* Clients reach the host's own connection, past the VPN, only when the
\* watcher has chosen it, in the middle of a switch, before the script has
\* installed its rule, or after a failed "ip rule add".
HostPathExplained ==
    ClientPath = "host" =>
        \/ last = "direct"
        \/ pc \in {"unroute", "add"}
        \/ front \in {"joined", "flushed", "routed", "cleared"}
        \/ AddMayFail /\ pc = "dead"

\* When the settings stop changing, the clients' path becomes, and stays, the
\* one the settings ask for, unless the watcher has ended.
Converges ==
    \A m \in Modes :
        <>[](Wanted = m /\ pc \notin {"refused", "dead"}) => <>[](ClientPath = PathOf(m))

-----------------------------------------------------------------------------
(* Why HonestLast holds: the inductive invariant.                          *)

\* The watcher lives as long as the script's last phase, and starts afresh.
WatcherOfRun ==
    /\ pc # "off" <=> front = "running"
    /\ pc = "off" => mode = "init" /\ last = "init"
    /\ pc \in {"unblock", "unroute", "add"} => mode \in Modes

\* What the script has installed at each phase.
ScriptProgress ==
    /\ tun <=> front \notin {"down", "starting"}
    /\ front \in {"routed", "cleared", "ruled", "running"} => table = "gluetun"
    /\ front = "ruled" => "lookup" \in rules

\* The rules at each step of the watcher.
RulesOfStep ==
    /\ pc \in {"poll", "read", "unblock", "refused"} =>
        IF last = "init" THEN "lookup" \in rules ELSE rules = RulesOf(last)
    /\ pc = "unroute" => "unreachable" \notin rules
    /\ pc = "add" => rules = {}
    /\ pc = "dead" => AddMayFail

IInv == TypeOK /\ WatcherOfRun /\ ScriptProgress /\ RulesOfStep

-----------------------------------------------------------------------------
(* What the repository says, and the code does not do.                     *)

\* "VPN off, KS on -> block - drop with ICMP unreachable, no leaks": while the
\* watcher replaces the tunnel by a block, no packet takes the host's
\* connection.
NoLeakWhenBlocking ==
    mode = "block" /\ last = "gluetun" /\ pc # "dead" => ClientPath # "host"

\* "Toggle OFF + KILL_SWITCH=false -> exit-node client keeps internet via
\* Synology ISP IP".
DirectWhenOff ==
    <>[](Wanted = "direct") => <>(ClientPath = "host" /\ front = "running")

=============================================================================
