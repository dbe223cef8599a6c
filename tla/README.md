# Specifications of tailscale-surfshark

TLA+ modules beside the code of a Tailscale exit node whose traffic leaves
through Surfshark: a Go daemon that controls gluetun over HTTP, shell entrypoints
that set up the host's routing, and a dashboard. TLC checks the modules on small
instances, TLAPS proves the main safety properties for every value of the
constants. The reference is the source; where the documents say something else,
`PROJECT.json` lists it under `findings` with the run that shows it.

    tlc -workers 2 -config Egress_policy.cfg MCEgress     # a run
    tlapm EgressProofs.tla                                # the proofs of a module

## The system

| Part | State | Operations | What is hard | What makes it correct |
|---|---|---|---|---|
| State store, `internal/state` | `State` in memory, `state.json`, `.tmp`, a mutex | `Load`, `Save`; unlocked assignments by the handlers and the poller | only `Save` locks; marshalling beside assignments; crashes between truncate, write and rename; failed writes | an acknowledged setting is on disk; the file never goes back, nor is cut short |
| Egress policy, `docker/entrypoint-front.sh` | ip rules and a table in the host's kernel, `last_mode` in a subshell | the script's set-up, the watcher's poll, `egress_apply` | the rules outlive the container; two reads of a poll; `set -e` ends the watcher; rules deleted before added | the kernel does what `last_mode` says; clients pass the VPN by only when wanted; it converges |
| Daemon operations, `cmd/surfshark-control`, `internal/httpapi`, `internal/gluetun` | toggle, location, `.env`; gluetun's status and settings | `Toggle`, `SwitchLocation` with a stop/start cycle left behind, settings, the poller, boot | a goroutine per request, nothing orders them; refusals, timeouts, late effects; restarts of either side | no cycle strands the VPN; the tunnel reaches the chosen location; what is recorded was accepted |
| Event bus and SSE, `internal/eventbus`, `httpapi/sse.go` | the set of channels, their contents | `Publish`, `Subscribe`, `Unsubscribe`, receive | slow clients, full channels, a channel closed beside a send | no send on a closed channel, no lost wakeup, order, nobody blocks |
| `.env` rewriting, `updateEnvSurfsharkLocation` | `.env` | read, edit, truncate, write | no lock, not atomic | the other lines survive |
| Dashboard, `web/app.js` | a copy of the status, an overlay | status requests, optimistic updates, the three actions and their wait, SSE | requests in flight together, answers overtaken or lost, an event source that comes and goes | one overlay for one action; no stale page without a reason; the page ends up with the daemon's state |
| WireGuard watchdog, `internal/watchdog/wg.go` | the locals of a recovery | `Run`, `recover`, `NextCandidateExcluding` | lists change during the walk; the loop over offsets | it tries the nearest first, none twice, gives up only when none is left, and ends |
| WireGuard controller, `internal/wireguard` | interface, routes, a wg-quick beside it | `Up`, `Down`, routes | one command of several fails, wg-quick hangs, wg0 dies | what fails is taken back; WireGuard's packets do not loop; `Up` returns |
| iptables, `internal/iptables` | the kernel's table | base rules, arm, disarm | commands that fail with or without effect | an armed kill switch blocks on every path |
| Configuration store, `internal/surfshark` | key pair, JSON files, `wg0.conf` | `EnsureKeypair`, `RenderWG0ConfAll`, `WriteAll` | crashes and failed writes between files | a key that was used is kept; the list is exact |
| Access: `internal/auth`, `internal/config`, `internal/tailscale` | none | `Wrap`, `LoadFromMap`, `Whois` | who is trusted | only admitted callers see anything |
| Watchdog of tailscaled, status poller of `internal/watchdog`, `entrypoint.sh`, logging | next to none | timers, a script | | not modelled, see below |

The browser calls the HTTP handlers; a handler calls gluetun, changes the `State`,
saves it and publishes an event; the bus wakes the SSE handlers, and the page
fetches `/api/status` again. The egress watcher fetches the same status every
five seconds and sets the host's rules. gluetun is shared by every request
goroutine. The WireGuard watchdog and controller, the iptables rules, the status
poller of `internal/watchdog` and the configuration store are in the repository
with their tests, but `main` does not use them at this commit.

## The modules

| Module | Models | Composes or refines |
|---|---|---|
| `StateStore` | `state.go` with the goroutines of `main.go` that write to the `State` | refines `AtomicState` |
| `AtomicState` | what a saved setting promises: atomic commits, acknowledged after | |
| `Egress` | `entrypoint-front.sh`: set-up, watcher, `egress_apply`, the kernel's rules; the daemon as the watcher sees it | |
| `EventBus` | `bus.go` and the handler of `sse.go` | refines `Signal` |
| `Signal` | what the bus promises: after any event, a reason to look again | |
| `Control` | `Ops`, the handlers and the gluetun client; gluetun as the daemon uses it (external) | `Save` is one step here, detailed in `StateStore` |
| `EnvFile` | `updateEnvSurfsharkLocation` | detailed step of `Control`'s `WriteEnv` |
| `Access` | `env.go`, `middleware.go`, `Whois`: functions | |
| `Dashboard` | `app.js`, with the handlers and operations as the page meets them | extends `Access`; the bus is `Signal`, which `EventBus` refines |
| `Failover` | `wg.go` | |
| `Wireguard` | `controller.go`, with wg-quick and wg0 (external) | |
| `Nftables` | `rules.go`, with the kernel's table (external) | |
| `Gateway` | the clients' path | composes `Wireguard` and `Nftables` |
| `ConfigStore` | `configstore.go`, and of `api.go` what it is given | |
| `MC*` | the instances for TLC | |
| `*Proofs` | theorems about the module of that name; `NativeProofs` about `Gateway` and `ConfigStore` | |

An operator commented `Mutant` is a wrong version of the definition after it. No
specification uses one; each shows that a property would notice the mistake.

### StateStore

A value is the rank of the write it comes from among the writes of the same
field, once per machine word: `[lo, hi]`. A string or a slice is assigned in two
steps (`AssignFirst`, `AssignLast`), a flag in one (`AssignWord`), without the
mutex, as in `Ops.Toggle`, `SwitchLocation`, `SetKillSwitch`, `SetPreferred` and
the poller. `Save` is six steps: lock, marshal field by field, truncate and write
`state.json.tmp`, rename, unlock; `SaveFails` is every early return. An interrupted
`.tmp` is not read again, so what it holds after a crash does not matter. `Boot` is
`Load` with its fallback to `Default`, and the flag that `main` may set without
saving (`BootFields`: the kill switch). That is a new write, which is not the client's,
so the durability properties speak of the other `Settings`, and `UserTogglesWin` of what
becomes of the client's kill switch. `acked` records what the handlers that return `Save`'s error have told
their client; `SwitchLocation` and the poller ignore it, so their field is not
`Reported`. The model is of a crash of the process, not of a power failure: no
`fsync` is called, and the code promises nothing there.

### Egress

The phases of `front` are the places of the script after which something observable
has changed. The ip rules and the table survive `FrontExit` (the container uses the
host's network) and not `HostReboot`. The watcher's variables are the script's:
`vpn`, `mode`, `last_mode`; its `pc` is a place in its loop. A poll reads the toggle
and the kill switch in two steps, since `handleStatus` copies two structs without a
lock. `egress_apply` is three steps: delete priority 50, delete the table's rule,
add. `PollForbidden` and `AddFails` are the two ways for `set -e -o pipefail` to end
the watcher's subshell, after which the container runs on. `admits` says whether
the authentication middleware admits the watcher's request, which comes over the
bridge; it is chosen from `Allowing` once, as the list of users is. The settings are taken to be on disk when the daemon stops, which is what
`StateStore` is about. `tailscale serve reset` and the socat proxy touch nothing the
rules depend on and are left out.

### Control

Each request, and the cycle that `SwitchLocation` leaves behind, is one slot `p`
with a place `pc[p]`. `Serve` is a call that gluetun carries out and answers,
`Refuse` one without effect, `GiveUp` one that the client abandons (15 s, or the
request's context) and that gluetun may still carry out (`ServeLate`). A crash of
the daemon loses its goroutines, and any of their calls may still take effect.
gluetun is external: a status, the settings of the next start, and the location of
the running tunnel; a start uses the settings of that moment. A reboot starts
gluetun from its container's environment, or from `.env` if the deployment is made
anew. `OtherSaves` is a save by the poller or by a handler of another setting; it
can happen whenever the daemon runs, which covers all of them. The parsing of
"Country / City" and the event are left out: the former is in `EnvFile`, the latter
in `EventBus`.

### EventBus

An event is its number. `Publish` holds the mutex while it visits the channels
(`todo`), in any order, as a Go map is iterated. `Disconnect` may happen at any time
(`select` with the request's context); the deferred `Unsubscribe` needs the mutex.
`owed` is a history variable: connections that were offered an event since they last
received one, whether the event was kept or dropped. The keepalive changes nothing.

### EnvFile

The file is its two edited lines and the set of the others. `os.WriteFile` is a
truncation and a write; two writers that overlap write over each other from the
file's start, so what is longer leaves a rest (`Junk`, or a city's line). A write
may fail and the process may die in between.

### Dashboard

Status requests are a sequence in the order of sending: any of them may be served,
answered or lost at any time, and the answer that arrives last is what the page
shows (`Return`). `handleStatus` copies one struct per step (`Copy`). A change has two
sides, where the daemon is with it (`at`: coming, changed, answered, gone) and where
the page is (`page`: posted, asking, sleep, over): a `fetch` that throws may leave a
request that the daemon still carries out. `Foreign` is a change by the poller, or by
another client. The wait of an action is `NextRound` and `Return`: a status request,
the condition on what the page has *then*, a second's sleep. The bus is the abstract
`Signal`, so only what `EventBus` is shown to implement is used. `slip` is a history
variable: an event was missed or an answer lost or overtaken, and no status request
was alone in flight since. Who is admitted comes from `Access`, by the environment and
the kind of caller. The daemon's `State` is taken to be on disk at a restart, which is
what `StateStore` is about, and a toggle or a switch is one assignment, detailed in
`Control`; the kill switch is set at each start as `main` does.

A change keeps its number as long as the daemon or the page is concerned with it
(`Goto` forgets it when both are done), so a handler that answers late finds its own
change and not a later one of the same kind.

### Failover

A location is its rank among the names, so "alphabetically nearest" is arithmetic.
`Candidate` is `NextCandidateExcluding`: the first fitting place of the preferred list,
or the first of the turns that the nested loops over offsets take (`Meets`), or the
least of the list when the current location is not in it. `Relist` may change both
lists between any two steps, a location at a time, as often as it takes. `refuted` is what has failed in this recovery.

### Wireguard, Nftables and Gateway

One action per command, each of which can fail with its effect or without. wg-quick is
a process of its own beside `Up`; its context, `Up`'s deadline and `Up`'s deferred
cancel are `QuickKilled`, `Expire` and `UpReturns`. `Poll` is `Up` beside wg-quick,
`Install` the commands with a timeout of five seconds, `Untimed` those without one:
`wg-quick down`, and the deletions, which a rollback runs under `context.Background()`. wg0 may die at any time, and its
routes with it. `spoiled` says that a deletion whose error is ignored has failed since
the last installation. Each side has one caller, as nothing in the code locks them;
in `Gateway` their commands interleave. `ClientPath` is the kernel's decision: the two
halves of the default route, and what is forwarded to the LAN unless the chain drops it.

### ConfigStore

Every file is written in two steps, a truncation and a write, and the process may die or
a write fail at each. A key is drawn from `fresh`, so no key comes twice. `misread` says
that a key file was there and could not be read; `skipped` that `WriteAll` has ignored an
error of `ReadDir` or `Remove`. One rendering and one refresh at a time, together.

## The runs

| Run | Question | Result |
|---|---|---|
| `StateStore_saves` | does a saved setting survive concurrency, errors and a crash, does a string saved half-assigned heal, and does every `Save` return? | `IInv`, `AckedDurable`, `AckedVisible`, `TornHeals`, `DiskMonotone`, `AtomicSpec`, `SaveTerminates` hold |
| `Egress_policy` | does the kernel do what the watcher believes, do clients pass the VPN by for listed reasons only, does the path converge, whether or not the watcher is admitted? | `IInv`, `HonestLast`, `HostPathExplained`, `Converges` hold |
| `Egress_leak` | is a switch from the tunnel to the block free of leaks? | no: `NoLeakWhenBlocking` is violated |
| `Egress_denied` | do clients get the host's connection with the VPN and the kill switch off, when `TS_ALLOWED_USERS` is a list? | no: `DirectWhenOff` is violated |
| `EventBus_signal` | is the bus a signal, without panic, reordering or blocking? | `IInv`, `NoSendOnClosed`, `InOrder`, `NobodyWaits`, `WakesSpec`, `ReadersWoken` hold |
| `Control_ops` | do crossing operations, cycles, faults and restarts leave gluetun and the records right? | `IInv`, `StoppedHasOwner`, `TunnelFollowsTarget`, `LocWasTarget`, `OpsEnd`, `CycleRestores` hold |
| `Control_toggle` | is the toggle the VPN's status once all is quiet? | no: `ToggleIsStatus` is violated by a cycle's start after a toggle off |
| `StateStore_choice` | does a client's kill switch survive a restart? | no: `UserTogglesWin` is violated by `main`'s start |
| `Files_writes` | do edits of `.env` keep the rest; do key and list survive crashes and failed writes? | `IInv`, `EditsKeepTheRest`, `CountryAlwaysThere`, `StoreInv`, `KeyKept`, `ListExact` hold |
| `Native_failures` | are routes and rules right after any failure; does a recovery try the right locations in the right order, and end? | `IInv`, `NoLoop`, `ArmedBlocks`, `CallsEnd`, `SearchInv`, `GivesUpExhausted`, `NextIsNearest`, `RecoverEnds` hold |
| `Failover_three` | does the search stop at the three nearest neighbours? | no: `ThreeNeighbours` is violated by the fourth |
| `Dashboard_page` | does the page show the daemon's state in the end, and meanwhile know why not? | `IInv`, `StaleHasReason`, `PageSettles` hold |

`IInv` is a module's inductive invariant and has `TypeOK` as its first conjunct;
a run checks it because the proofs rest on it. `ConfigStore` calls it `StoreInv`, and
`Failover` `SearchInv`; their specifications are `StoreSpec` and `SearchSpec`. Their names
differ because other modules extend them beside `Gateway` or `EnvFile`: `NativeProofs`,
and `MCNative` and `MCFiles`, which check two modules that share nothing in one run each.
There `part` says which of them moves; the other keeps its initial state.

A violation run shows what the code does, by a trace that a reader can follow in the
source; its property quotes the document, comment or checklist it comes from. Other
departures from the documents and comments, which the models contain without a run:

- `Save` holds a mutex that the assignments do not take ("Single writer", says the
  design), so a string can be saved half-assigned; `TornHeals` says until when. Two
  goroutines assigning the same string can leave it torn for good.
- Two switches may reach gluetun in one order and the `State` in the other;
  `state.json` then keeps a location that gluetun is not set to.
- Overlapping edits of `.env` can lose its other lines (`EditsKeepTheRest` is about
  edits one after the other), and so can a crash between truncation and write.
- The design falls back to neighbours only when no location is preferred; `wg.go` also does
  when the preferred ones are exhausted, as its comment says. Neither fallback stops at three.
- Nobody tells gluetun the saved toggle after a reboot; a failed start of a cycle is
  logged and never retried, which is why `CycleRestores` is about runs without faults.
- The exit node is up before its rule is (one of the reasons `HostPathExplained` lists).
- A list of users does not admit the watcher, which then ends in the tunnel's mode.
- `Up` returns once it sees wg0, "background wg-quick may still be running", but its
  deferred cancel kills that wg-quick.
- "A stalled netlink call can't hang the whole request indefinitely", says
  `controller.go:132`, but the rollback's deletions have no timeout: `CallsEnd` promises
  that an installation returns or comes to its rollback, no more.
- Arming the kill switch deletes the armed chain first, and `ApplyBase` deletes it
  altogether: `ArmedBlocks` ends at the next call.
- A key file that is there but cannot be read is replaced by a new key (`misread` in
  `KeyKept`). Keys that are drawn are for tests, says `configstore.go:40`; with
  `SURFSHARK_PRIVATE_KEY` there is nothing to lose.

What these properties do not say follows from the list: `CycleRestores`, `StoppedHasOwner`
and `TunnelFollowsTarget` are about runs without faults, and about gluetun alone;
`LocWasTarget` says that a recorded location was once accepted, not that the `State`, `.env`
and gluetun agree; `EditsKeepTheRest` is about edits one after the other that are not cut
short; `ArmedBlocks` ends at the next call of the rules. `hazards` in `PROJECT.json` says
of each part that no property covers why none does.

### Bounds

A bound on a counter is a constant named `Max...` in a guard; other bounds are sets,
such as `Picks` and `Keys`, marked as bounds where they are declared.

- `StateStore`: two goroutines, the toggle, the kill switch that the boot may set, and a
  string; one write of each flag by a client, two of the string, one crash. Two goroutines
  are the least that race for the mutex; one write of a flag is enough for another's older
  snapshot to undo it, two writes of the string for its halves to differ for good; one crash
  at any step, followed by a boot and more saves, covers each place of `Save`.
  `StateStore_choice` needs one goroutine and the two flags.
- `Egress`: five changes of the settings or stops of the daemon, three stops of the
  front. Modes need at most two changes, so several whole transitions are covered,
  from every state that an earlier container can have left.
- `EventBus`: two publishers, two connections, channels of two places, four events:
  a channel fills and drops. The daemon's length is 64; nothing depends on the number.
- `Control`: two goroutines, two locations, three operations, one fault, one stop: a
  goroutine whose operation is over serves the third, so a cycle can cross a toggle
  and a switch. The proofs cover any number of goroutines.
- `EnvFile`: two writers, four edits, two faults: one between a truncation and its write,
  and one more elsewhere.
- `Failover`: five locations, so that a fourth neighbour exists, and two preference lists,
  the empty one and one that begins with a location that is not offered. With five the
  offsets to the left and to the right also run past an end at different turns. Nothing
  else is bounded.
- `Gateway`: two peers; nothing is bounded.
- `ConfigStore`: three slugs, two versions of a server, three keys, with symmetry (no
  liveness is checked); nothing is bounded but the keys to draw.
- `Dashboard`: two status requests at once, two changes and one fault in all, a wait of
  two rounds, two locations of which the user picks one, one address. Two
  requests are the least to overtake each other, two changes the least to cross; the
  wait's rounds differ only in number. The environments and callers are those of the
  tests: a list, the wildcard, a list or a key that is missing, each path through the
  middleware.

Deadlock is not checked: with a bound on the operations every behaviour may stop, and
a dashboard nobody touches does nothing. What must not stop is stated as liveness.

### Fairness

- `StateStore`: a goroutine that can take a step takes it (the Go scheduler), and the
  mutex admits every waiter in the end (`sync.Mutex` has a starvation mode), hence
  strong fairness of `LockState`. No write is ever forced to begin.
- `Egress`: Docker restarts the daemon (`restart: unless-stopped`), the script runs on,
  and the watcher is a loop with a sleep. A stop, a change or a failure is never forced.
- `EventBus`: a `Publish` that has begun goes on; a handler that leaves gets the mutex.
  Nothing is assumed of the clients: `ReadersWoken` alone has their reading as its
  hypothesis.
- `Control`: Docker restarts the daemon; a call ends, if only by the client's timeout.
  gluetun need not carry out an abandoned call.
- `EnvFile` and `ConfigStore` have no liveness property and no fairness.
- `Failover`: `SwitchTo` and the probe return. Nothing is assumed of their answers.
- `Wireguard`, and so `Gateway`: the ten seconds pass, a command of an installation ends, if
  only by its five seconds, and so does the `ip link show` that `Up` polls with: it runs
  under the caller's context without a timeout of its own, and that it answers is an
  assumption. wg-quick, up or down, the deletions of routes and the nft commands may hang for
  ever: nothing bounds them in the code.
- `Dashboard`: handlers end, the oldest status request is answered or fails, the timers
  fire (strongly, because the bound on requests would otherwise hold them back). No event
  need ever arrive: `PageSettles` rests on the interval alone.

## The proofs

| Theorems | Module | Argument |
|---|---|---|
| `Invariance`, `TypeCorrect`, `Durability`, `Integrity`, `Visibility`, `TornValuesHeal`, `Monotone`, `Refinement`, `OnlyForward` | `StateStoreProofs` | see below |
| `Invariance`, `TypeCorrect`, `LastModeIsHonest`, `HostPathHasReason`, `SettledIsRight`, `SettlesSoon` | `EgressProofs` | the rules at each place of the watcher, and what the script has installed at each phase |
| `Invariance`, `TypeCorrect`, `NoPanic`, `WakeupsKept`, `OrderKept`, `Refinement`, `PublishGoesOn` | `EventBusProofs` | only the holder of the mutex has channels to visit, all of them registered; the newest event is in no channel that is still to visit |
| `Invariance`, `TypeCorrect`, `NoStrandedStop`, `TunnelCatchesUp`, `RecordsTrue`, `OnlyForward` | `ControlProofs` | without faults no call is late; a recorded location has been one of gluetun's |
| `Invariance`, `TypeCorrect`, `RestIsKept`, `CountryKept` | `EnvFileProofs` | an edit that is alone carries the other lines; a country is in the file or on its way |
| `Invariance`, `TypeCorrect`, `GivesUpOnlyExhausted`, `CandidatesInOrder`, `RecoveryShrinks` | `FailoverProofs` | what was tried is what has failed; the turns of the loops are the distances |
| `Invariance`, `TypeCorrect`, `StaleExplained`, `UsesSignal`, `NewsIsReason`, `ActionsGoOn` | `DashboardProofs` | one action and one awaited request; the request sent last is fresh |
| `Invariance`, `TypeCorrect`, `LoopFree`, `KillSwitchHolds`, `CallsGoOn` | `NativeProofs` | where the routes and rules stand at each command |
| `StoreInvariance`, `StoreTypeCorrect`, `KeyIsKept`, `ListIsExact` | `NativeProofs` | the public key is the mark that the private one is whole; of the files begun one at most is not |

They assume what the module's `ASSUME` says (`NoProc` is not a goroutine, bounds are
natural numbers, and so on) and hold for every number of goroutines, fields,
connections, locations, peers, slugs, keys, events, status requests and crashes: the
bounds are constants too.

*StateStore.* `AckedDurable` is not inductive: an acknowledgement is right only because
the goroutine's own write has reached the file. `IInv` follows that write
(`OwnWriteCarried`): it is in the memory when `Save` begins, in the snapshot once its
field is marshalled, in the file after the rename. That no other `Save` undoes it is
`SnapBetween`: what the holder of the mutex has marshalled lies between the file and
the memory, so renaming it only goes forward; `MutexHeld` makes the holder the only one
with a snapshot. Both need the field to be one word, hence `Settings`,
which also leaves out what `main` sets at its start. `Monotone` is the
same argument for a step. `Refinement` maps `state.json` to the committed settings: the
rename is `Commit`, the return of `Save` is `Acknowledge`, all else a stutter, a crash
included.

*Egress.* `HonestLast` is why "nothing to do when the mode has not changed" is right,
although the watcher never looks at the rules. `RulesOfStep` gives the rules at each of
its places; before the first application they may hold an old block beside the lookup,
and `egress_apply` deletes both.

*EventBus.* `Refinement` maps a channel that holds something to a listener that is ready:
a send, dropped or not, leaves it so. It needs `Registered`: a connection that joins is
owed nothing.

*Control.* `StoppedHasOwner` and `TunnelFollowsTarget` hold together with
`NothingLate`. `RecordsTrue` has an invariant of its own, `RecordsAccepted`, because it
also holds with faults.

*StateStore, torn strings.* `TornHeals` needs `SnapHeals`: a snapshot that was taken while
a string was torn is followed by the writer's own `Save`, whose snapshot is whole.

*Failover.* `NextIsNearest` compares the code's order of visits with the count of
locations in between; the lemmas relate the index in the sorted list (`Rank`, `At`) to
that count. `GivesUpExhausted` needs that the turns reach every index.

*ConfigStore.* `KeyKept` holds although two files are written, since `EnsureKeypair` draws
a key only when it does not find both, and writes the public one last (`PubMarksPriv`).

*Dashboard.* `StaleHasReason` speaks of any request in flight, and is not inductive: that
one of them is fresh is known only of the one sent last, since it has copied nothing that
changed before its sending (`LastIsFresh`); when the last answer arrives in order, what
it brought is what the page shows (`CaughtUp`). A change spoils both, and then its event
is still to come (`NewsComing`), or the page is no listener and `slip` says so.
`OneAction` is needed beside them for the types: `Return` resumes the action that awaits
the answer, and only `AskedFromShown` says that it began on a page that showed something
and is not the kill switch's. The lemmas say for each operator (`Goto`, `Begin`,
`FetchAfter`, `Ends`, `Return`) what it keeps, and the steps are put together from them.
`UsesSignal` is the other half of `EventBus`'s `Refinement`: the page's steps are
`Signal`'s, so that what `Signal` promises (`NewsIsReason`) holds here. It is proved and
not checked by a run.

*Why the liveness properties hold.* With fairness every operation ends, if each of its
steps brings it nearer to its end and nothing sets it back. That half of the argument is
an action property, and is proved: `RecoveryShrinks` (a recovery, whatever becomes of the
lists, for `tried` only grows), `OnlyForward` of `Control` (at most six steps, whatever
other requests and gluetun do) and of `StateStore`, `PublishGoesOn` (each channel that was
registered, once), `CallsGoOn` (at most seven commands, not counting the polls of `Up`
within its ten seconds; whether `wg-quick down` or a deletion ends is another question), `ActionsGoOn` (an action's wait, at most `Rounds` requests) and
`SettlesSoon` with `SettledIsRight` (at most nine steps of the watcher that the daemon
answers, after which the packets go where the settings want them). No run has these
properties, for they follow from the proofs alone; what remains for TLC is that a step
which may be taken is taken.

Only model-checked: everything with fairness (`SaveTerminates`, `Converges`,
`NobodyWaits`, `ReadersWoken`, `OpsEnd`, `CycleRestores`, `RecoverEnds`, `CallsEnd`,
`PageSettles`), since the prover does not reason about `ENABLED`. Every invariant and
every action property that a passing run checks is also a theorem.

## Not modelled

- Logging, the static files, `/api/healthz`, the parsing of command output (`IPv4`,
  `Status`, `DetectLANInterface`, `LastHandshake`), `entrypoint.sh` (a straight line
  ending in `exec`), the compose file: they keep no state that anything else changes.
- The tailscaled watchdog: `main` gives it a restart that does nothing. The status poller
  of `internal/watchdog`: `main` does not start it.
- What the page draws, its sheets and its search; the preferred locations, which `app.js`
  does not send.
- Durability across a power failure, and anything inside gluetun, tailscaled and the
  kernel beyond what the code uses.
- Two goroutines in the configuration store, the controller or the rules at once: the
  repository neither calls them nor says who may.

## Plan

What is left, the most consequential first:

1. `ExitNode`: `Control` and `Egress` together, the clients' path against gluetun's
   status rather than against the toggle; with the kill switch on, no path past the VPN.
2. The refinement of `Control`'s `WriteEnv` and `Save` steps by `EnvFile` and `StateStore`.
3. `Failover` with the bus and the operations, should `main` start the watchdog again.
