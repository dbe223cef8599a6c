----------------------------- MODULE Wireguard -----------------------------
(***************************************************************************)
(* internal/wireguard/controller.go: the interface wg0 and the routes that *)
(* send everything through it except what goes to the WireGuard peer.      *)
(*                                                                         *)
(* Up runs wg-quick in a goroutine and polls for wg0 beside it, with a     *)
(* deadline.  Every other operation is a list of commands, any of which    *)
(* can fail, with or without its effect (a command killed by its timeout   *)
(* may have reached the kernel).  No code calls the controller at this     *)
(* commit: one caller at a time is assumed, with any operation next.       *)
(***************************************************************************)
CONSTANTS
    Endpoints,  \* the addresses of WireGuard peers
    NoEndpoint  \* the empty address, which RemoveDefaultRoutes accepts

VARIABLES
    pc,       \* where the operation is
    op,       \* the operation in progress, or the last one
    arg,      \* its endpointIP
    result,   \* what it returned
    quick,    \* Up's wg-quick: "none" (ended with Up), "running", "made", "ok", "failed"
    expired,  \* Up's ten seconds are over
    link,     \* wg0 exists
    halves,   \* the halves of the default route that point at wg0
    exc,      \* the peers with a /32 route through the LAN
    via,      \* ghost: the peer whose /32 was installed last
    spoiled   \* ghost: a deletion has failed since

call == <<op, arg>>
wg0 == <<link, halves>>
ghosts == <<via, spoiled>>
vars == <<pc, call, result, quick, expired, wg0, exc, ghosts>>

Polling == {"loop", "look", "pause", "check", "grace"}

Init ==
    /\ pc = "idle"
    /\ op = "none"
    /\ arg = NoEndpoint
    /\ result = "none"
    /\ quick = "none"
    /\ expired = FALSE
    /\ link = FALSE
    /\ halves = {}
    /\ exc = {}
    /\ via = NoEndpoint
    /\ spoiled = FALSE

Call(o, e, first) ==
    /\ pc = "idle"
    /\ pc' = first
    /\ op' = o
    /\ arg' = e
    /\ result' = "none"

Return(r) ==
    /\ pc' = "idle"
    /\ result' = r

-----------------------------------------------------------------------------
(* Up and Down.                                                            *)

CallUp ==
    /\ Call("up", NoEndpoint, "loop")
    /\ quick' = "running"
    /\ expired' = FALSE
    /\ UNCHANGED <<wg0, exc, ghosts>>

\* wg-quick creates wg0, ends well, or fails: at once if wg0 exists, later
\* its trap deletes the interface.  Or it hangs, and takes none of the steps.
QuickMakes ==
    /\ quick = "running"
    /\ ~link
    /\ link' = TRUE
    /\ quick' = "made"
    /\ UNCHANGED <<pc, call, result, expired, halves, exc, ghosts>>

QuickEnds ==
    /\ \/ quick = "made" /\ quick' = "ok" /\ UNCHANGED wg0
       \/ quick = "made" /\ quick' = "failed" /\ link' = FALSE /\ halves' = {}
       \/ quick = "running" /\ quick' = "failed" /\ UNCHANGED wg0
    /\ UNCHANGED <<pc, call, result, expired, exc, ghosts>>

\* The ten seconds of upCtx and of the deadline.
Expire ==
    /\ pc \in Polling
    /\ ~expired
    /\ expired' = TRUE
    /\ UNCHANGED <<pc, call, result, quick, wg0, exc, ghosts>>

\* upCtx kills wg-quick, which deletes nothing then.
QuickKilled ==
    /\ expired
    /\ quick \in {"running", "made"}
    /\ quick' = "failed"
    /\ UNCHANGED <<pc, call, result, expired, wg0, exc, ghosts>>

\* Up returns: the deferred upCancel kills a wg-quick that still runs.
UpReturns(r) ==
    /\ Return(r)
    /\ quick' = "none"
    /\ expired' = FALSE
    /\ UNCHANGED <<call, wg0, exc, ghosts>>

UpGoes(l) ==
    /\ pc' = l
    /\ UNCHANGED <<call, result, quick, expired, wg0, exc, ghosts>>

\* The head of the loop: what wg-quick has reported comes first.
Loop ==
    /\ pc = "loop"
    /\ \/ quick = "failed" /\ UpReturns("err")
       \/ quick = "ok" /\ UpGoes("check")
       \/ quick \in {"running", "made"} /\ UpGoes("look")

\* "ip link show wg0" sees the interface, or does not, or fails.
Look ==
    \/ pc \in {"look", "check", "grace"} /\ link /\ UpReturns("nil")
    \/ pc = "look" /\ UpGoes("pause")
    \/ pc = "check" /\ UpGoes("grace")
    \/ pc = "grace" /\ UpReturns("err")

\* Mutant: the loop has no deadline.
PauseForever ==
    /\ pc = "pause"
    /\ UpGoes("loop")

Pause ==
    /\ pc = "pause"
    /\ \/ expired /\ UpReturns("err")
       \/ ~expired /\ UpGoes("loop")

\* Without wg0 the routes through it are gone.
LinkGone ==
    /\ link' = FALSE
    /\ halves' = {}

CallDown ==
    /\ Call("down", NoEndpoint, "down")
    /\ UNCHANGED <<quick, expired, wg0, exc, ghosts>>

Down ==
    /\ pc = "down"
    /\ \/ link /\ LinkGone /\ Return("nil")
       \/ UNCHANGED wg0 /\ Return("err")
    /\ UNCHANGED <<call, quick, expired, exc, ghosts>>

\* The userspace WireGuard process dies, and wg0 with it.
LinkDies ==
    /\ link
    /\ LinkGone
    /\ UNCHANGED <<pc, call, result, quick, expired, exc, ghosts>>

-----------------------------------------------------------------------------
(* InstallDefaultRoutes, RemoveDefaultRoutes and AddPeerException.         *)

routesOnly == <<call, quick, expired, link>>

CallInstall(e) ==
    /\ Call("install", e, "linkup")
    /\ UNCHANGED <<quick, expired, wg0, exc, ghosts>>

LinkUp ==
    /\ pc = "linkup"
    /\ \/ link /\ pc' = "peer" /\ UNCHANGED result
       \/ Return("untouched")
    /\ UNCHANGED <<routesOnly, halves, exc, ghosts>>

PeerRoute ==
    /\ pc = "peer"
    /\ \/ /\ exc' = exc \cup {arg}
          /\ via' = arg
          /\ spoiled' = FALSE
          /\ pc' = "low"
       \/ /\ exc' \in {exc, exc \cup {arg}}
          /\ pc' = "undolow"
          /\ UNCHANGED ghosts
    /\ UNCHANGED <<routesOnly, result, halves>>

\* Mutant: a half that fails does not take back what was added.
HalfRouteLeft ==
    /\ pc \in {"low", "high"}
    /\ \/ /\ link
          /\ halves' = halves \cup {pc}
          /\ \/ pc = "low" /\ pc' = "high" /\ UNCHANGED result
             \/ pc = "high" /\ Return("nil")
       \/ /\ Return("err")
          /\ UNCHANGED halves
    /\ UNCHANGED <<routesOnly, exc, ghosts>>

HalfRoute ==
    /\ pc \in {"low", "high"}
    /\ \/ /\ link
          /\ halves' = halves \cup {pc}
          /\ \/ pc = "low" /\ pc' = "high" /\ UNCHANGED result
             \/ pc = "high" /\ Return("nil")
       \/ /\ halves' \in {halves, IF link THEN halves \cup {pc} ELSE halves}
          /\ pc' = "undolow"
          /\ UNCHANGED result
    /\ UNCHANGED <<routesOnly, exc, ghosts>>

CallRemove(e) ==
    /\ Call("remove", e, "undolow")
    /\ UNCHANGED <<quick, expired, wg0, exc, ghosts>>

\* What an install or a removal returns once it has deleted the routes.
Undone == IF op = "install" THEN "err" ELSE "nil"

\* A deletion whose error is ignored.
DeleteHalf(h) ==
    \/ halves' = halves \ {h} /\ UNCHANGED spoiled
    \/ UNCHANGED halves /\ spoiled' = (spoiled \/ h \in halves)

UndoLow ==
    /\ pc = "undolow"
    /\ DeleteHalf("low")
    /\ pc' = "undohigh"
    /\ UNCHANGED <<routesOnly, result, exc, via>>

\* Mutant: the half towards the upper addresses is forgotten.
UndoHighForgotten ==
    /\ pc = "undohigh"
    /\ pc' = "undopeer"
    /\ UNCHANGED <<routesOnly, result, wg0, exc, ghosts>>

UndoHigh ==
    /\ pc = "undohigh"
    /\ DeleteHalf("high")
    /\ \/ arg # NoEndpoint /\ pc' = "undopeer" /\ UNCHANGED result
       \/ arg = NoEndpoint /\ Return(Undone)
    /\ UNCHANGED <<routesOnly, exc, via>>

UndoPeer ==
    /\ pc = "undopeer"
    /\ \/ exc' = exc \ {arg} /\ UNCHANGED spoiled
       \/ UNCHANGED exc /\ spoiled' = (spoiled \/ arg \in exc)
    /\ Return(Undone)
    /\ UNCHANGED <<routesOnly, halves, via>>

AddPeerException(e) ==
    /\ Call("except", e, "idle")
    /\ exc' \in {exc, exc \cup {e}}
    /\ UNCHANGED <<quick, expired, wg0, ghosts>>

-----------------------------------------------------------------------------
\* Up beside its wg-quick.
Poll == Loop \/ Look \/ Pause

\* The commands of an installation, each under a timeout of its own.
Install == LinkUp \/ PeerRoute \/ HalfRoute

\* The commands that run for as long as their caller's context lets them: the
\* deletions of a rollback get one that never ends.
Untimed == Down \/ UndoLow \/ UndoHigh \/ UndoPeer

\* The steps of the operation in progress.
Step == Poll \/ Install \/ Untimed

Next ==
    \/ Step
    \/ CallUp \/ CallDown
    \/ \E e \in Endpoints : CallInstall(e) \/ AddPeerException(e)
    \/ \E e \in Endpoints \cup {NoEndpoint} : CallRemove(e)
    \/ QuickMakes \/ QuickEnds \/ QuickKilled
    \/ Expire
    \/ LinkDies

\* Time passes, a command with a timeout ends, and so does "ip link show" in Up.
\* wg-quick, up or down, and the deletions of routes may hang for ever.
Fairness == WF_vars(Poll) /\ WF_vars(Install) /\ WF_vars(Expire)

Spec == Init /\ [][Next]_vars /\ Fairness

-----------------------------------------------------------------------------
(* Properties.                                                             *)

\* The type invariant.
TypeOK ==
    /\ pc \in Polling \cup {"idle", "down", "linkup", "peer", "low", "high",
                            "undolow", "undohigh", "undopeer"}
    /\ op \in {"none", "up", "down", "install", "remove", "except"}
    /\ arg \in Endpoints \cup {NoEndpoint}
    /\ result \in {"none", "nil", "err", "untouched"}
    /\ quick \in {"none", "running", "made", "ok", "failed"}
    /\ expired \in BOOLEAN
    /\ link \in BOOLEAN
    /\ halves \in SUBSET {"low", "high"}
    /\ exc \in SUBSET Endpoints
    /\ via \in Endpoints \cup {NoEndpoint}
    /\ spoiled \in BOOLEAN

\* A half of the default route never leads into wg0 while the peer of the last
\* installation has no route around it: WireGuard's own packets would loop.
\* It holds between any two commands, and unless a deletion has failed.
NoLoop == halves # {} /\ ~spoiled => via \in exc

\* An InstallDefaultRoutes that returns an error after it has added a route
\* has taken back all it added, unless a deletion has failed.
RolledBack ==
    pc = "idle" /\ op = "install" /\ result = "err" /\ ~spoiled =>
        halves = {} /\ arg \notin exc

\* Where the routes of the operation in progress stand.
RoutesInOrder ==
    /\ halves # {} => link
    /\ pc \in Polling => op = "up"
    /\ pc = "down" => op = "down"
    /\ pc \in {"linkup", "peer"} => op = "install"
    /\ pc \in {"low", "high"} => op = "install" /\ via = arg /\ arg \in exc /\ ~spoiled
    /\ pc \in {"undolow", "undohigh", "undopeer"} => op \in {"install", "remove"}
    /\ pc \in {"linkup", "peer", "low", "high", "undopeer"} => arg \in Endpoints
    /\ op = "install" => arg \in Endpoints
    /\ pc = "undohigh" /\ ~spoiled => "low" \notin halves
    /\ pc = "undopeer" /\ ~spoiled => halves = {}

IInv == TypeOK /\ RoutesInOrder /\ NoLoop /\ RolledBack

=============================================================================
