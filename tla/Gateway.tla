------------------------------ MODULE Gateway ------------------------------
(***************************************************************************)
(* The path of the exit node's clients, as the WireGuard controller and    *)
(* the nft rules make it together: Wireguard and Nftables side by side,    *)
(* each with one caller, their commands in any order.                      *)
(***************************************************************************)
CONSTANTS
    Endpoints,  \* the addresses of WireGuard peers
    NoEndpoint  \* the empty address, which RemoveDefaultRoutes accepts

ASSUME EndpointAssumption == NoEndpoint \notin Endpoints

VARIABLES
    pc, op, arg, result, quick, expired, link, halves, exc, via, spoiled,
    stage, at, objects, based, armed

W == INSTANCE Wireguard
N == INSTANCE Nftables

routing == <<pc, op, arg, result, quick, expired, link, halves, exc, via, spoiled>>
rules == <<stage, at, objects, based, armed>>
vars == <<routing, rules>>

\* Where the kernel sends a packet that a client sends to the Internet.
ClientPath ==
    IF halves = {"low", "high"} THEN {"tunnel"}
    ELSE (IF halves = {} THEN {} ELSE {"tunnel"})
         \cup (IF "drop" \in objects THEN {"blocked"} ELSE {"lan"})

Init == W!Init /\ N!Init

Next ==
    \/ W!Next /\ UNCHANGED rules
    \/ N!Next /\ UNCHANGED routing

\* What the controller's fairness says (see Wireguard).  The nft commands have
\* no timeout, and nothing is assumed of them.
Fairness ==
    /\ WF_vars(W!Poll /\ UNCHANGED rules)
    /\ WF_vars(W!Install /\ UNCHANGED rules)
    /\ WF_vars(W!Expire /\ UNCHANGED rules)

Spec == Init /\ [][Next]_vars /\ Fairness

-----------------------------------------------------------------------------
(* Properties.                                                             *)

\* The inductive invariant: those of the parts.  It includes that an
\* InstallDefaultRoutes that failed has taken back its routes (W!RolledBack).
IInv == W!IInv /\ N!IInv

\* WireGuard's own packets to its peer never enter the tunnel, between any
\* two commands, unless a deletion has failed.
NoLoop == W!NoLoop

\* From a successful ArmKillSwitch to the next call of the rules, no client's
\* packet leaves by the LAN, whatever becomes of wg0 and of its routes.
ArmedBlocks == armed => "lan" \notin ClientPath

\* An Up returns, also when its wg-quick hangs for ever, or makes a wg0 that
\* dies; and an InstallDefaultRoutes returns or comes to its rollback.  Nothing
\* is promised of Down, RemoveDefaultRoutes and the rollback: their commands
\* have no timeout.
CallsEnd ==
    /\ pc \in W!Polling ~> pc = "idle"
    /\ pc \in {"linkup", "peer", "low", "high"} ~> pc \in {"idle", "undolow"}

=============================================================================
