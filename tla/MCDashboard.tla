---------------------------- MODULE MCDashboard ----------------------------
(***************************************************************************)
(* Small instances of Dashboard.  The environments and the callers are     *)
(* those of the tests of internal/config and internal/auth: a list, the    *)
(* wildcard, and each path through the middleware.                         *)
(***************************************************************************)
EXTENDS Dashboard

CONSTANTS me, Me, other, spaces, star, member

SpellingSet == {me, Me, other, spaces, star, member}

PlainOf == [s \in SpellingSet |-> CASE s = Me     -> me
                                   [] s = spaces -> Blank
                                   [] s = star   -> Star
                                   [] s = member -> Member
                                   [] OTHER      -> s]

EnvSet == [authkey : {"", "tskey"}, users : {{spaces}, {Me, spaces}, {star, other}},
           killSwitch : {""}]

\* Proxied over HTTPS, over the loopback, over the bridge; and direct.
CallerSet == [header : {Me, spaces}, ip : {<<127, 0, 0, 1>>, <<172, 30, 0, 1>>, <<172, 30, 1, 1>>},
              login : {Me, other, Blank}]

=============================================================================
