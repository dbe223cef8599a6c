------------------------------- MODULE Access -------------------------------
(***************************************************************************)
(* Who may use the daemon: internal/config/env.go reads the environment,   *)
(* internal/auth/middleware.go decides on each request, and                *)
(* internal/tailscale/client.go asks tailscale who an address is.          *)
(*                                                                         *)
(* A name is abstracted from its spelling: Plain[s] is s without the       *)
(* spaces around it, and in lower case.                                    *)
(***************************************************************************)
EXTENDS Naturals, Sequences

CONSTANTS
    Spellings,   \* of the users in TS_ALLOWED_USERS and in requests
    Plain,       \* Plain[s]: the name that s spells
    Blank,       \* the empty name
    Star,        \* the name "*"
    Member,      \* the name "tailnet-member-via-serve"
    NoAnswer     \* Whois returns an error

-----------------------------------------------------------------------------
(* config.LoadFromMap.                                                     *)

\* v is without spaces around it, and in lower case.
ParseBool(v, def) ==
    CASE v \in {"true", "1", "yes", "on"}  -> TRUE
      [] v \in {"false", "0", "no", "off"} -> FALSE
      [] OTHER                             -> def

\* The entries of TS_ALLOWED_USERS that are not blank.
AllowedUsers(env) == {u \in env.users : Plain[u] # Blank}

\* Else the daemon ends at its start.
Loads(env) == env.authkey # "" /\ AllowedUsers(env) # {}

Config(env) ==
    [users      |-> AllowedUsers(env),
     killSwitch |-> ParseBool(env.killSwitch, TRUE)]

-----------------------------------------------------------------------------
(* Middleware.Wrap, as New set it up from the users of the configuration.  *)

\* Addresses are sequences of four bytes.
IsLoopback(ip) == ip[1] = 127

IsTrustedBridge(ip) == SubSeq(ip, 1, 3) = <<172, 30, 0>>

\* The login that tailscale has for the address; an empty one is an error.
Whois(q) == IF q.login = Blank THEN NoAnswer ELSE q.login

\* The identity injected by "tailscale serve", that of a proxied connection,
\* or that of the address; in the form in which Wrap compares it.
User(q) ==
    CASE Plain[q.header] # Blank                        -> Plain[q.header]
      [] IsLoopback(q.ip) \/ IsTrustedBridge(q.ip)      -> Member
      [] Whois(q) = NoAnswer                            -> NoAnswer
      [] OTHER                                          -> Plain[Whois(q)]

AllowAny(users) == Star \in {Plain[u] : u \in users}

AllowedSet(users) == {Plain[u] : u \in users} \ {Star}

\* The status of the answer: 200 stands for the handler's own.
Status(users, q) ==
    CASE User(q) = NoAnswer                                      -> 401
      [] AllowAny(users) \/ User(q) \in AllowedSet(users)        -> 200
      [] OTHER                                                   -> 403

=============================================================================
