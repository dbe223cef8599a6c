---------------------------- MODULE ConfigStore ----------------------------
(***************************************************************************)
(* internal/surfshark/configstore.go: the key pair, the cached list of     *)
(* servers and the wg0.conf rendered from both.  RenderWG0ConfAll and      *)
(* WriteAll run in a goroutine each.  os.WriteFile truncates a file and    *)
(* then writes it: a crash or a full disk leaves an empty one.             *)
(*                                                                         *)
(* A key stands for itself and its public half, a version for the content  *)
(* of a server's file.  No code calls the store at this commit: one        *)
(* goroutine of each kind is assumed, for two calls of EnsureKeypair at    *)
(* the same time could mix the halves of their keys.                       *)
(***************************************************************************)
CONSTANTS
    Slugs,     \* the short names of locations
    Versions,  \* contents of a server's file
    Keys,      \* what crypto/rand may draw: a bound on the draws
    EnvKey,    \* SURFSHARK_PRIVATE_KEY
    Absent,    \* no such file
    Empty      \* a file truncated and not written

ASSUME ConfigAssumption ==
    /\ Absent # Empty
    /\ {Absent, Empty} \cap (Versions \cup Keys \cup {EnvKey}) = {}
    /\ EnvKey \notin Keys

VARIABLES
    env,      \* the environment of the process: no key, a good or a bad one
    priv,     \* keys/wg-priv.key
    pub,      \* keys/wg-pub.key
    conf,     \* wg0.conf: the key in it
    renderPc, \* where RenderWG0ConfAll is
    key,      \* the key it uses
    fresh,    \* the keys not drawn yet
    misread,  \* ghost: a key file that is there could not be read
    files,    \* configs/<slug>.json
    listPc,   \* where WriteAll is; "done" when the last one has returned nil
    servers,  \* its argument
    todo,     \* the slugs it has still to write, or to remove
    skipped   \* ghost: WriteAll has ignored an error

rendering == <<env, priv, pub, conf, renderPc, key, fresh, misread>>
listing == <<files, listPc, servers, todo, skipped>>
storeVars == <<rendering, listing>>

\* What ListServers may return, by slug: of two servers with the same slug
\* the later one counts, and one without a slug is skipped.
Lists == UNION {[S -> Versions] : S \in SUBSET Slugs}

Environments == {"none", "good", "bad"}

StoreInit ==
    /\ env \in Environments
    /\ priv = Absent
    /\ pub = Absent
    /\ conf = Absent
    /\ renderPc = "idle"
    /\ key = Absent
    /\ fresh = Keys
    /\ misread = FALSE
    /\ files = [s \in Slugs |-> Absent]
    /\ listPc = "idle"
    /\ servers \in [{} -> Versions]
    /\ todo = {}
    /\ skipped = FALSE

\* The process dies and starts again, perhaps with another environment.
Restart ==
    /\ env' \in Environments
    /\ renderPc' = "idle"
    /\ key' = Absent
    /\ listPc' = IF listPc = "done" THEN "done" ELSE "idle"
    /\ todo' = {}
    /\ UNCHANGED <<priv, pub, conf, fresh, misread, files, servers, skipped>>

-----------------------------------------------------------------------------
(* RenderWG0ConfAll, with EnsureKeypair.                                   *)

Goto(from, to) == renderPc = from /\ renderPc' = to

\* loadServer finds a whole file, and its endpoint resolves.
LoadServer ==
    /\ Goto("idle", "loaded")
    /\ \E s \in Slugs : files[s] \in Versions
    /\ UNCHANGED <<env, priv, pub, conf, key, fresh, misread>>

\* The key of the environment comes before the files.
UseEnvKey ==
    /\ env = "good"
    /\ Goto("loaded", "keyed")
    /\ key' = EnvKey
    /\ UNCHANGED <<env, priv, pub, conf, fresh, misread>>

\* Both key files can be read.
ReadKeys ==
    /\ env = "none"
    /\ {priv, pub} \cap {Absent} = {}
    /\ Goto("loaded", "keyed")
    /\ key' = priv
    /\ UNCHANGED <<env, priv, pub, conf, fresh, misread>>

\* Mutant: the public key is there before the private one is written.
TruncateBoth ==
    /\ env = "none"
    /\ Goto("loaded", "priv")
    /\ misread' = (misread \/ {priv, pub} \cap {Absent} = {})
    /\ key' \in fresh
    /\ fresh' = fresh \ {key'}
    /\ priv' = Empty
    /\ pub' = Empty
    /\ UNCHANGED <<env, conf>>

\* One of them is missing, or cannot be read for whatever reason: a new key
\* is drawn, and the file of the private one truncated.
DrawKey ==
    /\ env = "none"
    /\ Goto("loaded", "priv")
    /\ misread' = (misread \/ {priv, pub} \cap {Absent} = {})
    /\ key' \in fresh
    /\ fresh' = fresh \ {key'}
    /\ priv' = Empty
    /\ UNCHANGED <<env, pub, conf>>

WritePriv ==
    /\ Goto("priv", "pub")
    /\ priv' = key
    /\ UNCHANGED <<env, pub, conf, key, fresh, misread>>

TruncatePub ==
    /\ Goto("pub", "pubtext")
    /\ pub' = Empty
    /\ UNCHANGED <<env, priv, conf, key, fresh, misread>>

WritePub ==
    /\ Goto("pubtext", "keyed")
    /\ pub' = key
    /\ UNCHANGED <<env, priv, conf, key, fresh, misread>>

TruncateConf ==
    /\ Goto("keyed", "conf")
    /\ conf' = Empty
    /\ UNCHANGED <<env, priv, pub, key, fresh, misread>>

WriteConf ==
    /\ Goto("conf", "idle")
    /\ conf' = key
    /\ key' = Absent
    /\ UNCHANGED <<env, priv, pub, fresh, misread>>

\* Mutant: a public key that cannot be written is no error.
RenderGoesOn ==
    /\ renderPc # "idle"
    /\ IF renderPc = "pub" THEN renderPc' = "keyed" /\ UNCHANGED key
                          ELSE renderPc' = "idle" /\ key' = Absent
    /\ UNCHANGED <<env, priv, pub, conf, fresh, misread>>

\* The key of the environment is no key, or a file cannot be written.
RenderFails ==
    /\ renderPc # "idle"
    /\ renderPc' = "idle"
    /\ key' = Absent
    /\ UNCHANGED <<env, priv, pub, conf, fresh, misread>>

Render ==
    \/ LoadServer
    \/ UseEnvKey \/ ReadKeys \/ DrawKey
    \/ WritePriv \/ TruncatePub \/ WritePub
    \/ TruncateConf \/ WriteConf
    \/ RenderFails

-----------------------------------------------------------------------------
(* WriteAll.                                                               *)

BeginRefresh ==
    /\ listPc \in {"idle", "done"}
    /\ listPc' = "write"
    /\ servers' \in Lists
    /\ todo' = DOMAIN servers'
    /\ skipped' = FALSE
    /\ UNCHANGED files

TruncateServer ==
    /\ listPc = "write"
    /\ listPc' = "text"
    /\ \E s \in todo :
        /\ files' = [files EXCEPT ![s] = Empty]
        /\ todo' = todo \ {s}
    /\ UNCHANGED <<servers, skipped>>

\* Of the files begun the only empty one is the one truncated last.
WriteServer ==
    /\ listPc = "text"
    /\ listPc' = "write"
    /\ \E s \in DOMAIN servers \ todo :
        /\ files[s] = Empty
        /\ files' = [files EXCEPT ![s] = servers[s]]
    /\ UNCHANGED <<servers, todo, skipped>>

\* A file cannot be opened or written: WriteAll returns, and removes nothing.
RefreshFails ==
    /\ listPc = "text" \/ (listPc = "write" /\ todo # {})
    /\ listPc' = "idle"
    /\ todo' = {}
    /\ UNCHANGED <<files, servers, skipped>>

\* Mutant: what the last WriteAll has left unfinished is not looked for.
ReadDirWhole ==
    /\ listPc = "write"
    /\ todo = {}
    /\ listPc' = "sweep"
    /\ todo' = {s \in Slugs \ DOMAIN servers : files[s] \in Versions}
    /\ UNCHANGED <<files, servers, skipped>>

\* ReadDir finds the files to remove; its error is ignored.
ReadDir ==
    /\ listPc = "write"
    /\ todo = {}
    /\ listPc' = "sweep"
    /\ \/ todo' = {s \in Slugs \ DOMAIN servers : files[s] # Absent} /\ UNCHANGED skipped
       \/ UNCHANGED todo /\ skipped' = TRUE
    /\ UNCHANGED <<files, servers>>

\* Remove's error is ignored.
Remove ==
    /\ listPc = "sweep"
    /\ \E s \in todo :
        /\ todo' = todo \ {s}
        /\ \/ files' = [files EXCEPT ![s] = Absent] /\ UNCHANGED skipped
           \/ UNCHANGED files /\ skipped' = TRUE
    /\ UNCHANGED <<listPc, servers>>

RefreshReturns ==
    /\ listPc = "sweep"
    /\ todo = {}
    /\ listPc' = "done"
    /\ UNCHANGED <<files, servers, todo, skipped>>

Refresh ==
    \/ BeginRefresh
    \/ TruncateServer \/ WriteServer
    \/ RefreshFails
    \/ ReadDir \/ Remove
    \/ RefreshReturns

StoreNext ==
    \/ Render /\ UNCHANGED listing
    \/ Refresh /\ UNCHANGED rendering
    \/ Restart

StoreSpec == StoreInit /\ [][StoreNext]_storeVars

-----------------------------------------------------------------------------
(* Properties.                                                             *)

\* The type invariant: of the rendering, and of the list.
RenderTypeOK ==
    /\ env \in Environments
    /\ priv \in Keys \cup {Absent, Empty}
    /\ pub \in Keys \cup {Absent, Empty}
    /\ conf \in Keys \cup {Absent, Empty, EnvKey}
    /\ renderPc \in {"idle", "loaded", "priv", "pub", "pubtext", "keyed", "conf"}
    /\ key \in Keys \cup {Absent, Empty, EnvKey}
    /\ fresh \in SUBSET Keys
    /\ misread \in BOOLEAN

ListTypeOK ==
    /\ files \in [Slugs -> Versions \cup {Absent, Empty}]
    /\ listPc \in {"idle", "write", "text", "sweep", "done"}
    /\ servers \in Lists
    /\ todo \in SUBSET Slugs
    /\ skipped \in BOOLEAN

StoreTypeOK == RenderTypeOK /\ ListTypeOK

\* A private key that a wg0.conf was rendered with is never replaced, through
\* any crashes and failed writes, although EnsureKeypair writes two files and
\* draws a new key whenever it does not find both (section 4.4 of the design
\* registers "existing pubkey" again; the code says that a key it has drawn is
\* for tests only).  A key file that is there and cannot be read is the one
\* way to lose it.
KeyKept == conf \in Keys /\ ~misread => priv = conf

\* Why: the public key is the mark that the private one is whole.
PubMarksPriv ==
    /\ renderPc \in {"priv", "pub", "pubtext"} => key \in Keys
    /\ ~misread =>
        /\ pub # Absent => priv \in Keys
        /\ pub \in Keys => pub = priv
        /\ conf \in Keys => pub # Absent
        /\ renderPc \in {"pub", "pubtext"} => priv = key
        /\ renderPc \in {"keyed", "conf"} => key = EnvKey \/ (key = priv /\ pub # Absent)
        /\ renderPc \in {"priv", "pub"} => pub = Absent
        /\ renderPc = "pubtext" => pub = Empty

\* Where the listing stands: what was begun is whole but for one file.
Progress ==
    LET begun == DOMAIN servers \ todo IN
    /\ listPc \in {"write", "text"} => todo \subseteq DOMAIN servers
    /\ listPc = "write" => \A s \in begun : files[s] = servers[s]
    /\ listPc = "text" => \E e \in begun :
            files[e] = Empty /\ \A s \in begun \ {e} : files[s] = servers[s]
    /\ listPc = "sweep" => todo \cap DOMAIN servers = {}
    /\ listPc \in {"sweep", "done"} => \A s \in DOMAIN servers : files[s] = servers[s]
    /\ listPc = "sweep" /\ ~skipped =>
            \A s \in Slugs \ (DOMAIN servers \cup todo) : files[s] = Absent

\* After a WriteAll that returned nil and ignored no error, the directory
\* holds exactly the list it was given, each file whole, whatever the crashes
\* and the failed writes before it had left there.
ListExact ==
    listPc = "done" /\ ~skipped =>
        \A s \in Slugs : files[s] = IF s \in DOMAIN servers THEN servers[s] ELSE Absent

StoreInv == StoreTypeOK /\ PubMarksPriv /\ Progress /\ KeyKept /\ ListExact

=============================================================================
