----------------------------- MODULE StateStore -----------------------------
(***************************************************************************)
(* The daemon's shared State and its file, internal/state/state.go, with   *)
(* the goroutines of cmd/surfshark-control/main.go that change it: the     *)
(* HTTP handlers and the public-IP poller.                                 *)
(*                                                                         *)
(* State has a mutex, but only Save takes it: the callers assign to the    *)
(* fields without it.  A string or a slice is several machine words, so a  *)
(* concurrent reader can see half of an assignment.  Save marshals field   *)
(* by field while other goroutines keep writing.                           *)
(*                                                                         *)
(* A value is abstracted to the write it comes from: its rank among the    *)
(* writes of the same field, once per word.  Words of different ranks are  *)
(* a torn value.                                                           *)
(***************************************************************************)
EXTENDS Naturals, FiniteSets

CONSTANTS
    Procs,       \* goroutines that change the State
    Fields,      \* the fields of State that they change
    Wide,        \* the fields of more than one word: strings and slices
    Reported,    \* the fields whose handler returns Save's error to the client
    BootFields,  \* the fields that main() may set after Load, without Save
    NoProc,      \* nobody holds the mutex
    MaxWrites,   \* MaxWrites[f], bound: writes of f by the goroutines
    MaxCrashes   \* bound: crashes of the process

ASSUME StoreAssumption ==
    /\ Fields # {}
    /\ Wide \subseteq Fields
    /\ Reported \subseteq Fields
    /\ BootFields \subseteq Fields
    /\ NoProc \notin Procs
    /\ MaxWrites \in [Fields -> Nat]
    /\ MaxCrashes \in Nat

Narrow == Fields \ Wide

VARIABLES
    up,       \* the process runs
    mem,      \* the State in memory
    disk,     \* state.json
    tmp,      \* state.json.tmp
    mu,       \* the goroutine that holds State.mu, or NoProc
    pc,       \* where each goroutine is
    fld,      \* the field its operation writes
    rank,     \* the rank of its write
    left,     \* the fields its MarshalIndent has still to read
    snap,     \* what its MarshalIndent has read
    count,    \* ghost: how many writes each field has had
    acked,    \* ghost: newest write of each field reported as saved
    lost,     \* ghost: fields written in memory and not saved, and no save since
    crashes   \* ghost: how many crashes so far

vars == <<up, mem, disk, tmp, mu, pc, fld, rank, left, snap,
          count, acked, lost, crashes>>

-----------------------------------------------------------------------------
Value == [lo : Nat, hi : Nat]

Whole(n) == [lo |-> n, hi |-> n]

Torn(v) == v.lo # v.hi

Default == [f \in Fields |-> Whole(0)]

\* What fld holds before the first operation.
AnyField == CHOOSE f \in Fields : TRUE

\* A file is missing, unreadable as JSON, cut short, or a whole State.
File(kind, val) == [kind |-> kind, val |-> val]

Kinds == {"absent", "broken", "partial", "complete"}

Absent  == File("absent", Default)
Broken  == File("broken", Default)
Partial == File("partial", Default)

\* Between Lock and Unlock in Save.
Saving == {"marshal", "write", "rename", "saved"}

Locations == {"idle", "assign", "save"} \cup Saving

Init ==
    /\ mem = Default
    /\ mu = NoProc
    /\ pc = [p \in Procs |-> "idle"]
    /\ fld = [p \in Procs |-> AnyField]
    /\ rank = [p \in Procs |-> 0]
    /\ left = [p \in Procs |-> Fields]
    /\ snap = [p \in Procs |-> Default]
    /\ up = FALSE
    /\ disk \in {Absent, Broken, File("complete", Default)}
    /\ tmp = Absent
    /\ count = [f \in Fields |-> 0]
    /\ acked = [f \in Fields |-> 0]
    /\ lost = {}
    /\ crashes = 0

Goto(p, l) == pc' = [pc EXCEPT ![p] = l]

\* p's operation is over: its locals are gone.
Finish(p) ==
    /\ Goto(p, "idle")
    /\ rank' = [rank EXCEPT ![p] = 0]
    /\ left' = [left EXCEPT ![p] = Fields]
    /\ snap' = [snap EXCEPT ![p] = Default]

-----------------------------------------------------------------------------
(* Boot: state.Load, then main() before the server starts.                 *)

\* Load keeps a whole file, and replaces a missing or a broken one by
\* Default; a broken one is renamed away, if the rename succeeds.
Load ==
    \/ /\ disk.kind \in {"absent", "complete"}
       /\ UNCHANGED disk
    \/ /\ disk.kind \in {"broken", "partial"}
       /\ disk' \in {Absent, disk}

\* main() sets fields in memory after Load and saves none of them: the kill
\* switch, if what it loaded is off and the environment says on.  That is a
\* new write and not the client's, even when the client chose "off".
Boot ==
    /\ ~up
    /\ up' = TRUE
    /\ Load
    /\ \E chg \in SUBSET BootFields :
        /\ count' = [f \in Fields |-> IF f \in chg THEN count[f] + 1 ELSE count[f]]
        /\ mem' = [f \in Fields |-> IF f \in chg THEN Whole(count[f] + 1)
                                           ELSE disk.val[f]]
        /\ lost' = chg
    /\ UNCHANGED <<tmp, mu, pc, fld, rank, left, snap, acked, crashes>>

\* The process is killed anywhere: the files stay as they are.
Crash ==
    /\ up
    /\ crashes < MaxCrashes
    /\ up' = FALSE
    /\ crashes' = crashes + 1
    /\ mem' = Default
    /\ mu' = NoProc
    /\ pc' = [p \in Procs |-> "idle"]
    /\ fld' = [p \in Procs |-> AnyField]
    /\ rank' = [p \in Procs |-> 0]
    /\ left' = [p \in Procs |-> Fields]
    /\ snap' = [p \in Procs |-> Default]
    /\ lost' = {}
    /\ UNCHANGED <<disk, tmp, count, acked>>

-----------------------------------------------------------------------------
(* A goroutine assigns to a field, without the mutex.                      *)

BeginWrite(p, f) ==
    /\ up
    /\ pc[p] = "idle"
    /\ count[f] < MaxWrites[f]
    /\ count' = [count EXCEPT ![f] = @ + 1]
    /\ fld' = [fld EXCEPT ![p] = f]
    /\ rank' = [rank EXCEPT ![p] = count[f] + 1]

\* A one-word field is assigned by one store.
AssignWord(p) ==
    /\ \E f \in Narrow :
        /\ BeginWrite(p, f)
        /\ mem' = [mem EXCEPT ![f] = Whole(count[f] + 1)]
    /\ Goto(p, "save")
    /\ UNCHANGED <<up, disk, tmp, mu, left, snap, acked, lost, crashes>>

\* A wide field is assigned word by word: the first word ...
AssignFirst(p) ==
    /\ \E f \in Wide :
        /\ BeginWrite(p, f)
        /\ mem' = [mem EXCEPT ![f] = [lo |-> count[f] + 1, hi |-> @.hi]]
    /\ Goto(p, "assign")
    /\ UNCHANGED <<up, disk, tmp, mu, left, snap, acked, lost, crashes>>

\* Mutant: the operation ends without a Save.
AssignLastUnsaved(p) ==
    /\ pc[p] = "assign"
    /\ mem' = [mem EXCEPT ![fld[p]] = [lo |-> @.lo, hi |-> rank[p]]]
    /\ Finish(p)
    /\ UNCHANGED <<up, disk, tmp, mu, fld, count, acked, lost, crashes>>

\* ... and the last.
AssignLast(p) ==
    /\ pc[p] = "assign"
    /\ mem' = [mem EXCEPT ![fld[p]] = [lo |-> @.lo, hi |-> rank[p]]]
    /\ Goto(p, "save")
    /\ UNCHANGED <<up, disk, tmp, mu, fld, rank, left, snap,
                   count, acked, lost, crashes>>

-----------------------------------------------------------------------------
(* State.Save, step by step.                                               *)

\* Mutant: Save without the mutex.
LockStateNoMutex(p) ==
    /\ pc[p] = "save"
    /\ mu' = p
    /\ left' = [left EXCEPT ![p] = Fields]
    /\ Goto(p, "marshal")
    /\ UNCHANGED <<up, mem, disk, tmp, fld, rank, snap, count, acked, lost, crashes>>

LockState(p) ==
    /\ pc[p] = "save"
    /\ mu = NoProc
    /\ mu' = p
    /\ left' = [left EXCEPT ![p] = Fields]
    /\ Goto(p, "marshal")
    /\ UNCHANGED <<up, mem, disk, tmp, fld, rank, snap, count, acked, lost, crashes>>

\* json.MarshalIndent reads one field; any order covers the struct's order.
MarshalField(p) ==
    /\ pc[p] = "marshal"
    /\ \E f \in left[p] :
        /\ snap' = [snap EXCEPT ![p][f] = mem[f]]
        /\ left' = [left EXCEPT ![p] = @ \ {f}]
    /\ UNCHANGED <<up, mem, disk, tmp, mu, pc, fld, rank, count, acked, lost, crashes>>

\* Mutant: the temporary file is renamed before it is written.
TruncateTmpOnly(p) ==
    /\ pc[p] = "marshal"
    /\ left[p] = {}
    /\ tmp' = Partial
    /\ Goto(p, "rename")
    /\ UNCHANGED <<up, mem, disk, mu, fld, rank, left, snap, count, acked, lost, crashes>>

\* os.WriteFile opens the temporary file with O_TRUNC ...
TruncateTmp(p) ==
    /\ pc[p] = "marshal"
    /\ left[p] = {}
    /\ tmp' = Partial
    /\ Goto(p, "write")
    /\ UNCHANGED <<up, mem, disk, mu, fld, rank, left, snap, count, acked, lost, crashes>>

\* ... and writes it.
WriteTmp(p) ==
    /\ pc[p] = "write"
    /\ tmp' = File("complete", snap[p])
    /\ Goto(p, "rename")
    /\ UNCHANGED <<up, mem, disk, mu, fld, rank, left, snap, count, acked, lost, crashes>>

\* Mutant: the rename is skipped, so the new State stays in state.json.tmp.
RenameTmpSkipped(p) ==
    /\ pc[p] = "rename"
    /\ Goto(p, "saved")
    /\ UNCHANGED <<up, mem, disk, tmp, mu, fld, rank, left, snap,
                   count, acked, lost, crashes>>

RenameTmp(p) ==
    /\ pc[p] = "rename"
    /\ disk' = tmp
    /\ tmp' = Absent
    /\ lost' = {}
    /\ Goto(p, "saved")
    /\ UNCHANGED <<up, mem, mu, fld, rank, left, snap, count, acked, crashes>>

\* Mutant: the handler answers "ok" to an operation whatever Save returned.
SaveFailsAcked(p) ==
    /\ pc[p] \in {"write", "rename"}
    /\ mu' = NoProc
    /\ acked' = IF fld[p] \in Reported /\ acked[fld[p]] < rank[p]
                THEN [acked EXCEPT ![fld[p]] = rank[p]]
                ELSE acked
    /\ Finish(p)
    /\ UNCHANGED <<up, mem, disk, tmp, fld, count, lost, crashes>>

\* Mutant: an error path returns without Unlock.
SaveFailsLocked(p) ==
    /\ pc[p] \in {"write", "rename"}
    /\ Finish(p)
    /\ UNCHANGED <<up, mem, disk, tmp, mu, fld, count, acked, lost, crashes>>

\* Save returns nil: the deferred Unlock, then the handler's answer.
SaveReturns(p) ==
    /\ pc[p] = "saved"
    /\ mu' = NoProc
    /\ acked' = IF fld[p] \in Reported /\ acked[fld[p]] < rank[p]
                THEN [acked EXCEPT ![fld[p]] = rank[p]]
                ELSE acked
    /\ Finish(p)
    /\ UNCHANGED <<up, mem, disk, tmp, fld, count, lost, crashes>>

\* MkdirAll, WriteFile or Rename fails: Save returns early, and unlocks.
SaveFails(p) ==
    /\ \/ pc[p] = "marshal" /\ left[p] \in {Fields, {}}
       \/ pc[p] \in {"write", "rename"}
    /\ mu' = NoProc
    /\ lost' = lost \cup {fld[p]}
    /\ Finish(p)
    /\ UNCHANGED <<up, mem, disk, tmp, fld, count, acked, crashes>>

-----------------------------------------------------------------------------
\* The steps of an operation that has begun, but for waiting for the mutex.
Advance(p) ==
    \/ AssignLast(p)
    \/ MarshalField(p)
    \/ TruncateTmp(p)
    \/ WriteTmp(p)
    \/ RenameTmp(p)
    \/ SaveReturns(p)
    \/ SaveFails(p)

Next ==
    \/ Boot
    \/ Crash
    \/ \E p \in Procs :
        \/ AssignWord(p)
        \/ AssignFirst(p)
        \/ LockState(p)
        \/ Advance(p)

\* Goroutines that can run are scheduled, and sync.Mutex is starvation-free.
Fairness ==
    /\ WF_vars(Boot)
    /\ \A p \in Procs : WF_vars(Advance(p)) /\ SF_vars(LockState(p))

Spec == Init /\ [][Next]_vars /\ Fairness

-----------------------------------------------------------------------------
(* Properties.                                                             *)

\* The type invariant.
TypeOK ==
    /\ up \in BOOLEAN
    /\ mem \in [Fields -> Value]
    /\ disk \in [kind : Kinds, val : [Fields -> Value]]
    /\ tmp \in [kind : Kinds, val : [Fields -> Value]]
    /\ mu \in Procs \cup {NoProc}
    /\ pc \in [Procs -> Locations]
    /\ fld \in [Procs -> Fields]
    /\ rank \in [Procs -> Nat]
    /\ left \in [Procs -> SUBSET Fields]
    /\ snap \in [Procs -> [Fields -> Value]]
    /\ count \in [Fields -> Nat]
    /\ acked \in [Fields -> Nat]
    /\ lost \in SUBSET Fields
    /\ crashes \in Nat

\* Only the temporary file is ever cut short, wherever the process crashes.
NeverCutShort == disk.kind # "partial"

\* The settings whose handler reports the outcome, whose value cannot tear,
\* and which main() leaves as the client set them.
Settings == (Reported \cap Narrow) \ BootFields

\* A setting whose client was told "ok" is in state.json at that rank or at a
\* newer one, whatever the other goroutines write and save at the same time
\* and wherever the process crashes (Toggle and SetKillSwitch return Save()).
AckedDurable == \A f \in Settings : acked[f] <= disk.val[f].lo

\* So a running daemon, restarted or not, never works with a value older than
\* the one it acknowledged.  Like AckedDurable it does not speak of the fields
\* that main() sets at each start: see UserTogglesWin.
AckedVisible == up => \A f \in Settings : acked[f] <= mem[f].lo

\* "If state.json already had a value (loaded from disk above), keep it - user
\* toggles via UI win" (main.go:227, of the kill switch): a start keeps what a
\* client has set and was told is saved.
UserTogglesWin ==
    [][~up /\ up' => \A f \in Reported : acked[f] > 0 => mem'[f] = disk.val[f]]_vars

\* A Save that marshalled early never lands after one that marshalled late,
\* and state.json, once written, is never missing or unreadable again.
DiskMonotone ==
    [][/\ \A f \in Narrow : disk.val[f].lo <= disk'.val[f].lo
       /\ disk.kind = "complete" => disk'.kind = "complete"]_vars

\* Every request that changes the State gets its answer: no path of Save
\* leaves the mutex locked.
SaveTerminates == \A p \in Procs : pc[p] # "idle" ~> pc[p] = "idle"

\* p is on its way to save f with a value that is not torn.
OnItsWay(p, f) ==
    /\ fld[p] = f
    /\ \/ pc[p] \in {"assign", "save"}
       \/ pc[p] \in {"marshal", "write", "rename"} /\ (f \in left[p] \/ ~Torn(snap[p][f]))

\* A Save of one goroutine may store another's half-assigned string, since the
\* assignment does not take the mutex.  It does not stay: the value is whole in
\* the file again once its writer has saved, unless that Save fails, or two
\* writers of the same field have left it torn in memory.
TornHeals ==
    up => \A f \in Fields : Torn(disk.val[f]) =>
        Torn(mem[f]) \/ f \in lost \/ \E p \in Procs : OnItsWay(p, f)

\* The file is an atomic store of the settings.
Atomic == INSTANCE AtomicState WITH
              saved <- [f \in Settings |-> disk.val[f].lo],
              acked <- [f \in Settings |-> acked[f]]

AtomicSpec == Atomic!Spec

-----------------------------------------------------------------------------
(* Why a Save never goes back: the inductive invariant.                    *)

\* Only the holder of the mutex is between Lock and Unlock.
MutexHeld == \A p \in Procs : pc[p] \in Saving <=> mu = p

\* A process that is not running has no goroutines.
NoneWhenDown == ~up => \A p \in Procs : pc[p] = "idle"

\* A file that holds no State stands for Default.
EmptyIsDefault == disk.kind # "complete" => disk.val = Default

\* The file is never ahead of the memory, nor the memory of the writes.
DiskBehindMem ==
    \A f \in Narrow :
        /\ disk.val[f].lo <= count[f]
        /\ up => disk.val[f].lo <= mem[f].lo /\ mem[f].lo <= count[f]

\* What the holder has marshalled lies between the file and the memory, and
\* is what the temporary file holds.
SnapBetween ==
    \A p \in Procs : pc[p] \in {"marshal", "write", "rename"} =>
        /\ pc[p] # "marshal" => left[p] = {}
        /\ pc[p] = "rename" => tmp = File("complete", snap[p])
        /\ \A f \in Narrow \ left[p] :
            disk.val[f].lo <= snap[p][f].lo /\ snap[p][f].lo <= mem[f].lo

\* A goroutine's own write is in the memory, then in its snapshot, then in
\* the file: the program order of Save.
OwnWriteCarried ==
    \A p \in Procs : fld[p] \in Narrow =>
        /\ pc[p] # "assign"
        /\ pc[p] = "save" => rank[p] <= mem[fld[p]].lo
        /\ pc[p] \in {"marshal", "write", "rename"} =>
            IF fld[p] \in left[p] THEN rank[p] <= mem[fld[p]].lo
                                  ELSE rank[p] <= snap[p][fld[p]].lo
        /\ pc[p] = "saved" => rank[p] <= disk.val[fld[p]].lo

DiskOrder ==
    /\ TypeOK
    /\ MutexHeld
    /\ NoneWhenDown
    /\ NeverCutShort
    /\ EmptyIsDefault
    /\ DiskBehindMem
    /\ SnapBetween
    /\ OwnWriteCarried
    /\ AckedDurable

\* A torn value was marshalled before its writer locked the mutex.
SnapHeals ==
    \A p \in Procs : pc[p] \in {"marshal", "write", "rename"} =>
        \A f \in Fields \ left[p] : Torn(snap[p][f]) =>
            Torn(mem[f]) \/ \E q \in Procs : OnItsWay(q, f)

IInv ==
    /\ DiskOrder
    /\ SnapHeals
    /\ TornHeals

=============================================================================
