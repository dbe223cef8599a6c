------------------------------ MODULE EnvFile ------------------------------
(***************************************************************************)
(* The daemon's rewriting of .env: updateEnvSurfsharkLocation in           *)
(* cmd/surfshark-control/main.go.  It reads the file, edits two lines of   *)
(* it and writes it back with os.WriteFile, which truncates first; every   *)
(* concurrent SwitchLocation does so, with no lock.                        *)
(*                                                                         *)
(* The file is abstracted to its two lines and the set of the others.      *)
(***************************************************************************)
EXTENDS Naturals, FiniteSets

CONSTANTS
    Writers,     \* goroutines in SwitchLocation
    Others,      \* the lines that the daemon does not edit
    Junk,        \* a line that is the rest of a longer file
    Countries,
    Cities,
    NoLine,      \* the line is not in the file
    NoCity,      \* the empty city
    MaxEdits,    \* bound: edits
    MaxFaults    \* bound: crashes and failed writes

Requests == [country : Countries, city : Cities \cup {NoCity}]

ASSUME EnvAssumption ==
    /\ Junk \notin Others
    /\ NoLine \notin Countries \cup Cities \cup {NoCity} \cup Requests
    /\ MaxEdits \in Nat
    /\ MaxFaults \in Nat

VARIABLES
    file,     \* .env
    pc,       \* where each writer is
    data,     \* data[w]: what w is going to write
    edits,    \* ghost: edits so far
    faults,   \* ghost: faults so far
    cut,      \* ghost: one of them came between a truncation and its write
    alone,    \* ghost: no two edits overlapped so far
    latest    \* ghost: the request of the edit that began last

vars == <<file, pc, data, edits, faults, cut, alone, latest>>

-----------------------------------------------------------------------------
Content ==
    [others  : SUBSET (Others \cup {Junk}),
     country : Countries \cup {NoLine},
     city    : Cities \cup {NoCity, NoLine}]

NoContent == [others |-> {}, country |-> NoLine, city |-> NoLine]

\* Mutant: the two arguments are swapped.
EditSwapped(c, r) == [c EXCEPT !.country = r.city, !.city = r.country]

\* Mutant: a missing line is not appended.
EditInPlace(c, r) ==
    [c EXCEPT !.country = IF @ = NoLine THEN NoLine ELSE r.country,
              !.city = IF @ = NoLine THEN NoLine ELSE r.city]

\* The lines are replaced where they are, or appended; an empty city is not
\* appended.
Edit(c, r) ==
    [c EXCEPT !.country = r.country,
              !.city = IF @ = NoLine /\ r.city = NoCity THEN NoLine ELSE r.city]

Init ==
    /\ file \in [others : {Others}, country : {NoLine} \cup Countries,
              city : {NoLine, NoCity} \cup Cities]
    /\ pc = [w \in Writers |-> "idle"]
    /\ data = [w \in Writers |-> NoContent]
    /\ edits = 0
    /\ faults = 0
    /\ cut = FALSE
    /\ alone = TRUE
    /\ latest = NoLine

-----------------------------------------------------------------------------
\* os.ReadFile, and the edit of what it read.
Read(w) ==
    /\ pc[w] = "idle"
    /\ edits < MaxEdits
    /\ \E r \in Requests :
        /\ data' = [data EXCEPT ![w] = Edit(file, r)]
        /\ latest' = r
    /\ alone' = (alone /\ \A v \in Writers : pc[v] = "idle")
    /\ edits' = edits + 1
    /\ pc' = [pc EXCEPT ![w] = "truncate"]
    /\ UNCHANGED <<file, faults, cut>>

\* os.WriteFile opens the file with O_TRUNC ...
Truncate(w) ==
    /\ pc[w] = "truncate"
    /\ file' = NoContent
    /\ pc' = [pc EXCEPT ![w] = "write"]
    /\ UNCHANGED <<data, edits, faults, cut, alone, latest>>

\* ... and writes from its start: over what another writer wrote since, of
\* which a longer rest stays - perhaps a city's line, perhaps a part of one.
Over(new, old) ==
    IF old = NoContent THEN {new}
    ELSE {new, [new EXCEPT !.others = @ \cup {Junk}],
               [new EXCEPT !.city = old.city]}

\* Mutant: the new content is appended to the old.
WriteAppending(w) ==
    /\ pc[w] = "write"
    /\ file' = [data[w] EXCEPT !.others = @ \cup {Junk}]
    /\ pc' = [pc EXCEPT ![w] = "idle"]
    /\ data' = [data EXCEPT ![w] = NoContent]
    /\ UNCHANGED <<edits, faults, cut, alone, latest>>

Write(w) ==
    /\ pc[w] = "write"
    /\ file' \in Over(data[w], file)
    /\ pc' = [pc EXCEPT ![w] = "idle"]
    /\ data' = [data EXCEPT ![w] = NoContent]
    /\ UNCHANGED <<edits, faults, cut, alone, latest>>

\* A fault of these writers.
Fault(W) ==
    /\ faults < MaxFaults
    /\ faults' = faults + 1
    /\ cut' = (cut \/ \E w \in W : pc[w] = "write")

\* The open or the write fails; the error is ignored.
WriteFails(w) ==
    /\ pc[w] \in {"truncate", "write"}
    /\ Fault({w})
    /\ pc' = [pc EXCEPT ![w] = "idle"]
    /\ data' = [data EXCEPT ![w] = NoContent]
    /\ UNCHANGED <<file, edits, alone, latest>>

\* The daemon is killed, and starts again.
Crash ==
    /\ \E w \in Writers : pc[w] # "idle"
    /\ Fault(Writers)
    /\ pc' = [w \in Writers |-> "idle"]
    /\ data' = [w \in Writers |-> NoContent]
    /\ UNCHANGED <<file, edits, alone, latest>>

Next ==
    \/ Crash
    \/ \E w \in Writers : Read(w) \/ Truncate(w) \/ Write(w) \/ WriteFails(w)

Spec == Init /\ [][Next]_vars

-----------------------------------------------------------------------------
(* Properties.                                                             *)

\* The type invariant.
TypeOK ==
    /\ file \in Content
    /\ pc \in [Writers -> {"idle", "truncate", "write"}]
    /\ data \in [Writers -> Content]
    /\ edits \in Nat
    /\ faults \in Nat
    /\ cut \in BOOLEAN
    /\ alone \in BOOLEAN
    /\ latest \in Requests \cup {NoLine}

Quiet == \A w \in Writers : pc[w] = "idle"

\* c holds the country and the city of the latest switch.
Located(c) ==
    /\ c.country = latest.country
    /\ c.city = latest.city \/ (c.city = NoLine /\ latest.city = NoCity)

\* Edits one after the other keep the other lines of the file, also through
\* crashes and failed writes, unless one of these comes between a truncation
\* and its write; and if none fails they leave the location of the latest
\* switch, however its lines came to be in the file.
EditsKeepTheRest ==
    alone /\ ~cut /\ Quiet =>
        /\ file.others = Others
        /\ latest # NoLine /\ faults = 0 => Located(file)

\* Without a failed write or a crash some country is in the file even when
\* edits overlap: the last of the writers leaves its own there.
CountryAlwaysThere ==
    faults = 0 /\ Quiet /\ edits > 0 => file.country # NoLine

\* Why: an edit that is alone carries all the other lines with it.
Carried ==
    alone =>
        /\ \A v, w \in Writers : pc[v] # "idle" /\ pc[w] # "idle" => v = w
        /\ \A w \in Writers :
            /\ pc[w] # "idle" => latest # NoLine /\ Located(data[w])
            /\ pc[w] # "idle" /\ ~cut => data[w].others = Others
            /\ pc[w] = "write" => file = NoContent
        /\ ~cut /\ (\A w \in Writers : pc[w] # "write") => file.others = Others

\* Why: a country is in the file, or a writer is on its way with one.
CountryOnItsWay ==
    /\ \A w \in Writers : pc[w] # "idle" => data[w].country \in Countries
    /\ faults = 0 /\ edits > 0 => file.country # NoLine \/ ~Quiet

IInv ==
    /\ TypeOK
    /\ Carried
    /\ CountryOnItsWay
    /\ EditsKeepTheRest

=============================================================================
