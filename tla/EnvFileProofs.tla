---------------------------- MODULE EnvFileProofs ----------------------------
(***************************************************************************)
(* For any writers, lines and locations, and any number of edits and       *)
(* faults: edits that do not overlap keep the rest of the file, and edits  *)
(* that overlap still leave some country in it.                            *)
(***************************************************************************)
EXTENDS EnvFile, TLAPS

USE EnvAssumption

\* An empty file is a file.
LEMMA EmptyType == NoContent \in Content
BY DEF NoContent, Content

\* An edit keeps the other lines and puts the request into its own two.
LEMMA EditType ==
    ASSUME NEW c \in Content, NEW r \in Requests
    PROVE  /\ Edit(c, r) \in Content
           /\ Edit(c, r).others = c.others
           /\ Edit(c, r).country = r.country
           /\ Edit(c, r).country \in Countries
           /\ \/ Edit(c, r).city = r.city
              \/ Edit(c, r).city = NoLine /\ r.city = NoCity
BY DEF Content, Requests, Edit

\* What is written is the new content, but perhaps for the rest of an old
\* one that was longer.
LEMMA OverType ==
    ASSUME NEW new \in Content, NEW old \in Content, NEW f \in Over(new, old)
    PROVE  /\ f \in Content
           /\ f.country = new.country
           /\ old = NoContent => f = new
BY DEF Over, Content

-----------------------------------------------------------------------------
\* The invariant holds at the start.
LEMMA InitInv == Init => IInv
<1> SUFFICES ASSUME Init PROVE IInv
  OBVIOUS
<1> USE DEF Init
<1>1. TypeOK
  BY EmptyType DEF TypeOK, Content
<1>2. Carried /\ EditsKeepTheRest
  BY DEF Carried, EditsKeepTheRest
<1>3. CountryOnItsWay
  BY DEF CountryOnItsWay
<1> QED
  BY <1>1, <1>2, <1>3 DEF IInv

\* Every step keeps the types.
LEMMA TypeStep == TypeOK /\ [Next]_vars => TypeOK'
<1> SUFFICES ASSUME TypeOK, [Next]_vars PROVE TypeOK'
  OBVIOUS
<1> USE DEF TypeOK
<1>1. ASSUME NEW w \in Writers, Read(w) PROVE TypeOK'
  <2>1. PICK r \in Requests : data' = [data EXCEPT ![w] = Edit(file, r)] /\ latest' = r
    BY <1>1 DEF Read
  <2>2. Edit(file, r) \in Content
    BY EditType
  <2> QED
    BY <1>1, <2>1, <2>2 DEF Read
<1>2. ASSUME NEW w \in Writers, Truncate(w) PROVE TypeOK'
  BY <1>2, EmptyType DEF Truncate
<1>3. ASSUME NEW w \in Writers, Write(w) PROVE TypeOK'
  BY <1>3, EmptyType, OverType DEF Write
<1>4. ASSUME NEW w \in Writers, WriteFails(w) PROVE TypeOK'
  BY <1>4, EmptyType DEF WriteFails, Fault
<1>5. CASE Crash
  BY <1>5, EmptyType DEF Crash, Fault
<1>6. CASE UNCHANGED vars
  BY <1>6 DEF vars
<1> QED
  BY <1>1, <1>2, <1>3, <1>4, <1>5, <1>6 DEF Next

\* The only writer keeps what it read until the file is whole again.
LEMMA CarriedStep == TypeOK /\ Carried /\ EditsKeepTheRest /\ [Next]_vars => Carried'
<1> SUFFICES ASSUME TypeOK, Carried, [Next]_vars, alone' PROVE Carried'
  BY DEF Carried
<1> USE DEF TypeOK, Carried
<1>0. alone
  BY DEF Next, vars, Read, Truncate, Write, WriteFails, Crash
<1>1. ASSUME NEW w \in Writers, Read(w) PROVE Carried'
  <2>1. PICK r \in Requests : data' = [data EXCEPT ![w] = Edit(file, r)] /\ latest' = r
    BY <1>1 DEF Read
  <2>2. /\ pc' = [pc EXCEPT ![w] = "truncate"]
        /\ UNCHANGED <<file, cut>>
        /\ \A v \in Writers : pc[v] = "idle"
    BY <1>1 DEF Read
  <2>3. ~cut => file.others = Others
    BY <1>0, <2>2
  <2>4. r # NoLine /\ data'[w] = Edit(file, r)
    BY <2>1
  <2>5. Located(data[w])' /\ (~cut => data'[w].others = Others)
    BY <2>1, <2>3, <2>4, EditType DEF Located
  <2> QED
    BY <2>1, <2>2, <2>3, <2>4, <2>5
<1>2. ASSUME NEW w \in Writers, Truncate(w) PROVE Carried'
  BY <1>0, <1>2 DEF Truncate, Located
<1>3. ASSUME NEW w \in Writers, Write(w) PROVE Carried'
  <2>1. file' = data[w]
    BY <1>0, <1>3 DEF Write, Over
  <2>2. ~cut => file'.others = Others
    BY <1>0, <1>3, <2>1 DEF Write
  <2>3. \A v \in Writers : pc'[v] = "idle"
    BY <1>0, <1>3 DEF Write
  <2> QED
    BY <1>3, <2>2, <2>3 DEF Write
<1>4. ASSUME NEW w \in Writers, WriteFails(w) PROVE Carried'
  <2>1. \A v \in Writers : pc'[v] = "idle"
    BY <1>0, <1>4 DEF WriteFails
  <2>2. ~cut' => file'.others = Others
    BY <1>0, <1>4 DEF WriteFails, Fault
  <2> QED
    BY <2>1, <2>2
<1>5. CASE Crash
  <2>1. \A v \in Writers : pc'[v] = "idle"
    BY <1>5 DEF Crash
  <2>2. ~cut' => file'.others = Others
    BY <1>0, <1>5 DEF Crash, Fault
  <2> QED
    BY <2>1, <2>2
<1>6. CASE UNCHANGED vars
  BY <1>6 DEF vars, Located
<1> QED
  BY <1>1, <1>2, <1>3, <1>4, <1>5, <1>6 DEF Next

\* Every step keeps a country in the file, or on its way into it.
LEMMA CountryStep == TypeOK /\ CountryOnItsWay /\ [Next]_vars => CountryOnItsWay'
<1> SUFFICES ASSUME TypeOK, CountryOnItsWay, [Next]_vars PROVE CountryOnItsWay'
  OBVIOUS
<1> USE DEF TypeOK, CountryOnItsWay, Quiet
<1>1. ASSUME NEW w \in Writers, Read(w) PROVE CountryOnItsWay'
  <2>1. PICK r \in Requests : data' = [data EXCEPT ![w] = Edit(file, r)]
    BY <1>1 DEF Read
  <2>2. data'[w].country \in Countries /\ pc' = [pc EXCEPT ![w] = "truncate"]
    BY <1>1, <2>1, EditType DEF Read
  <2> QED
    BY <2>1, <2>2
<1>2. ASSUME NEW w \in Writers, Truncate(w) PROVE CountryOnItsWay'
  BY <1>2 DEF Truncate
<1>3. ASSUME NEW w \in Writers, Write(w) PROVE CountryOnItsWay'
  <2>1. file'.country \in Countries
    BY <1>3, OverType DEF Write
  <2>2. \A v \in Writers : pc'[v] # "idle" => v # w /\ pc[v] # "idle" /\ data'[v] = data[v]
    BY <1>3 DEF Write
  <2> QED
    BY <2>1, <2>2
<1>4. ASSUME NEW w \in Writers, WriteFails(w) PROVE CountryOnItsWay'
  <2>1. faults' # 0
    BY <1>4 DEF WriteFails, Fault
  <2>2. \A v \in Writers : pc'[v] # "idle" => v # w /\ pc[v] # "idle" /\ data'[v] = data[v]
    BY <1>4 DEF WriteFails
  <2> QED
    BY <2>1, <2>2
<1>5. CASE Crash
  BY <1>5 DEF Crash, Fault
<1>6. CASE UNCHANGED vars
  BY <1>6 DEF vars
<1> QED
  BY <1>1, <1>2, <1>3, <1>4, <1>5, <1>6 DEF Next

\* Every step keeps what edits one after the other promise.
LEMMA RestStep ==
    TypeOK /\ Carried /\ Carried' /\ EditsKeepTheRest /\ [Next]_vars => EditsKeepTheRest'
<1> SUFFICES ASSUME TypeOK, Carried, Carried', EditsKeepTheRest, [Next]_vars,
                    alone', ~cut', Quiet'
             PROVE  /\ file'.others = Others
                    /\ latest' # NoLine /\ faults' = 0 => Located(file)'
  BY DEF EditsKeepTheRest
<1>1. file'.others = Others
  BY DEF Carried, Quiet
<1> SUFFICES ASSUME latest' # NoLine, faults' = 0 PROVE Located(file)'
  BY <1>1
<1> USE DEF TypeOK, Quiet
<1>2. ASSUME NEW w \in Writers, Read(w) PROVE FALSE
  BY <1>2 DEF Read
<1>3. ASSUME NEW w \in Writers, Truncate(w) PROVE FALSE
  BY <1>3 DEF Truncate
<1>4. ASSUME NEW w \in Writers, Write(w) PROVE Located(file)'
  <2>1. alone /\ pc[w] = "write" /\ latest' = latest
    BY <1>4 DEF Write
  <2>2. file' = data[w] /\ Located(data[w])
    BY <1>4, <2>1 DEF Carried, Write, Over
  <2> QED
    BY <2>1, <2>2 DEF Located
<1>5. ASSUME NEW w \in Writers, WriteFails(w) PROVE FALSE
  BY <1>5 DEF WriteFails, Fault
<1>6. CASE Crash
  BY <1>6 DEF Crash, Fault
<1>7. CASE UNCHANGED vars
  BY <1>7 DEF vars, EditsKeepTheRest, Located
<1> QED
  BY <1>2, <1>3, <1>4, <1>5, <1>6, <1>7 DEF Next

\* Every step keeps the invariant.
LEMMA StepInv == IInv /\ [Next]_vars => IInv'
BY TypeStep, CarriedStep, CountryStep, RestStep DEF IInv

-----------------------------------------------------------------------------
\* Every edit that is alone carries the rest of the file, and every edit
\* carries a country: at every step of updateEnvSurfsharkLocation.
THEOREM Invariance == Spec => []IInv
<1> QED
  BY InitInv, StepInv, PTL DEF Spec

\* The file, and what each writer holds of it, are well formed.
THEOREM TypeCorrect == Spec => []TypeOK
<1>1. IInv => TypeOK
  BY DEF IInv
<1> QED
  BY <1>1, Invariance, PTL

\* Edits one after the other keep the other lines of .env, and the file ends
\* with the location of the latest switch.
THEOREM RestIsKept == Spec => []EditsKeepTheRest
<1>1. IInv => EditsKeepTheRest
  BY DEF IInv
<1> QED
  BY <1>1, Invariance, PTL

\* Edits that overlap leave some country in .env, however they interleave.
THEOREM CountryKept == Spec => []CountryAlwaysThere
<1>1. IInv => CountryAlwaysThere
  BY DEF IInv, CountryOnItsWay, CountryAlwaysThere
<1> QED
  BY <1>1, Invariance, PTL

=============================================================================
