-------------------------- MODULE StateStoreProofs --------------------------
(***************************************************************************)
(* For any number of goroutines and fields: state.json never goes back to  *)
(* an older setting, and what a client was told is saved stays saved.      *)
(***************************************************************************)
EXTENDS StateStore, TLAPS

USE DEF Narrow, Value, Kinds

\* Whole values, and the default ones, are values.
LEMMA ValueFacts ==
    /\ Default \in [Fields -> Value]
    /\ AnyField \in Fields
    /\ \A n \in Nat : Whole(n) \in Value /\ Whole(n).lo = n /\ Whole(n).hi = n
    /\ \A f \in Fields : Default[f].lo = 0
BY StoreAssumption DEF Default, Whole, AnyField

\* The files that hold no State have the type of the disk, and Default in them.
LEMMA FileFacts ==
    /\ Absent.kind = "absent" /\ Absent.val = Default
    /\ Broken.kind = "broken" /\ Broken.val = Default
    /\ Partial.kind = "partial" /\ Partial.val = Default
    /\ \A k, v : File(k, v).kind = k /\ File(k, v).val = v
    /\ \A k, v : File(k, v) = [kind |-> k, val |-> v]
BY DEF Absent, Broken, Partial, File

-----------------------------------------------------------------------------
(* The type invariant.                                                     *)

\* The initial states have their types.
LEMMA InitType == Init => TypeOK
<1> SUFFICES ASSUME Init PROVE TypeOK
  OBVIOUS
<1> USE StoreAssumption, ValueFacts
<1>1. disk \in [kind : Kinds, val : [Fields -> Value]]
  BY DEF Init, Absent, Broken, File
<1>2. tmp \in [kind : Kinds, val : [Fields -> Value]]
  BY DEF Init, Absent, File
<1>4. fld \in [Procs -> Fields]
  BY DEF Init
<1>5. /\ up \in BOOLEAN /\ mem \in [Fields -> Value]
      /\ mu \in Procs \cup {NoProc} /\ rank \in [Procs -> Nat]
      /\ left \in [Procs -> SUBSET Fields]
      /\ snap \in [Procs -> [Fields -> Value]]
  BY DEF Init
<1>6. /\ pc \in [Procs -> Locations] /\ count \in [Fields -> Nat]
      /\ acked \in [Fields -> Nat] /\ lost \in SUBSET Fields /\ crashes \in Nat
  BY DEF Init, Locations
<1> QED
  BY <1>1, <1>2, <1>4, <1>5, <1>6 DEF TypeOK

\* Every step keeps the types.
LEMMA StepType == TypeOK /\ [Next]_vars => TypeOK'
<1> SUFFICES ASSUME TypeOK, [Next]_vars PROVE TypeOK'
  OBVIOUS
<1> USE StoreAssumption, ValueFacts, FileFacts
<1>1. CASE Boot
  <2>1. disk' \in [kind : Kinds, val : [Fields -> Value]]
    BY <1>1 DEF Boot, Load, TypeOK, Absent, Broken, File
  <2>2. disk.val \in [Fields -> Value]
    BY DEF TypeOK
  <2>3. PICK chg \in SUBSET BootFields :
          /\ count' = [f \in Fields |-> IF f \in chg THEN count[f] + 1 ELSE count[f]]
          /\ mem' = [f \in Fields |-> IF f \in chg THEN Whole(count[f] + 1)
                                                 ELSE disk.val[f]]
    BY <1>1 DEF Boot
  <2>4. \A f \in Fields : count[f] \in Nat /\ count[f] + 1 \in Nat
    BY DEF TypeOK
  <2>5. mem' \in [Fields -> Value]
    BY <2>2, <2>3, <2>4
  <2>6. count' \in [Fields -> Nat]
    BY <2>3, <2>4
  <2> QED
    BY <1>1, <2>1, <2>5, <2>6 DEF Boot, TypeOK
<1>2. CASE Crash
  <2>1. "idle" \in Locations
    BY DEF Locations
  <2>2. /\ mem' \in [Fields -> Value] /\ mu' \in Procs \cup {NoProc}
        /\ pc' \in [Procs -> Locations] /\ fld' \in [Procs -> Fields]
    BY <1>2, <2>1 DEF Crash
  <2>3. /\ rank' \in [Procs -> Nat] /\ left' \in [Procs -> SUBSET Fields]
        /\ snap' \in [Procs -> [Fields -> Value]]
    BY <1>2 DEF Crash
  <2>4. up' = FALSE /\ lost' = {} /\ crashes' = crashes + 1
    BY <1>2 DEF Crash
  <2>5. disk' = disk /\ tmp' = tmp /\ count' = count /\ acked' = acked
    BY <1>2 DEF Crash
  <2>6. disk' \in [kind : Kinds, val : [Fields -> Value]]
    BY <2>5 DEF TypeOK
  <2>7. tmp' \in [kind : Kinds, val : [Fields -> Value]]
    BY <2>5 DEF TypeOK
  <2>8. count' \in [Fields -> Nat] /\ acked' \in [Fields -> Nat] /\ crashes' \in Nat
    BY <2>4, <2>5 DEF TypeOK
  <2>9. up' \in BOOLEAN
    BY <2>4
  <2> QED
    BY <2>2, <2>3, <2>4, <2>6, <2>7, <2>8, <2>9 DEF TypeOK
<1>3. ASSUME NEW p \in Procs, AssignWord(p) PROVE TypeOK'
  BY <1>3 DEF AssignWord, BeginWrite, Goto, TypeOK, Locations
<1>4. ASSUME NEW p \in Procs, AssignFirst(p) PROVE TypeOK'
  <2>1. PICK f \in Wide : /\ BeginWrite(p, f)
                         /\ mem' = [mem EXCEPT ![f] = [lo |-> count[f] + 1, hi |-> @.hi]]
    BY <1>4 DEF AssignFirst
  <2>2. f \in Fields /\ count[f] + 1 \in Nat
    BY DEF TypeOK
  <2>3. mem' \in [Fields -> Value]
    BY <2>1, <2>2 DEF TypeOK
  <2> QED
    BY <1>4, <2>1, <2>2, <2>3 DEF AssignFirst, BeginWrite, Goto, TypeOK,
       Locations
<1>5. ASSUME NEW p \in Procs, AssignLast(p) PROVE TypeOK'
  <2>1. mem' \in [Fields -> Value]
    BY <1>5 DEF AssignLast, TypeOK
  <2> QED
    BY <1>5, <2>1 DEF AssignLast, Goto, TypeOK, Locations
<1>6. ASSUME NEW p \in Procs, LockState(p) PROVE TypeOK'
  BY <1>6 DEF LockState, Goto, TypeOK, Locations, Saving
<1>7. ASSUME NEW p \in Procs, MarshalField(p) PROVE TypeOK'
  BY <1>7 DEF MarshalField, TypeOK
<1>8. ASSUME NEW p \in Procs, TruncateTmp(p) PROVE TypeOK'
  BY <1>8 DEF TruncateTmp, Goto, TypeOK, Locations, Saving, Partial, File
<1>9. ASSUME NEW p \in Procs, WriteTmp(p) PROVE TypeOK'
  BY <1>9 DEF WriteTmp, Goto, TypeOK, Locations, Saving, File
<1>10. ASSUME NEW p \in Procs, RenameTmp(p) PROVE TypeOK'
  BY <1>10 DEF RenameTmp, Goto, TypeOK, Locations, Saving, Absent, File
<1>11. ASSUME NEW p \in Procs, SaveReturns(p) PROVE TypeOK'
  BY <1>11 DEF SaveReturns, Finish, Goto, TypeOK, Locations
<1>12. ASSUME NEW p \in Procs, SaveFails(p) PROVE TypeOK'
  BY <1>12 DEF SaveFails, Finish, Goto, TypeOK, Locations
<1>13. CASE UNCHANGED vars
  BY <1>13 DEF vars, TypeOK
<1> QED
  BY <1>1, <1>2, <1>3, <1>4, <1>5, <1>6, <1>7, <1>8, <1>9, <1>10, <1>11,
     <1>12, <1>13 DEF Next, Advance

-----------------------------------------------------------------------------
(* The inductive invariant.                                                *)

\* Every step keeps the order of what is on disk, in memory and on its way.
LEMMA StepOrder == DiskOrder /\ [Next]_vars => DiskOrder'
<1> SUFFICES ASSUME DiskOrder, [Next]_vars PROVE DiskOrder'
  OBVIOUS
<1> USE StoreAssumption, ValueFacts, FileFacts DEF DiskOrder
<1>t. TypeOK /\ TypeOK'
  BY StepType
<1>1. CASE Boot
  <2>1. MutexHeld'
    BY <1>1, <1>t DEF Boot, Load, File, Absent, MutexHeld, TypeOK, Saving
  <2>2. NoneWhenDown'
    BY <1>1, <1>t DEF Boot, Load, File, Absent, NoneWhenDown, TypeOK,
       MutexHeld, Saving
  <2>3. NeverCutShort'
    BY <1>1, <1>t DEF Boot, Load, File, Absent, NeverCutShort, TypeOK,
       SnapBetween, EmptyIsDefault, DiskBehindMem, NoneWhenDown
  <2>4. EmptyIsDefault'
    BY <1>1, <1>t DEF Boot, Load, File, Absent, EmptyIsDefault, TypeOK,
       SnapBetween, DiskBehindMem, NoneWhenDown
  <2>5. DiskBehindMem'
    BY <1>1, <1>t DEF Boot, Load, File, Absent, DiskBehindMem, TypeOK,
       MutexHeld, SnapBetween, EmptyIsDefault, NoneWhenDown
  <2>6. SnapBetween'
    BY <1>1, <1>t DEF Boot, Load, File, Absent, SnapBetween, TypeOK,
       MutexHeld, DiskBehindMem, EmptyIsDefault, NoneWhenDown, Saving
  <2>7. OwnWriteCarried'
    BY <1>1, <1>t DEF Boot, Load, File, Absent, OwnWriteCarried, TypeOK,
       MutexHeld, SnapBetween, EmptyIsDefault, DiskBehindMem, NoneWhenDown,
       Saving
  <2>8. AckedDurable'
    BY <1>1, <1>t DEF Boot, Load, File, Absent, AckedDurable, TypeOK,
       MutexHeld, OwnWriteCarried, Settings, DiskBehindMem, SnapBetween,
       EmptyIsDefault, NoneWhenDown, Saving
  <2> QED
    BY <1>t, <2>1, <2>2, <2>3, <2>4, <2>5, <2>6, <2>7, <2>8
<1>2. CASE Crash
  <2>1. MutexHeld'
    BY <1>2, <1>t DEF Crash, MutexHeld, TypeOK, Saving
  <2>2. NoneWhenDown'
    BY <1>2, <1>t DEF Crash, NoneWhenDown, TypeOK, MutexHeld, Saving
  <2>3. NeverCutShort'
    BY <1>2, <1>t DEF Crash, NeverCutShort, TypeOK, SnapBetween,
       EmptyIsDefault, DiskBehindMem, NoneWhenDown
  <2>4. EmptyIsDefault'
    BY <1>2, <1>t DEF Crash, EmptyIsDefault, TypeOK, SnapBetween,
       DiskBehindMem, NoneWhenDown
  <2>5. DiskBehindMem'
    BY <1>2, <1>t DEF Crash, DiskBehindMem, TypeOK, MutexHeld, SnapBetween,
       EmptyIsDefault, NoneWhenDown
  <2>6. SnapBetween'
    BY <1>2, <1>t DEF Crash, SnapBetween, TypeOK, MutexHeld, DiskBehindMem,
       EmptyIsDefault, NoneWhenDown, Saving
  <2>7. OwnWriteCarried'
    BY <1>2, <1>t DEF Crash, OwnWriteCarried, TypeOK, MutexHeld, SnapBetween,
       EmptyIsDefault, DiskBehindMem, NoneWhenDown, Saving
  <2>8. AckedDurable'
    BY <1>2, <1>t DEF Crash, AckedDurable, TypeOK, MutexHeld, OwnWriteCarried,
       Settings, DiskBehindMem, SnapBetween, EmptyIsDefault, NoneWhenDown,
       Saving
  <2> QED
    BY <1>t, <2>1, <2>2, <2>3, <2>4, <2>5, <2>6, <2>7, <2>8
<1>3. ASSUME NEW p \in Procs, AssignWord(p) PROVE DiskOrder'
  <2>1. MutexHeld'
    BY <1>3, <1>t DEF AssignWord, BeginWrite, Goto, MutexHeld, TypeOK, Saving
  <2>2. NoneWhenDown'
    BY <1>3, <1>t DEF AssignWord, BeginWrite, Goto, NoneWhenDown, TypeOK,
       MutexHeld, Saving
  <2>3. NeverCutShort'
    BY <1>3, <1>t DEF AssignWord, BeginWrite, Goto, NeverCutShort, TypeOK,
       SnapBetween, EmptyIsDefault, DiskBehindMem, NoneWhenDown
  <2>4. EmptyIsDefault'
    BY <1>3, <1>t DEF AssignWord, BeginWrite, Goto, EmptyIsDefault, TypeOK,
       SnapBetween, DiskBehindMem, NoneWhenDown
  <2>5. DiskBehindMem'
    BY <1>3, <1>t DEF AssignWord, BeginWrite, Goto, DiskBehindMem, TypeOK,
       MutexHeld, SnapBetween, EmptyIsDefault, NoneWhenDown
  <2>6. SnapBetween'
    BY <1>3, <1>t DEF AssignWord, BeginWrite, Goto, SnapBetween, TypeOK,
       MutexHeld, DiskBehindMem, EmptyIsDefault, NoneWhenDown, Saving
  <2>7. OwnWriteCarried'
    BY <1>3, <1>t DEF AssignWord, BeginWrite, Goto, OwnWriteCarried, TypeOK,
       MutexHeld, SnapBetween, EmptyIsDefault, DiskBehindMem, NoneWhenDown,
       Saving
  <2>8. AckedDurable'
    BY <1>3, <1>t DEF AssignWord, BeginWrite, Goto, AckedDurable, TypeOK,
       MutexHeld, OwnWriteCarried, Settings, DiskBehindMem, SnapBetween,
       EmptyIsDefault, NoneWhenDown, Saving
  <2> QED
    BY <1>t, <2>1, <2>2, <2>3, <2>4, <2>5, <2>6, <2>7, <2>8
<1>4. ASSUME NEW p \in Procs, AssignFirst(p) PROVE DiskOrder'
  <2>1. MutexHeld'
    BY <1>4, <1>t DEF AssignFirst, BeginWrite, Goto, MutexHeld, TypeOK, Saving
  <2>2. NoneWhenDown'
    BY <1>4, <1>t DEF AssignFirst, BeginWrite, Goto, NoneWhenDown, TypeOK,
       MutexHeld, Saving
  <2>3. NeverCutShort'
    BY <1>4, <1>t DEF AssignFirst, BeginWrite, Goto, NeverCutShort, TypeOK
  <2>4. EmptyIsDefault'
    BY <1>4, <1>t DEF AssignFirst, BeginWrite, Goto, EmptyIsDefault, TypeOK
  <2>5. DiskBehindMem'
    BY <1>4, <1>t DEF AssignFirst, BeginWrite, Goto, DiskBehindMem, TypeOK,
       MutexHeld
  <2>6. SnapBetween'
    BY <1>4, <1>t DEF AssignFirst, BeginWrite, Goto, SnapBetween, TypeOK,
       MutexHeld, DiskBehindMem, Saving
  <2>7. OwnWriteCarried'
    BY <1>4, <1>t DEF AssignFirst, BeginWrite, Goto, OwnWriteCarried, TypeOK,
       MutexHeld, SnapBetween, Saving, DiskBehindMem
  <2>8. AckedDurable'
    BY <1>4, <1>t DEF AssignFirst, BeginWrite, Goto, AckedDurable, TypeOK,
       MutexHeld, OwnWriteCarried, Settings, DiskBehindMem, Saving
  <2> QED
    BY <1>t, <2>1, <2>2, <2>3, <2>4, <2>5, <2>6, <2>7, <2>8
<1>5. ASSUME NEW p \in Procs, AssignLast(p) PROVE DiskOrder'
  <2>1. MutexHeld'
    BY <1>5, <1>t DEF AssignLast, Goto, MutexHeld, TypeOK, Saving
  <2>2. NoneWhenDown'
    BY <1>5, <1>t DEF AssignLast, Goto, NoneWhenDown, TypeOK, MutexHeld, Saving
  <2>3. NeverCutShort'
    BY <1>5, <1>t DEF AssignLast, Goto, NeverCutShort, TypeOK
  <2>4. EmptyIsDefault'
    BY <1>5, <1>t DEF AssignLast, Goto, EmptyIsDefault, TypeOK
  <2>5. DiskBehindMem'
    BY <1>5, <1>t DEF AssignLast, Goto, DiskBehindMem, TypeOK, MutexHeld
  <2>6. SnapBetween'
    BY <1>5, <1>t DEF AssignLast, Goto, SnapBetween, TypeOK, MutexHeld,
       DiskBehindMem, Saving
  <2>7. OwnWriteCarried'
    BY <1>5, <1>t DEF AssignLast, Goto, OwnWriteCarried, TypeOK, MutexHeld,
       SnapBetween, Saving
  <2>8. AckedDurable'
    BY <1>5, <1>t DEF AssignLast, Goto, AckedDurable, TypeOK, MutexHeld,
       OwnWriteCarried, Settings, DiskBehindMem, Saving
  <2> QED
    BY <1>t, <2>1, <2>2, <2>3, <2>4, <2>5, <2>6, <2>7, <2>8
<1>6. ASSUME NEW p \in Procs, LockState(p) PROVE DiskOrder'
  <2>1. MutexHeld'
    BY <1>6, <1>t DEF LockState, Goto, MutexHeld, TypeOK, Saving
  <2>2. NoneWhenDown'
    BY <1>6, <1>t DEF LockState, Goto, NoneWhenDown, TypeOK, MutexHeld, Saving
  <2>3. NeverCutShort'
    BY <1>6, <1>t DEF LockState, Goto, NeverCutShort, TypeOK
  <2>4. EmptyIsDefault'
    BY <1>6, <1>t DEF LockState, Goto, EmptyIsDefault, TypeOK
  <2>5. DiskBehindMem'
    BY <1>6, <1>t DEF LockState, Goto, DiskBehindMem, TypeOK, MutexHeld
  <2>6. SnapBetween'
    BY <1>6, <1>t DEF LockState, Goto, SnapBetween, TypeOK, MutexHeld,
       DiskBehindMem, Saving
  <2>7. OwnWriteCarried'
    BY <1>6, <1>t DEF LockState, Goto, OwnWriteCarried, TypeOK, MutexHeld,
       SnapBetween, Saving
  <2>8. AckedDurable'
    BY <1>6, <1>t DEF LockState, Goto, AckedDurable, TypeOK, MutexHeld,
       OwnWriteCarried, Settings, DiskBehindMem, Saving
  <2> QED
    BY <1>t, <2>1, <2>2, <2>3, <2>4, <2>5, <2>6, <2>7, <2>8
<1>7. ASSUME NEW p \in Procs, MarshalField(p) PROVE DiskOrder'
  <2>1. MutexHeld'
    BY <1>7, <1>t DEF MarshalField, MutexHeld, TypeOK, Saving
  <2>2. NoneWhenDown'
    BY <1>7, <1>t DEF MarshalField, NoneWhenDown, TypeOK, MutexHeld, Saving
  <2>3. NeverCutShort'
    BY <1>7, <1>t DEF MarshalField, NeverCutShort, TypeOK
  <2>4. EmptyIsDefault'
    BY <1>7, <1>t DEF MarshalField, EmptyIsDefault, TypeOK
  <2>5. DiskBehindMem'
    BY <1>7, <1>t DEF MarshalField, DiskBehindMem, TypeOK, MutexHeld
  <2>6. SnapBetween'
    <3>1. PICK f \in left[p] : /\ snap' = [snap EXCEPT ![p][f] = mem[f]]
                               /\ left' = [left EXCEPT ![p] = @ \ {f}]
      BY <1>7 DEF MarshalField
    <3>2. snap'[p] = [snap[p] EXCEPT ![f] = mem[f]] /\ left'[p] = left[p] \ {f}
      BY <1>t, <3>1 DEF TypeOK
    <3>3. up /\ pc[p] = "marshal" /\ pc' = pc /\ mem' = mem /\ disk' = disk /\ tmp' = tmp
      BY <1>7 DEF MarshalField, NoneWhenDown
    <3>4. ASSUME NEW g \in Narrow \ left'[p]
          PROVE  disk.val[g].lo <= snap'[p][g].lo /\ snap'[p][g].lo <= mem[g].lo
      <4>0. f \in Fields /\ g \in Fields /\ snap[p] \in [Fields -> Value]
        BY <1>t, <3>1 DEF TypeOK
      <4>1. CASE g = f
        <5>1. snap'[p][g] = mem[g]
          BY <3>2, <4>0, <4>1
        <5>2. disk.val[g].lo <= mem[g].lo
          BY <3>3, <4>0 DEF DiskBehindMem
        <5>3. mem[g].lo \in Nat
          BY <1>t, <4>0 DEF TypeOK
        <5> QED
          BY <5>1, <5>2, <5>3
      <4>2. CASE g # f
        <5>1. snap'[p][g] = snap[p][g] /\ g \in Narrow \ left[p]
          BY <3>2, <4>0, <4>2
        <5> QED
          BY <1>7, <3>3, <5>1 DEF SnapBetween
      <4> QED
        BY <4>1, <4>2
    <3>5. ASSUME NEW q \in Procs, q # p PROVE snap'[q] = snap[q] /\ left'[q] = left[q]
      BY <1>t, <3>1, <3>5 DEF TypeOK
    <3> QED
      BY <3>3, <3>4, <3>5 DEF SnapBetween
  <2>7. OwnWriteCarried'
    BY <1>7, <1>t DEF MarshalField, OwnWriteCarried, TypeOK, MutexHeld,
       SnapBetween, Saving
  <2>8. AckedDurable'
    BY <1>7, <1>t DEF MarshalField, AckedDurable, TypeOK, MutexHeld,
       OwnWriteCarried, Settings, DiskBehindMem, Saving
  <2> QED
    BY <1>t, <2>1, <2>2, <2>3, <2>4, <2>5, <2>6, <2>7, <2>8
<1>8. ASSUME NEW p \in Procs, TruncateTmp(p) PROVE DiskOrder'
  <2>1. MutexHeld'
    BY <1>8, <1>t DEF TruncateTmp, Goto, MutexHeld, TypeOK, Saving
  <2>2. NoneWhenDown'
    BY <1>8, <1>t DEF TruncateTmp, Goto, NoneWhenDown, TypeOK, MutexHeld, Saving
  <2>3. NeverCutShort'
    BY <1>8, <1>t DEF TruncateTmp, Goto, NeverCutShort, TypeOK
  <2>4. EmptyIsDefault'
    BY <1>8, <1>t DEF TruncateTmp, Goto, EmptyIsDefault, TypeOK
  <2>5. DiskBehindMem'
    BY <1>8, <1>t DEF TruncateTmp, Goto, DiskBehindMem, TypeOK, MutexHeld
  <2>6. SnapBetween'
    BY <1>8, <1>t DEF TruncateTmp, Goto, SnapBetween, TypeOK, MutexHeld,
       DiskBehindMem, Saving
  <2>7. OwnWriteCarried'
    BY <1>8, <1>t DEF TruncateTmp, Goto, OwnWriteCarried, TypeOK, MutexHeld,
       SnapBetween, Saving
  <2>8. AckedDurable'
    BY <1>8, <1>t DEF TruncateTmp, Goto, AckedDurable, TypeOK, MutexHeld,
       OwnWriteCarried, Settings, DiskBehindMem, Saving
  <2> QED
    BY <1>t, <2>1, <2>2, <2>3, <2>4, <2>5, <2>6, <2>7, <2>8
<1>9. ASSUME NEW p \in Procs, WriteTmp(p) PROVE DiskOrder'
  <2>1. MutexHeld'
    BY <1>9, <1>t DEF WriteTmp, Goto, MutexHeld, TypeOK, Saving
  <2>2. NoneWhenDown'
    BY <1>9, <1>t DEF WriteTmp, Goto, NoneWhenDown, TypeOK, MutexHeld, Saving
  <2>3. NeverCutShort'
    BY <1>9, <1>t DEF WriteTmp, Goto, NeverCutShort, TypeOK
  <2>4. EmptyIsDefault'
    BY <1>9, <1>t DEF WriteTmp, Goto, EmptyIsDefault, TypeOK
  <2>5. DiskBehindMem'
    BY <1>9, <1>t DEF WriteTmp, Goto, DiskBehindMem, TypeOK, MutexHeld
  <2>6. SnapBetween'
    BY <1>9, <1>t DEF WriteTmp, Goto, SnapBetween, TypeOK, MutexHeld,
       DiskBehindMem, Saving
  <2>7. OwnWriteCarried'
    BY <1>9, <1>t DEF WriteTmp, Goto, OwnWriteCarried, TypeOK, MutexHeld,
       SnapBetween, Saving
  <2>8. AckedDurable'
    BY <1>9, <1>t DEF WriteTmp, Goto, AckedDurable, TypeOK, MutexHeld,
       OwnWriteCarried, Settings, DiskBehindMem, Saving
  <2> QED
    BY <1>t, <2>1, <2>2, <2>3, <2>4, <2>5, <2>6, <2>7, <2>8
<1>10. ASSUME NEW p \in Procs, RenameTmp(p) PROVE DiskOrder'
  <2>0. \A f \in Narrow : /\ disk.val[f].lo <= disk'.val[f].lo
                          /\ disk'.val[f].lo <= mem[f].lo
                          /\ disk'.val[f].lo \in Nat
    <3>1. disk' = File("complete", snap[p]) /\ left[p] = {}
      BY <1>10 DEF RenameTmp, SnapBetween
    <3>2. disk'.val = snap[p]
      BY <3>1
    <3> QED
      BY <1>10, <1>t, <3>1, <3>2 DEF RenameTmp, SnapBetween, TypeOK
  <2>1. MutexHeld'
    BY <1>10, <1>t DEF RenameTmp, Goto, Absent, MutexHeld, TypeOK, Saving
  <2>2. NoneWhenDown'
    BY <1>10, <1>t DEF RenameTmp, Goto, Absent, NoneWhenDown, TypeOK,
       MutexHeld, Saving
  <2>3. NeverCutShort'
    BY <1>10, <1>t DEF RenameTmp, Goto, Absent, NeverCutShort, TypeOK,
       SnapBetween, EmptyIsDefault, DiskBehindMem, NoneWhenDown
  <2>4. EmptyIsDefault'
    BY <1>10, <1>t DEF RenameTmp, Goto, Absent, EmptyIsDefault, TypeOK,
       SnapBetween, DiskBehindMem, NoneWhenDown
  <2>5. DiskBehindMem'
    BY <1>10, <1>t, <2>0 DEF RenameTmp, DiskBehindMem, TypeOK, NoneWhenDown
  <2>6. SnapBetween'
    BY <1>10, <1>t DEF RenameTmp, Goto, Absent, SnapBetween, TypeOK,
       MutexHeld, DiskBehindMem, EmptyIsDefault, NoneWhenDown, Saving
  <2>7. OwnWriteCarried'
    BY <1>10, <1>t DEF RenameTmp, Goto, Absent, OwnWriteCarried, TypeOK,
       MutexHeld, SnapBetween, EmptyIsDefault, DiskBehindMem, NoneWhenDown,
       Saving
  <2>8. AckedDurable'
    BY <1>10, <1>t, <2>0 DEF RenameTmp, AckedDurable, TypeOK, Settings
  <2> QED
    BY <1>t, <2>1, <2>2, <2>3, <2>4, <2>5, <2>6, <2>7, <2>8
<1>11. ASSUME NEW p \in Procs, SaveReturns(p) PROVE DiskOrder'
  <2>1. MutexHeld'
    BY <1>11, <1>t DEF SaveReturns, Finish, Goto, MutexHeld, TypeOK, Saving
  <2>2. NoneWhenDown'
    BY <1>11, <1>t DEF SaveReturns, Finish, Goto, NoneWhenDown, TypeOK,
       MutexHeld, Saving
  <2>3. NeverCutShort'
    BY <1>11, <1>t DEF SaveReturns, Finish, Goto, NeverCutShort, TypeOK
  <2>4. EmptyIsDefault'
    BY <1>11, <1>t DEF SaveReturns, Finish, Goto, EmptyIsDefault, TypeOK
  <2>5. DiskBehindMem'
    BY <1>11, <1>t DEF SaveReturns, Finish, Goto, DiskBehindMem, TypeOK,
       MutexHeld
  <2>6. SnapBetween'
    BY <1>11, <1>t DEF SaveReturns, Finish, Goto, SnapBetween, TypeOK,
       MutexHeld, DiskBehindMem, Saving
  <2>7. OwnWriteCarried'
    BY <1>11, <1>t DEF SaveReturns, Finish, Goto, OwnWriteCarried, TypeOK,
       MutexHeld, SnapBetween, Saving
  <2>8. AckedDurable'
    BY <1>11, <1>t DEF SaveReturns, Finish, Goto, AckedDurable, TypeOK,
       MutexHeld, OwnWriteCarried, Settings, DiskBehindMem, Saving
  <2> QED
    BY <1>t, <2>1, <2>2, <2>3, <2>4, <2>5, <2>6, <2>7, <2>8
<1>12. ASSUME NEW p \in Procs, SaveFails(p) PROVE DiskOrder'
  <2>1. MutexHeld'
    BY <1>12, <1>t DEF SaveFails, Finish, Goto, MutexHeld, TypeOK, Saving
  <2>2. NoneWhenDown'
    BY <1>12, <1>t DEF SaveFails, Finish, Goto, NoneWhenDown, TypeOK,
       MutexHeld, Saving
  <2>3. NeverCutShort'
    BY <1>12, <1>t DEF SaveFails, Finish, Goto, NeverCutShort, TypeOK
  <2>4. EmptyIsDefault'
    BY <1>12, <1>t DEF SaveFails, Finish, Goto, EmptyIsDefault, TypeOK
  <2>5. DiskBehindMem'
    BY <1>12, <1>t DEF SaveFails, Finish, Goto, DiskBehindMem, TypeOK, MutexHeld
  <2>6. SnapBetween'
    BY <1>12, <1>t DEF SaveFails, Finish, Goto, SnapBetween, TypeOK,
       MutexHeld, DiskBehindMem, Saving
  <2>7. OwnWriteCarried'
    BY <1>12, <1>t DEF SaveFails, Finish, Goto, OwnWriteCarried, TypeOK,
       MutexHeld, SnapBetween, Saving
  <2>8. AckedDurable'
    BY <1>12, <1>t DEF SaveFails, Finish, Goto, AckedDurable, TypeOK,
       MutexHeld, OwnWriteCarried, Settings, DiskBehindMem, Saving
  <2> QED
    BY <1>t, <2>1, <2>2, <2>3, <2>4, <2>5, <2>6, <2>7, <2>8
<1>13. CASE UNCHANGED vars
  BY <1>13, <1>t DEF vars, MutexHeld, NoneWhenDown, NeverCutShort,
     EmptyIsDefault, DiskBehindMem, SnapBetween, OwnWriteCarried,
     AckedDurable, Settings
<1> QED
  BY <1>1, <1>2, <1>3, <1>4, <1>5, <1>6, <1>7, <1>8, <1>9, <1>10, <1>11,
     <1>12, <1>13 DEF Next, Advance

\* The order holds at the start.
LEMMA InitOrder == Init => DiskOrder
<1> SUFFICES ASSUME Init PROVE DiskOrder
  OBVIOUS
<1> USE StoreAssumption, ValueFacts, FileFacts
<1>1. TypeOK
  BY InitType
<1>2. disk.val = Default /\ disk.kind # "partial"
  BY DEF Init
<1>3. NeverCutShort /\ EmptyIsDefault
  BY <1>2 DEF NeverCutShort, EmptyIsDefault
<1>4. DiskBehindMem /\ AckedDurable
  BY <1>2 DEF Init, DiskBehindMem, AckedDurable, Settings
<1>5. MutexHeld /\ NoneWhenDown /\ SnapBetween /\ OwnWriteCarried
  BY DEF Init, MutexHeld, NoneWhenDown, SnapBetween, OwnWriteCarried, Saving
<1> QED
  BY <1>1, <1>3, <1>4, <1>5 DEF DiskOrder

-----------------------------------------------------------------------------
(* A torn value is torn in memory too, or its writer is still on its way.  *)

Source(f) == Torn(mem[f]) \/ \E q \in Procs : OnItsWay(q, f)

\* Nothing is torn at the start.
LEMMA InitHeals == Init => SnapHeals /\ TornHeals
BY DEF Init, SnapHeals, TornHeals

\* A step of p that is over with its field keeps the sources of the others.
LEMMA StepSource ==
    ASSUME DiskOrder, NEW p \in Procs, NEW f \in Fields,
           \/ AssignWord(p) \/ AssignFirst(p) \/ AssignLast(p)
           \/ LockState(p) \/ MarshalField(p) \/ TruncateTmp(p) \/ WriteTmp(p),
           Source(f)
    PROVE  Source(f)'
<1> USE DEF DiskOrder, TypeOK, OnItsWay, Source, Goto
<1>1. ASSUME NEW q \in Procs \ {p}, OnItsWay(q, f) PROVE OnItsWay(q, f)'
  BY <1>1 DEF AssignWord, AssignFirst, BeginWrite, AssignLast, LockState, MarshalField,
     TruncateTmp, WriteTmp
<1>2. CASE AssignWord(p)
  <2>1. PICK g \in Narrow : BeginWrite(p, g) /\ mem' = [mem EXCEPT ![g] = Whole(count[g] + 1)]
    BY <1>2 DEF AssignWord
  <2>2. pc[p] = "idle" /\ fld'[p] = g /\ pc'[p] = "save"
    BY <1>2, <2>1 DEF AssignWord, BeginWrite
  <2> QED
    BY <1>1, <2>1, <2>2
<1>3. CASE AssignFirst(p)
  <2>1. PICK g \in Wide : /\ BeginWrite(p, g)
                          /\ mem' = [mem EXCEPT ![g] = [lo |-> count[g] + 1, hi |-> @.hi]]
    BY <1>3 DEF AssignFirst
  <2>2. pc[p] = "idle" /\ fld'[p] = g /\ pc'[p] = "assign"
    BY <1>3, <2>1 DEF AssignFirst, BeginWrite
  <2> QED
    BY <1>1, <2>1, <2>2
<1>4. CASE AssignLast(p)
  <2>1. pc'[p] = "save" /\ fld' = fld
    BY <1>4 DEF AssignLast
  <2>2. f # fld[p] => mem'[f] = mem[f]
    BY <1>4 DEF AssignLast
  <2> QED
    BY <1>1, <2>1, <2>2
<1>5. CASE LockState(p)
  BY <1>1, <1>5 DEF LockState
<1>6. CASE MarshalField(p)
  <2>1. PICK g \in left[p] : /\ snap' = [snap EXCEPT ![p][g] = mem[g]]
                             /\ left' = [left EXCEPT ![p] = @ \ {g}]
    BY <1>6 DEF MarshalField
  <2>2. pc' = pc /\ fld' = fld /\ mem' = mem
    BY <1>6 DEF MarshalField
  <2>3. g = f => snap'[p][f] = mem[f]
    BY <2>1
  <2>4. g # f => snap'[p][f] = snap[p][f] /\ (f \in left[p] <=> f \in left'[p])
    BY <2>1
  <2> QED
    BY <1>1, <1>6, <2>2, <2>3, <2>4 DEF MarshalField
<1>7. CASE TruncateTmp(p)
  BY <1>1, <1>7 DEF TruncateTmp
<1>8. CASE WriteTmp(p)
  BY <1>1, <1>8 DEF WriteTmp
<1> QED
  BY <1>2, <1>3, <1>4, <1>5, <1>6, <1>7, <1>8

\* Every step keeps the reasons for which a torn string will be saved whole.
LEMMA StepHeals == IInv /\ [Next]_vars => SnapHeals' /\ TornHeals'
<1> SUFFICES ASSUME IInv, [Next]_vars PROVE SnapHeals' /\ TornHeals'
  OBVIOUS
<1> USE DEF IInv, DiskOrder, TypeOK, MutexHeld, Saving, Goto
<1>0. /\ SnapHeals <=> \A p \in Procs : pc[p] \in {"marshal", "write", "rename"} =>
            \A f \in Fields \ left[p] : Torn(snap[p][f]) => Source(f)
      /\ TornHeals <=> (up => \A f \in Fields : Torn(disk.val[f]) => Source(f) \/ f \in lost)
      /\ SnapHeals' <=> \A p \in Procs : pc'[p] \in {"marshal", "write", "rename"} =>
            \A f \in Fields \ left'[p] : Torn(snap'[p][f]) => Source(f)'
      /\ TornHeals' <=> (up' => \A f \in Fields : Torn(disk'.val[f]) => Source(f)' \/ f \in lost')
  BY DEF SnapHeals, TornHeals, Source, Torn
<1>1. CASE Boot
  <2>1. \A p \in Procs : pc'[p] = "idle"
    BY <1>1 DEF Boot, NoneWhenDown
  <2>2. disk'.val = disk.val
    BY <1>1, FileFacts DEF Boot, Load, EmptyIsDefault
  <2>3. PICK chg \in SUBSET BootFields :
          /\ mem' = [f \in Fields |-> IF f \in chg THEN Whole(count[f] + 1) ELSE disk.val[f]]
          /\ lost' = chg
    BY <1>1 DEF Boot
  <2> QED
    BY <1>0, <2>1, <2>2, <2>3 DEF Source
<1>2. CASE Crash
  <2>1. ~up' /\ \A p \in Procs : pc'[p] = "idle"
    BY <1>2 DEF Crash
  <2> QED
    BY <1>0, <2>1
<1>3. ASSUME NEW p \in Procs,
             \/ AssignWord(p) \/ AssignFirst(p) \/ AssignLast(p)
             \/ LockState(p) \/ TruncateTmp(p) \/ WriteTmp(p)
      PROVE  SnapHeals' /\ TornHeals'
  <2>1. disk' = disk /\ snap' = snap /\ lost' = lost /\ up
    BY <1>3 DEF AssignWord, AssignFirst, BeginWrite, AssignLast, LockState, TruncateTmp, WriteTmp,
       NoneWhenDown
  <2>2. ASSUME NEW q \in Procs, pc'[q] \in {"marshal", "write", "rename"}
        PROVE  \/ pc[q] \in {"marshal", "write", "rename"} /\ left'[q] = left[q]
               \/ left'[q] = Fields
    BY <1>3, <2>2 DEF AssignWord, AssignFirst, BeginWrite, AssignLast, LockState, TruncateTmp,
       WriteTmp
  <2> QED
    BY <1>0, <1>3, <2>1, <2>2, StepSource
<1>4. ASSUME NEW p \in Procs, MarshalField(p) PROVE SnapHeals' /\ TornHeals'
  <2>1. PICK g \in left[p] : /\ snap' = [snap EXCEPT ![p][g] = mem[g]]
                             /\ left' = [left EXCEPT ![p] = @ \ {g}]
    BY <1>4 DEF MarshalField
  <2>2. disk' = disk /\ lost' = lost /\ up /\ pc' = pc /\ mem' = mem
    BY <1>4 DEF MarshalField, NoneWhenDown
  <2>3. ASSUME NEW q \in Procs, pc[q] \in {"marshal", "write", "rename"},
               NEW f \in Fields \ left'[q], Torn(snap'[q][f])
        PROVE  Source(f)'
    <3>1. CASE q = p /\ f = g
      BY <2>1, <2>2, <2>3, <3>1 DEF Source
    <3>2. CASE ~(q = p /\ f = g)
      <4>1. snap'[q][f] = snap[q][f] /\ f \notin left[q]
        BY <2>1, <2>3, <3>2
      <4> QED
        BY <1>0, <1>4, <2>3, <4>1, StepSource
    <3> QED
      BY <3>1, <3>2
  <2> QED
    BY <1>0, <1>4, <2>2, <2>3, StepSource
<1>5. ASSUME NEW p \in Procs, RenameTmp(p) PROVE SnapHeals' /\ TornHeals'
  <2>0. disk' = File("complete", snap[p]) /\ left[p] = {} /\ lost' = {}
    BY <1>5 DEF RenameTmp, SnapBetween
  <2>1. disk'.val = snap[p] /\ left[p] = {} /\ lost' = {}
    BY <2>0, FileFacts
  <2>2. \A q \in Procs : pc'[q] \notin {"marshal", "write", "rename"}
    BY <1>5 DEF RenameTmp
  <2>3. ASSUME NEW f \in Fields, Torn(snap[p][f]) PROVE Source(f)'
    <3>1. Source(f) /\ ~OnItsWay(p, f)
      BY <1>0, <1>5, <2>1, <2>3 DEF RenameTmp, OnItsWay
    <3>2. \A q \in Procs \ {p} : OnItsWay(q, f) => OnItsWay(q, f)'
      BY <1>5 DEF RenameTmp, OnItsWay
    <3>3. mem' = mem
      BY <1>5 DEF RenameTmp
    <3> QED
      BY <3>1, <3>2, <3>3 DEF Source
  <2> QED
    BY <1>0, <2>1, <2>2, <2>3
<1>6. ASSUME NEW p \in Procs, SaveReturns(p) \/ SaveFails(p) PROVE SnapHeals' /\ TornHeals'
  <2>0. pc[p] \in Saving /\ pc' = [pc EXCEPT ![p] = "idle"]
    BY <1>6 DEF SaveReturns, SaveFails, Finish, Goto, Saving
  <2>1. ASSUME NEW q \in Procs PROVE pc'[q] \notin {"marshal", "write", "rename"}
    <3>1. CASE q = p
      BY <2>0, <3>1
    <3>2. CASE q # p
      <4>1. pc[q] \notin Saving
        BY <2>0, <3>2
      <4> QED
        BY <2>0, <3>2, <4>1 DEF Saving
    <3> QED
      BY <3>1, <3>2
  <2>2. disk' = disk /\ mem' = mem /\ up
    BY <1>6 DEF SaveReturns, SaveFails, NoneWhenDown
  <2>3. ASSUME NEW f \in Fields, Source(f) PROVE Source(f)' \/ f \in lost'
    <3>1. \A q \in Procs \ {p} : OnItsWay(q, f) => OnItsWay(q, f)'
      BY <1>6 DEF SaveReturns, SaveFails, Finish, OnItsWay
    <3>2. OnItsWay(p, f) => f \in lost'
      BY <1>6 DEF SaveReturns, SaveFails, OnItsWay
    <3> QED
      BY <2>2, <2>3, <3>1, <3>2 DEF Source
  <2>4. lost \subseteq lost'
    BY <1>6 DEF SaveReturns, SaveFails
  <2> QED
    BY <1>0, <2>1, <2>2, <2>3, <2>4
<1>7. CASE UNCHANGED vars
  BY <1>7 DEF vars, SnapHeals, TornHeals, OnItsWay, Torn
<1> QED
  BY <1>1, <1>2, <1>3, <1>4, <1>5, <1>6, <1>7 DEF Next, Advance

\* The invariant holds at the start.
LEMMA InitInv == Init => IInv
BY InitOrder, InitHeals DEF IInv

\* Every step keeps the invariant.
LEMMA StepInv == IInv /\ [Next]_vars => IInv'
BY StepOrder, StepHeals DEF IInv

\* The strengthening holds in every reachable state.
THEOREM Invariance == Spec => []IInv
BY InitInv, StepInv, PTL DEF Spec

\* Type correctness.
THEOREM TypeCorrect == Spec => []TypeOK
<1>1. IInv => TypeOK
  BY DEF IInv, DiskOrder
<1> QED
  BY <1>1, Invariance, PTL

\* A client that was told "ok" never loses its setting, for any number of
\* goroutines, fields and crashes.
THEOREM Durability == Spec => []AckedDurable
<1>1. IInv => AckedDurable
  BY DEF IInv, DiskOrder
<1> QED
  BY <1>1, Invariance, PTL

\* state.json is never a cut-short file, wherever the process crashes.
THEOREM Integrity == Spec => []NeverCutShort
<1>1. IInv => NeverCutShort
  BY DEF IInv, DiskOrder
<1> QED
  BY <1>1, Invariance, PTL

\* A running daemon never works with an older value than it acknowledged.
THEOREM Visibility == Spec => []AckedVisible
<1>1. IInv => AckedVisible
  BY ValueFacts DEF IInv, DiskOrder, AckedDurable, AckedVisible, DiskBehindMem, TypeOK,
     Settings
<1> QED
  BY <1>1, Invariance, PTL

\* A torn value in state.json does not outlive its writer's Save, for any number
\* of goroutines that assign while another saves.
THEOREM TornValuesHeal == Spec => []TornHeals
<1>1. IInv => TornHeals
  BY DEF IInv
<1> QED
  BY <1>1, Invariance, PTL

-----------------------------------------------------------------------------
(* The file never goes back, and the refinement of AtomicState.            *)

\* A step replaces state.json by what is as new and can be read.
LEMMA DiskStep ==
    IInv /\ [Next]_vars =>
        /\ \A f \in Narrow : disk.val[f].lo <= disk'.val[f].lo
        /\ disk.kind = "complete" => disk'.kind = "complete"
<1> SUFFICES ASSUME IInv, [Next]_vars
             PROVE  /\ \A f \in Narrow : disk.val[f].lo <= disk'.val[f].lo
                    /\ disk.kind = "complete" => disk'.kind = "complete"
  OBVIOUS
<1> USE ValueFacts, FileFacts DEF IInv, DiskOrder
<1>0. \A f \in Narrow : disk.val[f].lo \in Nat
  BY DEF TypeOK
<1>1. CASE Boot
  <2>1. disk'.val = disk.val
    BY <1>1 DEF Boot, Load, EmptyIsDefault
  <2>2. disk.kind = "complete" => disk' = disk
    BY <1>1 DEF Boot, Load
  <2> QED
    BY <1>0, <2>1, <2>2
<1>2. ASSUME NEW p \in Procs, RenameTmp(p)
      PROVE  /\ \A f \in Narrow : disk.val[f].lo <= disk'.val[f].lo
             /\ disk'.kind = "complete"
  <2>1. disk' = File("complete", snap[p]) /\ left[p] = {}
    BY <1>2 DEF RenameTmp, SnapBetween
  <2> QED
    BY <1>2, <2>1 DEF RenameTmp, SnapBetween
<1>3. CASE disk' = disk
  BY <1>0, <1>3
<1>4. ~Boot /\ (\A p \in Procs : ~RenameTmp(p)) => disk' = disk
  BY DEF Next, Advance, vars, Crash, AssignWord, AssignFirst, AssignLast,
         LockState, MarshalField, TruncateTmp, WriteTmp, SaveReturns, SaveFails
<1> QED
  BY <1>1, <1>2, <1>3, <1>4

\* A Save that marshalled early never lands after one that marshalled late.
THEOREM Monotone == Spec => DiskMonotone
BY Invariance, DiskStep, PTL DEF Spec, DiskMonotone

\* The store starts as the atomic one does.
LEMMA InitAtomic == Init => Atomic!Init
<1> SUFFICES ASSUME Init PROVE Atomic!Init
  OBVIOUS
<1>1. \A f \in Settings : disk.val[f].lo = 0 /\ acked[f] = 0
  BY ValueFacts, FileFacts DEF Init, Settings
<1> QED
  BY <1>1 DEF Atomic!Init

\* Every step is a step of the atomic store, or none of its own.
LEMMA StepAtomic == IInv /\ IInv' /\ [Next]_vars => [Atomic!Next]_Atomic!vars
<1> SUFFICES ASSUME IInv, IInv', [Next]_vars
             PROVE  [Atomic!Next]_Atomic!vars
  OBVIOUS
<1> DEFINE sv == [f \in Settings |-> disk.val[f].lo]
           ak == [f \in Settings |-> acked[f]]
<1>t. /\ Settings \subseteq Narrow /\ Settings \subseteq Reported
      /\ \A f \in Settings : /\ disk.val[f].lo \in Nat /\ disk'.val[f].lo \in Nat
                             /\ acked[f] \in Nat /\ acked'[f] \in Nat
  BY DEF Settings, IInv, DiskOrder, TypeOK
<1>1. CASE acked' = acked
  <2>1. ak' = ak
    BY <1>1
  <2>2. \A f \in Settings : sv[f] <= sv'[f]
    BY <1>t, DiskStep
  <2>3. sv' \in [Settings -> Nat]
    BY <1>t
  <2>4. Atomic!Commit
    BY <2>1, <2>2, <2>3 DEF Atomic!Commit
  <2> QED
    BY <2>4 DEF Atomic!Next
<1>2. ASSUME NEW p \in Procs, SaveReturns(p), acked' # acked
      PROVE  [Atomic!Next]_Atomic!vars
  <2>1. sv' = sv
    BY <1>2 DEF SaveReturns
  <2>2. acked' = [acked EXCEPT ![fld[p]] = rank[p]] /\ acked[fld[p]] < rank[p]
    BY <1>2 DEF SaveReturns
  <2>3. rank[p] \in Nat /\ fld[p] \in Fields /\ acked \in [Fields -> Nat]
    BY DEF IInv, DiskOrder, TypeOK
  <2>4. ASSUME NEW f \in Settings, f = fld[p] PROVE Atomic!Next
    <3>1. acked'[f] = rank[p] /\ \A g \in Settings \ {f} : acked'[g] = acked[g]
      BY <1>t, <2>2, <2>3, <2>4
    <3>2. rank[p] <= disk.val[f].lo
      BY <1>t, <1>2, <2>4 DEF SaveReturns, IInv, DiskOrder, OwnWriteCarried
    <3>3. ak' \in [Settings -> Nat]
      BY <1>t
    <3>4. Atomic!Acknowledge(f)
      BY <1>t, <2>1, <2>2, <2>3, <2>4, <3>1, <3>2, <3>3 DEF Atomic!Acknowledge
    <3> QED
      BY <3>4 DEF Atomic!Next
  <2>5. CASE fld[p] \notin Settings
    <3>1. ak' = ak
      BY <1>t, <2>2, <2>3, <2>5 DEF Settings
    <3> QED
      BY <2>1, <3>1 DEF Atomic!vars
  <2> QED
    BY <2>4, <2>5
<1>3. (\A p \in Procs : ~SaveReturns(p)) => acked' = acked
  BY DEF Next, Advance, vars, Boot, Crash, AssignWord, AssignFirst, AssignLast,
         LockState, MarshalField, TruncateTmp, WriteTmp, RenameTmp, SaveFails
<1> QED
  BY <1>1, <1>2, <1>3

\* state.json is an atomic store of the settings: StateStore implements
\* AtomicState.
THEOREM Refinement == Spec => AtomicSpec
BY Invariance, InitAtomic, StepAtomic, PTL DEF Spec, AtomicSpec, Atomic!Spec

-----------------------------------------------------------------------------
(* Why SaveTerminates: nobody can set a Save back.                         *)

\* The steps that follow the one at hand.
StepsToEnd ==
    [idle |-> 0, saved |-> 1, rename |-> 2, write |-> 3, marshal |-> 4, save |-> 5,
     assign |-> 6]

\* A step moves each goroutine on, or leaves it where it is.
LEMMA StepForward ==
    ASSUME TypeOK, [Next]_vars, NEW p \in Procs, pc[p] # "idle"
    PROVE  \/ UNCHANGED <<pc[p], left[p]>>
           \/ StepsToEnd[pc'[p]] < StepsToEnd[pc[p]]
           \/ pc'[p] = pc[p] /\ \E f \in left[p] : left'[p] = left[p] \ {f}
<1> USE DEF StepsToEnd, Goto, Finish, TypeOK, Locations, Saving
<1>1. CASE Boot \/ UNCHANGED vars
  BY <1>1 DEF Boot, vars
<1>2. CASE Crash
  <2>1. pc'[p] = "idle"
    BY <1>2 DEF Crash
  <2> QED
    BY <2>1
<1>3. ASSUME NEW q \in Procs, AssignWord(q) \/ AssignFirst(q)
      PROVE  UNCHANGED <<pc[p], left[p]>>
  BY <1>3 DEF AssignWord, AssignFirst, BeginWrite
<1>4. ASSUME NEW q \in Procs, LockState(q) \/ AssignLast(q) \/ TruncateTmp(q) \/ WriteTmp(q)
      PROVE  UNCHANGED <<pc[p], left[p]>> \/ StepsToEnd[pc'[p]] < StepsToEnd[pc[p]]
  BY <1>4 DEF LockState, AssignLast, TruncateTmp, WriteTmp
<1>5. ASSUME NEW q \in Procs, RenameTmp(q) \/ SaveReturns(q) \/ SaveFails(q)
      PROVE  UNCHANGED <<pc[p], left[p]>> \/ StepsToEnd[pc'[p]] < StepsToEnd[pc[p]]
  BY <1>5 DEF RenameTmp, SaveReturns, SaveFails
<1>6. ASSUME NEW q \in Procs, MarshalField(q)
      PROVE  \/ UNCHANGED <<pc[p], left[p]>>
             \/ pc'[p] = pc[p] /\ \E f \in left[p] : left'[p] = left[p] \ {f}
  BY <1>6 DEF MarshalField
<1> QED
  BY <1>1, <1>2, <1>3, <1>4, <1>5, <1>6 DEF Next, Advance

\* Whatever the other goroutines assign and save meanwhile, an operation only goes
\* forward: to a later place of Save, or to one field less for MarshalIndent.
THEOREM OnlyForward ==
    Spec => [][\A p \in Procs : pc[p] # "idle" =>
                  \/ UNCHANGED <<pc[p], left[p]>>
                  \/ StepsToEnd[pc'[p]] < StepsToEnd[pc[p]]
                  \/ pc'[p] = pc[p] /\ \E f \in left[p] : left'[p] = left[p] \ {f}]_vars
<1>1. TypeOK /\ [Next]_vars =>
        [\A p \in Procs : pc[p] # "idle" =>
            \/ UNCHANGED <<pc[p], left[p]>>
            \/ StepsToEnd[pc'[p]] < StepsToEnd[pc[p]]
            \/ pc'[p] = pc[p] /\ \E f \in left[p] : left'[p] = left[p] \ {f}]_vars
  BY StepForward
<1> QED
  BY <1>1, TypeCorrect, PTL DEF Spec

=============================================================================
