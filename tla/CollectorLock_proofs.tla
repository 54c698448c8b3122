----------------------- MODULE CollectorLock_proofs -----------------------
(***************************************************************************)
(* Proofs about one collector lock for any set of pids and any number of   *)
(* crashes and failed writes.                                              *)
(***************************************************************************)
EXTENDS CollectorLock, FiniteSetTheorems, TLAPS

\* Until an unlink hits somebody else's lock, whoever is past openSync has its
\* own file at the path.
OwnFile ==
  ~taken => \A p \in Pid : pc[p] \in {"write", "held"} =>
              file # NoFile /\ file.by = p /\ ~file.lost

ShapeOK == pc \in [Pid -> Step] /\ file \in File \cup {NoFile}

IInv == ShapeOK /\ OwnFile

LEMMA InitIInv == Init => IInv
  BY DEF Init, IInv, ShapeOK, OwnFile, Step

\* A process that leaves marks at most its own file.
LEMMA LeaveIInv == ASSUME IInv, NEW p \in Pid, Leave(p), UNCHANGED taken
                   PROVE  IInv'
<1> USE ConstantsAssumption DEF IInv, ShapeOK, OwnFile, Step, Goto, File
<1>1. pc' \in [Pid -> Step] /\ (\A q \in Pid : q # p => pc'[q] = pc[q])
  BY DEF Leave
<1>2. pc'[p] = "gone"
  BY DEF Leave
<1>3. file' \in File \cup {NoFile} /\ (file = NoFile \/ file.by # p => file' = file)
  BY DEF Leave
<1> QED BY <1>1, <1>2, <1>3

LEMMA NextIInv == IInv /\ [Next]_vars => IInv'
<1> SUFFICES ASSUME IInv, [Next]_vars PROVE IInv'
  OBVIOUS
<1> USE ConstantsAssumption DEF IInv, ShapeOK, OwnFile, Step, Goto, File
<1>1. ASSUME NEW p \in Pid, Begin(p) PROVE IInv'
  BY <1>1 DEF Begin
<1>2. ASSUME NEW p \in Pid, Stat(p) PROVE IInv'
  BY <1>2 DEF Stat
<1>3. ASSUME NEW p \in Pid, ReadPid(p) PROVE IInv'
  BY <1>3 DEF ReadPid
<1>4. ASSUME NEW p \in Pid, Probe(p) PROVE IInv'
  BY <1>4 DEF Probe
<1>5. ASSUME NEW p \in Pid, PruneUnlink(p) PROVE IInv'
  BY <1>5 DEF PruneUnlink, UnlinkPath
<1>6. ASSUME NEW p \in Pid, Open(p) PROVE IInv'
  <2>1. CASE Leave(p) /\ UNCHANGED taken
    BY <2>1, LeaveIInv
  <2>2. CASE file = NoFile /\ Goto(p, "write") /\ file' = NewFile(p) /\ UNCHANGED taken
    <3>1. ~taken => \A q \in Pid : pc[q] \notin {"write", "held"}
      BY <2>2
    <3>2. file' \in File /\ file'.by = p /\ ~file'.lost
      BY <2>2 DEF NewFile
    <3>3. pc' \in [Pid -> Step] /\ \A q \in Pid \ {p} : pc'[q] = pc[q]
      BY <2>2
    <3> QED BY <2>2, <3>1, <3>2, <3>3
  <2>3. CASE Goto(p, "stat") /\ UNCHANGED <<file, taken>>
    BY <2>3
  <2> QED BY <1>6, <2>1, <2>2, <2>3 DEF Open
<1>7. ASSUME NEW p \in Pid, Write(p) PROVE IInv'
  BY <1>7 DEF Write
<1>8. ASSUME NEW p \in Pid, WriteFails(p) PROVE IInv'
  <2>1. CASE Leave(p) /\ UNCHANGED taken
    BY <2>1, LeaveIInv
  <2>2. CASE pc[p] = "write" /\ Goto(p, "held") /\ UNCHANGED <<file, taken>>
    BY <2>2
  <2> QED BY <1>8, <2>1, <2>2 DEF WriteFails
<1>9. ASSUME NEW p \in Pid, Release(p) PROVE IInv'
  BY <1>9 DEF Release, UnlinkPath
<1>10. ASSUME NEW p \in Pid, Exit(p) PROVE IInv'
  BY <1>10, LeaveIInv DEF Exit
<1>11. ASSUME NEW p \in Pid, Crash(p) PROVE IInv'
  BY <1>11, LeaveIInv DEF Crash
<1>12. CASE LockAges
  BY <1>12 DEF LockAges
<1>13. CASE Restart
  BY <1>13 DEF Restart
<1>14. CASE UNCHANGED vars
  BY <1>14 DEF vars
<1> QED
  BY <1>1, <1>2, <1>3, <1>4, <1>5, <1>6, <1>7, <1>8, <1>9, <1>10, <1>11,
     <1>12, <1>13, <1>14 DEF Next, Run, Acquire

(***************************************************************************)
(* The exclusive open is a lock: with any number of collectors, killed and *)
(* restarted in any way, two of them hold it only after an unlink by path  *)
(* removed a file that was not the caller's to remove.                     *)
(***************************************************************************)
THEOREM SharedOnlyByUnlink == Spec => []SharedOnlyAfterForeignUnlink
<1>1. ASSUME IInv, ~taken PROVE Cardinality(Holders) \in {0, 1}
  <2>1. \A p, q \in Holders : p = q
    BY <1>1 DEF IInv, OwnFile, Holders
  <2>2. CASE Holders = {}
    BY <2>2, FS_EmptySet
  <2>3. CASE Holders # {}
    <3>1. PICK p \in Holders : Holders = {p}
      BY <2>1, <2>3
    <3> QED BY <3>1, FS_Singleton
  <2> QED BY <2>2, <2>3
<1>2. IInv => SharedOnlyAfterForeignUnlink
  <2>1. ASSUME IInv, ~taken PROVE ~(Cardinality(Holders) > 1)
    BY <1>1, <2>1
  <2> QED BY <2>1 DEF SharedOnlyAfterForeignUnlink
<1> QED BY InitIInv, NextIInv, <1>2, PTL DEF Spec
-----------------------------------------------------------------------------
LEMMA InitType == Init => TypeOK
<1>1. 0 \in 0..MaxCrashes /\ 0 \in 0..MaxFailures
  BY ConstantsAssumption
<1> QED BY <1>1, Zenon DEF Init, TypeOK, Step

LEMMA LeaveType ==
  ASSUME TypeOK, NEW p \in Pid, Leave(p),
         crashes' \in 0..MaxCrashes, failures' \in 0..MaxFailures, UNCHANGED taken
  PROVE  TypeOK'
BY ConstantsAssumption DEF TypeOK, Leave, Goto, Step, File

LEMMA NextType == TypeOK /\ [Next]_vars => TypeOK'
<1> SUFFICES ASSUME TypeOK, [Next]_vars PROVE TypeOK'
  OBVIOUS
<1> USE ConstantsAssumption
<1>1. ASSUME NEW p \in Pid, Begin(p) PROVE TypeOK'
  BY <1>1 DEF Begin, TypeOK, Goto, Step
<1>2. ASSUME NEW p \in Pid, Stat(p) PROVE TypeOK'
  BY <1>2 DEF Stat, TypeOK, Goto, Step, File
<1>3. ASSUME NEW p \in Pid, ReadPid(p) PROVE TypeOK'
  BY <1>3 DEF ReadPid, TypeOK, Goto, Step, File
<1>4. ASSUME NEW p \in Pid, Probe(p) PROVE TypeOK'
  BY <1>4 DEF Probe, TypeOK, Goto, Step
<1>5. ASSUME NEW p \in Pid, PruneUnlink(p) \/ Release(p) PROVE TypeOK'
  BY <1>5 DEF PruneUnlink, Release, UnlinkPath, TypeOK, Goto, Step, File
<1>6. ASSUME NEW p \in Pid, Open(p) PROVE TypeOK'
  <2>1. CASE Leave(p)
    BY <1>6, <2>1, LeaveType DEF Open, TypeOK
  <2>2. CASE file = NoFile /\ Goto(p, "write") /\ file' = NewFile(p)
    <3>1. NewFile(p) \in File
      BY DEF NewFile, File
    <3> QED BY <1>6, <2>2, <3>1 DEF Open, TypeOK, Goto, Step
  <2>3. CASE file # NoFile /\ Goto(p, "stat") /\ UNCHANGED <<file, seen, sawOld>>
    BY <1>6, <2>3 DEF Open, TypeOK, Goto, Step
  <2> QED BY <1>6, <2>1, <2>2, <2>3 DEF Open
<1>7. ASSUME NEW p \in Pid, Write(p) PROVE TypeOK'
  BY <1>7 DEF Write, TypeOK, Goto, Step, File
<1>8. ASSUME NEW p \in Pid, WriteFails(p) PROVE TypeOK'
  <2>1. crashes' \in 0..MaxCrashes /\ failures' \in 0..MaxFailures /\ UNCHANGED taken
    BY <1>8 DEF WriteFails, TypeOK
  <2>2. CASE Leave(p)
    BY <2>1, <2>2, LeaveType
  <2>3. CASE ~Leave(p)
    BY <1>8, <2>1, <2>3 DEF WriteFails, TypeOK, Goto, Step
  <2> QED BY <2>2, <2>3
<1>9. ASSUME NEW p \in Pid, Exit(p) PROVE TypeOK'
  BY <1>9, LeaveType DEF Exit, TypeOK
<1>10. ASSUME NEW p \in Pid, Crash(p) PROVE TypeOK'
  <2>1. crashes' \in 0..MaxCrashes /\ failures' \in 0..MaxFailures /\ UNCHANGED taken
    BY <1>10 DEF Crash, TypeOK
  <2> QED BY <1>10, <2>1, LeaveType DEF Crash
<1>11. CASE LockAges
  BY <1>11 DEF LockAges, TypeOK, File
<1>12. CASE Restart
  <2>1. /\ pc' \in [Pid -> Step] /\ seen' \in [Pid -> Pid \cup {NoPid}]
        /\ sawOld' \in [Pid -> BOOLEAN]
    BY <1>12 DEF Restart, Step
  <2>2. file' \in File \cup {NoFile}
    BY <1>12 DEF Restart, TypeOK, File
  <2>3. crashes' \in 0..MaxCrashes
    BY <1>12 DEF Restart, TypeOK
  <2> QED BY <1>12, <2>1, <2>2, <2>3 DEF Restart, TypeOK
<1>13. CASE UNCHANGED vars
  BY <1>13 DEF vars, TypeOK
<1> QED
  BY <1>1, <1>2, <1>3, <1>4, <1>5, <1>6, <1>7, <1>8, <1>9, <1>10, <1>11, <1>12, <1>13
  DEF Next, Run, Acquire

\* Every variable of the lock keeps its type, for any set of pids.
THEOREM LockTypeCorrect == Spec => []TypeOK
BY InitType, NextType, PTL DEF Spec
-----------------------------------------------------------------------------
\* A lock that is not lost has a live maker; a process that has read this file
\* and found a pid knows its maker's; one about to unlink it for the sake of
\* that pid has found the maker dead.
OwnerLives == file # NoFile /\ ~file.lost => Alive(file.by)

ReadsMaker ==
  \A p \in Pid :
    file # NoFile /\ p \in file.readers /\ pc[p] \in {"probe", "unlink"} /\ seen[p] # NoPid
      => seen[p] = file.by

JudgedDead ==
  \A p \in Pid :
    file # NoFile /\ p \in file.readers /\ pc[p] = "unlink" /\ seen[p] \notin {p, NoPid}
      => file.lost

JInv == TypeOK /\ OwnerLives /\ ReadsMaker /\ JudgedDead

LEMMA InitJInv == Init => JInv
BY InitType DEF Init, JInv, OwnerLives, ReadsMaker, JudgedDead

LEMMA LeaveJInv == ASSUME JInv, TypeOK', NEW p \in Pid, Leave(p) PROVE JInv'
<1> USE DEF JInv, TypeOK, File
<1>1. /\ pc'[p] = "gone" /\ \A q \in Pid \ {p} : pc'[q] = pc[q] /\ seen'[q] = seen[q]
  BY DEF Leave, Goto
<1>2. /\ file = NoFile <=> file' = NoFile
      /\ file # NoFile => /\ file'.by = file.by /\ file'.readers = file.readers
                          /\ file'.lost = (file.lost \/ file.by = p)
  <2>1. CASE file # NoFile /\ file.by = p
    <3>1. file' = [file EXCEPT !.lost = TRUE] /\ file \in File
      BY <2>1 DEF Leave
    <3>2. file' \in File /\ file'.by = file.by /\ file'.readers = file.readers /\ file'.lost
      BY <3>1
    <3> QED BY <2>1, <3>2, ConstantsAssumption
  <2>2. CASE ~(file # NoFile /\ file.by = p)
    <3>1. file' = file
      BY <2>2 DEF Leave
    <3>2. file # NoFile => file.lost \in BOOLEAN
      OBVIOUS
    <3> QED BY <2>2, <3>1, <3>2
  <2> QED BY <2>1, <2>2
<1>3. OwnerLives'
  BY <1>1, <1>2 DEF OwnerLives, Alive
<1>4. ReadsMaker'
  BY <1>1, <1>2 DEF ReadsMaker
<1>5. JudgedDead'
  BY <1>1, <1>2 DEF JudgedDead
<1> QED BY <1>3, <1>4, <1>5

LEMMA NextJInv == JInv /\ [Next]_vars => JInv'
<1> SUFFICES ASSUME JInv, [Next]_vars PROVE JInv'
  OBVIOUS
<1>13. TypeOK'
  BY NextType DEF JInv
<1> USE <1>13, ConstantsAssumption DEF JInv, OwnerLives, ReadsMaker, JudgedDead, Alive, Goto
<1>1. ASSUME NEW p \in Pid, Begin(p) PROVE JInv'
  BY <1>1 DEF Begin, TypeOK, File
<1>2. ASSUME NEW p \in Pid, Stat(p) PROVE JInv'
  BY <1>2 DEF Stat, TypeOK, File
<1>3. ASSUME NEW p \in Pid, ReadPid(p) PROVE JInv'
  BY <1>3 DEF ReadPid, TypeOK, File
<1>4. ASSUME NEW p \in Pid, Probe(p) PROVE JInv'
  BY <1>4 DEF Probe, Stale, TypeOK, File
<1>5. ASSUME NEW p \in Pid, PruneUnlink(p) \/ Release(p) PROVE JInv'
  BY <1>5 DEF PruneUnlink, Release, UnlinkPath
<1>6. ASSUME NEW p \in Pid, Open(p) PROVE JInv'
  <2>1. CASE Leave(p)
    BY <2>1, LeaveJInv
  <2>2. CASE file = NoFile /\ Goto(p, "write") /\ file' = NewFile(p)
    BY <2>2 DEF NewFile, TypeOK
  <2>3. CASE file # NoFile /\ Goto(p, "stat") /\ UNCHANGED <<file, seen, sawOld>>
    BY <2>3 DEF TypeOK, File
  <2> QED BY <1>6, <2>1, <2>2, <2>3 DEF Open
<1>7. ASSUME NEW p \in Pid, Write(p) PROVE JInv'
  BY <1>7 DEF Write, TypeOK, File
<1>8. ASSUME NEW p \in Pid, WriteFails(p) PROVE JInv'
  <2>1. CASE Leave(p)
    BY <2>1, LeaveJInv
  <2>2. CASE pc[p] = "write" /\ Goto(p, "held") /\ UNCHANGED <<file, seen, sawOld>>
    BY <2>2 DEF TypeOK, File
  <2> QED BY <1>8, <2>1, <2>2 DEF WriteFails
<1>9. ASSUME NEW p \in Pid, Exit(p) \/ Crash(p) PROVE JInv'
  BY <1>9, LeaveJInv DEF Exit, Crash
<1>10. CASE LockAges
  BY <1>10 DEF LockAges, TypeOK, File
<1>11. CASE Restart
  BY <1>11 DEF Restart, TypeOK, File
<1>12. CASE UNCHANGED vars
  BY <1>12 DEF vars
<1> QED
  BY <1>1, <1>2, <1>3, <1>4, <1>5, <1>6, <1>7, <1>8, <1>9, <1>10, <1>11, <1>12
  DEF Next, Run, Acquire

(***************************************************************************)
(* pruneStaleLock never unlinks the lock whose pid it has read while that  *)
(* process is alive, for any number of collectors, crashes and restarts    *)
(* between its four calls (collector-lock.mjs:44-69).                      *)
(***************************************************************************)
THEOREM PrunedLockIsDead == Spec => JudgedLockIsDead
<1>1. ASSUME JInv PROVE \A p \in Pid :
       /\ pc[p] = "unlink" /\ pc'[p] = "open"
       /\ file # NoFile /\ p \in file.readers /\ seen[p] \notin {p, NoPid}
       => file.lost
  BY <1>1 DEF JInv, JudgedDead
<1>2. Spec => []JInv
  BY InitJInv, NextJInv, PTL DEF Spec
<1> QED BY <1>1, <1>2, PTL DEF JudgedLockIsDead
=============================================================================
