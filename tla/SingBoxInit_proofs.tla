------------------------ MODULE SingBoxInit_proofs -------------------------
(***************************************************************************)
(* Proofs about the init script of sing-box, for any number of callers,    *)
(* daemons and faults.                                                     *)
(***************************************************************************)
EXTENDS SingBoxInit, FiniteSetTheorems, TLAPS

Pc     == {"idle"} \cup LockStep \cup InsideStep
OpKind == {"start", "stop", "restart"}
PidNote == Caller \cup Note
LockType == [by : Caller, pid : PidNote]
DaemonState == {"dead", "starting", "up", "dying"}

\* What the scripts keep, and what they share.
ScriptsOK ==
  /\ pc \in [Caller -> Pc]
  /\ op \in [Caller -> OpKind]
  /\ seen \in [Caller -> PidNote]
  /\ rival \in [Caller -> BOOLEAN]
  /\ child \in [Caller -> Daemon \cup {"none", "gone"}]

LockOK == lock \in LockType \cup {NoLock} /\ taken \in BOOLEAN

RouterOK ==
  /\ daemon \in [Daemon -> DaemonState]
  /\ pidfile \in Daemon \cup Note
  /\ faults \in [Fault -> 0..MaxFaults]

LEMMA Parts == TypeOK <=> ScriptsOK /\ LockOK /\ RouterOK
BY DEF TypeOK, ScriptsOK, LockOK, RouterOK, Pc, OpKind, PidNote, LockType, DaemonState

LEMMA PartsNext == TypeOK' <=> ScriptsOK' /\ LockOK' /\ RouterOK'
BY DEF TypeOK, ScriptsOK, LockOK, RouterOK, Pc, OpKind, PidNote, LockType, DaemonState

LEMMA InitType == Init => TypeOK
<1> SUFFICES ASSUME Init PROVE ScriptsOK /\ LockOK /\ RouterOK
  BY Parts
<1>1. ScriptsOK
  BY DEF Init, ScriptsOK, Pc, OpKind, PidNote, Note
<1>2. LockOK
  BY DEF Init, LockOK
<1>3. RouterOK
  BY InitScriptAssumption DEF Init, RouterOK, DaemonState, Note
<1> QED BY <1>1, <1>2, <1>3

LEMMA GotoType ==
  ASSUME ScriptsOK, NEW c \in Caller, NEW l \in Pc, Keep(c, l) PROVE ScriptsOK'
BY DEF ScriptsOK, Keep, Goto

LEMMA EndsType ==
  ASSUME ScriptsOK, NEW c \in Caller, Ends(c) PROVE ScriptsOK'
BY DEF ScriptsOK, Ends, Goto, Pc, OpKind, PidNote, Note

LEMMA ReturnsType ==
  ASSUME ScriptsOK, NEW c \in Caller, Returns(c) PROVE ScriptsOK'
<1>1. CASE op[c] = "restart"
  BY <1>1 DEF Returns, ScriptsOK, Goto, Pc, LockStep, OpKind, PidNote, Note
<1>2. CASE op[c] # "restart"
  BY <1>2, EndsType DEF Returns
<1> QED BY <1>1, <1>2

\* The steps inside lock() and unlock() are places of a script.
LEMMA Places == LockStep \subseteq Pc /\ InsideStep \subseteq Pc
BY DEF Pc

LEMMA LockCallType ==
  ASSUME TypeOK, NEW c \in Caller,
         LockCall(c) \/ UnlockPid(c) \/ UnlockDir(c)
  PROVE  TypeOK'
<1>1. ScriptsOK /\ LockOK /\ RouterOK
  BY Parts
<1> USE <1>1
<1>2. UNCHANGED <<daemon, pidfile, faults>> => RouterOK'
  BY DEF RouterOK
<1>3. \A l \in LockStep \cup InsideStep : Keep(c, l) => ScriptsOK'
  BY GotoType, Places
<1>4. Returns(c) => ScriptsOK'
  BY ReturnsType
<1>5. RemoveDir(c) => LockOK'
  BY DEF RemoveDir, LockOK
<1>6. CASE Mkdir(c)
  <2>1. LockOK'
    BY <1>6 DEF Mkdir, LockOK, LockType, PidNote, Note
  <2> QED BY <1>2, <1>3, <1>6, <2>1, PartsNext DEF Mkdir, LockStep
<1>7. CASE WritePid(c)
  <2>1. LockOK'
    BY <1>7 DEF WritePid, LockOK, LockType, PidNote
  <2>2. Body(c) \in InsideStep
    BY DEF Body, InsideStep
  <2> QED BY <1>2, <1>3, <1>7, <2>1, <2>2, PartsNext DEF WritePid
<1>8. CASE ReadOwner(c)
  <2>1. ScriptsOK'
    BY <1>8 DEF ReadOwner, ScriptsOK, Goto, Pc, LockStep, LockOK, LockType, PidNote, Note
  <2> QED BY <1>2, <1>8, <2>1, PartsNext DEF ReadOwner, LockOK
<1>9. CASE Judge(c)
  <2>1. CASE Returns(c)
    BY <1>2, <1>4, <1>9, <2>1, PartsNext DEF Judge, LockOK
  <2>2. CASE Goto(c, "rmPid") /\ seen' = [seen EXCEPT ![c] = "none"]
             /\ UNCHANGED <<op, child, rival>>
    <3>1. ScriptsOK'
      BY <2>2 DEF ScriptsOK, Goto, Pc, LockStep, PidNote, Note
    <3> QED BY <1>2, <1>9, <3>1, PartsNext DEF Judge, LockOK
  <2> QED BY <1>9, <2>1, <2>2 DEF Judge
<1>10. CASE RmPid(c)
  <2>1. LockOK'
    BY <1>10 DEF RmPid, LockOK, LockType, PidNote, Note
  <2> QED BY <1>2, <1>3, <1>10, <2>1, PartsNext DEF RmPid, LockStep
<1>11. CASE Rmdir(c)
  BY <1>2, <1>3, <1>4, <1>5, <1>11, PartsNext DEF Rmdir, LockStep, LockOK
<1>12. CASE MkdirAgain(c)
  <2>1. LockOK'
    BY <1>12 DEF MkdirAgain, LockOK, LockType, PidNote, Note
  <2> QED BY <1>2, <1>3, <1>4, <1>12, <2>1, PartsNext DEF MkdirAgain, LockStep
<1>13. CASE UnlockPid(c)
  <2>1. LockOK'
    BY <1>13 DEF UnlockPid, LockOK, LockType, PidNote, Note
  <2> QED BY <1>2, <1>3, <1>13, <2>1, PartsNext DEF UnlockPid, InsideStep
<1>14. CASE UnlockDir(c)
  BY <1>2, <1>4, <1>5, <1>14, PartsNext DEF UnlockDir, LockOK
<1> QED
  BY <1>6, <1>7, <1>8, <1>9, <1>10, <1>11, <1>12, <1>13, <1>14 DEF LockCall

LEMMA BodyType ==
  ASSUME TypeOK, NEW c \in Caller,
         CheckPidfile(c) \/ Adopt(c) \/ Spawn(c) \/ Record(c) \/ Settle(c)
         \/ Kill(c) \/ Wait(c) \/ Forget(c)
  PROVE  TypeOK'
<1>1. ScriptsOK /\ LockOK /\ RouterOK
  BY Parts
<1> USE <1>1
<1>2. UNCHANGED <<lock, taken>> => LockOK'
  BY DEF LockOK
<1>3. \A l \in InsideStep : Keep(c, l) => ScriptsOK'
  BY GotoType, Places
<1>4. CASE CheckPidfile(c)
  <2>1. RouterOK'
    BY <1>4 DEF CheckPidfile, RouterOK, Note
  <2> QED BY <1>2, <1>3, <1>4, <2>1, PartsNext DEF CheckPidfile, InsideStep
<1>5. CASE Adopt(c)
  <2>1. RouterOK'
    BY <1>5 DEF Adopt, RouterOK, Live
  <2> QED BY <1>2, <1>3, <1>5, <2>1, PartsNext DEF Adopt, InsideStep
<1>6. CASE Spawn(c)
  <2>1. RouterOK'
    BY <1>6 DEF Spawn, RouterOK, DaemonState
  <2>2. ScriptsOK'
    BY <1>6 DEF Spawn, ScriptsOK, Goto, Pc, InsideStep
  <2> QED BY <1>2, <1>6, <2>1, <2>2, PartsNext DEF Spawn
<1>7. CASE Record(c)
  <2>1. RouterOK'
    BY <1>7 DEF Record, RouterOK, ScriptsOK, Note
  <2> QED BY <1>2, <1>3, <1>7, <2>1, PartsNext DEF Record, InsideStep
<1>8. CASE Settle(c)
  <2>1. ScriptsOK'
    BY <1>8 DEF Settle, ScriptsOK, Goto, Pc, InsideStep
  <2> QED BY <1>2, <1>8, <2>1, PartsNext DEF Settle, RouterOK
<1>9. CASE Kill(c)
  <2>1. RouterOK'
    BY <1>9 DEF Kill, RouterOK, DaemonState, Note
  <2> QED BY <1>2, <1>3, <1>9, <2>1, PartsNext DEF Kill, InsideStep
<1>10. CASE Wait(c)
  BY <1>2, <1>3, <1>10, PartsNext DEF Wait, InsideStep, RouterOK
<1>11. CASE Forget(c)
  <2>1. RouterOK'
    BY <1>11 DEF Forget, RouterOK, Note
  <2> QED BY <1>2, <1>3, <1>11, <2>1, PartsNext DEF Forget, InsideStep
<1> QED BY <1>4, <1>5, <1>6, <1>7, <1>8, <1>9, <1>10, <1>11

LEMMA HitType ==
  ASSUME RouterOK, NEW f \in Fault, Hit(f) PROVE faults' \in [Fault -> 0..MaxFaults]
<1>1. /\ faults["kill"] \in Nat /\ faults["loss"] \in Nat /\ faults["reboot"] \in Nat
      /\ faults[f] \in {faults["kill"], faults["loss"], faults["reboot"]}
  BY DEF RouterOK, Fault
<1>2. faults[f] + 1 \in 0..MaxFaults
  BY <1>1, InitScriptAssumption DEF Hit
<1> QED BY <1>2 DEF RouterOK, Hit

LEMMA DiesType ==
  ASSUME TypeOK, NEW d \in Daemon, Dies(d), faults' \in [Fault -> 0..MaxFaults]
  PROVE  TypeOK'
<1>1. ScriptsOK /\ LockOK /\ RouterOK
  BY Parts
<1>2. ScriptsOK'
  BY <1>1 DEF Dies, ScriptsOK
<1>3. RouterOK'
  BY <1>1 DEF Dies, RouterOK, DaemonState, Note
<1> QED BY <1>1, <1>2, <1>3, PartsNext DEF Dies, LockOK

LEMMA WorldType ==
  ASSUME TypeOK, World \/ UNCHANGED initVars
  PROVE  TypeOK'
<1>1. ScriptsOK /\ LockOK /\ RouterOK
  BY Parts
<1> USE <1>1
<1>2. ASSUME NEW d \in Daemon, Listens(d) PROVE TypeOK'
  <2>1. RouterOK'
    BY <1>2 DEF Listens, RouterOK, DaemonState
  <2> QED BY <1>2, <2>1, PartsNext DEF Listens, ScriptsOK, LockOK
<1>3. ASSUME NEW d \in Daemon, Exits(d) PROVE TypeOK'
  BY <1>3, DiesType DEF Exits, RouterOK
<1>4. ASSUME NEW d \in Daemon, Lost(d) PROVE TypeOK'
  BY <1>4, DiesType, HitType DEF Lost, Fault
<1>5. ASSUME NEW c \in Caller, KillScript(c) PROVE TypeOK'
  <2>1. ScriptsOK'
    BY <1>5, EndsType DEF KillScript
  <2>2. LockOK'
    BY <1>5 DEF KillScript, LockOK, LockType, PidNote, Note, GoneIf
  <2>3. RouterOK'
    BY <1>5, HitType DEF KillScript, RouterOK, Fault
  <2> QED BY <2>1, <2>2, <2>3, PartsNext
<1>6. CASE Reboot
  <2>1. ScriptsOK'
    BY <1>6 DEF Reboot, ScriptsOK, Pc, OpKind, PidNote, Note
  <2>2. LockOK'
    <3>1. CASE lock = NoLock
      BY <1>6, <3>1 DEF Reboot, LockOK
    <3>2. CASE lock # NoLock
      <4>1. PICK p \in {"none", "gone", "other"} : lock' = [lock EXCEPT !.pid = p]
        BY <1>6, <3>2 DEF Reboot
      <4> QED BY <1>6, <3>2, <4>1 DEF Reboot, LockOK, LockType, PidNote, Note
    <3> QED BY <3>1, <3>2
  <2>3. RouterOK'
    <3>1. faults' \in [Fault -> 0..MaxFaults]
      BY <1>6, HitType DEF Reboot, Fault
    <3>2. pidfile' \in Daemon \cup Note
      BY <1>6 DEF Reboot, Note
    <3> QED BY <1>6, <3>1, <3>2 DEF Reboot, RouterOK, DaemonState
  <2> QED BY <2>1, <2>2, <2>3, PartsNext
<1>7. CASE OtherEnds
  <2>1. ScriptsOK'
    BY <1>7 DEF OtherEnds, ScriptsOK, GoneIf, PidNote, Note
  <2>2. LockOK'
    BY <1>7 DEF OtherEnds, LockOK, LockType, PidNote, Note
  <2>3. RouterOK'
    BY <1>7 DEF OtherEnds, RouterOK, Note
  <2> QED BY <2>1, <2>2, <2>3, PartsNext
<1>8. CASE UNCHANGED initVars
  BY <1>8, PartsNext DEF initVars, ScriptsOK, LockOK, RouterOK
<1> QED BY <1>2, <1>3, <1>4, <1>5, <1>6, <1>7, <1>8 DEF World

LEMMA InvokeType ==
  ASSUME TypeOK, NEW c \in Caller, NEW o \in OpKind, Invoke(c, o) PROVE TypeOK'
<1>1. ScriptsOK /\ LockOK /\ RouterOK
  BY Parts
<1>2. ScriptsOK'
  BY <1>1 DEF Invoke, ScriptsOK, Goto, Pc, LockStep
<1> QED BY <1>1, <1>2, PartsNext DEF Invoke, LockOK, RouterOK

LEMMA NextType == TypeOK /\ [Next]_initVars => TypeOK'
BY LockCallType, BodyType, WorldType, InvokeType DEF Next, ScriptStep, OpKind

\* Every variable of the scripts keeps its type, for any number of callers,
\* daemons and faults.
THEOREM ScriptTypeCorrect == Spec => []TypeOK
BY InitType, NextType, PTL DEF Spec
-----------------------------------------------------------------------------
\* Until a lock in use is removed, whoever uses it made it: one at a time.
HoldersOK == \A c \in Caller : pc[c] \in Using => lock # NoLock /\ lock.by = c

\* Then one sing-box at most is alive, and none where one is to be spawned.
Running(d) == daemon[d] \in {"starting", "up"}

AloneOK ==
  /\ \A d, e \in Live : d = e
  /\ \A c \in Caller : pc[c] = "spawn" => Live = {}
  /\ \A c \in Caller : pc[c] \in {"wait", "forget"} => \A d \in Daemon : ~Running(d)

\* A sing-box that runs is in the pid file or about to be written into it.
NamedOK ==
  /\ \A c \in Caller : pc[c] = "record" => \A d \in Daemon : Running(d) => child[c] = d
  /\ (\A c \in Caller : pc[c] # "record") =>
       \A d \in Daemon : Running(d) => pidfile = d

IInv ==
  /\ TypeOK
  /\ ~taken => HoldersOK /\ AloneOK
  /\ ~taken /\ faults["kill"] = 0 => NamedOK

LEMMA InitIInv == Init => IInv
<1> SUFFICES ASSUME Init PROVE IInv
  OBVIOUS
<1>1. TypeOK
  BY InitType
<1>2. HoldersOK /\ AloneOK /\ NamedOK
  BY DEF Init, HoldersOK, AloneOK, NamedOK, Running, Live, Using, InsideStep
<1> QED BY <1>1, <1>2 DEF IInv

\* Two scripts are never both between taking the lock and giving it up.
LEMMA OneHolder ==
  ASSUME HoldersOK, NEW c \in Caller, NEW k \in Caller,
         pc[c] \in Using, pc[k] \in Using
  PROVE  c = k
BY DEF HoldersOK

\* start or stop returning leaves the section, whatever comes next.
LEMMA ReturnsFrame ==
  ASSUME TypeOK, NEW c \in Caller, Returns(c)
  PROVE  /\ Goto(c, "idle") \/ Goto(c, "mkdir")
         /\ child' = [child EXCEPT ![c] = "none"]
BY DEF Returns, Ends

Critical == {"spawn", "record", "wait", "forget"}

\* The steps of lock() and unlock() leave sing-box and its pid file alone.
LEMMA LockCallFrame ==
  ASSUME TypeOK, NEW c \in Caller,
         LockCall(c) \/ UnlockPid(c) \/ UnlockDir(c)
  PROVE  /\ UNCHANGED <<daemon, pidfile, faults>>
         /\ pc[c] \notin Critical
         /\ \E l \in Pc \ Critical : Goto(c, l)
         /\ child' = child \/ child' = [child EXCEPT ![c] = "none"]
<1> USE DEF Pc, LockStep, InsideStep, Critical
<1>1. CASE Mkdir(c)
  BY <1>1 DEF Mkdir, Keep
<1>2. CASE WritePid(c)
  BY <1>2 DEF WritePid, Keep, Body
<1>3. CASE ReadOwner(c)
  BY <1>3 DEF ReadOwner
<1>4. CASE Judge(c)
  BY <1>4, ReturnsFrame DEF Judge
<1>5. CASE RmPid(c)
  BY <1>5 DEF RmPid, Keep
<1>6. CASE Rmdir(c)
  BY <1>6, ReturnsFrame DEF Rmdir, Keep
<1>7. CASE MkdirAgain(c)
  BY <1>7, ReturnsFrame DEF MkdirAgain, Keep
<1>8. CASE UnlockPid(c)
  BY <1>8 DEF UnlockPid, Keep
<1>9. CASE UnlockDir(c)
  BY <1>9, ReturnsFrame DEF UnlockDir
<1> QED BY <1>1, <1>2, <1>3, <1>4, <1>5, <1>6, <1>7, <1>8, <1>9 DEF LockCall

LEMMA MadeHolder ==
  ASSUME TypeOK, ~taken => HoldersOK, ~taken, NEW c \in Caller,
         lock = NoLock, lock' = [by |-> c, pid |-> "none"], Goto(c, "writePid")
  PROVE  HoldersOK'
<1>1. \A k \in Caller : pc[k] \notin Using
  BY DEF HoldersOK
<1>2. lock' # NoLock /\ lock'.by = c
  BY InitScriptAssumption DEF Note
<1>3. \A k \in Caller \ {c} : pc'[k] = pc[k]
  BY DEF Goto, TypeOK
<1> QED BY <1>1, <1>2, <1>3 DEF HoldersOK

\* The directory removed is its maker's or in nobody's use.
LEMMA RemovedHolder ==
  ASSUME TypeOK, ~taken => HoldersOK, ~taken', NEW c \in Caller, NEW l \in Pc,
         lock # NoLock, RemoveDir(c), pc[c] \notin Using, l \notin Using, Goto(c, l)
  PROVE  ~taken /\ HoldersOK'
<1>1. ~taken /\ (lock.by = c \/ pc[lock.by] \notin Using)
  BY DEF RemoveDir, TypeOK
<1>2. \A k \in Caller : pc[k] \notin Using
  BY <1>1 DEF HoldersOK
<1>3. \A k \in Caller : pc'[k] \notin Using
  BY <1>2 DEF Goto, TypeOK
<1> QED BY <1>1, <1>3 DEF HoldersOK

LEMMA LeftHolder ==
  ASSUME TypeOK, ~taken => HoldersOK, ~taken', NEW c \in Caller, NEW l \in Pc,
         UNCHANGED <<lock, taken>>, l \notin Using, Goto(c, l)
  PROVE  ~taken /\ HoldersOK'
BY DEF HoldersOK, Goto, TypeOK

\* A step of lock() or unlock() that removes no lock in use.
LEMMA LockCallHolders ==
  ASSUME TypeOK, ~taken => HoldersOK, ~taken', NEW c \in Caller,
         LockCall(c) \/ UnlockPid(c) \/ UnlockDir(c)
  PROVE  ~taken /\ HoldersOK'
<1> USE DEF HoldersOK, TypeOK, Using, InsideStep, Goto
<1>0. {"idle", "mkdir", "mkdirAgain"} \subseteq Pc \ Using
  BY DEF Pc, LockStep
<1>1. CASE Mkdir(c)
  <2>1. CASE lock = NoLock /\ lock' = [by |-> c, pid |-> "none"] /\ Keep(c, "writePid")
    BY <1>1, <2>1, MadeHolder DEF Mkdir, Keep
  <2>2. CASE Keep(c, "readOwner") /\ UNCHANGED lock
    BY <1>1, <2>2 DEF Mkdir, Keep
  <2> QED BY <1>1, <2>1, <2>2 DEF Mkdir
<1>2. CASE WritePid(c)
  <2>1. lock # NoLock /\ lock.by = c /\ ~taken
    BY <1>2 DEF WritePid
  <2>2. lock' # NoLock /\ lock'.by = c
    BY <1>2, <2>1, InitScriptAssumption DEF WritePid, Note
  <2> QED BY <1>2, <2>1, <2>2 DEF WritePid, Keep
<1>3. CASE ReadOwner(c)
  BY <1>3 DEF ReadOwner
<1>4. CASE Judge(c)
  BY <1>4, ReturnsFrame DEF Judge
<1>5. CASE RmPid(c)
  <2>1. \A k \in Caller : lock # NoLock /\ lock.by = k => lock' # NoLock /\ lock'.by = k
    BY <1>5, InitScriptAssumption DEF RmPid, Note
  <2> QED BY <1>5, <2>1 DEF RmPid, Keep
<1>6. CASE Rmdir(c)
  <2>1. CASE Removable
    <3>1. RemoveDir(c) /\ Goto(c, "mkdirAgain") /\ lock # NoLock /\ pc[c] \notin Using
      BY <1>6, <2>1 DEF Rmdir, Keep, Removable
    <3> QED BY <1>0, <3>1, RemovedHolder
  <2>2. CASE ~Removable
    <3>1. UNCHANGED <<lock, taken>> /\ Returns(c)
      BY <1>6, <2>2 DEF Rmdir
    <3> QED BY <1>0, <3>1, ReturnsFrame, LeftHolder
  <2> QED BY <2>1, <2>2
<1>7. CASE MkdirAgain(c)
  <2>1. CASE lock = NoLock
    BY <1>7, <2>1, MadeHolder DEF MkdirAgain, Keep
  <2>2. CASE lock # NoLock
    <3>1. UNCHANGED <<lock, taken>> /\ Returns(c)
      BY <1>7, <2>2 DEF MkdirAgain
    <3> QED BY <1>0, <3>1, ReturnsFrame, LeftHolder
  <2> QED BY <2>1, <2>2
<1>8. CASE UnlockPid(c)
  <2>1. \A k \in Caller : lock # NoLock /\ lock.by = k => lock' # NoLock /\ lock'.by = k
    BY <1>8, InitScriptAssumption DEF UnlockPid, Note
  <2> QED BY <1>8, <2>1 DEF UnlockPid, Keep
<1>9. CASE UnlockDir(c)
  <2>1. Returns(c) /\ pc[c] \notin Using
    BY <1>9 DEF UnlockDir
  <2>2. CASE Removable
    <3>1. RemoveDir(c) /\ lock # NoLock
      BY <1>9, <2>2 DEF UnlockDir, Removable
    <3> QED BY <1>0, <2>1, <3>1, ReturnsFrame, RemovedHolder
  <2>3. CASE ~Removable
    <3>1. UNCHANGED <<lock, taken>>
      BY <1>9, <2>3 DEF UnlockDir
    <3> QED BY <1>0, <2>1, <3>1, ReturnsFrame, LeftHolder
  <2> QED BY <2>2, <2>3
<1> QED BY <1>1, <1>2, <1>3, <1>4, <1>5, <1>6, <1>7, <1>8, <1>9 DEF LockCall

LEMMA LockCallIInv ==
  ASSUME IInv, NEW c \in Caller, LockCall(c) \/ UnlockPid(c) \/ UnlockDir(c)
  PROVE  IInv'
<1>1. TypeOK /\ TypeOK'
  BY LockCallType DEF IInv
<1>2. PICK l \in Pc \ Critical : Goto(c, l)
  BY <1>1, LockCallFrame
<1>3. /\ UNCHANGED <<daemon, pidfile, faults>> /\ pc[c] \notin Critical
      /\ child' = child \/ child' = [child EXCEPT ![c] = "none"]
  BY <1>1, LockCallFrame
<1>4. ~taken' => ~taken /\ HoldersOK'
  BY <1>1, LockCallHolders DEF IInv
<1>5. AloneOK => AloneOK'
  BY <1>1, <1>2, <1>3 DEF AloneOK, Live, Running, Goto, Critical, TypeOK
<1>6. NamedOK => NamedOK'
  BY <1>1, <1>2, <1>3 DEF NamedOK, Running, Goto, Critical, TypeOK
<1> QED BY <1>1, <1>3, <1>4, <1>5, <1>6 DEF IInv

BodyStep(c) ==
  \/ CheckPidfile(c) \/ Adopt(c) \/ Spawn(c) \/ Record(c) \/ Settle(c)
  \/ Kill(c) \/ Wait(c) \/ Forget(c)

\* The caller stays in the section it holds the lock for.
LEMMA BodyHolders ==
  ASSUME TypeOK, NEW c \in Caller, BodyStep(c)
  PROVE  /\ UNCHANGED <<lock, taken, faults>>
         /\ pc[c] \in Using /\ \E l \in Using : Goto(c, l)
         /\ HoldersOK => HoldersOK'
<1>1. UNCHANGED <<lock, taken, faults>> /\ pc[c] \in Using /\ \E l \in Using : Goto(c, l)
  BY DEF BodyStep, CheckPidfile, Adopt, Spawn, Record, Settle, Kill, Wait, Forget,
         Keep, Using, InsideStep
<1>2. PICK l \in Using : Goto(c, l)
  BY <1>1
<1>3. \A k \in Caller \ {c} : pc'[k] = pc[k]
  BY <1>2 DEF Goto, TypeOK
<1> QED BY <1>1, <1>3 DEF HoldersOK

LEMMA BodyAlone ==
  ASSUME TypeOK, HoldersOK, AloneOK, NEW c \in Caller, BodyStep(c) PROVE AloneOK'
<1>1. \A k \in Caller \ {c} : pc[k] \notin Using /\ pc'[k] = pc[k]
  <2>1. PICK l \in Using : Goto(c, l) /\ pc[c] \in Using
    BY BodyHolders
  <2> QED BY <2>1, OneHolder DEF Goto, TypeOK
<1>2. \A k \in Caller \ {c} : pc'[k] \notin {"spawn", "wait", "forget"}
  BY <1>1 DEF Using, InsideStep
<1> USE DEF AloneOK, Live, Running, TypeOK, Goto, Keep
<1>3. CASE CheckPidfile(c)
  BY <1>2, <1>3 DEF CheckPidfile
<1>4. CASE Adopt(c)
  BY <1>2, <1>4 DEF Adopt
<1>5. CASE Spawn(c)
  BY <1>2, <1>5 DEF Spawn
<1>6. CASE Record(c)
  BY <1>2, <1>6 DEF Record
<1>7. CASE Settle(c)
  BY <1>2, <1>7 DEF Settle
<1>8. CASE Kill(c)
  BY <1>2, <1>8 DEF Kill
<1>9. CASE Wait(c)
  BY <1>2, <1>9 DEF Wait
<1>10. CASE Forget(c)
  BY <1>2, <1>10 DEF Forget
<1> QED BY <1>3, <1>4, <1>5, <1>6, <1>7, <1>8, <1>9, <1>10 DEF BodyStep

LEMMA BodyNamed ==
  ASSUME TypeOK, HoldersOK, AloneOK, NamedOK, NEW c \in Caller, BodyStep(c)
  PROVE  NamedOK'
<1>1. \A k \in Caller \ {c} : pc[k] \notin Using /\ pc'[k] = pc[k]
  <2>1. PICK l \in Using : Goto(c, l) /\ pc[c] \in Using
    BY BodyHolders
  <2> QED BY <2>1, OneHolder DEF Goto, TypeOK
<1>2. \A k \in Caller \ {c} : pc[k] # "record" /\ pc'[k] # "record"
  BY <1>1 DEF Using, InsideStep
<1> USE DEF AloneOK, NamedOK, Live, Running, TypeOK, Goto, Keep
<1>3. CASE CheckPidfile(c)
  BY <1>2, <1>3 DEF CheckPidfile, PidLive
<1>4. CASE Adopt(c)
  BY <1>2, <1>4 DEF Adopt
<1>5. CASE Spawn(c)
  BY <1>2, <1>5 DEF Spawn
<1>6. CASE Record(c)
  BY <1>2, <1>6 DEF Record
<1>7. CASE Settle(c)
  BY <1>2, <1>7 DEF Settle
<1>8. CASE Kill(c)
  BY <1>2, <1>8 DEF Kill
<1>9. CASE Wait(c)
  BY <1>2, <1>9 DEF Wait
<1>10. CASE Forget(c)
  BY <1>2, <1>10 DEF Forget
<1> QED BY <1>3, <1>4, <1>5, <1>6, <1>7, <1>8, <1>9, <1>10 DEF BodyStep

LEMMA BodyIInv == ASSUME IInv, NEW c \in Caller, BodyStep(c) PROVE IInv'
<1>1. TypeOK /\ TypeOK'
  BY BodyType DEF IInv, BodyStep
<1>2. UNCHANGED <<taken, faults>> /\ (HoldersOK => HoldersOK')
  BY <1>1, BodyHolders
<1> QED BY <1>1, <1>2, BodyAlone, BodyNamed DEF IInv

LEMMA WorldHolders ==
  ASSUME TypeOK, World \/ UNCHANGED initVars
  PROVE  taken' = taken /\ (HoldersOK => HoldersOK')
<1> USE DEF HoldersOK, TypeOK
<1>1. ASSUME NEW d \in Daemon, Listens(d) \/ Exits(d) \/ Lost(d)
      PROVE  taken' = taken /\ (HoldersOK => HoldersOK')
  BY <1>1 DEF Listens, Exits, Lost, Dies
<1>2. ASSUME NEW c \in Caller, KillScript(c)
      PROVE  taken' = taken /\ (HoldersOK => HoldersOK')
  <2>1. \A k \in Caller : lock # NoLock /\ lock.by = k => lock' # NoLock /\ lock'.by = k
    BY <1>2, InitScriptAssumption DEF KillScript, Note, GoneIf
  <2> QED BY <1>2, <2>1 DEF KillScript, Ends, Goto, Using, InsideStep
<1>3. CASE Reboot
  BY <1>3 DEF Reboot, Using, InsideStep
<1>4. CASE OtherEnds
  <2>1. \A k \in Caller : lock # NoLock /\ lock.by = k => lock' # NoLock /\ lock'.by = k
    BY <1>4, InitScriptAssumption DEF OtherEnds, Note
  <2> QED BY <1>4, <2>1 DEF OtherEnds
<1>5. CASE UNCHANGED initVars
  BY <1>5 DEF initVars
<1> QED BY <1>1, <1>2, <1>3, <1>4, <1>5 DEF World

LEMMA WorldAlone ==
  ASSUME TypeOK, AloneOK, World \/ UNCHANGED initVars PROVE AloneOK'
<1> USE DEF AloneOK, TypeOK, Live, Running
<1>1. ASSUME NEW d \in Daemon, Listens(d) PROVE AloneOK'
  BY <1>1 DEF Listens
<1>2. ASSUME NEW d \in Daemon, Dies(d) PROVE AloneOK'
  BY <1>2 DEF Dies
<1>3. ASSUME NEW c \in Caller, KillScript(c) PROVE AloneOK'
  BY <1>3 DEF KillScript, Ends, Goto
<1>4. CASE Reboot
  BY <1>4 DEF Reboot
<1>5. CASE OtherEnds
  BY <1>5 DEF OtherEnds
<1>6. CASE UNCHANGED initVars
  BY <1>6 DEF initVars
<1> QED BY <1>1, <1>2, <1>3, <1>4, <1>5, <1>6 DEF World, Exits, Lost

LEMMA WorldNamed ==
  ASSUME TypeOK, NamedOK, World \/ UNCHANGED initVars, faults'["kill"] = 0
  PROVE  NamedOK'
<1> USE DEF NamedOK, TypeOK, Running
<1>1. ASSUME NEW d \in Daemon, Listens(d) PROVE NamedOK'
  BY <1>1 DEF Listens
<1>2. ASSUME NEW d \in Daemon, Dies(d) PROVE NamedOK'
  BY <1>2 DEF Dies
<1>3. ASSUME NEW c \in Caller, KillScript(c) PROVE FALSE
  <2>1. "kill" \in Fault /\ faults["kill"] \in Nat
    BY DEF Fault
  <2>2. faults'["kill"] = faults["kill"] + 1
    BY <1>3, <2>1 DEF KillScript, Hit
  <2> QED BY <2>1, <2>2
<1>4. CASE Reboot
  BY <1>4 DEF Reboot
<1>5. CASE OtherEnds
  BY <1>5, InitScriptAssumption DEF OtherEnds, Note
<1>6. CASE UNCHANGED initVars
  BY <1>6 DEF initVars
<1> QED BY <1>1, <1>2, <1>3, <1>4, <1>5, <1>6 DEF World, Exits, Lost

\* Killed scripts are counted and the count never falls.
LEMMA KillsGrow ==
  ASSUME TypeOK, World \/ UNCHANGED initVars, faults'["kill"] = 0
  PROVE  faults["kill"] = 0
<1>1. "kill" \in Fault /\ faults["kill"] \in Nat
  BY DEF TypeOK, Fault
<1>2. faults' = faults \/ \E f \in Fault : faults' = [faults EXCEPT ![f] = faults[f] + 1]
  BY DEF World, Listens, Exits, Lost, KillScript, Reboot, OtherEnds, Hit, Fault, initVars
<1> QED BY <1>1, <1>2 DEF TypeOK

LEMMA WorldIInv == ASSUME IInv, World \/ UNCHANGED initVars PROVE IInv'
<1>1. TypeOK /\ TypeOK'
  BY WorldType DEF IInv
<1> QED BY <1>1, WorldHolders, WorldAlone, WorldNamed, KillsGrow DEF IInv

LEMMA InvokeIInv == ASSUME IInv, NEW c \in Caller, NEW o \in OpKind, Invoke(c, o) PROVE IInv'
<1>1. TypeOK /\ TypeOK'
  BY InvokeType DEF IInv
<1>2. UNCHANGED <<lock, taken, faults, daemon, pidfile, child>> /\ Goto(c, "mkdir")
  BY DEF Invoke
<1>3. HoldersOK => HoldersOK'
  BY <1>1, <1>2 DEF HoldersOK, TypeOK, Goto, Using, InsideStep
<1>4. AloneOK => AloneOK'
  BY <1>1, <1>2 DEF AloneOK, TypeOK, Goto, Live, Running
<1>5. NamedOK => NamedOK'
  BY <1>1 DEF NamedOK, TypeOK, Goto, Running, Invoke
<1> QED BY <1>1, <1>2, <1>3, <1>4, <1>5 DEF IInv

LEMMA NextIInv == IInv /\ [Next]_initVars => IInv'
BY LockCallIInv, BodyIInv, WorldIInv, InvokeIInv DEF Next, ScriptStep, BodyStep, OpKind

LEMMA SpecIInv == Spec => []IInv
BY InitIInv, NextIInv, PTL DEF Spec

(***************************************************************************)
(* As long as no lock in use is removed, start never runs a second         *)
(* sing-box beside one that is alive, for any number of callers, killed    *)
(* scripts, lost daemons and reboots (S99singbox.j2).                      *)
(***************************************************************************)
THEOREM OneDaemonAtMost == Spec => []OneDaemon
<1>1. IInv => OneDaemon
  <2> SUFFICES ASSUME IInv, ~taken PROVE Cardinality(Live) <= 1
    BY DEF OneDaemon
  <2>1. \A d, e \in Live : d = e
    BY DEF IInv, AloneOK
  <2>2. CASE Live = {}
    BY <2>2, FS_EmptySet
  <2>3. CASE Live # {}
    <3>1. PICK d : Live = {d}
      BY <2>1, <2>3
    <3> QED BY <3>1, FS_Singleton
  <2> QED BY <2>2, <2>3
<1> QED BY <1>1, SpecIInv, PTL

(***************************************************************************)
(* Outside the lock a running sing-box is named by the pid file, unless a  *)
(* script was killed before it wrote that file (S99singbox.j2, start).     *)
(***************************************************************************)
THEOREM DaemonIsNamed == Spec => []RunningIsNamed
<1>1. IInv => RunningIsNamed
  BY DEF IInv, NamedOK, RunningIsNamed, Running, Inside, InsideStep
<1> QED BY <1>1, SpecIInv, PTL
-----------------------------------------------------------------------------
\* What relates the callers' steps to the service, takeovers or not.
Stuck == lock # NoLock /\ lock.pid = "other"

\* Overlapping calls know of each other.
RivalOK ==
  \A c, k \in Caller : c # k /\ pc[c] # "idle" /\ pc[k] # "idle" => rival[c]

SectionOK ==
  \A c \in Caller :
    /\ pc[c] \in {"checkPidfile", "adopt", "spawn", "record", "settle"} => op[c] = "start"
    /\ pc[c] \in {"kill", "wait", "forget"} => op[c] \in {"stop", "restart"}

\* A foreign pid keeps everyone out.
StuckOK ==
  Stuck => \A c \in Caller : /\ pc[c] \in {"idle", "mkdir", "readOwner", "judge"}
                             /\ pc[c] = "judge" => seen[c] = "other"

\* A caller's pid is in the lock only while it is in the section.
OwnerOK ==
  \A k \in Caller : lock # NoLock /\ lock.pid = k => pc[k] \in InsideStep \ {"unlockDir"}

SeenOK ==
  \A c \in Caller : pc[c] = "judge" => seen[c] # c /\ (seen[c] = "other" => Stuck)

\* A caller with no rival finds the lock as it left it.
WaiterOK ==
  \A c \in Caller : ~rival[c] =>
    /\ pc[c] \in {"readOwner", "judge", "rmPid", "rmdir"} => lock # NoLock
    /\ pc[c] = "rmdir" => lock.pid = "none"
    /\ pc[c] = "mkdirAgain" => lock = NoLock

ScriptInv == RivalOK /\ SectionOK /\ StuckOK /\ OwnerOK /\ SeenOK /\ WaiterOK

LEMMA InitScriptInv == Init => ScriptInv
BY DEF Init, ScriptInv, RivalOK, SectionOK, StuckOK, Stuck, OwnerOK, SeenOK, WaiterOK

LEMMA LockCallScriptInv ==
  ASSUME TypeOK, ScriptInv, NEW c \in Caller,
         LockCall(c) \/ UnlockPid(c) \/ UnlockDir(c)
  PROVE  ScriptInv'
<1> USE InitScriptAssumption
    DEF ScriptInv, RivalOK, SectionOK, StuckOK, Stuck, OwnerOK, SeenOK, WaiterOK,
        TypeOK, Goto, Keep, Note, InsideStep
<1>1. CASE Mkdir(c)
  BY <1>1 DEF Mkdir
<1>2. CASE WritePid(c)
  BY <1>2 DEF WritePid, Body
<1>3. CASE ReadOwner(c)
  BY <1>3 DEF ReadOwner
<1>4. CASE Judge(c)
  <2>1. CASE Returns(c) /\ UNCHANGED lock
    BY <1>4, <2>1 DEF Judge, Returns, Ends
  <2>2. CASE ~PidLive(seen[c])
    BY <1>4, <2>2 DEF Judge, PidLive
  <2> QED BY <1>4, <2>1, <2>2 DEF Judge
<1>5. CASE RmPid(c)
  BY <1>5 DEF RmPid
<1>6. CASE Rmdir(c)
  BY <1>6 DEF Rmdir, RemoveDir, Removable, Returns, Ends
<1>7. CASE MkdirAgain(c)
  BY <1>7 DEF MkdirAgain, Returns, Ends
<1>8. CASE UnlockPid(c)
  BY <1>8 DEF UnlockPid
<1>9. CASE UnlockDir(c)
  BY <1>9 DEF UnlockDir, RemoveDir, Removable, Returns, Ends
<1> QED BY <1>1, <1>2, <1>3, <1>4, <1>5, <1>6, <1>7, <1>8, <1>9 DEF LockCall

LEMMA BodyScriptInv ==
  ASSUME TypeOK, ScriptInv, NEW c \in Caller, BodyStep(c) PROVE ScriptInv'
<1> USE DEF ScriptInv, RivalOK, SectionOK, StuckOK, Stuck, OwnerOK, SeenOK, WaiterOK,
        TypeOK, Goto, Keep, InsideStep
<1>1. CASE CheckPidfile(c)
  BY <1>1 DEF CheckPidfile
<1>2. CASE Adopt(c)
  BY <1>2 DEF Adopt
<1>3. CASE Spawn(c)
  BY <1>3 DEF Spawn
<1>4. CASE Record(c)
  BY <1>4 DEF Record
<1>5. CASE Settle(c)
  BY <1>5 DEF Settle
<1>6. CASE Kill(c)
  BY <1>6 DEF Kill
<1>7. CASE Wait(c)
  BY <1>7 DEF Wait
<1>8. CASE Forget(c)
  BY <1>8 DEF Forget
<1> QED BY <1>1, <1>2, <1>3, <1>4, <1>5, <1>6, <1>7, <1>8 DEF BodyStep

LEMMA WorldScriptInv ==
  ASSUME TypeOK, ScriptInv, World \/ UNCHANGED initVars PROVE ScriptInv'
<1> USE InitScriptAssumption
    DEF ScriptInv, RivalOK, SectionOK, StuckOK, Stuck, OwnerOK, SeenOK, WaiterOK,
        TypeOK, Note
<1>1. ASSUME NEW d \in Daemon, Listens(d) \/ Dies(d) PROVE ScriptInv'
  BY <1>1 DEF Listens, Dies
<1>2. ASSUME NEW c \in Caller, KillScript(c) PROVE ScriptInv'
  BY <1>2 DEF KillScript, Ends, Goto, GoneIf
<1>3. CASE Reboot
  BY <1>3 DEF Reboot
<1>4. CASE OtherEnds
  BY <1>4 DEF OtherEnds, GoneIf
<1>5. CASE UNCHANGED initVars
  BY <1>5 DEF initVars
<1> QED BY <1>1, <1>2, <1>3, <1>4, <1>5 DEF World, Exits, Lost

LEMMA InvokeScriptInv ==
  ASSUME TypeOK, ScriptInv, NEW c \in Caller, NEW o \in OpKind, Invoke(c, o)
  PROVE  ScriptInv'
<1>1. /\ pc[c] = "idle" /\ pc' = [pc EXCEPT ![c] = "mkdir"] /\ op' = [op EXCEPT ![c] = o]
      /\ UNCHANGED <<seen, lock>>
  BY DEF Invoke, Goto
<1>2. \A k \in Caller : rival'[k] = IF k = c THEN \E j \in Caller \ {c} : pc[j] # "idle"
                                             ELSE rival[k] \/ pc[k] # "idle"
  BY DEF Invoke
<1>3. RivalOK'
  BY <1>1, <1>2 DEF ScriptInv, RivalOK, TypeOK
<1>4. WaiterOK'
  <2> SUFFICES ASSUME NEW k \in Caller, ~rival'[k]
               PROVE  /\ pc'[k] \in {"readOwner", "judge", "rmPid", "rmdir"} => lock # NoLock
                      /\ pc'[k] = "rmdir" => lock.pid = "none"
                      /\ pc'[k] = "mkdirAgain" => lock = NoLock
    BY <1>1 DEF WaiterOK
  <2>1. CASE k = c
    BY <1>1, <2>1 DEF TypeOK
  <2>2. CASE k # c
    BY <1>1, <1>2, <2>2 DEF TypeOK, ScriptInv, WaiterOK
  <2> QED BY <2>1, <2>2
<1>5. (SectionOK /\ StuckOK /\ OwnerOK /\ SeenOK)'
  BY <1>1 DEF ScriptInv, SectionOK, StuckOK, Stuck, OwnerOK, SeenOK, TypeOK, InsideStep
<1> QED BY <1>3, <1>4, <1>5 DEF ScriptInv

\* Until a lock in use is removed, a start goes on with what it has found.
PathOK ==
  \A c \in Caller :
    /\ pc[c] \in {"adopt", "spawn", "record"} => pidfile # "other"
    /\ pc[c] \in {"record", "settle"} => \A d \in Live : child[c] = d

RInv == IInv /\ ScriptInv /\ (~taken => PathOK)

LEMMA InitRInv == Init => RInv
<1>1. Init => PathOK
  BY DEF Init, PathOK
<1> QED BY <1>1, InitIInv, InitScriptInv DEF RInv

LEMMA LockCallPath ==
  ASSUME TypeOK, PathOK, NEW c \in Caller, LockCall(c) \/ UnlockPid(c) \/ UnlockDir(c)
  PROVE  PathOK'
<1>1. PICK l \in Pc : Goto(c, l) /\ l \notin {"adopt", "spawn", "record", "settle"}
  <2> USE DEF Pc, LockStep, InsideStep, Keep, Body
  <2>1. Returns(c) => Goto(c, "idle") \/ Goto(c, "mkdir")
    BY ReturnsFrame
  <2> QED BY <2>1 DEF LockCall, Mkdir, WritePid, ReadOwner, Judge, RmPid, Rmdir, MkdirAgain,
             UnlockPid, UnlockDir
<1>2. UNCHANGED <<daemon, pidfile>> /\ (child' = child \/ child' = [child EXCEPT ![c] = "none"])
  BY LockCallFrame
<1> QED BY <1>1, <1>2 DEF PathOK, Live, Goto, TypeOK

LEMMA BodyPath ==
  ASSUME TypeOK, HoldersOK, AloneOK, PathOK, NEW c \in Caller, BodyStep(c) PROVE PathOK'
<1>1. \A k \in Caller \ {c} : pc[k] \notin Using /\ pc'[k] = pc[k]
  <2>1. PICK l \in Using : Goto(c, l) /\ pc[c] \in Using
    BY BodyHolders
  <2> QED BY <2>1, OneHolder DEF Goto, TypeOK
<1>2. \A k \in Caller \ {c} : pc'[k] \notin {"adopt", "spawn", "record", "settle"}
  BY <1>1 DEF Using, InsideStep
<1> USE DEF AloneOK, PathOK, Live, TypeOK, Goto, Keep
<1>3. CASE CheckPidfile(c)
  BY <1>2, <1>3 DEF CheckPidfile
<1>4. CASE Adopt(c)
  BY <1>2, <1>4 DEF Adopt
<1>5. CASE Spawn(c)
  BY <1>2, <1>5 DEF Spawn
<1>6. CASE Record(c)
  BY <1>2, <1>6 DEF Record
<1>7. CASE Settle(c)
  BY <1>2, <1>7 DEF Settle
<1>8. CASE Kill(c)
  BY <1>2, <1>8 DEF Kill
<1>9. CASE Wait(c)
  BY <1>2, <1>9 DEF Wait
<1>10. CASE Forget(c)
  BY <1>2, <1>10 DEF Forget
<1> QED BY <1>3, <1>4, <1>5, <1>6, <1>7, <1>8, <1>9, <1>10 DEF BodyStep

LEMMA WorldPath ==
  ASSUME TypeOK, PathOK, World \/ UNCHANGED initVars PROVE PathOK'
<1> USE DEF PathOK, TypeOK, Live
<1>1. ASSUME NEW d \in Daemon, Listens(d) PROVE PathOK'
  BY <1>1 DEF Listens
<1>2. ASSUME NEW d \in Daemon, Dies(d) PROVE PathOK'
  BY <1>2 DEF Dies
<1>3. ASSUME NEW c \in Caller, KillScript(c) PROVE PathOK'
  BY <1>3 DEF KillScript, Ends, Goto
<1>4. CASE Reboot
  BY <1>4 DEF Reboot
<1>5. CASE OtherEnds
  BY <1>5 DEF OtherEnds
<1>6. CASE UNCHANGED initVars
  BY <1>6 DEF initVars
<1> QED BY <1>1, <1>2, <1>3, <1>4, <1>5, <1>6 DEF World, Exits, Lost

LEMMA NextRInv == RInv /\ [Next]_initVars => RInv'
<1> SUFFICES ASSUME RInv, [Next]_initVars PROVE RInv'
  OBVIOUS
<1>1. TypeOK /\ IInv' /\ ScriptInv
  BY NextIInv DEF RInv, IInv
<1>2. ASSUME NEW c \in Caller, LockCall(c) \/ UnlockPid(c) \/ UnlockDir(c)
      PROVE  ScriptInv' /\ (~taken' => PathOK')
  <2>1. ~taken' => ~taken
    BY <1>1, <1>2, LockCallHolders DEF RInv, IInv
  <2> QED BY <1>1, <1>2, <2>1, LockCallScriptInv, LockCallPath DEF RInv
<1>3. ASSUME NEW c \in Caller, BodyStep(c) PROVE ScriptInv' /\ (~taken' => PathOK')
  BY <1>1, <1>3, BodyScriptInv, BodyHolders, BodyPath DEF RInv, IInv
<1>4. ASSUME World \/ UNCHANGED initVars PROVE ScriptInv' /\ (~taken' => PathOK')
  BY <1>1, <1>4, WorldScriptInv, WorldHolders, WorldPath DEF RInv, IInv
<1>5. ASSUME NEW c \in Caller, NEW o \in OpKind, Invoke(c, o)
      PROVE  ScriptInv' /\ (~taken' => PathOK')
  <2>1. PathOK => PathOK'
    BY <1>1, <1>5 DEF Invoke, PathOK, Goto, TypeOK, Live
  <2> QED BY <1>1, <1>5, <2>1, InvokeScriptInv DEF Invoke, RInv
<1> QED BY <1>1, <1>2, <1>3, <1>4, <1>5 DEF Next, ScriptStep, BodyStep, OpKind, RInv

-----------------------------------------------------------------------------
\* What the states of the scripts are in the service.
CallAt(p, o) ==
  CASE p = "idle" -> "idle"
    [] o = "start" /\ p \in {"record", "settle"} -> "settling"
    [] o # "restart" /\ p \in {"unlockPid", "unlockDir"} -> "done"
    [] o = "stop" /\ p \in {"wait", "forget"} -> "stopping"
    [] o = "restart" /\ p \in {"wait", "forget"} -> "restarting"
    [] o = "restart" /\ p \in {"unlockPid", "unlockDir"} -> "start"
    [] OTHER -> o

MCall == [c \in Caller |-> Call(c)]
MSb   == IF Live = {} THEN "dead" ELSE daemon[CHOOSE d \in Daemon : d \in Live]
Mistaken == pidfile = "other"
MVars == <<MCall, rival, MSb, Stuck, Mistaken>>

LEMMA CallIs     == \A c \in Caller : MCall[c] = CallAt(pc[c], op[c])
BY DEF MCall, Call, CallAt
LEMMA CallIsNext == \A c \in Caller : MCall'[c] = CallAt(pc'[c], op'[c])
BY DEF MCall, Call, CallAt

Waiting == LockStep \cup {"writePid", "checkPidfile", "adopt", "spawn", "kill"}

LEMMA CallValues ==
  /\ \A o \in OpKind : CallAt("idle", o) = "idle"
  /\ \A o \in OpKind, p \in Waiting : CallAt(p, o) = o
  /\ \A p \in {"record", "settle"} : CallAt(p, "start") = "settling"
  /\ \A p \in {"unlockPid", "unlockDir"} : 
       /\ CallAt(p, "start") = "done" /\ CallAt(p, "stop") = "done"
       /\ CallAt(p, "restart") = "start"
  /\ \A p \in {"wait", "forget"} :
       CallAt(p, "stop") = "stopping" /\ CallAt(p, "restart") = "restarting"
BY DEF CallAt, OpKind, Waiting, LockStep

LEMMA SbValues ==
  ASSUME TypeOK, AloneOK
  PROVE  /\ Live = {} => MSb = "dead"
         /\ \A d \in Live : MSb = daemon[d]
BY DEF MSb, AloneOK, Live
LEMMA SbValuesNext ==
  ASSUME TypeOK', AloneOK'
  PROVE  /\ Live' = {} => MSb' = "dead"
         /\ \A d \in Live' : MSb' = daemon'[d]
BY DEF MSb, AloneOK, Live

LEMMA CallMoves ==
  ASSUME TypeOK, TypeOK', NEW c \in Caller, NEW v,
         \A k \in Caller \ {c} : pc'[k] = pc[k] /\ op'[k] = op[k],
         CallAt(pc'[c], op'[c]) = v
  PROVE  MCall' = [MCall EXCEPT ![c] = v] /\ (MCall[c] = v => MCall' = MCall)
<1>1. \A k \in Caller : MCall'[k] = IF k = c THEN v ELSE MCall[k]
  BY CallIs, CallIsNext
<1>2. MCall = [k \in Caller |-> MCall[k]] /\ MCall' = [k \in Caller |-> MCall'[k]]
  BY DEF MCall
<1> QED BY <1>1, <1>2

\* The steps of the service, in terms of what its variables stand for.
LEMMA AbstractStutter == UNCHANGED MVars => UNCHANGED Service!serviceVars
BY DEF MVars, MCall, MSb, Stuck, Mistaken, Service!serviceVars

LEMMA AbstractDone ==
  ASSUME NEW c \in Caller, UNCHANGED <<MSb, Stuck, Mistaken>>,
         MCall' = [MCall EXCEPT ![c] = "idle"], rival' = [rival EXCEPT ![c] = FALSE]
  PROVE  /\ MCall[c] = "done" => Service!Return(c)
         /\ MCall[c] \in {"start", "stop"} /\ (Stuck \/ rival[c]) => Service!Refuse(c)
         /\ MCall[c] # "idle" => Service!Killed(c)
BY DEF MCall, MSb, Stuck, Mistaken, Service!Return, Service!Refuse, Service!Killed,
       Service!Done, Service!Active

LEMMA AbstractRefuse ==
  ASSUME NEW c \in Caller, UNCHANGED <<MSb, Stuck, Mistaken, rival>>, Stuck \/ rival[c],
         MCall[c] = "restart", MCall' = [MCall EXCEPT ![c] = "start"]
  PROVE  Service!Refuse(c)
BY DEF MCall, MSb, Stuck, Mistaken, Service!Refuse, Service!Then

LEMMA AbstractStop ==
  ASSUME NEW c \in Caller, ~Stuck, UNCHANGED <<Stuck, rival>>,
         MSb' = IF MSb = "dead" THEN MSb ELSE "dying", Mistaken' \in {Mistaken, FALSE},
         \/ MCall[c] = "stop" /\ MCall' = [MCall EXCEPT ![c] = "stopping"]
         \/ MCall[c] = "restart" /\ MCall' = [MCall EXCEPT ![c] = "restarting"]
  PROVE  Service!Stop(c)
BY DEF MCall, MSb, Stuck, Mistaken, Service!Stop, Service!Then

LEMMA AbstractStopped ==
  ASSUME NEW c \in Caller, UNCHANGED <<Stuck, rival, MSb>>, Mistaken' = FALSE,
         \/ MCall[c] = "stopping" /\ MCall' = [MCall EXCEPT ![c] = "done"]
         \/ MCall[c] = "restarting" /\ MCall' = [MCall EXCEPT ![c] = "start"]
  PROVE  Service!Stopped(c)
BY DEF MCall, MSb, Stuck, Mistaken, Service!Stopped, Service!Then

LEMMA AbstractStart ==
  ASSUME NEW c \in Caller, ~Stuck, UNCHANGED <<Stuck, rival, Mistaken>>, MCall[c] = "start",
         \/ /\ MSb = "dead" /\ ~Mistaken /\ MSb' = "starting"
            /\ MCall' = [MCall EXCEPT ![c] = "settling"]
         \/ /\ MSb # "dead" \/ Mistaken
            /\ MSb' = MSb /\ MCall' = [MCall EXCEPT ![c] = "done"]
  PROVE  Service!Start(c)
BY DEF MCall, MSb, Stuck, Mistaken, Service!Start, Service!Then

LEMMA AbstractSettle ==
  ASSUME NEW c \in Caller, UNCHANGED <<Stuck, rival, Mistaken, MSb>>,
         MCall[c] = "settling", MSb # "starting", MCall' = [MCall EXCEPT ![c] = "done"]
  PROVE  Service!Settle(c)
BY DEF MCall, MSb, Stuck, Mistaken, Service!Settle, Service!Then

LEMMA AbstractInvoke ==
  ASSUME NEW c \in Caller, NEW o \in OpKind, UNCHANGED <<Stuck, Mistaken, MSb>>,
         MCall[c] = "idle", MCall' = [MCall EXCEPT ![c] = o],
         rival' = [k \in Caller |-> IF k = c THEN \E j \in Caller \ {c} : MCall[j] # "idle"
                                             ELSE rival[k] \/ MCall[k] # "idle"]
  PROVE  Service!Invoke(c, o)
BY DEF MCall, MSb, Stuck, Mistaken, Service!Invoke, Service!Active

LEMMA AbstractWorld ==
  ASSUME UNCHANGED <<MCall, rival>>
  PROVE  /\ MSb = "starting" /\ MSb' = "up" /\ UNCHANGED <<Stuck, Mistaken>> => Service!Progress
         /\ MSb = "dying" /\ MSb' = "dead" /\ UNCHANGED <<Stuck, Mistaken>> => Service!Progress
         /\ MSb \in {"starting", "up"} /\ MSb' = "dead" /\ UNCHANGED <<Stuck, Mistaken>>
            => Service!Lost
         /\ Stuck /\ Stuck' = FALSE /\ UNCHANGED <<Mistaken, MSb>> => Service!OtherEnds
         /\ Mistaken /\ Mistaken' = FALSE /\ UNCHANGED <<Stuck, MSb>> => Service!OtherEnds
BY DEF MCall, MSb, Stuck, Mistaken, Service!Progress, Service!Lost, Service!OtherEnds,
       Service!Becomes

LEMMA AbstractReboot ==
  ASSUME MCall' = [c \in Caller |-> "idle"], rival' = [c \in Caller |-> FALSE],
         MSb' = "dead", Stuck' \in BOOLEAN, Mistaken' \in BOOLEAN
  PROVE  Service!Reboot
BY DEF MCall, MSb, Stuck, Mistaken, Service!Reboot

AbsStep == [Service!Next]_(Service!serviceVars)

LEMMA StutterStep == UNCHANGED MVars => AbsStep
BY AbstractStutter DEF AbsStep

\* A call that ends without having had its effect was refused.
LEMMA RefusedStep ==
  ASSUME RInv, TypeOK', NEW c \in Caller, Returns(c), UNCHANGED <<MSb, Stuck, Mistaken>>,
         pc[c] \in LockStep, Stuck \/ rival[c]
  PROVE  AbsStep
<1>1. TypeOK /\ op[c] \in OpKind /\ MCall[c] = op[c]
  BY CallIs, CallValues DEF RInv, IInv, TypeOK, OpKind, Waiting
<1>2. CASE op[c] = "restart"
  <2>1. \A k \in Caller \ {c} : pc'[k] = pc[k] /\ op'[k] = op[k]
    BY <1>1, <1>2 DEF Returns, Goto, TypeOK
  <2>2. CallAt(pc'[c], op'[c]) = "start" /\ UNCHANGED rival
    BY <1>1, <1>2, CallValues DEF Returns, Goto, TypeOK, OpKind, Waiting, LockStep
  <2>3. MCall' = [MCall EXCEPT ![c] = "start"]
    BY <1>1, <2>1, <2>2, CallMoves
  <2>4. Service!Refuse(c)
    BY <1>1, <1>2, <2>2, <2>3, AbstractRefuse
  <2> QED BY <2>4 DEF AbsStep, Service!Next, Service!CallStep
<1>3. CASE op[c] # "restart"
  <2>1. \A k \in Caller \ {c} : pc'[k] = pc[k] /\ op'[k] = op[k]
    BY <1>1, <1>3 DEF Returns, Ends, Goto, TypeOK
  <2>2. CallAt(pc'[c], op'[c]) = "idle" /\ rival' = [rival EXCEPT ![c] = FALSE]
    BY <1>1, <1>3, CallValues DEF Returns, Ends, Goto, TypeOK, OpKind
  <2>3. MCall' = [MCall EXCEPT ![c] = "idle"]
    BY <1>1, <2>1, <2>2, CallMoves
  <2>4. Service!Refuse(c)
    BY <1>1, <1>3, <2>2, <2>3, AbstractDone DEF OpKind
  <2> QED BY <2>4 DEF AbsStep, Service!Next, Service!CallStep
<1> QED BY <1>2, <1>3

LEMMA ReturnedStep ==
  ASSUME RInv, TypeOK', NEW c \in Caller, Returns(c), UNCHANGED <<MSb, Stuck, Mistaken>>,
         pc[c] = "unlockDir"
  PROVE  AbsStep
<1>1. TypeOK /\ op[c] \in OpKind
  BY DEF RInv, IInv, TypeOK, OpKind
<1>2. CASE op[c] = "restart"
  <2>1. \A k \in Caller \ {c} : pc'[k] = pc[k] /\ op'[k] = op[k]
    BY <1>1, <1>2 DEF Returns, Goto, TypeOK
  <2>2. CallAt(pc'[c], op'[c]) = "start" /\ UNCHANGED rival
    BY <1>1, <1>2, CallValues DEF Returns, Goto, TypeOK, OpKind, Waiting, LockStep
  <2>3. MCall[c] = "start"
    BY <1>2, CallIs, CallValues
  <2>4. MCall' = MCall
    BY <1>1, <2>1, <2>2, <2>3, CallMoves
  <2> QED BY <2>2, <2>4, StutterStep DEF MVars
<1>3. CASE op[c] # "restart"
  <2>1. \A k \in Caller \ {c} : pc'[k] = pc[k] /\ op'[k] = op[k]
    BY <1>1, <1>3 DEF Returns, Ends, Goto, TypeOK
  <2>2. CallAt(pc'[c], op'[c]) = "idle" /\ rival' = [rival EXCEPT ![c] = FALSE]
    BY <1>1, <1>3, CallValues DEF Returns, Ends, Goto, TypeOK, OpKind
  <2>3. MCall' = [MCall EXCEPT ![c] = "idle"]
    BY <1>1, <2>1, <2>2, CallMoves
  <2>4. MCall[c] = "done"
    BY <1>1, <1>3, CallIs, CallValues DEF OpKind
  <2>5. Service!Return(c)
    BY <2>2, <2>3, <2>4, AbstractDone
  <2> QED BY <2>5 DEF AbsStep, Service!Next, Service!CallStep
<1> QED BY <1>2, <1>3

\* Within lock() a step that is not the last shows nothing.
LEMMA QuietStep ==
  ASSUME TypeOK, TypeOK', NEW c \in Caller, NEW l \in Waiting, pc[c] \in Waiting,
         Goto(c, l), UNCHANGED <<op, rival, MSb, Stuck, Mistaken>>
  PROVE  AbsStep
<1>1. \A k \in Caller \ {c} : pc'[k] = pc[k] /\ op'[k] = op[k]
  BY DEF Goto, TypeOK
<1>2. op[c] \in OpKind /\ pc'[c] = l
  BY DEF Goto, TypeOK, OpKind
<1>3. CallAt(pc'[c], op'[c]) = op[c] /\ MCall[c] = op[c]
  BY <1>2, CallValues, CallIs
<1>4. MCall' = MCall
  BY <1>1, <1>3, CallMoves
<1> QED BY <1>4, StutterStep DEF MVars

LEMMA LockCallStep ==
  ASSUME RInv, TypeOK', NEW c \in Caller, LockCall(c) \/ UnlockPid(c) \/ UnlockDir(c)
  PROVE  AbsStep
<1>1. TypeOK /\ ScriptInv /\ UNCHANGED <<daemon, pidfile>>
  BY LockCallFrame DEF RInv, IInv
<1>2. UNCHANGED <<MSb, Mistaken>>
  BY <1>1 DEF MSb, Live, Mistaken
<1>3. LockStep \subseteq Waiting /\ "writePid" \in Waiting
  BY DEF Waiting
<1>4. UNCHANGED lock => UNCHANGED Stuck
  BY DEF Stuck
<1>5. CASE Mkdir(c)
  <2>1. UNCHANGED Stuck
    BY <1>4, <1>5, InitScriptAssumption DEF Mkdir, Stuck
  <2>2. UNCHANGED <<op, rival>> /\ (Goto(c, "writePid") \/ Goto(c, "readOwner"))
        /\ pc[c] \in LockStep
    BY <1>5 DEF Mkdir, Keep, LockStep
  <2> QED BY <1>1, <1>2, <1>3, <2>1, <2>2, QuietStep DEF LockStep
<1>6. CASE WritePid(c)
  <2>1. UNCHANGED Stuck
    BY <1>1, <1>6, InitScriptAssumption DEF WritePid, Stuck, ScriptInv, StuckOK, Note, TypeOK
  <2>2. UNCHANGED <<op, rival>> /\ pc[c] = "writePid" /\ Goto(c, Body(c)) /\ Body(c) \in Waiting
    BY <1>6 DEF WritePid, Keep, Body, Waiting
  <2> QED BY <1>1, <1>2, <1>3, <2>1, <2>2, QuietStep
<1>7. CASE ReadOwner(c)
  <2>1. UNCHANGED <<op, rival, Stuck>> /\ Goto(c, "judge") /\ pc[c] \in LockStep
    BY <1>4, <1>7 DEF ReadOwner, LockStep
  <2> QED BY <1>1, <1>2, <1>3, <2>1, QuietStep DEF LockStep
<1>8. CASE Judge(c)
  <2>1. UNCHANGED Stuck /\ pc[c] \in LockStep
    BY <1>4, <1>8 DEF Judge, LockStep
  <2>2. CASE PidLive(seen[c])
    <3>1. seen[c] = "other" \/ \E k \in Caller \ {c} : seen[c] = k /\ pc[k] # "idle"
      BY <1>1, <1>8, <2>2, InitScriptAssumption
      DEF PidLive, ScriptInv, SeenOK, TypeOK, Judge, Live
    <3>2. Stuck \/ rival[c]
      BY <1>1, <1>8, <3>1 DEF ScriptInv, SeenOK, RivalOK, Judge
    <3> QED BY <1>2, <1>8, <2>1, <2>2, <3>2, RefusedStep DEF Judge
  <2>3. CASE ~PidLive(seen[c])
    <3>1. UNCHANGED <<op, rival>> /\ Goto(c, "rmPid")
      BY <1>8, <2>3 DEF Judge
    <3> QED BY <1>1, <1>2, <1>3, <2>1, <3>1, QuietStep DEF LockStep
  <2> QED BY <2>2, <2>3
<1>9. CASE RmPid(c)
  <2>1. UNCHANGED Stuck
    BY <1>1, <1>9, InitScriptAssumption DEF RmPid, Stuck, ScriptInv, StuckOK, Note, TypeOK
  <2>2. UNCHANGED <<op, rival>> /\ Goto(c, "rmdir") /\ pc[c] \in LockStep
    BY <1>9 DEF RmPid, Keep, LockStep
  <2> QED BY <1>1, <1>2, <1>3, <2>1, <2>2, QuietStep DEF LockStep
<1>10. CASE Rmdir(c)
  <2>1. pc[c] \in LockStep
    BY <1>10 DEF Rmdir, LockStep
  <2>2. CASE Removable
    <3>1. UNCHANGED <<op, rival, Stuck>> /\ Goto(c, "mkdirAgain")
      BY <1>10, <2>2 DEF Rmdir, RemoveDir, Removable, Stuck, Keep
    <3> QED BY <1>1, <1>2, <1>3, <2>1, <3>1, QuietStep DEF LockStep
  <2>3. CASE ~Removable
    <3>1. Returns(c) /\ UNCHANGED Stuck
      BY <1>4, <1>10, <2>3 DEF Rmdir
    <3>2. rival[c]
      BY <1>1, <1>10, <2>3 DEF Rmdir, Removable, ScriptInv, WaiterOK
    <3> QED BY <1>2, <2>1, <3>1, <3>2, RefusedStep
  <2> QED BY <2>2, <2>3
<1>11. CASE MkdirAgain(c)
  <2>1. pc[c] \in LockStep
    BY <1>11 DEF MkdirAgain, LockStep
  <2>2. CASE lock = NoLock
    <3>1. UNCHANGED <<op, rival, Stuck>> /\ Goto(c, "writePid")
      BY <1>11, <2>2 DEF MkdirAgain, Stuck, Keep
    <3> QED BY <1>1, <1>2, <1>3, <2>1, <3>1, QuietStep
  <2>3. CASE lock # NoLock
    <3>1. Returns(c) /\ UNCHANGED Stuck
      BY <1>4, <1>11, <2>3 DEF MkdirAgain
    <3>2. rival[c]
      BY <1>1, <1>11, <2>3 DEF MkdirAgain, ScriptInv, WaiterOK
    <3> QED BY <1>2, <2>1, <3>1, <3>2, RefusedStep
  <2> QED BY <2>2, <2>3
<1>12. CASE UnlockPid(c)
  <2>1. UNCHANGED Stuck
    BY <1>1, <1>12, InitScriptAssumption DEF UnlockPid, Stuck, ScriptInv, StuckOK, Note, TypeOK
  <2>2. UNCHANGED <<op, rival>> /\ Goto(c, "unlockDir") /\ pc[c] = "unlockPid"
    BY <1>12 DEF UnlockPid, Keep
  <2>3. \A k \in Caller \ {c} : pc'[k] = pc[k] /\ op'[k] = op[k]
    BY <1>1, <2>2 DEF Goto, TypeOK
  <2>4. CallAt(pc'[c], op'[c]) = MCall[c]
    BY <1>1, <2>2, CallIs, CallValues DEF Goto, TypeOK
  <2>5. MCall' = MCall
    BY <1>1, <2>3, <2>4, CallMoves
  <2> QED BY <1>2, <2>1, <2>2, <2>5, StutterStep DEF MVars
<1>13. CASE UnlockDir(c)
  <2>1. UNCHANGED Stuck
    BY <1>4, <1>13 DEF UnlockDir, RemoveDir, Removable, Stuck
  <2> QED BY <1>2, <1>13, <2>1, ReturnedStep DEF UnlockDir
<1> QED
  BY <1>5, <1>6, <1>7, <1>8, <1>9, <1>10, <1>11, <1>12, <1>13 DEF LockCall

LEMMA BodyStepMaps ==
  ASSUME RInv, RInv', ~taken, NEW c \in Caller, BodyStep(c) PROVE AbsStep
<1>1. /\ TypeOK /\ TypeOK' /\ ScriptInv /\ HoldersOK /\ AloneOK /\ PathOK
      /\ UNCHANGED <<lock, taken>> /\ AloneOK'
  BY BodyHolders DEF RInv, IInv
<1>2. UNCHANGED Stuck /\ ~Stuck
  BY <1>1, BodyHolders DEF Stuck, ScriptInv, StuckOK, Using, InsideStep
<1>3. \A l \in InsideStep : Goto(c, l) => \A k \in Caller \ {c} : pc'[k] = pc[k]
  BY <1>1 DEF Goto, TypeOK
<1>4. UNCHANGED <<daemon>> => UNCHANGED MSb
  BY DEF MSb, Live
<1>5. CASE CheckPidfile(c)
  <2>1. op[c] = "start" /\ MCall[c] = "start"
    BY <1>1, <1>5, CallIs, CallValues DEF ScriptInv, SectionOK, CheckPidfile, OpKind, Waiting
  <2>2. UNCHANGED <<op, rival, MSb>>
    BY <1>4, <1>5 DEF CheckPidfile, Keep
  <2>3. CASE PidLive(pidfile)
    <3>1. Goto(c, "unlockPid") /\ UNCHANGED <<pidfile, Mistaken>>
      BY <1>5, <2>3 DEF CheckPidfile, Keep, Mistaken
    <3>2. MSb # "dead" \/ Mistaken
      BY <1>1, <2>3, SbValues, InitScriptAssumption DEF PidLive, Mistaken, TypeOK, Live
    <3>3. CallAt(pc'[c], op'[c]) = "done"
      BY <1>1, <2>1, <2>2, <3>1, CallValues DEF Goto, TypeOK
    <3>4. MCall' = [MCall EXCEPT ![c] = "done"]
      BY <1>1, <1>3, <2>2, <3>1, <3>3, CallMoves DEF InsideStep
    <3>5. Service!Start(c)
      BY <1>2, <2>1, <2>2, <3>1, <3>2, <3>4, AbstractStart
    <3> QED BY <3>5 DEF AbsStep, Service!Next, Service!CallStep
  <2>4. CASE ~PidLive(pidfile)
    <3>1. Goto(c, "adopt") /\ pidfile' = "none" /\ pidfile # "other" /\ pc[c] = "checkPidfile"
      BY <1>5, <2>4 DEF CheckPidfile, Keep, PidLive
    <3>2. UNCHANGED Mistaken
      BY <3>1 DEF Mistaken
    <3> QED BY <1>1, <1>2, <2>2, <3>1, <3>2, QuietStep DEF Waiting
  <2> QED BY <2>3, <2>4
<1>6. CASE Adopt(c)
  <2>1. op[c] = "start" /\ MCall[c] = "start" /\ ~Mistaken
    BY <1>1, <1>6, CallIs, CallValues
    DEF ScriptInv, SectionOK, Adopt, OpKind, Waiting, PathOK, Mistaken
  <2>2. UNCHANGED <<op, rival, MSb>> /\ pc[c] = "adopt"
    BY <1>4, <1>6 DEF Adopt, Keep
  <2>3. CASE \E d \in Live : pidfile' = d /\ Keep(c, "unlockPid")
    <3>1. Goto(c, "unlockPid") /\ UNCHANGED Mistaken
      BY <2>1, <2>3, InitScriptAssumption DEF Keep, Mistaken, Live, Note
    <3>2. MSb # "dead"
      BY <1>1, <2>3, SbValues DEF Live
    <3>3. CallAt(pc'[c], op'[c]) = "done"
      BY <1>1, <2>1, <2>2, <3>1, CallValues DEF Goto, TypeOK
    <3>4. MCall' = [MCall EXCEPT ![c] = "done"]
      BY <1>1, <1>3, <2>2, <3>1, <3>3, CallMoves DEF InsideStep
    <3>5. Service!Start(c)
      BY <1>2, <2>1, <2>2, <3>1, <3>2, <3>4, AbstractStart
    <3> QED BY <3>5 DEF AbsStep, Service!Next, Service!CallStep
  <2>4. CASE Live = {} /\ Keep(c, "spawn") /\ UNCHANGED pidfile
    <3>1. UNCHANGED Mistaken /\ Goto(c, "spawn")
      BY <2>4 DEF Mistaken, Keep
    <3> QED BY <1>1, <1>2, <2>2, <3>1, QuietStep DEF Waiting
  <2> QED BY <1>6, <2>3, <2>4 DEF Adopt
<1>7. CASE Spawn(c)
  <2>1. op[c] = "start" /\ MCall[c] = "start" /\ ~Mistaken
    BY <1>1, <1>7, CallIs, CallValues
    DEF ScriptInv, SectionOK, Spawn, OpKind, Waiting, PathOK, Mistaken
  <2>2. MSb = "dead" /\ MSb' = "starting"
    <3>1. Live = {}
      BY <1>1, <1>7 DEF AloneOK, Spawn
    <3>2. PICK d \in Daemon : daemon[d] = "dead" /\ daemon' = [daemon EXCEPT ![d] = "starting"]
      BY <1>7 DEF Spawn
    <3>3. d \in Live' /\ daemon'[d] = "starting"
      BY <1>1, <3>2 DEF Live, TypeOK
    <3> QED BY <1>1, <3>1, <3>3, SbValues, SbValuesNext
  <2>3. UNCHANGED <<op, rival, Mistaken>> /\ Goto(c, "record")
    BY <1>7 DEF Spawn, Mistaken
  <2>4. CallAt(pc'[c], op'[c]) = "settling"
    BY <1>1, <2>1, <2>3, CallValues DEF Goto, TypeOK
  <2>5. MCall' = [MCall EXCEPT ![c] = "settling"]
    BY <1>1, <1>3, <2>3, <2>4, CallMoves DEF InsideStep
  <2>6. Service!Start(c)
    BY <1>2, <2>1, <2>2, <2>3, <2>5, AbstractStart
  <2> QED BY <2>6 DEF AbsStep, Service!Next, Service!CallStep
<1>8. CASE Record(c)
  <2>1. op[c] = "start" /\ MCall[c] = "settling" /\ child[c] # "other"
    BY <1>1, <1>8, CallIs, CallValues, InitScriptAssumption
    DEF ScriptInv, SectionOK, Record, TypeOK, Note
  <2>2. UNCHANGED <<op, rival, MSb>> /\ Goto(c, "settle")
    BY <1>4, <1>8 DEF Record, Keep
  <2>3. MCall' = MCall
    BY <1>1, <1>3, <2>1, <2>2, CallMoves, CallValues DEF InsideStep, Goto, TypeOK
  <2>4. UNCHANGED Mistaken
    BY <1>1, <1>8, <2>1 DEF Record, Mistaken, PathOK
  <2> QED BY <1>2, <2>2, <2>3, <2>4, StutterStep DEF MVars
<1>9. CASE Settle(c)
  <2>1. op[c] = "start" /\ MCall[c] = "settling"
    BY <1>1, <1>9, CallIs, CallValues DEF ScriptInv, SectionOK, Settle
  <2>2. MSb # "starting"
    <3>1. \A d \in Live : child[c] = d
      BY <1>1, <1>9 DEF PathOK, Settle
    <3> QED BY <1>1, <1>9, <3>1, SbValues DEF Settle, Live
  <2>3. UNCHANGED <<op, rival, MSb, Mistaken>> /\ Goto(c, "unlockPid")
    BY <1>4, <1>9 DEF Settle, Mistaken
  <2>4. CallAt(pc'[c], op'[c]) = "done"
    BY <1>1, <2>1, <2>3, CallValues DEF Goto, TypeOK
  <2>5. MCall' = [MCall EXCEPT ![c] = "done"]
    BY <1>1, <1>3, <2>3, <2>4, CallMoves DEF InsideStep
  <2>6. Service!Settle(c)
    BY <1>2, <2>1, <2>2, <2>3, <2>5, AbstractSettle
  <2> QED BY <2>6 DEF AbsStep, Service!Next, Service!CallStep
<1>10. CASE Kill(c)
  <2>1. op[c] \in {"stop", "restart"} /\ MCall[c] = op[c]
    BY <1>1, <1>10, CallIs, CallValues DEF ScriptInv, SectionOK, Kill, OpKind, Waiting
  <2>2. MSb' = IF MSb = "dead" THEN MSb ELSE "dying"
    <3>1. daemon' = [d \in Daemon |-> IF d \in Live THEN "dying" ELSE "dead"]
      BY <1>10 DEF Kill
    <3>2. Live' = Live /\ \A d \in Live : daemon'[d] = "dying" /\ daemon[d] # "dead"
      BY <3>1 DEF Live
    <3> QED BY <1>1, <3>2, SbValues, SbValuesNext
  <2>3. UNCHANGED <<op, rival>> /\ Goto(c, "wait") /\ Mistaken' \in {Mistaken, FALSE}
    BY <1>10 DEF Kill, Keep, Mistaken
  <2>4. CallAt(pc'[c], op'[c]) = IF op[c] = "stop" THEN "stopping" ELSE "restarting"
    BY <1>1, <2>1, <2>3, CallValues DEF Goto, TypeOK
  <2>5. MCall' = [MCall EXCEPT ![c] = IF op[c] = "stop" THEN "stopping" ELSE "restarting"]
    BY <1>1, <1>3, <2>3, <2>4, CallMoves DEF InsideStep
  <2>6. Service!Stop(c)
    BY <1>2, <2>1, <2>2, <2>3, <2>5, AbstractStop
  <2> QED BY <2>6 DEF AbsStep, Service!Next, Service!CallStep
<1>11. CASE Wait(c)
  <2>1. UNCHANGED <<op, rival, MSb, Mistaken>> /\ Goto(c, "forget") /\ pc[c] = "wait"
    BY <1>4, <1>11 DEF Wait, Keep, Mistaken
  <2>2. CallAt(pc'[c], op'[c]) = MCall[c]
    BY <1>1, <2>1, CallIs, CallValues DEF Goto, TypeOK, ScriptInv, SectionOK
  <2>3. MCall' = MCall
    BY <1>1, <1>3, <2>1, <2>2, CallMoves DEF InsideStep
  <2> QED BY <1>2, <2>1, <2>3, StutterStep DEF MVars
<1>12. CASE Forget(c)
  <2>1. UNCHANGED <<op, rival, MSb>> /\ Goto(c, "unlockPid") /\ pc[c] = "forget" /\ Mistaken' = FALSE
    BY <1>4, <1>12 DEF Forget, Keep, Mistaken
  <2>2. op[c] \in {"stop", "restart"}
    BY <1>1, <2>1 DEF ScriptInv, SectionOK
  <2>3. /\ MCall[c] = IF op[c] = "stop" THEN "stopping" ELSE "restarting"
        /\ CallAt(pc'[c], op'[c]) = IF op[c] = "stop" THEN "done" ELSE "start"
    BY <1>1, <2>1, <2>2, CallIs, CallValues DEF Goto, TypeOK
  <2>4. MCall' = [MCall EXCEPT ![c] = IF op[c] = "stop" THEN "done" ELSE "start"]
    BY <1>1, <1>3, <2>1, <2>3, CallMoves DEF InsideStep
  <2>5. Service!Stopped(c)
    BY <1>2, <2>1, <2>2, <2>3, <2>4, AbstractStopped
  <2> QED BY <2>5 DEF AbsStep, Service!Next, Service!CallStep
<1> QED BY <1>5, <1>6, <1>7, <1>8, <1>9, <1>10, <1>11, <1>12 DEF BodyStep

LEMMA WorldMaps ==
  ASSUME RInv, RInv', ~taken, ~taken', World \/ UNCHANGED initVars PROVE AbsStep
<1>1. /\ TypeOK /\ TypeOK' /\ ScriptInv /\ HoldersOK /\ AloneOK /\ PathOK /\ AloneOK'
  BY DEF RInv, IInv
<1>2. (pc' = pc /\ op' = op) => MCall' = MCall
  BY DEF MCall, Call
<1>3. ASSUME NEW d \in Daemon, Listens(d) PROVE AbsStep
  <2>1. d \in Live /\ d \in Live' /\ daemon[d] = "starting" /\ daemon'[d] = "up"
    BY <1>1, <1>3 DEF Listens, Live, TypeOK
  <2>2. UNCHANGED <<MCall, rival, Stuck, Mistaken>>
    BY <1>2, <1>3 DEF Listens, Stuck, Mistaken
  <2>3. Service!Progress
    BY <1>1, <2>1, <2>2, SbValues, SbValuesNext, AbstractWorld
  <2> QED BY <2>3 DEF AbsStep, Service!Next
<1>4. ASSUME NEW d \in Daemon, d \in Live, Dies(d)
      PROVE  UNCHANGED <<MCall, rival, Stuck, Mistaken>> /\ MSb = daemon[d] /\ MSb' = "dead"
  <2>1. Live' = {}
    BY <1>1, <1>4 DEF AloneOK, Live, Dies, TypeOK
  <2>2. UNCHANGED <<MCall, rival, Stuck, Mistaken>>
    BY <1>2, <1>4, InitScriptAssumption DEF Dies, Stuck, Mistaken, Note
  <2> QED BY <1>1, <1>4, <2>1, <2>2, SbValues, SbValuesNext
<1>5. ASSUME NEW d \in Daemon, Exits(d) PROVE AbsStep
  <2>1. d \in Live /\ Dies(d)
    BY <1>5 DEF Exits, Live
  <2>2. daemon[d] = "dying"
    BY <1>1, <1>5, <2>1 DEF Exits, PortsFree, AloneOK, Live
  <2>3. Service!Progress
    <3>1. MSb = "dying" /\ MSb' = "dead" /\ UNCHANGED <<MCall, rival, Stuck, Mistaken>>
      BY <1>4, <2>1, <2>2
    <3> QED BY <3>1, AbstractWorld
  <2> QED BY <2>3 DEF AbsStep, Service!Next
<1>6. ASSUME NEW d \in Daemon, Lost(d) PROVE AbsStep
  <2>1. d \in Live /\ Dies(d) /\ daemon[d] \in {"starting", "up"}
    BY <1>6 DEF Lost, Live
  <2>2. Service!Lost
    BY <1>4, <2>1, AbstractWorld
  <2> QED BY <2>2 DEF AbsStep, Service!Next
<1>7. ASSUME NEW c \in Caller, KillScript(c) PROVE AbsStep
  <2>1. UNCHANGED <<MSb, Mistaken>>
    BY <1>7 DEF KillScript, MSb, Live, Mistaken
  <2>2. UNCHANGED Stuck
    BY <1>1, <1>7, InitScriptAssumption DEF KillScript, Stuck, GoneIf, Note, TypeOK
  <2>3. \A k \in Caller \ {c} : pc'[k] = pc[k] /\ op'[k] = op[k]
    BY <1>1, <1>7 DEF KillScript, Ends, Goto, TypeOK
  <2>4. CallAt(pc'[c], op'[c]) = "idle" /\ rival' = [rival EXCEPT ![c] = FALSE]
    BY <1>1, <1>7, CallValues DEF KillScript, Ends, Goto, TypeOK, OpKind
  <2>5. MCall' = [MCall EXCEPT ![c] = "idle"]
    BY <1>1, <2>3, <2>4, CallMoves
  <2>6. MCall[c] # "idle"
    <3>1. pc[c] # "idle" /\ op[c] \in OpKind
      BY <1>1, <1>7 DEF KillScript, TypeOK, OpKind
    <3> QED BY <3>1, CallIs DEF CallAt, OpKind
  <2>7. Service!Killed(c)
    BY <2>1, <2>2, <2>4, <2>5, <2>6, AbstractDone
  <2> QED BY <2>7 DEF AbsStep, Service!Next
<1>8. CASE Reboot
  <2>1. \A c \in Caller : CallAt(pc'[c], op'[c]) = "idle"
    BY <1>8, CallValues DEF Reboot, OpKind
  <2>2. MCall' = [c \in Caller |-> "idle"]
    <3>1. MCall' = [c \in Caller |-> MCall'[c]]
      BY DEF MCall
    <3> QED BY <2>1, <3>1, CallIsNext
  <2>3. MSb' = "dead"
    <3>1. Live' = {}
      BY <1>8 DEF Reboot, Live
    <3> QED BY <1>1, <3>1, SbValuesNext
  <2>4. rival' = [c \in Caller |-> FALSE]
    BY <1>8 DEF Reboot
  <2>5. Stuck' \in BOOLEAN /\ Mistaken' \in BOOLEAN
    BY DEF Stuck, Mistaken
  <2>6. Service!Reboot
    BY <2>2, <2>3, <2>4, <2>5, AbstractReboot
  <2> QED BY <2>6 DEF AbsStep, Service!Next
<1>9. CASE OtherEnds
  <2>1. UNCHANGED <<MCall, rival, MSb>>
    BY <1>2, <1>9 DEF OtherEnds, MSb, Live
  <2>2. CASE pidfile = "other" /\ pidfile' = "gone" /\ UNCHANGED <<lock, seen>>
    <3>1. Mistaken /\ Mistaken' = FALSE /\ UNCHANGED Stuck
      BY <2>2 DEF Mistaken, Stuck
    <3>2. Service!OtherEnds
      BY <2>1, <3>1, AbstractWorld
    <3> QED BY <3>2 DEF AbsStep, Service!Next
  <2>3. CASE /\ lock # NoLock /\ lock.pid = "other"
             /\ lock' = [lock EXCEPT !.pid = "gone"] /\ UNCHANGED pidfile
    <3>1. Stuck /\ Stuck' = FALSE /\ UNCHANGED Mistaken
      BY <1>1, <2>3, InitScriptAssumption DEF Mistaken, Stuck, Note, TypeOK
    <3>2. Service!OtherEnds
      BY <2>1, <3>1, AbstractWorld
    <3> QED BY <3>2 DEF AbsStep, Service!Next
  <2> QED BY <1>9, <2>2, <2>3 DEF OtherEnds
<1>10. CASE UNCHANGED initVars
  <2>1. UNCHANGED MVars
    BY <1>2, <1>10 DEF initVars, MVars, MSb, Live, Stuck, Mistaken
  <2> QED BY <2>1, StutterStep
<1> QED BY <1>3, <1>5, <1>6, <1>7, <1>8, <1>9, <1>10 DEF World

LEMMA InvokeMaps ==
  ASSUME RInv, RInv', NEW c \in Caller, NEW o \in OpKind, Invoke(c, o) PROVE AbsStep
<1>1. TypeOK /\ TypeOK'
  BY DEF RInv, IInv
<1>2. /\ pc[c] = "idle" /\ Goto(c, "mkdir") /\ op' = [op EXCEPT ![c] = o]
      /\ UNCHANGED <<lock, daemon, pidfile>>
  BY DEF Invoke
<1>3. \A k \in Caller \ {c} : pc'[k] = pc[k] /\ op'[k] = op[k]
  BY <1>1, <1>2 DEF Goto, TypeOK
<1>4. CallAt(pc'[c], op'[c]) = o
  BY <1>1, <1>2, CallValues DEF Goto, TypeOK, Waiting, LockStep
<1>5. MCall' = [MCall EXCEPT ![c] = o]
  BY <1>1, <1>3, <1>4, CallMoves
<1>6. \A k \in Caller : MCall[k] # "idle" <=> pc[k] # "idle"
  <2>1. \A k \in Caller : op[k] \in OpKind
    BY <1>1 DEF TypeOK, OpKind
  <2> QED BY <2>1, CallIs DEF CallAt, OpKind
<1>7. rival' = [k \in Caller |-> IF k = c THEN \E j \in Caller \ {c} : MCall[j] # "idle"
                                           ELSE rival[k] \/ MCall[k] # "idle"]
  BY <1>6 DEF Invoke
<1>8. UNCHANGED <<Stuck, Mistaken, MSb>>
  BY <1>2 DEF Stuck, Mistaken, MSb, Live
<1>9. Service!Invoke(c, o)
  BY <1>2, <1>5, <1>6, <1>7, <1>8, AbstractInvoke
<1> QED BY <1>9 DEF AbsStep, Service!Next, Service!Op, OpKind

LEMMA InitMaps == Init => Service!Init
<1> SUFFICES ASSUME Init PROVE Service!Init
  OBVIOUS
<1>1. MCall = [c \in Caller |-> "idle"]
  <2>1. \A c \in Caller : CallAt(pc[c], op[c]) = "idle"
    BY CallValues DEF Init, OpKind
  <2>2. MCall = [c \in Caller |-> MCall[c]]
    BY DEF MCall
  <2> QED BY <2>1, <2>2, CallIs
<1>2. MSb = "dead" /\ Stuck = FALSE /\ Mistaken = FALSE /\ rival = [c \in Caller |-> FALSE]
  BY DEF Init, MSb, Live, Stuck, Mistaken
<1> QED BY <1>1, <1>2 DEF MCall, MSb, Stuck, Mistaken, Service!Init

LEMMA NextMaps ==
  ASSUME RInv, RInv', ~taken, ~taken', [Next]_initVars
  PROVE  [Service!Next]_(Service!serviceVars)
<1>1. TypeOK'
  BY DEF RInv, IInv
<1>2. AbsStep
  BY <1>1, LockCallStep, BodyStepMaps, WorldMaps, InvokeMaps
  DEF Next, ScriptStep, BodyStep, OpKind
<1> QED BY <1>2 DEF AbsStep

(***************************************************************************)
(* As long as no lock in use is removed, the init script, command by       *)
(* command, implements the service its callers count on: overlapping       *)
(* calls take effect one after the other, none fails without a rival or a  *)
(* foreign pid in the lock, and at most one sing-box lives.                *)
(***************************************************************************)
THEOREM ScriptImplementsService == Spec /\ []~taken => ImplementsService
<1>1. Spec => []RInv
  BY InitRInv, NextRInv, PTL DEF Spec
<1>2. RInv /\ RInv' /\ ~taken /\ (~taken)' /\ [Next]_initVars
      => [Service!Next]_(Service!serviceVars)
  BY NextMaps
<1> QED BY <1>1, <1>2, InitMaps, PTL DEF Spec, ImplementsService, Service!Spec
=============================================================================
