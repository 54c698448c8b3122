---------------------------- MODULE SingBoxInit ----------------------------
(***************************************************************************)
(* The init script of sing-box (S99singbox.j2), run by several callers at  *)
(* once: the watchdog, the supervisor, stealth-route-init and people.      *)
(* start and stop run between lock and unlock, a mkdir lock that records   *)
(* its owner's pid and that a caller who has waited in vain may take over. *)
(* The lock directory and the pid file survive a reboot (they are on the   *)
(* Entware disk), and the pids in them may by then be other processes'.    *)
(*                                                                         *)
(* pc, op  the command each caller's script is about to run, and whether   *)
(*         it is doing "start" or "stop", or the stop half of "restart"    *)
(* seen    the pid it read from the lock before judging its owner          *)
(* child   the daemon it has spawned and not yet left alone                *)
(* lock    the caller that made the directory and the pid recorded in it   *)
(* daemon  the state of each sing-box process; "dying" has had a signal    *)
(* pidfile the pid in /opt/var/run/sing-box.pid                            *)
(* rival   another caller's script has overlapped this one's               *)
(* faults  how many scripts were killed, daemons lost and reboots there    *)
(*         have been                                                       *)
(* taken   a lock has been removed whose maker was still using it          *)
(*                                                                         *)
(* A pid of a process that has ended is "gone"; "other" is the pid of a    *)
(* live process that is neither an init script nor sing-box.               *)
(***************************************************************************)
EXTENDS Naturals, FiniteSets

CONSTANTS Caller, Daemon,
          MaxFaults,    \* bound on killed scripts, lost daemons and reboots
          NoLock

Note == {"none", "gone", "other"}

ASSUME InitScriptAssumption ==
  /\ MaxFaults \in Nat /\ Caller \cap Daemon = {}
  /\ (Caller \cup Daemon) \cap Note = {}
  /\ NoLock \notin [by : Caller, pid : Caller \cup Note]

VARIABLES pc, op, seen, child, rival, lock, daemon, pidfile, faults, taken

initVars == <<pc, op, seen, child, rival, lock, daemon, pidfile, faults, taken>>

Fault      == {"kill", "loss", "reboot"}
LockStep   == {"mkdir", "writePid", "readOwner", "judge", "rmPid", "rmdir",
               "mkdirAgain"}
InsideStep == {"checkPidfile", "adopt", "spawn", "record", "settle",
               "kill", "wait", "forget", "unlockPid", "unlockDir"}
Using      == (InsideStep \ {"unlockDir"}) \cup {"writePid"}
Inside     == {c \in Caller : pc[c] \in InsideStep}
Live       == {d \in Daemon : daemon[d] # "dead"}

PidLive(p) ==
  \/ p \in Daemon /\ p \in Live
  \/ p \in Caller /\ pc[p] # "idle"
  \/ p = "other"

Goto(c, l) == pc' = [pc EXCEPT ![c] = l]
Keep(c, l) == Goto(c, l) /\ UNCHANGED <<op, seen, child, rival>>

Init ==
  /\ pc = [c \in Caller |-> "idle"] /\ op = [c \in Caller |-> "start"]
  /\ seen = [c \in Caller |-> "none"] /\ child = [c \in Caller |-> "none"]
  /\ rival = [c \in Caller |-> FALSE]
  /\ lock = NoLock /\ daemon = [d \in Daemon |-> "dead"] /\ pidfile = "none"
  /\ faults = [f \in Fault |-> 0] /\ taken = FALSE
-----------------------------------------------------------------------------
\* The script of a caller ends: its pid is gone wherever it was noted.
Ends(c) ==
  /\ Goto(c, "idle") /\ op' = [op EXCEPT ![c] = "start"]
  /\ seen' = [k \in Caller |-> IF k = c THEN "none"
                               ELSE IF seen[k] = c THEN "gone" ELSE seen[k]]
  /\ child' = [child EXCEPT ![c] = "none"] /\ rival' = [rival EXCEPT ![c] = FALSE]

\* start or stop returns (either way: restart does not look): the start half
\* of restart follows, or the script ends.
Returns(c) ==
  IF op[c] = "restart"
    THEN /\ Goto(c, "mkdir") /\ op' = [op EXCEPT ![c] = "start"]
         /\ seen' = [seen EXCEPT ![c] = "none"]
         /\ child' = [child EXCEPT ![c] = "none"] /\ UNCHANGED rival
    ELSE Ends(c)

Body(c) == IF op[c] = "start" THEN "checkPidfile" ELSE "kill"

Invoke(c, o) ==
  /\ pc[c] = "idle"
  /\ Goto(c, "mkdir") /\ op' = [op EXCEPT ![c] = o]
  /\ rival' = [k \in Caller |->
               IF k = c THEN \E j \in Caller \ {c} : pc[j] # "idle"
                        ELSE rival[k] \/ pc[k] # "idle"]
  /\ UNCHANGED <<seen, child, lock, daemon, pidfile, faults, taken>>

\* lock(): up to ten mkdirs, a second apart.  The ones that fail change
\* nothing; a second after the last of them the caller looks at the owner.
\* In that second whoever had just made the directory writes its pid.
Mkdir(c) ==
  /\ pc[c] = "mkdir"
  /\ \/ /\ lock = NoLock /\ lock' = [by |-> c, pid |-> "none"]
        /\ Keep(c, "writePid")
     \/ /\ lock # NoLock /\ pc[lock.by] # "writePid"
        /\ Keep(c, "readOwner") /\ UNCHANGED lock
  /\ UNCHANGED <<daemon, pidfile, faults, taken>>

\* Nothing checks whether the directory is still there.
WritePid(c) ==
  /\ pc[c] = "writePid"
  /\ lock' = IF lock = NoLock THEN lock ELSE [lock EXCEPT !.pid = c]
  /\ Keep(c, Body(c))
  /\ UNCHANGED <<daemon, pidfile, faults, taken>>

ReadOwner(c) ==
  /\ pc[c] = "readOwner" /\ Goto(c, "judge")
  /\ seen' = [seen EXCEPT ![c] = IF lock = NoLock THEN "none" ELSE lock.pid]
  /\ UNCHANGED <<op, child, rival, lock, daemon, pidfile, faults, taken>>

\* kill -0 of the owner: a live one keeps its lock and this call fails.
Judge(c) ==
  /\ pc[c] = "judge"
  /\ IF PidLive(seen[c]) THEN Returns(c)
     ELSE /\ Goto(c, "rmPid") /\ seen' = [seen EXCEPT ![c] = "none"]
          /\ UNCHANGED <<op, child, rival>>
  /\ UNCHANGED <<lock, daemon, pidfile, faults, taken>>

RmPid(c) ==
  /\ pc[c] = "rmPid"
  /\ lock' = IF lock = NoLock THEN lock ELSE [lock EXCEPT !.pid = "none"]
  /\ Keep(c, "rmdir")
  /\ UNCHANGED <<daemon, pidfile, faults, taken>>

\* rmdir removes the directory that is at the path now, if it is empty.
Removable == lock # NoLock /\ lock.pid = "none"

RemoveDir(c) ==
  /\ lock' = NoLock
  /\ taken' = (taken \/ (lock.by # c /\ pc[lock.by] \in Using))

Rmdir(c) ==
  /\ pc[c] = "rmdir"
  /\ IF Removable THEN RemoveDir(c) /\ Keep(c, "mkdirAgain")
                  ELSE Returns(c) /\ UNCHANGED <<lock, taken>>
  /\ UNCHANGED <<daemon, pidfile, faults>>

MkdirAgain(c) ==
  /\ pc[c] = "mkdirAgain"
  /\ IF lock = NoLock
       THEN lock' = [by |-> c, pid |-> "none"] /\ Keep(c, "writePid")
       ELSE Returns(c) /\ UNCHANGED lock
  /\ UNCHANGED <<daemon, pidfile, faults, taken>>
-----------------------------------------------------------------------------
\* start(): a live pid in the pid file, whoever's it is, is "already running".
CheckPidfile(c) ==
  /\ pc[c] = "checkPidfile"
  /\ IF PidLive(pidfile)
       THEN Keep(c, "unlockPid") /\ UNCHANGED pidfile
       ELSE Keep(c, "adopt") /\ pidfile' = "none"
  /\ UNCHANGED <<lock, daemon, faults, taken>>

\* Mutant: start does not look for a daemon that no pid file names.
AdoptNone(c) ==
  /\ pc[c] = "adopt" /\ Keep(c, "spawn")
  /\ UNCHANGED <<lock, daemon, pidfile, faults, taken>>

\* live_pidof(): a live sing-box is adopted.
Adopt(c) ==
  /\ pc[c] = "adopt"
  /\ \/ \E d \in Live : pidfile' = d /\ Keep(c, "unlockPid")
     \/ Live = {} /\ Keep(c, "spawn") /\ UNCHANGED pidfile
  /\ UNCHANGED <<lock, daemon, faults, taken>>

Spawn(c) ==
  /\ pc[c] = "spawn"
  /\ \E d \in Daemon :
       /\ daemon[d] = "dead"
       /\ daemon' = [daemon EXCEPT ![d] = "starting"]
       /\ child' = [child EXCEPT ![c] = d]
  /\ Goto(c, "record")
  /\ UNCHANGED <<op, seen, rival, lock, pidfile, faults, taken>>

\* Mutant: the pid of the script in place of the daemon's.
RecordSelf(c) ==
  /\ pc[c] = "record" /\ Keep(c, "settle")
  /\ pidfile' = c
  /\ UNCHANGED <<lock, daemon, faults, taken>>

\* Mutant: the pid file is left to the daemon, which does not write one.
RecordNothing(c) ==
  /\ pc[c] = "record" /\ Keep(c, "settle")
  /\ UNCHANGED <<lock, daemon, pidfile, faults, taken>>

Record(c) ==
  /\ pc[c] = "record" /\ Keep(c, "settle")
  /\ pidfile' = child[c]
  /\ UNCHANGED <<lock, daemon, faults, taken>>

\* sleep 5 outlasts the daemon's start, whether it succeeds or not.
Settle(c) ==
  /\ pc[c] = "settle"
  /\ child[c] \in Daemon => daemon[child[c]] # "starting"
  /\ Goto(c, "unlockPid") /\ child' = [child EXCEPT ![c] = "none"]
  /\ UNCHANGED <<op, seen, rival, lock, daemon, pidfile, faults, taken>>

\* Mutant: stop trusts the pid file and leaves killall out.
KillNamed(c) ==
  /\ pc[c] = "kill" /\ Keep(c, "wait")
  /\ daemon' = [d \in Daemon |-> IF d \in Live /\ d = pidfile THEN "dying"
                                                             ELSE daemon[d]]
  /\ pidfile' = IF pidfile = "other" THEN "gone" ELSE pidfile
  /\ UNCHANGED <<lock, faults, taken>>

\* stop(): kill the pid of the pid file (an "other" process may be its
\* victim), then killall sing-box.
Kill(c) ==
  /\ pc[c] = "kill" /\ Keep(c, "wait")
  /\ daemon' = [d \in Daemon |-> IF d \in Live THEN "dying" ELSE "dead"]
  /\ \/ pidfile' = IF pidfile = "other" THEN "gone" ELSE pidfile
     \/ UNCHANGED pidfile
  /\ UNCHANGED <<lock, faults, taken>>

\* The loop ends when no sing-box is alive or its ten seconds are over.
Wait(c) ==
  /\ pc[c] = "wait" /\ Keep(c, "forget")
  /\ UNCHANGED <<lock, daemon, pidfile, faults, taken>>

Forget(c) ==
  /\ pc[c] = "forget" /\ Keep(c, "unlockPid")
  /\ pidfile' = "none"
  /\ UNCHANGED <<lock, daemon, faults, taken>>

UnlockPid(c) ==
  /\ pc[c] = "unlockPid"
  /\ lock' = IF lock = NoLock THEN lock ELSE [lock EXCEPT !.pid = "none"]
  /\ Keep(c, "unlockDir")
  /\ UNCHANGED <<daemon, pidfile, faults, taken>>

UnlockDir(c) ==
  /\ pc[c] = "unlockDir"
  /\ IF Removable THEN RemoveDir(c) ELSE UNCHANGED <<lock, taken>>
  /\ Returns(c)
  /\ UNCHANGED <<daemon, pidfile, faults>>
-----------------------------------------------------------------------------
\* A daemon that is no more leaves its pid where it was noted.
Dies(d) ==
  /\ daemon' = [daemon EXCEPT ![d] = "dead"]
  /\ pidfile' = IF pidfile = d THEN "gone" ELSE pidfile
  /\ child' = [c \in Caller |-> IF child[c] = d THEN "gone" ELSE child[c]]
  /\ UNCHANGED <<pc, op, seen, rival, lock, taken>>

PortsFree(d) == \A e \in Daemon \ {d} : daemon[e] \notin {"up", "dying"}

Listens(d) ==
  /\ daemon[d] = "starting" /\ PortsFree(d)
  /\ daemon' = [daemon EXCEPT ![d] = "up"]
  /\ UNCHANGED <<pc, op, seen, child, rival, lock, pidfile, faults, taken>>

\* A daemon ends because it was told to or because its ports are taken.
Exits(d) ==
  /\ daemon[d] = "dying" \/ (daemon[d] = "starting" /\ ~PortsFree(d))
  /\ Dies(d) /\ UNCHANGED faults

Hit(f) ==
  /\ faults["kill"] + faults["loss"] + faults["reboot"] < MaxFaults
  /\ faults' = [faults EXCEPT ![f] = @ + 1]

\* It crashes, or its configuration does not let it start.
Lost(d) == Hit("loss") /\ daemon[d] \in {"starting", "up"} /\ Dies(d)

GoneIf(p, ended) == IF p \in ended THEN "gone" ELSE p

KillScript(c) ==
  /\ Hit("kill") /\ pc[c] # "idle" /\ Ends(c)
  /\ lock' = IF lock = NoLock THEN lock ELSE [lock EXCEPT !.pid = GoneIf(@, {c})]
  /\ UNCHANGED <<daemon, pidfile, taken>>

\* After a reboot a noted pid may be that of some other process.
Reboot ==
  /\ Hit("reboot")
  /\ pc' = [c \in Caller |-> "idle"] /\ op' = [c \in Caller |-> "start"]
  /\ seen' = [c \in Caller |-> "none"] /\ child' = [c \in Caller |-> "none"]
  /\ rival' = [c \in Caller |-> FALSE] /\ daemon' = [d \in Daemon |-> "dead"]
  /\ pidfile' \in IF pidfile = "none" THEN {"none"} ELSE {"gone", "other"}
  /\ \/ lock = NoLock /\ UNCHANGED lock
     \/ lock # NoLock /\ \E p \in IF lock.pid = "none" THEN {"none"}
                                                      ELSE {"gone", "other"} :
                          lock' = [lock EXCEPT !.pid = p]
  /\ UNCHANGED taken

\* The other process ends.
OtherEnds ==
  /\ \/ pidfile = "other" /\ pidfile' = "gone" /\ UNCHANGED <<lock, seen>>
     \/ /\ lock # NoLock /\ lock.pid = "other"
        /\ lock' = [lock EXCEPT !.pid = "gone"] /\ UNCHANGED pidfile
        /\ seen' = [c \in Caller |-> GoneIf(seen[c], {"other"})]
  /\ UNCHANGED <<pc, op, child, rival, daemon, faults, taken>>
-----------------------------------------------------------------------------
LockCall(c) ==
  Mkdir(c) \/ WritePid(c) \/ ReadOwner(c) \/ Judge(c) \/ RmPid(c) \/ Rmdir(c)
  \/ MkdirAgain(c)

ScriptStep(c) ==
  \/ LockCall(c)
  \/ CheckPidfile(c) \/ Adopt(c) \/ Spawn(c) \/ Record(c) \/ Settle(c)
  \/ Kill(c) \/ Wait(c) \/ Forget(c)
  \/ UnlockPid(c) \/ UnlockDir(c)

World ==
  \/ \E d \in Daemon : Listens(d) \/ Exits(d) \/ Lost(d)
  \/ \E c \in Caller : KillScript(c)
  \/ Reboot \/ OtherEnds

Next ==
  \/ \E c \in Caller : ScriptStep(c)
                       \/ \E o \in {"start", "stop", "restart"} : Invoke(c, o)
  \/ World

Spec == Init /\ [][Next]_initVars
-----------------------------------------------------------------------------
TypeOK ==
  /\ pc \in [Caller -> {"idle"} \cup LockStep \cup InsideStep]
  /\ op \in [Caller -> {"start", "stop", "restart"}]
  /\ seen \in [Caller -> Caller \cup Note]
  /\ rival \in [Caller -> BOOLEAN]
  /\ child \in [Caller -> Daemon \cup {"none", "gone"}]
  /\ lock \in [by : Caller, pid : Caller \cup Note] \cup {NoLock}
  /\ daemon \in [Daemon -> {"dead", "starting", "up", "dying"}]
  /\ pidfile \in Daemon \cup Note
  /\ faults \in [Fault -> 0..MaxFaults] /\ taken \in BOOLEAN

\* The state of SingBoxService that a state of the scripts stands for.
Call(c) ==
  CASE pc[c] = "idle" -> "idle"
    [] op[c] = "start" /\ pc[c] \in {"record", "settle"} -> "settling"
    [] op[c] # "restart" /\ pc[c] \in {"unlockPid", "unlockDir"} -> "done"
    [] op[c] = "stop" /\ pc[c] \in {"wait", "forget"} -> "stopping"
    [] op[c] = "restart" /\ pc[c] \in {"wait", "forget"} -> "restarting"
    [] op[c] = "restart" /\ pc[c] \in {"unlockPid", "unlockDir"} -> "start"
    [] OTHER -> op[c]

Service == INSTANCE SingBoxService
  WITH call <- [c \in Caller |-> Call(c)],
       sb <- IF Live = {} THEN "dead" ELSE daemon[CHOOSE d \in Daemon : d \in Live],
       stuck <- lock # NoLock /\ lock.pid = "other",
       mistaken <- pidfile = "other"

(***************************************************************************)
(* The scripts implement the service, as long as no lock in use is taken   *)
(* over: the mkdir lock makes calls take effect one after the other, no    *)
(* call fails without a rival or a foreign pid in the lock, and adopting   *)
(* or killing finds every sing-box, recorded in the pid file or not.       *)
(***************************************************************************)
ImplementsService == Service!Spec

(***************************************************************************)
(* start never runs a second sing-box beside one that is still alive,      *)
(* however start, stop and restart of several callers interleave, whoever  *)
(* is killed where, and across reboots; only a takeover that removes a     *)
(* lock in use can bring that about.                                       *)
(***************************************************************************)
OneDaemon == ~taken => Cardinality(Live) <= 1

(***************************************************************************)
(* When no script is inside the lock, a sing-box that runs and was not     *)
(* told to stop is the one the pid file names, unless a script was killed  *)
(* before it could write that file.                                        *)
(***************************************************************************)
RunningIsNamed ==
  ~taken /\ faults["kill"] = 0 /\ Inside = {} =>
    \A d \in Daemon : daemon[d] \in {"starting", "up"} => pidfile = d

(***************************************************************************)
(* "do not remove a lock with a live owner" (failure-modes.md): what a     *)
(* caller that has waited in vain removes is a stale lock.                 *)
(***************************************************************************)
LiveLockPreserved == ~taken
=============================================================================
