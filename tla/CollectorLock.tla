--------------------------- MODULE CollectorLock ---------------------------
(***************************************************************************)
(* One lock file of the console's collectors                               *)
(* (app/scripts/lib/collector-lock.mjs): collect-once, collect-light-once, *)
(* collect-live-once and repair-aggregates are processes of their own that *)
(* take it, work, release it and exit.  A process that finds the file      *)
(* decides whether it is stale from three separate looks at it (stat, read *)
(* and kill -0) and then unlinks it by path.                               *)
(*                                                                         *)
(* pc     what each pid is doing; "unborn" and "gone" are not alive, and   *)
(*        "server" is a process of the container that is no collector      *)
(* file   the lock file: the pid that created it, whether that pid has     *)
(*        been written to it, whether it is older than maxAgeMs, and (for  *)
(*        the properties only) whether its creator is gone and which       *)
(*        processes have read this very file                               *)
(* seen   the pid a process read from the file, sawOld the age it stat'ed  *)
(* crashes, failures  SIGKILLs and failed writes so far                    *)
(* taken  some unlink by path has hit a lock whose creator, another        *)
(*        process, is not gone                                             *)
(***************************************************************************)
EXTENDS Naturals, FiniteSets

CONSTANTS Pid,          \* pids of the container
          MaxCrashes,   \* bound on processes killed without cleanup
          MaxFailures,  \* bound on failed writes of the lock's content
          ServerPid,    \* the pid of a collector that server.js gets after a
                        \* restart of the container, or NoPid
          NoPid, NoFile

File == [by : Pid, text : BOOLEAN, old : BOOLEAN, lost : BOOLEAN,
         readers : SUBSET Pid]

ASSUME ConstantsAssumption ==
  /\ MaxCrashes \in Nat /\ MaxFailures \in Nat
  /\ NoPid \notin Pid /\ NoFile \notin File /\ ServerPid \in Pid \cup {NoPid}

VARIABLES pc, file, seen, sawOld, crashes, failures, taken

vars == <<pc, file, seen, sawOld, crashes, failures, taken>>

Step == {"unborn", "stat", "read", "probe", "unlink", "open", "write", "held",
         "leaving", "gone", "server"}
NewFile(p) ==
  [by |-> p, text |-> FALSE, old |-> FALSE, lost |-> FALSE, readers |-> {}]

Alive(p)   == pc[p] \notin {"unborn", "gone"}
Holders    == {p \in Pid : pc[p] = "held"}
Goto(p, l) == pc' = [pc EXCEPT ![p] = l]

\* Unlinking the path removes whatever file is there now.
UnlinkPath(p) ==
  /\ file' = NoFile
  /\ taken' = (taken \/ (file # NoFile /\ file.by # p /\ ~file.lost))

\* The process ends and leaves a lock of its own behind.
Leave(p) ==
  /\ Goto(p, "gone")
  /\ file' = IF file # NoFile /\ file.by = p THEN [file EXCEPT !.lost = TRUE]
                                           ELSE file
  /\ seen' = [seen EXCEPT ![p] = NoPid] /\ sawOld' = [sawOld EXCEPT ![p] = FALSE]

Init ==
  /\ pc = [p \in Pid |-> "unborn"] /\ file = NoFile
  /\ seen = [p \in Pid |-> NoPid] /\ sawOld = [p \in Pid |-> FALSE]
  /\ crashes = 0 /\ failures = 0
  /\ taken = FALSE
-----------------------------------------------------------------------------
\* While the container runs the kernel hands out a pid again only long after
\* everyone has forgotten it.
Forgotten(p) ==
  /\ file # NoFile => file.by # p
  /\ \A q \in Pid : seen[q] # p

\* The collector is started by its timer or by hand.
Begin(p) ==
  /\ pc[p] = "unborn" \/ (pc[p] = "gone" /\ Forgotten(p))
  /\ Goto(p, "stat")
  /\ UNCHANGED <<file, seen, sawOld, crashes, failures, taken>>

\* pruneStaleLock(): statSync.  Without a file there is nothing to prune.
Stat(p) ==
  /\ pc[p] = "stat"
  /\ IF file = NoFile
       THEN Goto(p, "open") /\ UNCHANGED sawOld
       ELSE Goto(p, "read") /\ sawOld' = [sawOld EXCEPT ![p] = file.old]
  /\ UNCHANGED <<file, seen, crashes, failures, taken>>

\* Mutant: the content of the file is not reduced to its pid.
ReadContent(p) ==
  /\ pc[p] = "read" /\ Goto(p, "probe")
  /\ seen' = [seen EXCEPT ![p] = file]
  /\ UNCHANGED <<file, sawOld, crashes, failures, taken>>

\* readFileSync and parseLockPid: no pid in an empty or vanished file.
ReadPid(p) ==
  /\ pc[p] = "read" /\ Goto(p, "probe")
  /\ seen' = [seen EXCEPT ![p] =
                IF file # NoFile /\ file.text THEN file.by ELSE NoPid]
  /\ file' = IF file # NoFile THEN [file EXCEPT !.readers = @ \cup {p}] ELSE file
  /\ UNCHANGED <<sawOld, crashes, failures, taken>>

\* Mutant: staleness judged by age alone.
StaleByAge(p) == sawOld[p]

\* Mutant: a lock without a pid is never stale.
StaleByPid(p) == seen[p] # NoPid /\ (seen[p] = p \/ ~Alive(seen[p]))

Stale(p) ==
  IF seen[p] = NoPid THEN sawOld[p] ELSE seen[p] = p \/ ~Alive(seen[p])

\* pidIsAlive, then the decision.
Probe(p) ==
  /\ pc[p] = "probe" /\ Goto(p, IF Stale(p) THEN "unlink" ELSE "open")
  /\ seen' = [seen EXCEPT ![p] = IF Stale(p) THEN @ ELSE NoPid]
  /\ sawOld' = [sawOld EXCEPT ![p] = FALSE]
  /\ UNCHANGED <<file, crashes, failures, taken>>

PruneUnlink(p) ==
  /\ pc[p] = "unlink" /\ Goto(p, "open") /\ UnlinkPath(p)
  /\ seen' = [seen EXCEPT ![p] = NoPid]
  /\ UNCHANGED <<sawOld, crashes, failures>>

\* Mutant: openSync with "w" in place of "wx".
OpenAnyway(p) ==
  /\ pc[p] = "open" /\ Goto(p, "write")
  /\ file' = NewFile(p)
  /\ UNCHANGED <<seen, sawOld, crashes, failures, taken>>

\* openSync "wx" creates the file, or the process gives up when its waiting
\* time (waitMs, which may be 0) is over, or it sleeps and starts over.
Open(p) ==
  /\ pc[p] = "open"
  /\ \/ /\ file = NoFile /\ Goto(p, "write")
        /\ file' = NewFile(p)
        /\ UNCHANGED <<seen, sawOld>>
     \/ /\ file # NoFile /\ Leave(p)
     \/ /\ file # NoFile /\ Goto(p, "stat") /\ UNCHANGED <<file, seen, sawOld>>
  /\ UNCHANGED <<crashes, failures, taken>>

\* writeFileSync goes to the descriptor: it reaches the path only while the
\* file there is the one this process created.
Write(p) ==
  /\ pc[p] = "write" /\ Goto(p, "held")
  /\ file' = IF file # NoFile /\ file.by = p
               THEN [file EXCEPT !.text = TRUE] ELSE file
  /\ UNCHANGED <<seen, sawOld, crashes, failures, taken>>

\* The write fails: out of time, the process leaves and its empty file stays;
\* otherwise fd is set, the loop ends and the process holds an empty lock.
WriteFails(p) ==
  /\ pc[p] = "write" /\ failures < MaxFailures /\ failures' = failures + 1
  /\ \/ Leave(p)
     \/ Goto(p, "held") /\ UNCHANGED <<file, seen, sawOld>>
  /\ UNCHANGED <<crashes, taken>>

\* release(), by the collector or by its exit and signal handlers.
Release(p) ==
  /\ pc[p] = "held" /\ Goto(p, "leaving") /\ UnlinkPath(p)
  /\ UNCHANGED <<seen, sawOld, crashes, failures>>

Exit(p) ==
  /\ pc[p] = "leaving" /\ Leave(p)
  /\ UNCHANGED <<crashes, failures, taken>>
-----------------------------------------------------------------------------
\* No process stays between openSync and writeFileSync for maxAgeMs.
LockAges ==
  /\ file # NoFile /\ ~file.old /\ pc[file.by] # "write"
  /\ file' = [file EXCEPT !.old = TRUE]
  /\ UNCHANGED <<pc, seen, sawOld, crashes, failures, taken>>

Crash(p) ==
  /\ Alive(p) /\ crashes < MaxCrashes /\ crashes' = crashes + 1
  /\ pc[p] # "server" /\ Leave(p)
  /\ UNCHANGED <<failures, taken>>

\* The container is killed and started again: the lock survives on the data
\* volume and pids are handed out from the beginning.
Restart ==
  /\ crashes < MaxCrashes /\ crashes' = crashes + 1
  /\ pc' = [p \in Pid |-> IF p = ServerPid THEN "server" ELSE "unborn"]
  /\ file' = IF file # NoFile THEN [file EXCEPT !.lost = TRUE] ELSE file
  /\ seen' = [p \in Pid |-> NoPid] /\ sawOld' = [p \in Pid |-> FALSE]
  /\ UNCHANGED <<failures, taken>>

Acquire(p) ==
  Stat(p) \/ ReadPid(p) \/ Probe(p) \/ PruneUnlink(p) \/ Open(p) \/ Write(p)

Run(p) == Acquire(p) \/ Release(p) \/ Exit(p)

Next ==
  \/ \E p \in Pid : Begin(p) \/ Run(p) \/ WriteFails(p)
                    \/ Crash(p)
  \/ LockAges \/ Restart

Spec == Init /\ [][Next]_vars

\* The timers of run-with-collector.mjs start collectors for ever, a started
\* process runs, and clocks advance.  Nothing has to crash or to fail.
Fairness ==
  /\ \A p \in Pid : WF_vars(Begin(p)) /\ WF_vars(Run(p))
  /\ WF_vars(LockAges)

FairSpec == Spec /\ Fairness
-----------------------------------------------------------------------------
TypeOK ==
  /\ pc \in [Pid -> Step] /\ file \in File \cup {NoFile}
  /\ seen \in [Pid -> Pid \cup {NoPid}] /\ sawOld \in [Pid -> BOOLEAN]
  /\ crashes \in 0..MaxCrashes
  /\ failures \in 0..MaxFailures /\ taken \in BOOLEAN

(***************************************************************************)
(* "Collectors keep per-job locks to avoid duplicate runs and a short      *)
(* shared SQLite writer lock", says the operator runbook.                  *)
(***************************************************************************)
MutualExclusion == Cardinality(Holders) <= 1

(***************************************************************************)
(* Two collectors hold the lock only after an unlink by path has hit a     *)
(* file that was not the one its caller judged stale or had created: the   *)
(* exclusive open and the three looks of prune allow it in no other way.   *)
(***************************************************************************)
SharedOnlyAfterForeignUnlink == Cardinality(Holders) > 1 => taken

(***************************************************************************)
(* pruneStaleLock never removes the lock whose pid it read while the       *)
(* process of that pid is alive, whatever happens between its four calls;  *)
(* what it may remove is a lock that came later.                           *)
(***************************************************************************)
JudgedLockIsDead ==
  [][\A p \in Pid :
       /\ pc[p] = "unlink" /\ pc'[p] = "open"
       /\ file # NoFile /\ p \in file.readers /\ seen[p] \notin {p, NoPid}
       => file.lost]_vars

(***************************************************************************)
(* The lock of a process that is gone does not keep collectors out for     *)
(* ever, with or without its pid in it; unless, after a restart of the     *)
(* container, the web server has been given that very pid.                 *)
(***************************************************************************)
DeadLockRecovered ==
  /\ file # NoFile /\ file.lost
  /\ file.text => pc[file.by] # "server"
  ~> (file = NoFile \/ ~file.lost)
=============================================================================
