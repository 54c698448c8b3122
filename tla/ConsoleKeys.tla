---------------------------- MODULE ConsoleKeys ----------------------------
(***************************************************************************)
(* The migration of the router's SSH keys (console-router-keys.py): stage  *)
(* adds the operator's and the console's new keys, retire removes the old  *)
(* shared one and arms a rollback that a detached process performs 180     *)
(* seconds later unless confirm has left its marker.  There is no lock:    *)
(* the operator's command and the delayed rollbacks run beside each other, *)
(* each reading and writing the same files and the same NVRAM field.       *)
(*                                                                         *)
(* pc, op  the next step of the command and of each delayed rollback, and  *)
(*         what the command does                                           *)
(* held    the two key lists it has read, then those it installs           *)
(* handle  the file its open stream writes to: authorized_keys.pending,    *)
(*         authorized_keys once that has been renamed, or neither          *)
(* runtime what is in authorized_keys: the keys that dropbear accepts      *)
(* pending what is in authorized_keys.pending: {{...}}, or {} without it   *)
(* nvram, flash  the field sshd_authkeys as set and as committed, from     *)
(*         which the firmware writes authorized_keys at boot               *)
(* backup  before-retirement.json                                          *)
(* marker  retirement-confirmed exists                                     *)
(* commands, faults  how many commands were begun, how many processes were *)
(*         killed and reboots there have been                              *)
(* latest  the timer of the last retirement, until it fails or another     *)
(*         command is begun                                                *)
(* settled that retirement was confirmed while its timer slept, with no    *)
(*         other rollback under way and the old key already gone           *)
(* crossed a process has renamed a file that another one was writing       *)
(***************************************************************************)
EXTENDS Naturals, FiniteSets

CONSTANTS Old, Operator, Console, \* the key to retire and the two new ones
          Other,                  \* unrelated keys of the router
          Session,                \* the operator's command
          Timer,                  \* delayed rollbacks that can exist at once
          MaxCommands, MaxFaults, \* bounds on commands, on kills and reboots
          NoFile, NoTimer

Key      == {Old, Operator, Console} \cup Other
Proc     == {Session} \cup Timer
Snapshot == [runtime : SUBSET Key, persistent : SUBSET Key]

ASSUME KeysAssumption ==
  /\ Old \notin {Operator, Console} \cup Other /\ Operator # Console
  /\ Session \notin Timer /\ NoTimer \notin Timer
  /\ {MaxCommands, MaxFaults} \subseteq Nat
  /\ NoFile \notin Snapshot

VARIABLES pc, op, held, handle, runtime, pending, nvram, flash, backup, marker,
          commands, faults, latest, settled, crossed

procVars == <<pc, op, held, handle>>
keyVars  == <<runtime, pending, nvram, flash>>
fileVars == <<backup, marker>>
counts   == <<commands, faults>>
ghosts   == <<latest, settled, crossed>>
vars     == <<procVars, keyVars, fileVars, counts, ghosts>>

Step == {"idle", "readRuntime", "readNvram", "backup", "unmark", "arm", "sleep",
         "readBackup", "set", "commit", "open", "write", "rename"}

Nothing == [runtime |-> {}, persistent |-> {}]

Goto(p, s) == pc' = [pc EXCEPT ![p] = s]

Ends(p) ==
  /\ Goto(p, "idle") /\ held' = [held EXCEPT ![p] = Nothing]
  /\ op' = IF p = Session THEN "none" ELSE op

Init ==
  /\ pc = [p \in Proc |-> "idle"] /\ op = "none"
  /\ held = [p \in Proc |-> Nothing] /\ handle = [p \in Proc |-> "none"]
  /\ runtime = {Old} \cup Other /\ nvram = runtime /\ flash = runtime
  /\ pending = {}
  /\ backup = NoFile /\ marker = FALSE
  /\ commands = 0 /\ faults = 0
  /\ latest = NoTimer /\ settled = FALSE /\ crossed = FALSE
-----------------------------------------------------------------------------
\* The operator runs one phase of the migration at a time.
Begin(o) ==
  /\ pc[Session] = "idle" /\ op' = o
  /\ commands < MaxCommands /\ commands' = commands + 1
  /\ Goto(Session, IF o = "rollback" THEN "readBackup" ELSE "readRuntime")
  /\ latest' = NoTimer /\ settled' = (settled /\ o = "stage")
  /\ UNCHANGED <<held, handle, keyVars, fileVars, faults, crossed>>

ReadRuntime ==
  /\ pc[Session] = "readRuntime" /\ Goto(Session, "readNvram")
  /\ held' = [held EXCEPT ![Session].runtime = runtime]
  /\ UNCHANGED <<op, handle, keyVars, fileVars, counts, ghosts>>

\* retire has nothing to do when neither list has the key.
ReadNvram ==
  /\ pc[Session] = "readNvram"
  /\ IF op = "retire" /\ Old \notin held[Session].runtime \cup nvram
       THEN Ends(Session)
       ELSE /\ Goto(Session, "backup") /\ UNCHANGED op
            /\ held' = [held EXCEPT ![Session].persistent = nvram]
  /\ UNCHANGED <<handle, keyVars, fileVars, counts, ghosts>>

\* Mutant: a revision that relies on the new keys having been staged.
RevisedStaged(s) ==
  LET keys == s.runtime \cup s.persistent
  IN  IF op = "retire" THEN keys \ {Old} ELSE keys

\* revise(): both lists together, with the new keys and without the old one
\* when it is to be retired.
Revised(s) ==
  LET keys == s.runtime \cup s.persistent \cup {Operator, Console}
  IN  IF op = "retire" THEN keys \ {Old} ELSE keys

\* Mutant: a snapshot taken of the lists already revised.
BackupRevised ==
  /\ pc[Session] = "backup"
  /\ LET keys == Revised(held[Session])
         new  == [runtime |-> keys, persistent |-> keys]
     IN  /\ backup' = IF op = "retire" THEN new ELSE backup
         /\ held' = [held EXCEPT ![Session] = new]
  /\ Goto(Session, IF op = "retire" THEN "unmark" ELSE "set")
  /\ UNCHANGED <<op, handle, keyVars, marker, counts, ghosts>>

\* A retirement overwrites the snapshot of an earlier one.  Nothing reads the
\* one that staging keeps, before-staging.json.
Backup ==
  /\ pc[Session] = "backup"
  /\ backup' = IF op = "retire" THEN held[Session] ELSE backup
  /\ LET keys == Revised(held[Session])
     IN  held' = [held EXCEPT ![Session] = [runtime |-> keys, persistent |-> keys]]
  /\ Goto(Session, IF op = "retire" THEN "unmark" ELSE "set")
  /\ UNCHANGED <<op, handle, keyVars, marker, counts, ghosts>>

Unmark ==
  /\ pc[Session] = "unmark" /\ Goto(Session, "arm") /\ marker' = FALSE
  /\ UNCHANGED <<op, held, handle, keyVars, backup, counts, ghosts>>

Arm ==
  /\ pc[Session] = "arm"
  /\ \E t \in Timer :
       /\ pc[t] = "idle" /\ pc' = [pc EXCEPT ![Session] = "set", ![t] = "sleep"]
       /\ latest' = t
  /\ UNCHANGED <<op, held, handle, keyVars, fileVars, counts, settled, crossed>>

Confirm ==
  /\ pc[Session] = "idle" /\ marker' = TRUE
  /\ settled' = (settled \/ (/\ latest # NoTimer /\ pc[latest] = "sleep"
                             /\ \A t \in Timer \ {latest} : pc[t] = "idle"
                             /\ Old \notin runtime \cup nvram \cup flash))
  /\ UNCHANGED <<procVars, keyVars, backup, counts, latest, crossed>>
-----------------------------------------------------------------------------
\* Mutant: a delayed rollback that looks for no marker.
WakeUnasked(t) ==
  /\ pc[t] = "sleep" /\ (latest = t /\ op = "retire" => pc[Session] = "idle")
  /\ Goto(t, "readBackup")
  /\ UNCHANGED <<op, held, handle, keyVars, fileVars, counts, ghosts>>

\* A delayed rollback looks for the marker once, when its time is over: the 180
\* seconds outlast the rest of the command that armed it.
Wake(t) ==
  /\ pc[t] = "sleep" /\ (latest = t /\ op = "retire" => pc[Session] = "idle")
  /\ IF marker THEN Ends(t) ELSE Goto(t, "readBackup") /\ UNCHANGED <<op, held>>
  /\ UNCHANGED <<handle, keyVars, fileVars, counts, ghosts>>

\* Mutant: a rollback that does not fail without a snapshot.
ReadBackupUnchecked(p) ==
  /\ pc[p] = "readBackup" /\ Goto(p, "set") /\ held' = [held EXCEPT ![p] = backup]
  /\ UNCHANGED <<op, handle, keyVars, fileVars, counts, ghosts>>

ReadBackup(p) ==
  /\ pc[p] = "readBackup"
  /\ IF backup = NoFile
       THEN Ends(p)
       ELSE /\ Goto(p, "set") /\ UNCHANGED op
            /\ held' = [held EXCEPT ![p] = backup]
  /\ UNCHANGED <<handle, keyVars, fileVars, counts, ghosts>>

\* apply(): nvram set, nvram commit, and authorized_keys replaced through a
\* file whose name all processes share.
Set(p) ==
  /\ pc[p] = "set" /\ Goto(p, "commit") /\ nvram' = held[p].persistent
  /\ UNCHANGED <<op, held, handle, runtime, pending, flash, fileVars, counts, ghosts>>

Commit(p) ==
  /\ pc[p] = "commit" /\ Goto(p, "open") /\ flash' = nvram
  /\ UNCHANGED <<op, held, handle, runtime, pending, nvram, fileVars, counts, ghosts>>

Open(p) ==
  /\ pc[p] = "open" /\ Goto(p, "write") /\ pending' = {{}}
  /\ handle' = [handle EXCEPT ![p] = "pending"]
  /\ UNCHANGED <<op, held, runtime, nvram, flash, fileVars, counts, ghosts>>

\* The text goes to the start of the file, over what another process has put
\* there; the end of a longer one stays.
Write(p) ==
  /\ pc[p] = "write" /\ Goto(p, "rename")
  /\ \E rest \in SUBSET Key :
       /\ rest \subseteq CASE handle[p] = "pending" -> UNION pending
                         [] handle[p] = "live"    -> runtime
                         [] OTHER                 -> {}
       /\ LET keys == held[p].runtime \cup rest
          IN  /\ pending' = IF handle[p] = "pending" THEN {keys} ELSE pending
              /\ runtime' = IF handle[p] = "live" THEN keys ELSE runtime
  /\ handle' = [handle EXCEPT ![p] = "none"]
  /\ UNCHANGED <<op, held, nvram, flash, fileVars, counts, ghosts>>

\* Whoever still writes to the file writes to authorized_keys from now on.  A
\* process whose file was renamed by another one fails here.
Rename(p) ==
  /\ pc[p] = "rename" /\ Ends(p)
  /\ IF pending = {}
       THEN /\ UNCHANGED <<runtime, pending, handle, crossed>>
            /\ latest' = IF p = Session /\ op = "retire" THEN NoTimer ELSE latest
       ELSE /\ runtime' \in pending /\ pending' = {} /\ UNCHANGED latest
            /\ crossed' = (\/ crossed \/ pending # {held[p].runtime}
                           \/ \E q \in Proc : handle[q] = "pending")
            /\ handle' = [q \in Proc |->
                 CASE handle[q] = "pending" -> "live"
                   [] handle[q] = "live"    -> "stale"
                   [] OTHER                 -> handle[q]]
  /\ UNCHANGED <<nvram, flash, fileVars, counts, settled>>

Roll(p) == ReadBackup(p) \/ Set(p) \/ Commit(p) \/ Open(p) \/ Write(p) \/ Rename(p)
-----------------------------------------------------------------------------
Hit == faults < MaxFaults /\ faults' = faults + 1

\* A command fails or a process is killed before its next step.
Kill(p) ==
  /\ Hit /\ pc[p] # "idle" /\ Ends(p)
  /\ handle' = [handle EXCEPT ![p] = "none"]
  /\ latest' = IF p \in {Session, latest} THEN NoTimer ELSE latest
  /\ UNCHANGED <<keyVars, fileVars, commands, settled, crossed>>

\* The router's root file system is in memory; /jffs and NVRAM are not.
Reboot ==
  /\ Hit /\ pc' = [p \in Proc |-> "idle"]
  /\ op' = "none" /\ held' = [p \in Proc |-> Nothing]
  /\ handle' = [p \in Proc |-> "none"]
  /\ runtime' = flash /\ nvram' = flash /\ pending' = {} /\ latest' = NoTimer
  /\ UNCHANGED <<flash, fileVars, commands, settled, crossed>>

Command ==
  ReadRuntime \/ ReadNvram \/ Backup \/ Unmark \/ Arm \/ Roll(Session)

Delayed(t) == Wake(t) \/ Roll(t)

Next ==
  \/ \E o \in {"stage", "retire", "rollback"} : Begin(o)
  \/ Confirm \/ Command
  \/ \E t \in Timer : Delayed(t)
  \/ \E p \in Proc : Kill(p)
  \/ Reboot

Spec == Init /\ [][Next]_vars

\* A started process goes on; nobody has to begin anything, or to confirm it.
Fairness == WF_vars(Command) /\ \A t \in Timer : WF_vars(Delayed(t))

FairSpec == Spec /\ Fairness
-----------------------------------------------------------------------------
TypeOK ==
  /\ pc \in [Proc -> Step] /\ op \in {"none", "stage", "retire", "rollback"}
  /\ held \in [Proc -> Snapshot]
  /\ handle \in [Proc -> {"none", "pending", "live", "stale"}]
  /\ runtime \subseteq Key /\ nvram \subseteq Key /\ flash \subseteq Key
  /\ pending \subseteq SUBSET Key
  /\ backup \in Snapshot \cup {NoFile}
  /\ marker \in BOOLEAN /\ commands \in 0..MaxCommands /\ faults \in 0..MaxFaults
  /\ latest \in Timer \cup {NoTimer} /\ settled \in BOOLEAN /\ crossed \in BOOLEAN

Keeps(keys) == {Old, Operator} \cap keys # {} /\ Other \subseteq keys

(***************************************************************************)
(* However commands, delayed rollbacks, kills and reboots interleave, the  *)
(* next boot installs a key the operator can log in with and every         *)
(* unrelated one; authorized_keys has them too as long as no process has   *)
(* renamed the file another one was writing, since both use one name.      *)
(***************************************************************************)
AccessKept == Keeps(flash) /\ Keeps(nvram) /\ (crossed \/ Keeps(runtime))

(***************************************************************************)
(* A retirement confirmed in time, with no older rollback about and the    *)
(* old key gone, is final: neither its timer nor a reboot or a staging     *)
(* brings the key back, until the operator retires or rolls back again.    *)
(***************************************************************************)
ConfirmedStays == settled => Old \notin runtime \cup nvram \cup flash

(***************************************************************************)
(* A finished retirement that is left alone with its timer is undone: both *)
(* lists are the ones it found, the old key in one of them, unless someone *)
(* confirms it, kills the timer, reboots or begins another command.        *)
(***************************************************************************)
Waiting ==
  /\ latest # NoTimer /\ pc[latest] = "sleep" /\ ~marker
  /\ \A p \in Proc \ {latest} : pc[p] = "idle"

Undone ==
  /\ [runtime |-> runtime, persistent |-> flash] = backup
  /\ Old \in runtime \cup flash

UnconfirmedIsUndone == Waiting ~> marker \/ latest = NoTimer \/ Undone

(***************************************************************************)
(* "Confirm fresh primary/backup sessions, then run `confirm` before the   *)
(* timer expires" (console-router-ssh-access.md): a retirement confirmed   *)
(* in time, while nothing else is running, has the old key gone.           *)
(***************************************************************************)
ConfirmInTime ==
  [][/\ ~marker /\ marker' /\ latest # NoTimer /\ pc[latest] = "sleep"
     /\ \A p \in Proc : pc[p] \in {"idle", "sleep"}
     => Old \notin runtime \cup flash]_vars
=============================================================================
