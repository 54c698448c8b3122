------------------------- MODULE ConsoleKeys_proofs -------------------------
(***************************************************************************)
(* Proofs about the migration of the router's SSH keys, for any number of  *)
(* delayed rollbacks, commands, kills and reboots and any set of unrelated *)
(* keys.                                                                   *)
(***************************************************************************)
EXTENDS ConsoleKeys, TLAPS

\* Every list that may be written to NVRAM keeps access, and so does every one
\* that may become authorized_keys until a file has been crossed; a stream
\* writes to a renamed file only after that.
Safe(keys) == crossed \/ Keeps(keys)

ListsKept ==
  /\ Keeps(flash) /\ Keeps(nvram) /\ Safe(runtime)
  /\ backup # NoFile => Keeps(backup.persistent) /\ Safe(backup.runtime)
  /\ pc[Session] = "readNvram" => Safe(held[Session].runtime)
  /\ \A p \in Proc :
       /\ pc[p] \in {"backup", "unmark", "arm", "set"} =>
            Keeps(held[p].persistent) /\ Safe(held[p].runtime)
       /\ pc[p] \in {"commit", "open", "write", "rename"} => Safe(held[p].runtime)
       /\ handle[p] = "live" => crossed

IInv == TypeOK /\ ListsKept

LEMMA InitIInv == Init => IInv
<1> SUFFICES ASSUME Init PROVE IInv
  OBVIOUS
<1>1. Keeps({Old} \cup Other)
  BY DEF Keeps
<1>2. TypeOK
  <2>1. Nothing \in Snapshot
    BY DEF Nothing, Snapshot
  <2>2. {Old} \cup Other \in SUBSET Key
    BY DEF Key
  <2>3. 0 \in 0..MaxCommands /\ 0 \in 0..MaxFaults
    BY KeysAssumption
  <2> QED BY <2>1, <2>2, <2>3 DEF Init, TypeOK, Step
<1>3. ListsKept
  BY <1>1 DEF Init, ListsKept, Safe, Proc
<1> QED BY <1>2, <1>3 DEF IInv

\* What a revision writes has the operator's new key and every unrelated one.
LEMMA RevisedKeeps ==
  ASSUME NEW s \in Snapshot, Keeps(s.persistent)
  PROVE  Revised(s) \in SUBSET Key /\ Keeps(Revised(s))
BY KeysAssumption DEF Revised, Keeps, Snapshot, Key

LEMMA TypeNext == TypeOK /\ [Next]_vars => TypeOK'
<1> SUFFICES ASSUME TypeOK, [Next]_vars PROVE TypeOK'
  OBVIOUS
<1> USE KeysAssumption DEF TypeOK, Goto, counts, ghosts, keyVars, fileVars, procVars
<1> USE DEF Proc, Step, Snapshot
<1>0. Nothing \in Snapshot /\ Session \in Proc /\ Timer \subseteq Proc
  BY DEF Nothing
<1>1. ASSUME NEW o \in {"stage", "retire", "rollback"}, Begin(o) PROVE TypeOK'
  BY <1>1 DEF Begin
<1>2. CASE ReadRuntime
  BY <1>2 DEF ReadRuntime
<1>3. CASE ReadNvram
  BY <1>0, <1>3 DEF ReadNvram, Ends
<1>4. CASE Backup
  <2>1. Revised(held[Session]) \in SUBSET Key
    BY DEF Revised, Key
  <2> QED BY <1>4, <2>1 DEF Backup
<1>5. CASE Unmark
  BY <1>5 DEF Unmark
<1>6. CASE Arm
  BY <1>6 DEF Arm
<1>7. CASE Confirm
  BY <1>7 DEF Confirm
<1>8. ASSUME NEW t \in Timer, Wake(t) PROVE TypeOK'
  BY <1>0, <1>8 DEF Wake, Ends
<1>9. ASSUME NEW p \in Proc, Roll(p) PROVE TypeOK'
  <2>1. CASE ReadBackup(p)
    BY <1>0, <2>1 DEF ReadBackup, Ends
  <2>2. CASE Set(p)
    BY <2>2 DEF Set
  <2>3. CASE Commit(p)
    BY <2>3 DEF Commit
  <2>4. CASE Open(p)
    BY <2>4 DEF Open
  <2>5. CASE Write(p)
    BY <2>5 DEF Write
  <2>6. CASE Rename(p)
    <3>1. pc' \in [Proc -> Step] /\ held' \in [Proc -> Snapshot]
      BY <1>0, <2>6 DEF Rename, Ends
    <3>2. /\ op' \in {"none", "stage", "retire", "rollback"}
          /\ UNCHANGED <<nvram, flash, backup, marker, commands, faults, settled>>
      BY <2>6 DEF Rename, Ends
    <3>3. runtime' \subseteq Key /\ pending' \subseteq SUBSET Key
      BY <2>6 DEF Rename
    <3>4. crossed' \in BOOLEAN /\ latest' \in Timer \cup {NoTimer}
      BY <2>6 DEF Rename
    <3>5. handle' \in [Proc -> {"none", "pending", "live", "stale"}]
      <4>1. CASE pending = {}
        BY <2>6, <4>1 DEF Rename
      <4>2. CASE pending # {}
        <5>1. ASSUME NEW q \in Proc
              PROVE  (CASE handle[q] = "pending" -> "live"
                        [] handle[q] = "live"    -> "stale"
                        [] OTHER                 -> handle[q])
                     \in {"none", "pending", "live", "stale"}
          BY <5>1, handle[q] \in {"none", "pending", "live", "stale"}
        <5> QED BY <2>6, <4>2, <5>1 DEF Rename
      <4> QED BY <4>1, <4>2
    <3> QED BY <3>1, <3>2, <3>3, <3>4, <3>5
  <2> QED BY <1>9, <2>1, <2>2, <2>3, <2>4, <2>5, <2>6 DEF Roll
<1>10. ASSUME NEW p \in Proc, Kill(p) PROVE TypeOK'
  BY <1>0, <1>10 DEF Kill, Hit, Ends
<1>11. CASE Reboot
  BY <1>0, <1>11 DEF Reboot, Hit
<1>12. CASE UNCHANGED vars
  BY <1>12 DEF vars
<1>13. CASE Command
  BY <1>0, <1>2, <1>3, <1>4, <1>5, <1>6, <1>9, <1>13 DEF Command
<1>14. ASSUME NEW t \in Timer, Delayed(t) PROVE TypeOK'
  BY <1>0, <1>8, <1>9, <1>14 DEF Delayed
<1> QED BY <1>1, <1>7, <1>10, <1>11, <1>12, <1>13, <1>14 DEF Next

LEMMA ListsNext == IInv /\ [Next]_vars => ListsKept'
<1> SUFFICES ASSUME TypeOK, ListsKept, [Next]_vars PROVE ListsKept'
  BY DEF IInv
<1> USE KeysAssumption DEF ListsKept, Safe, Goto, counts, ghosts, keyVars, fileVars,
        procVars, Proc
<1>0. /\ pc \in [Proc -> Step] /\ held \in [Proc -> Snapshot]
      /\ handle \in [Proc -> {"none", "pending", "live", "stale"}]
      /\ Session \in Proc /\ Timer \subseteq Proc
  BY DEF TypeOK
<1>1. ASSUME NEW o \in {"stage", "retire", "rollback"}, Begin(o) PROVE ListsKept'
  BY <1>0, <1>1 DEF Begin
<1>2. CASE ReadRuntime
  BY <1>0, <1>2 DEF ReadRuntime, Snapshot
<1>3. CASE ReadNvram
  BY <1>0, <1>3 DEF ReadNvram, Ends, Snapshot
<1>4. CASE Backup
  <2>1. Keeps(Revised(held[Session]))
    BY <1>0, <1>4, RevisedKeeps DEF Backup
  <2>2. Keeps(held[Session].persistent) /\ Safe(held[Session].runtime)
    BY <1>0, <1>4 DEF Backup
  <2>3. /\ pc'[Session] \in {"unmark", "set"}
        /\ Keeps(held'[Session].persistent) /\ Keeps(held'[Session].runtime)
    BY <1>0, <1>4, <2>1 DEF Backup
  <2>4. \A q \in Proc \ {Session} : pc'[q] = pc[q] /\ held'[q] = held[q]
    BY <1>0, <1>4 DEF Backup
  <2>5. /\ flash' = flash /\ nvram' = nvram /\ runtime' = runtime
        /\ handle' = handle /\ (crossed => crossed')
    BY <1>4 DEF Backup
  <2>6. backup' = backup \/ backup' = held[Session]
    BY <1>4 DEF Backup
  <2> QED BY <1>0, <2>2, <2>3, <2>4, <2>5, <2>6
<1>5. CASE Unmark
  BY <1>0, <1>5 DEF Unmark
<1>6. CASE Arm
  BY <1>0, <1>6 DEF Arm
<1>7. CASE Confirm
  BY <1>0, <1>7 DEF Confirm
<1>8. ASSUME NEW t \in Timer, Wake(t) PROVE ListsKept'
  BY <1>0, <1>8 DEF Wake, Ends
<1>9. ASSUME NEW p \in Proc, Roll(p) PROVE ListsKept'
  <2>1. CASE ReadBackup(p)
    BY <1>0, <2>1 DEF ReadBackup, Ends
  <2>2. CASE Set(p)
    BY <1>0, <2>2 DEF Set
  <2>3. CASE Commit(p)
    BY <1>0, <2>3 DEF Commit
  <2>4. CASE Open(p)
    BY <1>0, <2>4 DEF Open
  <2>5. CASE Write(p)
    BY <1>0, <2>5 DEF Write
  <2>6. CASE Rename(p)
    <3>1. CASE pending = {}
      BY <1>0, <2>6, <3>1 DEF Rename, Ends
    <3>2. CASE pending # {}
      <4>1. crossed => crossed'
        BY <2>6, <3>2 DEF Rename
      <4>2. crossed' \/ runtime' = held[p].runtime
        BY <2>6, <3>2 DEF Rename
      <4>3. \A q \in Proc : handle'[q] = "live" => crossed'
        BY <2>6, <3>2 DEF Rename
      <4>4. \A q \in Proc \ {p} : pc'[q] = pc[q] /\ held'[q] = held[q]
        BY <1>0, <2>6 DEF Rename, Ends
      <4>5. pc'[p] = "idle" /\ UNCHANGED <<flash, nvram, backup>>
        BY <1>0, <2>6 DEF Rename, Ends
      <4>6. pc[p] = "rename"
        BY <2>6 DEF Rename
      <4> QED BY <1>0, <4>1, <4>2, <4>3, <4>4, <4>5, <4>6
    <3> QED BY <3>1, <3>2
  <2> QED BY <1>9, <2>1, <2>2, <2>3, <2>4, <2>5, <2>6 DEF Roll
<1>10. ASSUME NEW p \in Proc, Kill(p) PROVE ListsKept'
  BY <1>0, <1>10 DEF Kill, Ends
<1>11. CASE Reboot
  BY <1>0, <1>11 DEF Reboot
<1>12. CASE UNCHANGED vars
  BY <1>12 DEF vars
<1>13. CASE Command
  BY <1>0, <1>2, <1>3, <1>4, <1>5, <1>6, <1>9, <1>13 DEF Command
<1>14. ASSUME NEW t \in Timer, Delayed(t) PROVE ListsKept'
  BY <1>0, <1>8, <1>9, <1>14 DEF Delayed
<1> QED BY <1>1, <1>7, <1>10, <1>11, <1>12, <1>13, <1>14 DEF Next

(***************************************************************************)
(* The inductive invariant: whatever list a process is going to write, and *)
(* the snapshot that a rollback would write, keep access as well.          *)
(***************************************************************************)
THEOREM KeysInvariance == Spec => []IInv
<1>1. IInv /\ [Next]_vars => IInv'
  BY TypeNext, ListsNext DEF IInv
<1> QED BY <1>1, InitIInv, PTL DEF Spec

(***************************************************************************)
(* The variables keep their types (the files and lists of                  *)
(* console-router-keys.py).                                                *)
(***************************************************************************)
THEOREM KeysTypeCorrect == Spec => []TypeOK
<1>1. IInv => TypeOK
  BY DEF IInv
<1> QED BY <1>1, KeysInvariance, PTL

(***************************************************************************)
(* The next boot always installs a key the operator can log in with and    *)
(* every unrelated one, and authorized_keys has them unless a process has  *)
(* renamed the file another one was writing: apply() and atomic() of any   *)
(* number of overlapping rollbacks and commands, killed anywhere.          *)
(***************************************************************************)
THEOREM AccessIsKept == Spec => []AccessKept
<1>1. IInv => AccessKept
  BY DEF IInv, ListsKept, Safe, AccessKept
<1> QED BY <1>1, KeysInvariance, PTL

-----------------------------------------------------------------------------
\* After a confirmation in time every delayed rollback sleeps or has ended, the
\* marker stays, and a staging reads and writes only lists without the old key.
StagesOnly ==
  /\ pc[Session] \in {"idle", "readRuntime", "readNvram", "backup", "set",
                      "commit", "open", "write", "rename"}
  /\ pc[Session] # "idle" => op = "stage"
  /\ handle[Session] # "live"
  /\ pc[Session] = "readNvram" => Old \notin held[Session].runtime
  /\ pc[Session] \in {"backup", "set", "commit", "open", "write", "rename"} =>
       Old \notin held[Session].runtime \cup held[Session].persistent
  /\ pc[Session] \in {"write", "rename"} => \A keys \in pending : Old \notin keys

WriterOpen == \A p \in Proc : handle[p] # "none" => pc[p] = "write"

Retired ==
  settled => /\ marker /\ Old \notin runtime \cup nvram \cup flash
             /\ \A t \in Timer : pc[t] \in {"idle", "sleep"}
             /\ StagesOnly

FInv == TypeOK /\ WriterOpen /\ Retired

LEMMA InitFInv == Init => FInv
<1> SUFFICES ASSUME Init PROVE FInv
  OBVIOUS
<1>1. TypeOK
  BY InitIInv DEF IInv
<1> QED BY <1>1 DEF Init, FInv, WriterOpen, Retired

LEMMA WriterNext == TypeOK /\ WriterOpen /\ [Next]_vars => WriterOpen'
<1> SUFFICES ASSUME TypeOK, WriterOpen, [Next]_vars PROVE WriterOpen'
  OBVIOUS
<1> USE KeysAssumption DEF WriterOpen, Goto, Proc
<1>0. /\ pc \in [Proc -> Step] /\ Session \in Proc /\ Timer \subseteq Proc
      /\ handle \in [Proc -> {"none", "pending", "live", "stale"}]
  BY DEF TypeOK
<1>1. ASSUME NEW o \in {"stage", "retire", "rollback"}, Begin(o) PROVE WriterOpen'
  BY <1>0, <1>1 DEF Begin
<1>2. CASE ReadRuntime \/ ReadNvram \/ Backup \/ Unmark \/ Arm
  BY <1>0, <1>2 DEF ReadRuntime, ReadNvram, Backup, Unmark, Arm, Ends
<1>3. CASE Confirm
  BY <1>3 DEF Confirm, procVars
<1>4. ASSUME NEW t \in Timer, Wake(t) PROVE WriterOpen'
  BY <1>0, <1>4 DEF Wake, Ends
<1>5. ASSUME NEW p \in Proc, Roll(p) PROVE WriterOpen'
  <2>1. CASE ReadBackup(p) \/ Set(p) \/ Commit(p)
    BY <1>0, <2>1 DEF ReadBackup, Set, Commit, Ends
  <2>2. CASE Open(p)
    BY <1>0, <2>2 DEF Open
  <2>3. CASE Write(p)
    BY <1>0, <2>3 DEF Write
  <2>4. CASE Rename(p)
    <3>1. \A q \in Proc \ {p} : pc'[q] = pc[q]
      BY <1>0, <2>4 DEF Rename, Ends
    <3>2. handle[p] = "none"
      BY <2>4 DEF Rename
    <3>3. \A q \in Proc : handle[q] = "none" => handle'[q] = "none"
      BY <2>4 DEF Rename
    <3> QED BY <3>1, <3>2, <3>3
  <2> QED BY <1>5, <2>1, <2>2, <2>3, <2>4 DEF Roll
<1>6. ASSUME NEW p \in Proc, Kill(p) PROVE WriterOpen'
  BY <1>0, <1>6 DEF Kill, Ends
<1>7. CASE Reboot
  BY <1>7 DEF Reboot
<1>8. CASE UNCHANGED vars
  BY <1>8 DEF vars, procVars
<1> QED BY <1>0, <1>1, <1>2, <1>3, <1>4, <1>5, <1>6, <1>7, <1>8 DEF Next, Command, Delayed

LEMMA RetiredNext == FInv /\ [Next]_vars => Retired'
<1> SUFFICES ASSUME FInv, [Next]_vars, settled' PROVE Retired'
  BY DEF Retired
<1>0. /\ pc \in [Proc -> Step] /\ held \in [Proc -> Snapshot] /\ Session \notin Timer
      /\ handle \in [Proc -> {"none", "pending", "live", "stale"}]
      /\ Session \in Proc /\ Timer \subseteq Proc
  BY KeysAssumption DEF FInv, TypeOK, Proc
<1>1. CASE Confirm /\ ~settled
  BY <1>0, <1>1 DEF Confirm, FInv, WriterOpen, Retired, StagesOnly, procVars, keyVars
<1>2. CASE settled
  <2> USE <1>0, <1>2 DEF FInv, Retired, StagesOnly, Goto, keyVars, fileVars, ghosts,
          counts, procVars
  <2>1. ASSUME NEW o \in {"stage", "retire", "rollback"}, Begin(o) PROVE Retired'
    BY <2>1 DEF Begin, WriterOpen
  <2>2. CASE ReadRuntime
    BY <2>2 DEF ReadRuntime, Snapshot
  <2>3. CASE ReadNvram
    BY <2>3 DEF ReadNvram, Ends, Snapshot
  <2>4. CASE Backup
    <3>1. Old \notin Revised(held[Session])
      BY <2>4, KeysAssumption DEF Backup, Revised
    <3> QED BY <2>4, <3>1 DEF Backup
  <2>5. CASE Confirm
    BY <2>5 DEF Confirm
  <2>6. ASSUME NEW t \in Timer, Wake(t) PROVE Retired'
    BY <2>6 DEF Wake, Ends
  <2>7. CASE Set(Session) \/ Commit(Session) \/ Open(Session)
    BY <2>7 DEF Set, Commit, Open
  <2>8. CASE Write(Session)
    BY <2>8 DEF Write
  <2>9. CASE Rename(Session)
    <3>1. pc' = [pc EXCEPT ![Session] = "idle"] /\ UNCHANGED <<nvram, flash, marker>>
      BY <2>9 DEF Rename, Ends
    <3>2. Old \notin runtime'
      BY <2>9 DEF Rename
    <3>3. handle[Session] = "none"
      BY <2>9 DEF Rename, WriterOpen
    <3>4. handle'[Session] = "none"
      BY <2>9, <3>3 DEF Rename
    <3> QED BY <3>1, <3>2, <3>4
  <2>10. ASSUME NEW p \in Proc, Kill(p) PROVE Retired'
    BY <2>10 DEF Kill, Ends, Proc
  <2>11. CASE Reboot
    BY <2>11 DEF Reboot
  <2>12. CASE UNCHANGED vars
    BY <2>12 DEF vars
  <2>13. ~Unmark /\ ~Arm /\ ~ReadBackup(Session) /\ \A t \in Timer : ~Roll(t)
    BY DEF Unmark, Arm, Roll, ReadBackup, Set, Commit, Open, Write, Rename
  <2> QED BY <2>1, <2>2, <2>3, <2>4, <2>5, <2>6, <2>7, <2>8, <2>9, <2>10, <2>11, <2>12,
             <2>13 DEF Next, Command, Delayed, Roll
<1>3. CASE ~settled /\ ~Confirm
  <2>1. ~settled'
    BY <1>3 DEF Next, Begin, Command, Delayed, Roll, ReadRuntime, ReadNvram, Backup,
         Unmark, Arm, Wake, ReadBackup, Set, Commit, Open, Write, Rename, Kill,
         Reboot, vars, ghosts
  <2> QED BY <2>1
<1> QED BY <1>1, <1>2, <1>3

(***************************************************************************)
(* A retirement confirmed in time is final: no delayed rollback, staging,  *)
(* kill or reboot brings the old key back, because the marker stays and    *)
(* only a retirement removes it (lines 94-96 and 114).                     *)
(***************************************************************************)
THEOREM ConfirmationIsFinal == Spec => []ConfirmedStays
<1>1. FInv /\ [Next]_vars => FInv'
  BY TypeNext, WriterNext, RetiredNext DEF FInv
<1>2. FInv => ConfirmedStays
  BY DEF FInv, Retired, ConfirmedStays
<1> QED BY <1>1, <1>2, InitFInv, PTL DEF Spec
=============================================================================
