------------------------------ MODULE AmnPeers ------------------------------
(***************************************************************************)
(* sync-peers of the Amn controller (router/channel-amn.py:138-181), which *)
(* adds clients to the running engine, together with the rest of the       *)
(* controller (ChannelAmn), whose flock it holds.  The additions are sent  *)
(* to the engine, read back and recorded in owned.json; an exception on    *)
(* the way takes them out of the engine again and restores settings.json.  *)
(* Each of the three requests may fail with any part of it done, the       *)
(* invocation may be killed between any two steps, and the engine may die. *)
(* A client is its name, keys and address; the server's own identity,      *)
(* which sync-peers compares too, does not change.                         *)
(*                                                                         *)
(* staged     the clients of settings.json, which the playbook puts there  *)
(*            and, after a failure, takes back                             *)
(* recorded   the clients of owned.json while there is one                 *)
(* served     the clients the engine knows                                 *)
(* sync       the next step of sync-peers                                  *)
(* wanted     the settings the invocation has loaded; additions: those of  *)
(*            them that the engine did not know                            *)
(* broken     a sync was killed, or its undoing failed, after it may have  *)
(*            added clients; until a sync or a start completes             *)
(***************************************************************************)
EXTENDS ChannelAmn

CONSTANTS Peer,   \* the clients of the operator's bundle, which only grows
          First   \* those of them the lab was first installed with
ASSUME PeersAssumption == First # {} /\ First \subseteq Peer

VARIABLES staged, recorded, served, sync, wanted, additions, broken

syncVars  == <<sync, wanted, additions>>
peerVars  == <<staged, recorded, served, syncVars, broken>>
allVars   == <<vars, peerVars>>

PeersInit ==
  /\ Init
  /\ staged \in {First, Peer} /\ recorded = {} /\ served = {}
  /\ sync = "none" /\ wanted = {} /\ additions = {} /\ broken = FALSE

\* The engine's control socket is there as long as the engine is.
Answers == "engine" \in links

\* The settings neither drop a client on record nor lack one the engine knows,
\* and the engine knows every client on record.
Acceptable(s) ==
  recorded \subseteq s /\ served \subseteq s /\ recorded \subseteq served

Done == sync' = "none" /\ wanted' = {} /\ additions' = {}

\* A sync that is refused changes nothing.
SyncBegin ==
  /\ sync = "none" /\ pc = "idle"
  /\ running = Process /\ Answers /\ owned = "written" /\ Acceptable(staged)
  /\ wanted' = staged /\ additions' = staged \ served
  /\ sync' = IF staged \subseteq served THEN "verify" ELSE "add"
  /\ UNCHANGED <<staged, recorded, served, broken>>

Add ==
  /\ sync = "add" /\ Answers
  /\ served' = served \cup additions /\ sync' = "verify"
  /\ UNCHANGED <<staged, recorded, wanted, additions, broken>>

\* The request is refused, or times out with part or all of it done.
AddFails ==
  /\ sync = "add" /\ sync' = "undo"
  /\ \E part \in SUBSET additions : served' = IF Answers THEN served \cup part ELSE served
  /\ UNCHANGED <<staged, recorded, wanted, additions, broken>>

Verify ==
  /\ sync = "verify" /\ Answers /\ served = wanted /\ sync' = "record"
  /\ UNCHANGED <<staged, recorded, served, wanted, additions, broken>>

\* The engine does not answer, or owned.json cannot be written.
LaterFails ==
  /\ sync \in {"verify", "record"}
  /\ sync' = IF additions = {} THEN "restore" ELSE "undo"
  /\ UNCHANGED <<staged, recorded, served, wanted, additions, broken>>

\* os.replace of owned.json.
Record ==
  /\ sync = "record" /\ recorded' = wanted /\ broken' = FALSE /\ Done
  /\ UNCHANGED <<staged, served>>

\* Mutant: every client of the settings is taken out.
UndoAll ==
  /\ sync = "undo" /\ Answers /\ sync' = "restore"
  /\ served' = served \ wanted
  /\ UNCHANGED <<staged, recorded, wanted, additions, broken>>

\* Mutant: the new clients stay in the engine.
UndoNothing ==
  /\ sync = "undo" /\ Answers /\ sync' = "restore"
  /\ UNCHANGED <<staged, recorded, served, wanted, additions, broken>>

Undo ==
  /\ sync = "undo" /\ Answers /\ sync' = "restore"
  /\ served' = served \ additions
  /\ UNCHANGED <<staged, recorded, wanted, additions, broken>>

\* finally: the settings are restored even so.
UndoFails ==
  /\ sync = "undo" /\ sync' = "restore" /\ broken' = TRUE
  /\ \E part \in SUBSET additions : served' = served \ part
  /\ UNCHANGED <<staged, recorded, wanted, additions>>

Restore ==
  /\ sync = "restore" /\ staged' = recorded /\ Done
  /\ UNCHANGED <<recorded, served, broken>>

SyncKilled ==
  /\ sync # "none" /\ Done
  /\ broken' = (broken \/ (sync \in {"verify", "record", "undo"} /\ additions # {}))
  /\ UNCHANGED <<staged, recorded, served>>

SyncStep ==
  /\ \/ SyncBegin \/ Add \/ AddFails \/ Verify \/ LaterFails \/ Record
     \/ Undo \/ UndoFails \/ Restore \/ SyncKilled
  /\ UNCHANGED vars

\* The playbook stages the whole bundle, or puts back what it had saved.
Stage ==
  /\ sync = "none" /\ pc = "idle" /\ staged' \in {First, Peer} \ {staged}
  /\ UNCHANGED <<vars, recorded, served, syncVars, broken>>
-----------------------------------------------------------------------------
\* What start and stop do with the clients: start loads settings.json, records
\* it in owned.json and configures the engine with it; stop removes owned.json.
Clients ==
  /\ wanted' = IF pc = "idle" /\ pc' = "owning" THEN staged
               ELSE IF pc' = "idle" THEN {} ELSE wanted
  /\ recorded' = IF pc = "owning" /\ pc' = "guards" THEN wanted
                 ELSE IF owned' = "written" THEN recorded ELSE {}
  /\ UNCHANGED <<staged, sync, additions>>

\* The engine's clients are those it is configured with, and go with it.
Engine ==
  /\ served' = IF "engine" \notin links' THEN {}
               ELSE IF pc = "configure" /\ pc' = "linkup" THEN wanted ELSE served
  /\ broken' = (broken /\ "engine" \in links' /\ ~(pc = "configure" /\ pc' = "linkup"))

\* The flock keeps start and stop out while sync-peers runs; the rest of the
\* world goes on.
LabStep ==
  /\ sync = "none" /\ (StartStep \/ StopStep \/ Crash)
  /\ Clients /\ Engine

World ==
  /\ \/ \E p \in Process : LinkAppears(p) \/ ProcessDies(p)
     \/ \E f \in Family : FirewallRebuild(f)
  /\ Engine /\ UNCHANGED <<staged, recorded, syncVars>>

RouterReboots ==
  /\ Reboot /\ Engine /\ recorded' = {} /\ Done
  /\ UNCHANGED staged

PeersNext == SyncStep \/ Stage \/ LabStep \/ World \/ RouterReboots

PeersSpec == PeersInit /\ [][PeersNext]_allVars
-----------------------------------------------------------------------------
SyncPhase == {"none", "add", "verify", "record", "undo", "restore"}

PeersTypeOK ==
  /\ TypeOK
  /\ {staged, recorded, served, wanted, additions} \subseteq SUBSET Peer
  /\ sync \in SyncPhase /\ broken \in BOOLEAN

(***************************************************************************)
(* While gr-amn is up the engine knows every client on record: whatever    *)
(* fails, is undone or is killed, no client that was there before is lost. *)
(***************************************************************************)
PeersServed == linkUp => recorded \subseteq served

(***************************************************************************)
(* "A failed addition removes only the newly attempted keys": unless a     *)
(* sync was killed or its undoing failed, the engine knows, once the sync  *)
(* is over, the clients on record and no others.                           *)
(***************************************************************************)
AllOrNothing == linkUp /\ sync = "none" /\ ~broken => served = recorded
=============================================================================
