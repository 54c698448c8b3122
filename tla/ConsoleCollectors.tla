------------------------- MODULE ConsoleCollectors --------------------------
(***************************************************************************)
(* The console's supervisor (app/scripts/run-with-collector.mjs), which    *)
(* starts the web server and, from timers and once at the start, the three *)
(* collectors as child processes; and the live collector                   *)
(* (collect-live-once.mjs), which runs live-events-report: it reads the    *)
(* tail of each of the router's logs, merges their lines by their times,   *)
(* leaves out what precedes the cursor and all but the last lines; stores  *)
(* what remains as events and then the id of the last one as its cursor.   *)
(* A line that gives no time gets that of the report, later than all       *)
(* others.  A child may fail or be killed at any of its steps, the         *)
(* supervisor may be stopped, and the container may be restarted; the      *)
(* database stays.  The lock files are CollectorLock's subject: here a     *)
(* writer lock whose holder is gone is free again.                         *)
(*                                                                         *)
(* enabled    the kinds of collector the environment variables enable      *)
(* up         "up", "stopping" (shuttingDown) or "down"                    *)
(* collecting the supervisor's flag for each kind                          *)
(* timer      is the periodic timer of a kind armed                        *)
(* caller     who awaits the child of a kind                               *)
(* starting   the startup collection has not been called yet               *)
(* started    startupFullCollect has resolved                              *)
(* fast       progress of collectStartupFastOnce                           *)
(* child      what the child process of a kind is doing                    *)
(* writer     the kind that holds the writer lock                          *)
(* job        what the live child has read and has to store                *)
(* lines      the lines written so far: the log, the second and the place  *)
(*            in the log of each                                           *)
(* length     lines in each log                                            *)
(* rows, ids  events stored for each line, and the ids of all events       *)
(* cursor     the stored cursor                                            *)
(* skipped    lines of a log that a report could not read                  *)
(* faults, restarts  failures and restarts so far                          *)
(***************************************************************************)
EXTENDS Integers, Sequences, FiniteSets, SequencesExt

CONSTANTS Modes,       \* sets of kinds that may be enabled
          Logs,        \* the logs, numbered in the order they are read
          Timeless,    \* those whose lines give no time (domain-activity.log)
          Limit,       \* GHOSTROUTE_LIVE_LIMIT
          MaxLines, MaxFaults,   \* bounds; those on lines and restarts depend
          LinesIn, RestartsIn,   \* on the kinds enabled
          None

Kinds == {"full", "light", "live"}
Fast  == {"light", "live"}
Line  == [of : Logs, at : Nat, place : Nat]
Event == [line : 1..MaxLines, no : 1..Limit]

ASSUME CollectorsAssumption ==
  /\ Modes \subseteq SUBSET Kinds /\ Logs \subseteq Nat /\ Timeless \subseteq Logs
  /\ Limit \in Nat \ {0} /\ {MaxLines, MaxFaults} \subseteq Nat
  /\ LinesIn \in [Modes -> Nat] /\ RestartsIn \in [Modes -> Nat]
  /\ None \notin Event \cup Kinds \cup {"periodic", "startup", "fast"}

VARIABLES enabled, up, collecting, timer, caller, starting, started, fast,
          child, writer, job, lines, length, rows, ids, cursor, skipped, faults, restarts

supervisor == <<up, collecting, timer, caller, starting, started, fast>>
logged == <<lines, length>>
store == <<rows, ids, cursor>>
vars == <<enabled, supervisor, child, writer, job, logged, store, skipped, faults, restarts>>

Boot ==
  [collecting |-> [k \in Kinds |-> FALSE], timer |-> [k \in Kinds |-> k \in enabled],
   caller |-> [k \in Kinds |-> None], child |-> [k \in Kinds |-> "none"]]

Init ==
  /\ enabled \in Modes /\ up = "up"
  /\ collecting = Boot.collecting /\ timer = Boot.timer /\ caller = Boot.caller
  /\ starting = ("full" \in enabled) /\ started = ("full" \notin enabled)
  /\ fast = "no" /\ child = Boot.child /\ writer = None /\ job = None
  /\ lines = <<>> /\ length = [g \in Logs |-> 0] /\ skipped = {}
  /\ rows = [l \in 1..MaxLines |-> 0] /\ ids = {} /\ cursor = None
  /\ faults = 0 /\ restarts = 0
-----------------------------------------------------------------------------
(* The supervisor.                                                         *)

\* Mutant: the timer is armed again after a stop.
ScheduleAlways(k) == timer' = [timer EXCEPT ![k] = TRUE]

Schedule(k) == timer' = [timer EXCEPT ![k] = (up = "up")]

\* The startup calls of the fast collectors, one after the other.
NextFast == IF fast = "light" /\ "live" \in enabled THEN "live" ELSE "done"

\* What the caller does when its collection is over, or was refused.
Return(k, who) ==
  CASE who = "periodic" -> Schedule(k) /\ UNCHANGED <<started, fast>>
    [] who = "startup"  -> started' = TRUE /\ UNCHANGED <<timer, fast>>
    [] who = "fast"     -> fast' = NextFast /\ UNCHANGED <<started, timer>>

\* Mutant: a caller that finds a run of its kind under way forgets to go on.
CollectForgetting(k, who, base) ==
  IF collecting[k] \/ up # "up"
    THEN timer' = base /\ UNCHANGED <<started, fast, collecting, caller, child>>
    ELSE /\ collecting' = [collecting EXCEPT ![k] = TRUE]
         /\ caller' = [caller EXCEPT ![k] = who]
         /\ child' = [child EXCEPT ![k] = "fetch"]
         /\ timer' = base /\ UNCHANGED <<started, fast>>

\* collectOnce, collectLightOnce and collectLiveOnce: refused while a run of the
\* kind is under way or after a stop, else the child is spawned and awaited.
\* base is the timers as the caller leaves them.
Collect(k, who, base) ==
  IF collecting[k] \/ up # "up"
    THEN /\ UNCHANGED <<collecting, caller, child>>
         /\ CASE who = "periodic" -> /\ timer' = [base EXCEPT ![k] = (up = "up")]
                                     /\ UNCHANGED <<started, fast>>
              [] OTHER            -> Return(k, who)
    ELSE /\ collecting' = [collecting EXCEPT ![k] = TRUE]
         /\ caller' = [caller EXCEPT ![k] = who]
         /\ child' = [child EXCEPT ![k] = "fetch"]
         /\ timer' = base /\ UNCHANGED <<started, fast>>

data == <<writer, job, logged, store, skipped, faults, restarts>>

TimerFires(k) ==
  /\ timer[k] /\ Collect(k, "periodic", [timer EXCEPT ![k] = FALSE])
  /\ UNCHANGED <<enabled, up, starting, data>>

StartupFires ==
  /\ up # "down" /\ starting /\ starting' = FALSE
  /\ Collect("full", "startup", timer)
  /\ UNCHANGED <<enabled, up, data>>

\* The 15 and 30 second timers: both wait for the startup collection and then
\* call one function, which runs once.
FastFires ==
  /\ up = "up" /\ started /\ fast = "no" /\ Fast \cap enabled # {}
  /\ fast' = IF "light" \in enabled THEN "light" ELSE "live"
  /\ UNCHANGED <<enabled, up, collecting, timer, caller, starting, started, child, data>>

FastCalls ==
  /\ up # "down" /\ fast \in Fast /\ caller[fast] # "fast"
  /\ Collect(fast, "fast", timer)
  /\ UNCHANGED <<enabled, up, starting, data>>

\* Mutant: the flag of the kind is left set when its child exits.
ExitedBusy(k) ==
  /\ child' = [child EXCEPT ![k] = "none"]
  /\ caller' = [caller EXCEPT ![k] = None]
  /\ Return(k, caller[k]) /\ UNCHANGED <<up, starting, collecting>>

\* The exit event of a child; its caller goes on.
Exited(k) ==
  /\ child' = [child EXCEPT ![k] = "none"]
  /\ collecting' = [collecting EXCEPT ![k] = FALSE]
  /\ caller' = [caller EXCEPT ![k] = None]
  /\ Return(k, caller[k]) /\ UNCHANGED <<up, starting>>

\* SIGTERM or SIGINT: timers are cleared and the server is told to stop.
Stop ==
  /\ up = "up" /\ up' = "stopping" /\ restarts < RestartsIn[enabled]
  /\ timer' = [k \in Kinds |-> FALSE]
  /\ UNCHANGED <<enabled, collecting, caller, starting, started, fast, child, data>>

\* The server exits, of itself or told to: the supervisor exits and, with it,
\* every process of the container.
ServerExit ==
  /\ up # "down" /\ up' = "down" /\ restarts < RestartsIn[enabled]
  /\ child' = Boot.child /\ writer' = None /\ job' = None
  /\ collecting' = Boot.collecting /\ caller' = Boot.caller
  /\ timer' = [k \in Kinds |-> FALSE]
  /\ UNCHANGED <<enabled, starting, started, fast, logged, store, skipped, faults, restarts>>

Restart ==
  /\ up = "down" /\ restarts < RestartsIn[enabled]
  /\ up' = "up" /\ restarts' = restarts + 1 /\ timer' = Boot.timer
  /\ starting' = ("full" \in enabled) /\ started' = ("full" \notin enabled) /\ fast' = "no"
  /\ UNCHANGED <<enabled, collecting, caller, child, writer, job, logged, store, skipped, faults>>
-----------------------------------------------------------------------------
(* live-events-report.                                                     *)
Now == IF lines = <<>> THEN 0 ELSE lines[Len(lines)].at

\* A line is written to a log, in the second of the line before or a later one;
\* the time of a line that does not give it is of no account.
Log ==
  /\ Len(lines) < MaxLines /\ Len(lines) < LinesIn[enabled]
  /\ \E g \in Logs, at \in {Now, Now + 1} :
       /\ g \in Timeless => at = Now
       /\ lines' = Append(lines, [of |-> g, at |-> at, place |-> length[g] + 1])
       /\ length' = [length EXCEPT ![g] = @ + 1]
  /\ UNCHANGED <<enabled, supervisor, child, writer, job, store, skipped, faults, restarts>>

Dated(l) == lines[l].of \notin Timeless

\* Is line l sure to stand before line m in a report?  Lines of one second stand
\* in the order they are read, a log at a time.
Precedes(l, m) ==
  /\ Dated(l)
  /\ Dated(m) => \/ lines[l].at < lines[m].at
                 \/ /\ lines[l].at = lines[m].at
                    /\ \/ lines[l].of < lines[m].of
                       \/ lines[l].of = lines[m].of /\ l < m

\* tail -n Limit of each log read.  A line's event has its number within the
\* tail, which the id is made of.
Passed(g) == IF length[g] > Limit THEN length[g] - Limit ELSE 0
Tails(read) ==
  {[line |-> l, no |-> lines[l].place - Passed(lines[l].of)] :
     l \in {l \in DOMAIN lines : lines[l].of \in read /\ lines[l].place > Passed(lines[l].of)}}

\* sort_by: the orders the events may come in; those without a time come in the
\* order of their ids when one millisecond is enough for all of them.
Merged(events) ==
  {q \in SetToSeqs(events) :
     \A i, j \in DOMAIN q : i < j => ~Precedes(q[j].line, q[i].line)}

\* Mutant: a cursor that is not found means there is nothing new.
AfterStrict(events, since) ==
  IF since = None THEN events
  ELSE IF \E i \in DOMAIN events : events[i] = since
         THEN SubSeq(events, 1 + CHOOSE i \in DOMAIN events : events[i] = since, Len(events))
         ELSE <<>>

\* The events after the cursor; all of them when it is not among them.
After(events, since) ==
  IF \E i \in DOMAIN events : events[i] = since
    THEN SubSeq(events, 1 + CHOOSE i \in DOMAIN events : events[i] = since, Len(events))
    ELSE events

\* events.last(limit)
LastOnes(events) ==
  SubSeq(events, IF Len(events) > Limit THEN Len(events) - Limit + 1 ELSE 1, Len(events))
-----------------------------------------------------------------------------
(* The children.                                                           *)
Becomes(k, step) == child' = [child EXCEPT ![k] = step]

\* The cursor is read, then the command runs; the writer lock comes after.
\* Logs that cannot be read in time count as empty.
Read ==
  \E unread \in SUBSET Logs :
    \E q \in Merged(Tails(Logs \ unread)) :
      /\ job' = [events |-> LastOnes(After(q, cursor)), upTo |-> Len(lines)]
      /\ skipped' = skipped \cup {l \in DOMAIN lines : lines[l].of \in unread}
      /\ faults' = IF unread = {} THEN faults ELSE faults + 1
      /\ faults' <= MaxFaults

Fetch(k) ==
  /\ child[k] = "fetch" /\ Becomes(k, "wait")
  /\ IF k = "live" THEN Read ELSE UNCHANGED <<job, skipped, faults>>
  /\ UNCHANGED <<enabled, supervisor, writer, logged, store, restarts>>

Acquire(k) ==
  /\ child[k] = "wait" /\ writer = None /\ writer' = k
  /\ Becomes(k, IF k = "live" THEN "insert" ELSE "rebuild")
  /\ UNCHANGED <<enabled, supervisor, job, logged, store, skipped, faults, restarts>>

\* Mutant: the row is inserted whether its id is there or not.
InsertAgain(e) ==
  /\ ids' = ids \cup {e}
  /\ rows' = [rows EXCEPT ![e.line] = @ + 1]

\* insert or ignore, with a unique index on the event id.
Insert(e) ==
  /\ ids' = ids \cup {e}
  /\ rows' = IF e \in ids THEN rows ELSE [rows EXCEPT ![e.line] = @ + 1]

\* Mutant: the cursor is stored with the first event.
StoreEventEarly ==
  /\ child["live"] = "insert" /\ job.events # <<>>
  /\ Insert(Head(job.events)) /\ cursor' = Last(job.events)
  /\ job' = [job EXCEPT !.events = Tail(@)]
  /\ Becomes("live", IF Len(job.events) = 1 THEN "rebuild" ELSE "insert")
  /\ UNCHANGED <<enabled, supervisor, writer, logged, skipped, faults, restarts>>

\* Each event is a statement of its own; with the last one comes the cursor's
\* turn.
StoreEvent ==
  /\ child["live"] = "insert" /\ job.events # <<>>
  /\ Insert(Head(job.events))
  /\ IF Len(job.events) = 1
       THEN Becomes("live", "cursor") /\ UNCHANGED job
       ELSE job' = [job EXCEPT !.events = Tail(@)] /\ UNCHANGED child
  /\ UNCHANGED <<enabled, supervisor, writer, logged, cursor, skipped, faults, restarts>>

StoreCursor ==
  /\ child["live"] = "cursor" /\ cursor' = Head(job.events) /\ Becomes("live", "rebuild")
  /\ UNCHANGED <<enabled, supervisor, writer, job, logged, rows, ids, skipped, faults, restarts>>

\* No event, no cursor to store.
StoreNothing ==
  /\ child["live"] = "insert" /\ job.events = <<>> /\ Becomes("live", "rebuild")
  /\ UNCHANGED <<enabled, supervisor, writer, job, logged, store, skipped, faults, restarts>>

\* The process is gone, and with it its claim to the writer lock.
Gone(k) ==
  /\ Exited(k)
  /\ writer' = IF writer = k THEN None ELSE writer
  /\ job' = IF k = "live" THEN None ELSE job
  /\ UNCHANGED <<enabled, logged, store, skipped, restarts>>

\* Prune and rebuild (ConsoleStore), release the lock and exit.
Finish(k) == child[k] = "rebuild" /\ Gone(k) /\ UNCHANGED faults

\* The command fails, the writer lock is not free in time, a statement fails, or
\* the child is killed; SIGTERM after its timeout does not reach a child that
\* runs synchronously.
Fail(k) ==
  /\ child[k] # "none" /\ faults < MaxFaults /\ faults' = faults + 1
  /\ Gone(k)

Live == StoreEvent \/ StoreCursor \/ StoreNothing
Supervise == StartupFires \/ FastFires \/ FastCalls \/ Stop \/ ServerExit \/ Restart
Next ==
  \/ Supervise \/ Live \/ Log
  \/ \E k \in Kinds : \/ TimerFires(k) \/ Fetch(k) \/ Acquire(k)
                      \/ Finish(k) \/ Fail(k)

\* Timers fire and children go on.  The writer lock is free again and again, as
\* every kind pauses for at least a minute between its runs, and a waiting child
\* looks at it all the time, so it is not passed over for ever.
Fairness ==
  /\ WF_vars(StartupFires) /\ WF_vars(FastFires) /\ WF_vars(FastCalls) /\ WF_vars(Live)
  /\ \A k \in Kinds : /\ WF_vars(TimerFires(k)) /\ WF_vars(Fetch(k))
                      /\ WF_vars(Finish(k)) /\ SF_vars(Acquire(k))

Spec == Init /\ [][Next]_vars /\ Fairness
-----------------------------------------------------------------------------
(* Properties.                                                             *)
Step == {"none", "fetch", "wait", "insert", "cursor", "rebuild"}

\* Every variable keeps its type; a child runs exactly while its flag says so,
\* and only the writer is storing.
TypeOK ==
  /\ enabled \in Modes /\ up \in {"up", "stopping", "down"} /\ started \in BOOLEAN
  /\ collecting \in [Kinds -> BOOLEAN] /\ timer \in [Kinds -> BOOLEAN]
  /\ caller \in [Kinds -> {"periodic", "startup", "fast", None}]
  /\ starting \in BOOLEAN /\ fast \in {"no", "light", "live", "done"}
  /\ child \in [Kinds -> Step] /\ lines \in Seq(Line) /\ Len(lines) <= MaxLines
  /\ length \in [Logs -> Nat] /\ skipped \subseteq 1..Len(lines)
  /\ rows \in [1..MaxLines -> Nat] /\ ids \subseteq Event /\ cursor \in Event \cup {None}
  /\ \A k \in Kinds : /\ collecting[k] <=> child[k] # "none"
                      /\ collecting[k] <=> caller[k] # None
                      /\ child[k] \in {"insert", "cursor", "rebuild"} <=> writer = k

\* A line that an earlier line may stand behind in a report: one of the same
\* second, from a log that is read later, or one without a time.
Late(l) == \E m \in 1..(l - 1) : ~Precedes(m, l)

\* A live run that has stored its cursor has left no line out that is within
\* reach, that no report failed to read and that is not late: neither the cursor
\* of an earlier run nor what a killed one has left, neither the cut of a log nor
\* that of the whole makes the collector skip it (normalize.mjs:5128-5190,
\* live-events-report:50-66, 291-303).
NoLineMissed ==
  child["live"] = "rebuild" =>
    \A l \in 1..job.upTo :
      rows[l] > 0 \/ l <= job.upTo - Limit \/ l \in skipped \/ Late(l)

\* While a log fits its tail, the ids of its lines are stable, and a line is
\* stored once though killed runs are repeated from an old cursor
\* (normalize.mjs:1890, 5212, live-events-report:112).
StoredOnce == \A l \in DOMAIN lines : length[lines[l].of] <= Limit => rows[l] <= 1

\* After a stop nothing is started any more, neither by a timer, nor by the
\* startup chain that goes on when its child exits, nor is a timer armed
\* (run-with-collector.mjs:80, 117-155, 188-195).
QuietAfterStop ==
  [][ up # "up" /\ up' # "up" =>
        \A k \in Kinds : ~timer'[k] /\ (child[k] = "none" => child'[k] = "none") ]_vars

\* While the supervisor is up, every enabled collector runs again and again,
\* whatever overlaps with startup or fails (run-with-collector.mjs:117-144).
CollectsForever ==
  \A k \in Kinds : (up = "up" /\ k \in enabled) ~> (child[k] = "fetch" \/ up # "up")

\* A line within reach, of a log that could always be read, is not stored.
Waiting(l) ==
  /\ l \in DOMAIN lines /\ up = "up" /\ "live" \in enabled
  /\ rows[l] = 0 /\ l > Len(lines) - Limit /\ l \notin skipped

\* No line waits for ever, unless it is late (live-events-report:50-66, 291-303).
LinesArrive ==
  \A l \in 1..MaxLines : []<>~(Waiting(l) /\ ~Late(l))

\* collect-live-once "ingests recent read-only log-tail events"
\* (ghostroute-console-architecture.md:53): no line that gives its time waits for
\* ever, whatever was written before it.
RecentLinesIngested == \A l \in 1..MaxLines : []<>~(Waiting(l) /\ Dated(l))
=============================================================================
