---------------------------- MODULE ConsoleStore ----------------------------
(***************************************************************************)
(* The console's database as its collectors and its repair command change  *)
(* it (app/scripts/collect-once.mjs, collect-light-once.mjs,               *)
(* repair-aggregates.mjs and lib/normalize.mjs).  A full collection reads  *)
(* the router's reports first and stores them later, under the writer      *)
(* lock: rows in, superseded rows out, traffic tables and prepared windows *)
(* rebuilt in one transaction, backups.  It may be killed between any two  *)
(* of these.                                                               *)
(*                                                                         *)
(* clock, bootAt  now, and when the router started today (0: it did not)   *)
(* fetched    what a full collection has read and not stored yet           *)
(* snapshots  the traffic_facts snapshots with rows in normalized_flows    *)
(* summaries  the traffic_summary snapshots of the current day             *)
(* tables     the traffic tables, one function per layer                   *)
(* prepared   what the prepared windows add up to, chart the hourly points *)
(* backups    the files in data/backups                                    *)
(* pending    a run died after changing rows and before the rebuild        *)
(* since      the first of today's snapshots that the tables hold          *)
(* gap        a rebuild of today left facts of today before its range      *)
(* prunedAt   when the tables were last pruned (0: never)                  *)
(* left       what is left of each bounded kind of step                    *)
(***************************************************************************)
EXTENDS TrafficPyramid, SqliteBackups

CONSTANTS StartTick, MaxClock,  \* the clock runs from StartTick to MaxClock
          Sizes,                \* sizes the database may have
          MaxFull, MaxFast, MaxFaults, MaxRepairs, MaxOther,
                                \* how often each bounded kind of step may happen,
                                \* and all but the full collections together
          None

ASSUME StoreAssumption ==
  /\ MaxClock \in Nat /\ StartTick \in 0..MaxClock /\ Sizes \subseteq Nat
  /\ {MaxFull, MaxFast, MaxFaults, MaxRepairs, MaxOther} \subseteq Nat
  /\ None \notin Int

VARIABLES clock, bootAt, fetched, snapshots, summaries, tables, prepared, chart,
          backups, pending, since, gap, prunedAt, left

source == <<fetched, snapshots, summaries>>
models == <<tables, prepared, chart, since, gap, prunedAt>>
vars == <<clock, bootAt, source, models, backups, pending, left>>

Able(kind) == left[kind] > 0 /\ (kind # "full" => left["other"] > 0)
Less(l, kind) ==
  [l EXCEPT ![kind] = @ - 1, !["other"] = IF kind = "full" THEN @ ELSE @ - 1]
Spend(kind) == Able(kind) /\ left' = Less(left, kind)

\* A step of a kind, and a fault too when it fails.
SpendUpon(kind, failing) ==
  LET rest == Less(left, kind)
  IN /\ Able(kind)
     /\ IF failing THEN rest["fault"] > 0 /\ rest["other"] > 0 /\ left' = Less(rest, "fault")
                   ELSE left' = rest

\* What fails counts among the faults.
SpendIf(failing) == IF failing THEN Spend("fault") ELSE UNCHANGED left

Today(samples) == {s \in samples : DayStart(s.at) = DayStart(clock)}
Newest(samples) == CHOOSE s \in samples : \A o \in samples : o.at <= s.at

\* What the router has counted since midnight or since its last start.
Counter(t) == t - Max({DayStart(t), bootAt})

Init ==
  /\ clock = StartTick /\ bootAt = 0 /\ fetched = None
  /\ snapshots = {} /\ summaries = {} /\ backups = {}
  /\ tables = NoTables /\ prepared = None /\ chart = FlatChart
  /\ pending = FALSE /\ since = None /\ gap = FALSE /\ prunedAt = 0
  /\ left = [full |-> MaxFull, fast |-> MaxFast, fault |-> MaxFaults,
             repair |-> MaxRepairs, other |-> MaxOther]
-----------------------------------------------------------------------------
(* Time.                                                                   *)
NewDay(t) == DayStart(t) # DayStart(clock)

\* What was fetched is stored within a tick: the writer lock is waited for two
\* minutes.  A tick may bring a restart of the router.  The clock stops when the
\* bounds leave no command to run.
Tick ==
  /\ clock < MaxClock /\ clock' = clock + 1
  /\ \E kind \in {"full", "fast", "repair"} : Able(kind)
  /\ fetched # None => fetched.at = clock
  /\ summaries' = IF NewDay(clock + 1) THEN {} ELSE summaries
  /\ since' = IF NewDay(clock + 1) THEN None ELSE since
  /\ gap' = (gap /\ ~NewDay(clock + 1))
  /\ \/ bootAt' = (IF NewDay(clock + 1) THEN 0 ELSE bootAt) /\ UNCHANGED left
     \/ bootAt' = clock + 1 /\ Spend("fault")
  /\ UNCHANGED <<fetched, snapshots, tables, prepared, chart, prunedAt, backups, pending>>
-----------------------------------------------------------------------------
(* Rebuilding.                                                             *)

\* Mutant: superseded snapshots stay until they are too old.
SupersededKept(samples) == {s \in samples : s.at >= clock - RawTicks}

\* Only the newest traffic_facts snapshot stays, while it is young enough.
Superseding(samples) ==
  {s \in samples : s = Newest(samples) /\ s.at >= clock - RawTicks}

\* Each of the three lower layers is deleted up to an instant of its own, which
\* need not be a border of its buckets; weekly and monthly rows stay for ever.
Pruned(t) == [t EXCEPT !.fine = Outside(@, 0, clock - FineTicks),
                       !.hour = Outside(@, 0, clock - HourlyTicks),
                       !.day  = Outside(@, 0, clock - DailyTicks)]

Windows(t) ==
  [at |-> clock, today |-> WindowBytes(t, "today", clock),
   week |-> WindowBytes(t, "week", clock), month |-> WindowBytes(t, "month", clock)]

\* Is something of today, held by the tables or by a snapshot, older than from?
LeftBehind(samples, from) ==
  \/ since # None /\ since < from
  \/ \E s \in Today(samples) : s.at < from

\* The transaction of rebuildObservabilityReadModels.
Rebuilt(samples, sums, from) ==
  LET new == RebuildRange(Pruned(tables), samples, from, clock + 1)
      held == Today(InRange(samples, from, clock + 1))
  IN /\ tables' = new /\ prepared' = Windows(new) /\ chart' = TrafficToday(sums)
     /\ gap' = (gap \/ LeftBehind(samples, from))
     /\ since' = IF held = {} THEN since ELSE Min({s.at : s \in held})

\* A collector that has stored its rows goes on: it is killed before it
\* prunes, or before it rebuilds, or it rebuilds.
Settle(samples, sums, stage) ==
  /\ summaries' = sums
  /\ pending' = (stage \in {"stored", "pruned"})
  /\ snapshots' = IF stage = "stored" THEN samples ELSE Superseding(samples)
  /\ prunedAt' = IF stage = "stored" THEN prunedAt ELSE clock
  /\ CASE stage = "stored" -> UNCHANGED <<tables, prepared, chart, since, gap>>
       [] stage = "pruned" -> /\ tables' = Pruned(tables)
                              /\ UNCHANGED <<prepared, chart, since, gap>>
       [] OTHER -> LET kept == Superseding(samples)
                   IN Rebuilt(kept, sums, DirtyStart(Pruned(tables).fine, clock))
-----------------------------------------------------------------------------
(* The full collection.                                                    *)

\* The commands run before the writer lock is taken; each may fail.
FetchFull ==
  /\ fetched = None
  /\ \A s \in snapshots : s.at < clock
  /\ \E facts, summary \in BOOLEAN :
       /\ fetched' = [at |-> clock, bytes |-> Counter(clock), facts |-> facts, summary |-> summary]
       /\ SpendUpon("full", ~(facts /\ summary))
  /\ UNCHANGED <<clock, bootAt, snapshots, summaries, models, backups, pending>>

Sample == [at |-> fetched.at, bytes |-> fetched.bytes]
WithFacts(bytes) == snapshots \cup
  (IF fetched.facts THEN {[Sample EXCEPT !.bytes = bytes]} ELSE {})
WithSummary ==
  summaries \cup (IF fetched.summary THEN Today({Sample}) ELSE {})

\* The writer lock was not free in time.
SkipFull ==
  /\ fetched # None /\ fetched' = None
  /\ SpendIf(TRUE)
  /\ UNCHANGED <<clock, bootAt, snapshots, summaries, models, backups, pending>>

\* Stored, rebuilt and backed up, or killed on the way.
StoreFull ==
  /\ fetched # None /\ fetched' = None
  /\ \E stage \in {"stored", "pruned", "rebuilt", "done"}, size \in Sizes, room \in BOOLEAN :
       /\ Settle(WithFacts(fetched.bytes), WithSummary, stage)
       /\ SpendIf(stage # "done" \/ ~room)
       /\ backups' = IF stage = "done" THEN Retained(backups, clock, size, room) ELSE backups
  /\ UNCHANGED <<clock, bootAt>>

\* Killed while the facts of the snapshot were being inserted one by one.
StorePartly ==
  /\ fetched # None /\ fetched.facts /\ fetched' = None /\ Spend("fault")
  /\ Settle(WithFacts(fetched.bytes \div 2), WithSummary, "stored")
  /\ UNCHANGED <<clock, bootAt, backups>>

\* The light collector stores a summary, the live one none; both prune and
\* rebuild, unless they are killed on the way.
FastCollect ==
  /\ UNCHANGED <<clock, bootAt, fetched, backups>>
  /\ \E light \in BOOLEAN, stage \in {"stored", "pruned", "done"} :
       /\ SpendUpon("fast", stage # "done")
       /\ Settle(snapshots,
                 summaries \cup (IF light THEN {[at |-> clock, bytes |-> Counter(clock)]} ELSE {}),
                 stage)
-----------------------------------------------------------------------------
(* repair-aggregates.                                                      *)

\* One transaction over a range: nothing when no rows of it are left, else
\* the range is deleted, filled from them, and the windows prepared again.
\* all: nothing of today is left of what the tables held before.
RepairRange(t, from, to, all) ==
  LET new  == RebuildRange(t, snapshots, from, to)
      held == Today(InRange(snapshots, from, to))
  IN /\ InRange(snapshots, from, to) # {}
     /\ tables' = new /\ prepared' = Windows(new) /\ chart' = TrafficToday(summaries)
     /\ gap' = (gap /\ ~all)
     /\ since' = CASE ~all              -> since
                   [] all /\ held = {}  -> None
                   [] OTHER             -> Min({s.at : s \in held})

\* --from is a day's start, --to the start of today or now.  It takes the lock of
\* the full collection.
Repair ==
  /\ fetched = None /\ Spend("repair")
  /\ \E back \in 0..2, to \in {DayStart(clock), clock + 1} :
       LET from == DayStart(clock) - back * DayTicks
       IN from < to /\ RepairRange(tables, from, to, to > clock)
  /\ UNCHANGED <<clock, bootAt, source, backups, pending, prunedAt>>

\* --full: a backup of its own name, every table cleared, and a repair from
\* the earliest row on; with no rows at all the tables stay empty.
RebuildAll ==
  /\ fetched = None /\ Spend("repair")
  /\ \E size \in Sizes :
       backups' = backups \cup {[at |-> clock, size |-> size, managed |-> FALSE]}
  /\ \/ RepairRange(NoTables, Min({s.at : s \in snapshots} \cup {clock}), clock + 1, TRUE)
     \/ /\ snapshots = {} /\ tables' = NoTables /\ prepared' = None /\ chart' = FlatChart
        /\ since' = None /\ gap' = FALSE
  /\ UNCHANGED <<clock, bootAt, source, pending, prunedAt>>

Next == Tick \/ FetchFull \/ SkipFull \/ StoreFull \/ StorePartly \/ FastCollect \/ Repair \/ RebuildAll

Spec == Init /\ [][Next]_vars
-----------------------------------------------------------------------------
(* Properties.                                                             *)
Ticks == 0..MaxClock+1
Rows == [at : Ticks, bytes : Nat]
IsLayer(f) == DOMAIN f \subseteq Int /\ Range(f) \subseteq Nat \ {0}

\* Every variable keeps its type; in particular no traffic table ever holds a
\* row of no bytes, and only what the day's summaries say is charted.
TypeOK ==
  /\ clock \in Ticks /\ bootAt \in Ticks /\ prunedAt \in Ticks
  /\ snapshots \subseteq Rows /\ summaries \subseteq Rows
  /\ \A s \in summaries : DayStart(s.at) = DayStart(clock)
  /\ DOMAIN tables = Layers /\ \A l \in Layers : IsLayer(tables[l])
  /\ chart \in [Hours -> Int] /\ pending \in BOOLEAN /\ gap \in BOOLEAN
  /\ since \in Ticks \cup {None}
  /\ backups \subseteq [at : Ticks, size : Sizes, managed : BOOLEAN]
  /\ Range(left) \subseteq Nat

\* Where the rows that the last pruning has left of a layer begin.
Cutoff == [fine |-> prunedAt - FineTicks, hour |-> prunedAt - HourlyTicks,
           day |-> prunedAt - DailyTicks]
Kept(l, start) == l \in DOMAIN Cutoff => start >= Cutoff[l]

\* Whatever was collected, killed, pruned or repaired, every row of a layer is
\* the sum of the rows below it (normalize.mjs:2317-2489), as far back as both
\* layers are kept (3593-3596): no range is deleted in one layer and left in
\* another, and no row is made of rows of which a part was pruned.
LayersAgree ==
  \A p \in Filled :
    LET src   == tables[p[1]]
        layer == tables[p[2]]
    IN \A b \in DOMAIN src \cup DOMAIN layer :
         LET start == BucketStart(b, p[2])
         IN Kept(p[1], start) /\ Kept(p[2], start) =>
              Row(layer, start)
                = SumFunctionOnSet(src, Between(src, start, start + Length[p[2]]))

\* While no run died before its rebuild and no rebuild of today left facts of
\* today behind its range, the day's row is the router's counter as the newest
\* facts give it: the cumulative snapshots, of which each rebuild sees only the
\* last, are neither counted twice nor lost (normalize.mjs:2043, 3545-3575).
DayMatchesCounter ==
  ~pending /\ ~gap /\ Today(snapshots) # {} =>
    Row(tables.day, DayStart(clock)) = Newest(snapshots).bytes

\* What a window from one moment to another has to show.
Days(from, to) == SumFunctionOnSet(tables.day, Between(tables.day, from, to))
Shows(bytes, from, to) == Kept("day", from) => bytes = Days(from, to)

\* The windows shown are put together from four layers without a day missing or
\* counted twice (normalize.mjs:2774-2797), as long as their days are kept; the
\* month while its weeks are whole.  A month that begins within a week loses
\* that week's days when the week ends, and is left out here.
WindowsComplete ==
  prepared # None =>
    LET now   == prepared.at
        month == MonthStart(now)
        end   == DayStart(now) + DayTicks
    IN /\ Shows(prepared.today, DayStart(now), end)
       /\ Shows(prepared.week, WeekStart(now), end)
       /\ (WeekStart(month) = month \/ WeekStart(now) <= month) =>
            Shows(prepared.month, month, end)

\* The hourly points of today add up to the total of the day's last summary,
\* though they were spread, differenced and rescaled with rounding, and though
\* the router's counter may have begun anew (normalize.mjs:2668-2764).
ChartMatchesKpi ==
  ~pending /\ prepared # None /\ summaries # {} /\ DayStart(prepared.at) = DayStart(clock) =>
    SumFunction(chart) = Newest(summaries).bytes

Managed == {f \in backups : f.managed}

\* The dated backups never exceed their number or their bytes and there is one
\* a UTC day at most, whatever repairs left next to them
\* (sqlite-backups.mjs:97-113, 161-179).
BackupsBounded ==
  /\ Cardinality(Managed) <= MaxFiles
  /\ TotalSize(Managed) <= MaxBytes
  /\ \A f, g \in Managed : UtcDay(f.at) = UtcDay(g.at) => f = g

\* A collector never changes the row of a day that is over, as long as daily rows
\* are kept (normalize.mjs:3596): it has pruned that day's facts and could only
\* delete what they had added (normalize.mjs:2043).
\* Two things do change closed days: a repair, and a collector that finds the
\* five-minute table empty, all its rows having expired.
ClosedDaysStay ==
  [][ left'["repair"] = left["repair"] /\ Pruned(tables).fine # NoRows =>
        \A d \in DOMAIN tables.day \cup DOMAIN tables'.day :
          d < DayStart(clock) /\ d >= clock - DailyTicks => Row(tables'.day, d) = Row(tables.day, d) ]_vars

\* Retention never costs the newest safety copy: if the newest backup is young
\* enough and not larger than all may be, one at least as new is left
\* (sqlite-backups.mjs:83-113).
NewestBackupKept ==
  [][ \A f \in Aged(backups, clock) :
        f.size <= MaxBytes /\ (\A g \in backups : g.at <= f.at) =>
          \E g \in backups' : g.at >= f.at ]_vars
=============================================================================
