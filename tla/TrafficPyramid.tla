--------------------------- MODULE TrafficPyramid ---------------------------
(***************************************************************************)
(* The arithmetic of the console's traffic tables: Moscow calendar buckets *)
(* (app/src/lib/time/window.mjs), the range a rebuild deletes and fills    *)
(* again, the layers five minutes -> hour -> day -> week and month, the    *)
(* segments a prepared window is added up from, and the hourly chart of    *)
(* today (app/scripts/lib/normalize.mjs).                                  *)
(*                                                                         *)
(* Time is a number of ticks and every bucket is named by its first tick.  *)
(* A layer is a function from the buckets that have a row to their bytes,  *)
(* so an absent row and a row of no bytes differ, as in the tables.  All   *)
(* traffic belongs to one client, destination and route, whose counter is  *)
(* cumulative over a day.                                                  *)
(***************************************************************************)
EXTENDS Integers, FiniteSets, FiniteSetsExt, Functions, SequencesExt

CONSTANTS BucketTicks, HourTicks, DayTicks,  \* lengths, in ticks
          WeekDays, MonthDays,               \* lengths, in days
          WeekShift,    \* day d begins a week when WeekDays divides d + WeekShift
          RebuildTicks, \* GHOSTROUTE_ROLLUP_REBUILD_HOURS
          FreshTicks,   \* GHOSTROUTE_PREPARED_FINE_HOURS
          RawTicks,     \* GHOSTROUTE_RAW_RETENTION_DAYS
          FineTicks,    \* GHOSTROUTE_FINE_AGGREGATE_RETENTION_DAYS
          HourlyTicks,  \* GHOSTROUTE_AGGREGATE_RETENTION_DAYS
          DailyTicks    \* GHOSTROUTE_DAILY_AGGREGATE_RETENTION_DAYS

ASSUME PyramidAssumption ==
  /\ {BucketTicks, HourTicks, DayTicks, WeekDays, MonthDays, RebuildTicks,
      FreshTicks, RawTicks, FineTicks, HourlyTicks, DailyTicks} \subseteq Nat \ {0}
  /\ WeekShift \in 0..WeekDays-1
  /\ HourTicks % BucketTicks = 0 /\ DayTicks % HourTicks = 0
  /\ DayTicks <= RawTicks /\ DayTicks <= FineTicks
  /\ MonthDays * DayTicks <= HourlyTicks /\ MonthDays * DayTicks <= DailyTicks

Layers == {"fine", "hour", "day", "week", "month"}

\* Which layer is filled from which.
Filled == {<<"fine", "hour">>, <<"hour", "day">>, <<"day", "week">>, <<"day", "month">>}

NoRows == [b \in {} |-> 0]
NoTables == [l \in Layers |-> NoRows]

Bytes(f) == SumFunction(f)
Between(f, lo, hi) == {b \in DOMAIN f : lo <= b /\ b < hi}
Row(f, b) == IF b \in DOMAIN f THEN f[b] ELSE 0
Outside(f, lo, hi) == Restrict(f, {b \in DOMAIN f : b < lo \/ b >= hi})

\* Rows inserted into what a deletion has left of a table.
Insert(rows, table) ==
  [b \in DOMAIN rows \cup DOMAIN table |-> IF b \in DOMAIN rows THEN rows[b] ELSE table[b]]
-----------------------------------------------------------------------------
(* Calendar buckets.                                                       *)
Floor(t, n) == (t \div n) * n
DayStart(t) == Floor(t, DayTicks)

\* The Monday on or before the day of t.
WeekStart(t) ==
  LET d == t \div DayTicks IN (d - ((d + WeekShift) % WeekDays)) * DayTicks

MonthStart(t) == Floor(t, MonthDays * DayTicks)

BucketStart(t, layer) ==
  CASE layer = "fine"  -> Floor(t, BucketTicks)
    [] layer = "hour"  -> Floor(t, HourTicks)
    [] layer = "day"   -> DayStart(t)
    [] layer = "week"  -> WeekStart(t)
    [] layer = "month" -> MonthStart(t)

Length ==
  [l \in Layers |-> CASE l = "fine"  -> BucketTicks
                      [] l = "hour"  -> HourTicks
                      [] l = "day"   -> DayTicks
                      [] l = "week"  -> WeekDays * DayTicks
                      [] l = "month" -> MonthDays * DayTicks]

\* Mutant: the range ends where the bucket of its end begins.
RangeEndShort(end, layer) == BucketStart(end, layer)

\* Where the deleted range of a layer ends, for a dirty range up to end.
BucketRangeEnd(end, layer) ==
  LET b == BucketStart(end, layer) IN IF b = end THEN end ELSE b + Length[layer]
-----------------------------------------------------------------------------
(* Rebuilding the layers from the fact snapshots of a range.               *)

\* Mutant: the rolling window alone, which may reach into yesterday.
DirtyStartRolling(fine, now) ==
  IF fine = NoRows THEN MonthStart(now) ELSE now - RebuildTicks

\* From where a collector rebuilds: the whole month when the finest table is
\* empty, else the later of the rolling window and the start of the day.
DirtyStart(fine, now) ==
  IF fine = NoRows THEN MonthStart(now)
                   ELSE Max({now - RebuildTicks, DayStart(now)})

InRange(snapshots, from, to) == {s \in snapshots : from <= s.at /\ s.at < to}

\* What each snapshot of a range adds: the first one all its bytes, a later
\* one what it has gained on the one before, never less than nothing.
Deltas(snapshots) ==
  LET Before(s) == {p \in snapshots : p.at < s.at}
      Previous(s) == CHOOSE p \in Before(s) : \A q \in Before(s) : q.at <= p.at
      Gain(s) == IF Before(s) = {} THEN s.bytes
                                   ELSE Max({0, s.bytes - Previous(s).bytes})
  IN {[at |-> s.at, bytes |-> Gain(s)] : s \in snapshots}

\* Rows of the next layer for the rows of src in a range.
Rollup(src, layer, lo, hi) ==
  LET used == Between(src, lo, hi)
      Part(g) == {b \in used : BucketStart(b, layer) = g}
  IN [g \in {BucketStart(b, layer) : b \in used} |-> SumFunctionOnSet(src, Part(g))]

Gained(gains) == MapThenSumSet(LAMBDA g : g.bytes, gains)

\* Mutant: a sample that adds nothing gets a row too.
FineRowsAll(snapshots) ==
  LET gained == Deltas(snapshots)
      Part(g) == {d \in gained : BucketStart(d.at, "fine") = g}
  IN [g \in {BucketStart(d.at, "fine") : d \in gained} |->
        Gained(Part(g))]

\* Five-minute rows of the samples that add something.
FineRows(snapshots) ==
  LET gained == {d \in Deltas(snapshots) : d.bytes > 0}
      Part(g) == {d \in gained : BucketStart(d.at, "fine") = g}
  IN [g \in {BucketStart(d.at, "fine") : d \in gained} |->
        Gained(Part(g))]

\* Delete every layer's rows in the range, each to its own bucket borders, and
\* fill them from the layer below.
RebuildRange(tables, snapshots, from, to) ==
  LET Lo(l)  == BucketStart(from, l)
      Hi(l)  == IF l = "fine" THEN to ELSE BucketRangeEnd(to, l)
      Kept(l) == Outside(tables[l], Lo(l), Hi(l))
      Next(l, src) == Insert(Rollup(src, l, Lo(l), Hi(l)), Kept(l))
      fine == Insert(FineRows(InRange(snapshots, from, to)), Kept("fine"))
      hour == Next("hour", fine)
      day  == Next("day", hour)
  IN [l \in Layers |-> CASE l = "fine"  -> fine
                         [] l = "hour"  -> hour
                         [] l = "day"   -> day
                         [] l = "week"  -> Next("week", day)
                         [] l = "month" -> Next("month", day)]
-----------------------------------------------------------------------------
(* Prepared windows.                                                       *)
WindowStart(window, now) ==
  CASE window = "today" -> DayStart(now)
    [] window = "week"  -> WeekStart(now)
    [] window = "month" -> MonthStart(now)

\* Mutant: the daily part of a month starts with the month even when weekly
\* rows have covered its first weeks.
SegmentsDoubled(window, now) ==
  LET start == WindowStart(window, now)
      today == DayStart(now)
      week  == WeekStart(now)
      fresh == Max({today, Floor(now - FreshTicks, HourTicks)})
  IN {[layer |-> "week", lo |-> start, hi |-> IF window = "month" THEN week ELSE start],
      [layer |-> "day", lo |-> start, hi |-> today],
      [layer |-> "hour", lo |-> today, hi |-> fresh],
      [layer |-> "fine", lo |-> fresh, hi |-> now + 1]}

\* The pieces of a window and the layer each is read from: whole weeks of the
\* month, days before today, hours of today, five minutes for the last hours.
\* A piece that ends before it begins holds no rows.
Segments(window, now) ==
  LET start == WindowStart(window, now)
      today == DayStart(now)
      week  == WeekStart(now)
      fresh == Max({today, Floor(now - FreshTicks, HourTicks)})
      daily == IF window = "month" THEN Max({start, week}) ELSE start
  IN {[layer |-> "week", lo |-> start, hi |-> IF window = "month" THEN week ELSE start],
      [layer |-> "day", lo |-> daily, hi |-> today],
      [layer |-> "hour", lo |-> today, hi |-> fresh],
      [layer |-> "fine", lo |-> fresh, hi |-> now + 1]}

WindowBytes(tables, window, now) ==
  MapThenSumSet(LAMBDA s : SumFunctionOnSet(tables[s.layer], Between(tables[s.layer], s.lo, s.hi)),
                Segments(window, now))
-----------------------------------------------------------------------------
(* The chart of today, from the summary snapshots.                         *)
Hours == 0..(DayTicks \div HourTicks) - 1
FlatChart == [h \in Hours |-> 0]
HourOfDay(t) == (t - DayStart(t)) \div HourTicks

\* The first snapshot of a day is spread evenly over the hours so far.
Spread(total, last) ==
  LET base == total \div (last + 1)
  IN [h \in Hours |-> CASE h < last -> base
                        [] h = last -> total - base * last
                        [] OTHER    -> 0]

\* Math.round of a quotient of naturals.
Rounded(a, b) == (2 * a + b) \div (2 * b)

\* One point of the rescaling loop.  The best point found so far has already
\* been rescaled when the next one is compared with it.
Rescale(target, source, state, h) ==
  LET best   == IF state.points[h] >= state.points[state.best] THEN h ELSE state.best
      scaled == Rounded(state.points[h] * target, source)
  IN [points |-> [state.points EXCEPT ![h] = scaled],
      applied |-> state.applied + scaled, best |-> best]

\* Mutant: what rounding has lost or gained stays lost or gained.
ReconcileLoose(points, target, fallback) ==
  LET source == Bytes(points)
  IN CASE target <= 0 -> FlatChart
       [] target > 0 /\ source <= 0 -> [points EXCEPT ![fallback] = target]
       [] OTHER -> [h \in Hours |-> (points[h] * target) \div source]

\* All points rescaled, one after the other.
RescaleAll(points, target) ==
  FoldLeft(LAMBDA state, h : Rescale(target, Bytes(points), state, h - 1),
           [points |-> points, applied |-> 0, best |-> 0],
           [i \in 1..Cardinality(Hours) |-> i])

\* The points are rescaled to the total last reported; what rounding leaves
\* over goes to one of the highest points.
Reconcile(points, target, fallback) ==
  LET end == RescaleAll(points, target)
  IN CASE target <= 0 -> FlatChart
       [] target > 0 /\ Bytes(points) <= 0 -> [points EXCEPT ![fallback] = target]
       [] OTHER -> [end.points EXCEPT ![end.best] = @ + (target - end.applied)]

\* One of the day's snapshots: the first is spread, each later one adds its
\* gain to its own hour, and a counter that has gone back adds nothing.
AddSample(state, s) ==
  LET h     == HourOfDay(s.at)
      delta == Max({0, s.bytes - state.bytes})
      first == state.first /\ s.bytes > 0
  IN [points |-> IF first THEN [k \in Hours |-> state.points[k] + Spread(s.bytes, h)[k]]
                          ELSE [state.points EXCEPT ![h] = @ + delta],
      bytes |-> s.bytes, first |-> FALSE, hour |-> h,
      observed |-> state.observed \/ delta > 0]

ChartPoints(ordered) ==
  FoldLeft(AddSample, [points |-> FlatChart, bytes |-> 0, first |-> TRUE, hour |-> 0,
                       observed |-> FALSE], ordered)

InOrder(summaries) ==
  CHOOSE q \in SetToSeqs(summaries) : \A i, j \in DOMAIN q : i < j => q[i].at <= q[j].at

TrafficToday(summaries) ==
  LET end == ChartPoints(InOrder(summaries))
  IN IF end.observed THEN Reconcile(end.points, end.bytes, end.hour) ELSE FlatChart
=============================================================================
