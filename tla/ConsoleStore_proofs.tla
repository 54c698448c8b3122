------------------------- MODULE ConsoleStore_proofs --------------------------
(***************************************************************************)
(* Proofs about the console's database: its types, the traffic layers and  *)
(* the windows that are read from them, the day's row and chart, and the   *)
(* backups, after any collections, kills, repairs, days and restarts of    *)
(* the router.                                                             *)
(***************************************************************************)
EXTENDS ConsoleStore, StoreOperators_proofs

Kinds == {"full", "fast", "fault", "repair", "other"}

\* Samples that had been taken by c.
Taken(S, c) == Samples(S) /\ S \subseteq [at : 0..c, bytes : Nat]

\* Tables that hold nothing newer than c.
TablesTo(t, c) == Tables(t) /\ Past(t, c)

Fetches(c) == [at : 0..c, bytes : Nat, facts : BOOLEAN, summary : BOOLEAN]
BackupsTo(c) == [at : 0..c, size : Sizes, managed : BOOLEAN]

\* What every variable may be at a time.
TypeInv ==
  /\ clock \in 0..MaxClock /\ bootAt \in 0..clock
  /\ fetched = None \/ fetched \in Fetches(clock)
  /\ Taken(snapshots, clock) /\ Taken(summaries, clock)
  /\ \A s \in summaries : DayStart(s.at) = DayStart(clock)
  /\ TablesTo(tables, clock)
  /\ prepared # None => prepared.at \in 0..clock
  /\ chart \in [Hours -> Int] /\ pending \in BOOLEAN /\ gap \in BOOLEAN
  /\ since \in 0..clock \cup {None}
  /\ prunedAt \in 0..clock
  /\ IsFiniteSet(backups) /\ backups \subseteq BackupsTo(clock)
  /\ left \in [Kinds -> Nat]

-----------------------------------------------------------------------------
(***************************************************************************)
(* Types.                                                                  *)
(***************************************************************************)
LEMMA LengthsPositive ==
  /\ BucketTicks \in Nat \ {0} /\ HourTicks \in Nat \ {0} /\ DayTicks \in Nat \ {0}
  /\ RebuildTicks \in Nat \ {0} /\ RawTicks \in Nat \ {0} /\ FineTicks \in Nat \ {0}
  /\ HourlyTicks \in Nat \ {0} /\ DailyTicks \in Nat \ {0}
  /\ DayTicks <= FineTicks /\ DayTicks <= RawTicks
BY PyramidAssumption

LEMMA DayFacts ==
  ASSUME NEW t \in Int
  PROVE  /\ DayStart(t) \in Int /\ DayStart(t) <= t /\ t < DayStart(t) + DayTicks
         /\ DayStart(t) = BucketStart(t, "day") /\ DayStart(DayStart(t)) = DayStart(t)
         /\ 0 <= t => 0 <= DayStart(t)
<1>1. "day" \in Layers /\ Length["day"] = DayTicks /\ \A x : DayStart(x) = BucketStart(x, "day")
  BY DEF Layers, Length, BucketStart
<1>2. 0 <= t => 0 <= BucketStart(t, "day") BY BucketOfPast
<1> QED BY <1>1, <1>2, BucketFacts, BucketIdempotent

LEMMA EarliestExists ==
  ASSUME NEW S, IsFiniteSet(S), S # {}, S \subseteq Int
  PROVE  Min(S) \in S /\ \A x \in S : Min(S) <= x
<1> DEFINE Has(T) == T = {} \/ \E m \in T : \A x \in T : m <= x
           good == {T \in SUBSET S : Has(T)}
<1>1. {} \in good OBVIOUS
<1>2. ASSUME NEW T \in SUBSET S, NEW x \in S \ T, T \in good
      PROVE  T \cup {x} \in good
  <2>1. CASE T = {}
    <3>1. \A y \in T \cup {x} : x <= y BY <2>1
    <3> QED BY <3>1
  <2>2. CASE T # {}
    <3>1. PICK m \in T : \A y \in T : m <= y BY <1>2, <2>2
    <3>2. CASE m <= x
      <4>1. \A y \in T \cup {x} : m <= y BY <3>1, <3>2
      <4> QED BY <4>1
    <3>3. CASE ~(m <= x)
      <4>1. \A y \in T \cup {x} : x <= y BY <3>1, <3>3
      <4> QED BY <4>1
    <3> QED BY <3>2, <3>3
  <2> QED BY <2>1, <2>2
<1> HIDE DEF good
<1>3. S \in good BY <1>1, <1>2, InsertionInduction
<1>4. \E m \in S : \A x \in S : m <= x BY <1>3 DEF good
<1> QED BY <1>4 DEF Min

LEMMA TakenSubset ==
  ASSUME NEW S, NEW c, Taken(S, c), NEW T \in SUBSET S
  PROVE  Taken(T, c)
<1>1. IsFiniteSet(T) BY FS_Subset DEF Taken, Samples
<1> QED BY <1>1 DEF Taken, Samples

LEMMA TakenAdd ==
  ASSUME NEW S, NEW c \in Nat, Taken(S, c), NEW x \in [at : 0..c, bytes : Nat]
  PROVE  Taken(S \cup {x}, c)
<1>1. IsFiniteSet(S \cup {x}) BY FS_AddElement DEF Taken, Samples
<1> QED BY <1>1 DEF Taken, Samples

LEMMA TakenLater ==
  ASSUME NEW S, NEW c \in Nat, Taken(S, c), NEW d \in Nat, c <= d
  PROVE  Taken(S, d)
BY DEF Taken

\* The start of a collector's range.
LEMMA DirtyStartFacts ==
  ASSUME NEW fine, NEW now \in Int
  PROVE  /\ DirtyStart(fine, now) \in Int
         /\ fine # NoRows => DayStart(now) <= DirtyStart(fine, now)
<1>1. MonthStart(now) \in Int
  <2>1. "month" \in Layers /\ MonthStart(now) = BucketStart(now, "month")
    BY DEF Layers, BucketStart
  <2> QED BY <2>1, BucketFacts
<1>2. /\ Max({now - RebuildTicks, DayStart(now)}) \in Int
      /\ DayStart(now) <= Max({now - RebuildTicks, DayStart(now)})
  <2> DEFINE x == now - RebuildTicks
             d == DayStart(now)
  <2>1. x \in Int /\ d \in Int BY LengthsPositive, DayFacts
  <2> HIDE DEF x, d
  <2>2. IsFiniteSet({x, d})
    <3>1. IsFiniteSet({x}) BY FS_Singleton
    <3>2. IsFiniteSet({x} \cup {d}) BY <3>1, FS_AddElement
    <3>3. {x} \cup {d} = {x, d} OBVIOUS
    <3> QED BY <3>2, <3>3
  <2>3. {x, d} # {} /\ {x, d} \subseteq Int /\ d \in {x, d} BY <2>1
  <2>4. Max({x, d}) \in {x, d} /\ \A y \in {x, d} : y <= Max({x, d})
    BY <2>2, <2>3, MaxOfFinite
  <2>5. Max({x, d}) \in Int /\ d <= Max({x, d}) BY <2>3, <2>4
  <2> QED BY <2>5 DEF x, d
<1> QED BY <1>1, <1>2 DEF DirtyStart

\* A rebuild keeps the tables what they are.
LEMMA RebuildKeeps ==
  ASSUME NEW c \in Nat, NEW t, TablesTo(t, c), NEW S, Taken(S, c),
         NEW from \in Int, NEW to \in Int, NEW n, n = RebuildRange(t, S, from, to)
  PROVE  TablesTo(n, c) /\ RebuildsTo(n, t, S, from, to)
<1>1. Tables(t) /\ Past(t, c) /\ Samples(S) BY DEF TablesTo, Taken
<1>2. RebuildsTo(n, t, S, from, to) BY <1>1, RebuildFacts
<1>3. \A s \in S : 0 <= s.at /\ s.at <= c BY DEF Taken
<1>4. Past(n, c) BY <1>1, <1>2, <1>3, RebuildPast
<1> QED BY <1>2, <1>4 DEF TablesTo, RebuildsTo

\* How far a pruning of now goes.
Now == [fine |-> clock - FineTicks, hour |-> clock - HourlyTicks, day |-> clock - DailyTicks]

LEMMA CutFacts ==
  ASSUME TypeInv
  PROVE  /\ Cuts(Now) /\ Cuts(Cutoff)
         /\ Cutoff.fine <= Now.fine /\ Cutoff.hour <= Now.hour /\ Cutoff.day <= Now.day
<1>1. clock \in Nat /\ prunedAt \in Int /\ prunedAt <= clock BY DEF TypeInv
<1>2. /\ Now.fine = clock - FineTicks /\ Now.hour = clock - HourlyTicks
      /\ Now.day = clock - DailyTicks /\ Cutoff.fine = prunedAt - FineTicks
      /\ Cutoff.hour = prunedAt - HourlyTicks /\ Cutoff.day = prunedAt - DailyTicks
  BY DEF Now, Cutoff
<1> QED BY <1>1, <1>2, LengthsPositive DEF Cuts

LEMMA PrunedFacts ==
  ASSUME TypeInv
  PROVE  /\ Pruned(tables) = Expired(tables, Now)
         /\ TablesTo(Pruned(tables), clock)
         /\ DOMAIN Pruned(tables).fine \subseteq DOMAIN tables.fine
         /\ SameFrom(Pruned(tables).day, tables.day, clock - DailyTicks)
<1> DEFINE n == Pruned(tables)
<1>1. n = Expired(tables, Now) BY DEF Pruned, Expired, Now
<1>2. Tables(tables) /\ Past(tables, clock) /\ Cuts(Now) BY CutFacts DEF TypeInv, TablesTo
<1> HIDE DEF n
<1>3. /\ Tables(n)
      /\ \A l \in {"fine", "hour", "day"} : DOMAIN n[l] \subseteq DOMAIN tables[l]
      /\ \A b \in Int : Now.day <= b => Row(n.day, b) = Row(tables.day, b)
  BY <1>1, <1>2, ExpiredFacts
<1>4. Past(n, clock) BY <1>2, <1>3 DEF Past
<1>5. SameFrom(n.day, tables.day, clock - DailyTicks) BY <1>3 DEF SameFrom, Now
<1> QED BY <1>1, <1>3, <1>4, <1>5 DEF TablesTo, n

Stages == {"stored", "pruned", "rebuilt", "done"}

\* The range of a collector and the tables it makes.
From == DirtyStart(Pruned(tables).fine, clock)

LEMMA FromFacts ==
  ASSUME TypeInv
  PROVE  From \in Int /\ (Pruned(tables).fine # NoRows => DayStart(clock) <= From)
<1>1. clock \in Int BY DEF TypeInv
<1> QED BY <1>1, DirtyStartFacts DEF From

LEMMA SupersedingFacts ==
  ASSUME NEW samples, Taken(samples, clock)
  PROVE  /\ Superseding(samples) \subseteq samples /\ Taken(Superseding(samples), clock)
         /\ \A s, o \in Superseding(samples) : s = o
<1>1. Superseding(samples) \subseteq samples BY DEF Superseding
<1>2. \A s, o \in Superseding(samples) : s = o BY DEF Superseding
<1> QED BY <1>1, <1>2, TakenSubset

\* What a collector that has stored its rows does, case by case.
LEMMA SettleSteps ==
  ASSUME NEW samples, NEW sums, NEW stage \in Stages, Settle(samples, sums, stage)
  PROVE  /\ summaries' = sums
         /\ \/ /\ pending' = TRUE /\ snapshots' = samples
               /\ prunedAt' = prunedAt /\ UNCHANGED <<tables, prepared, chart, since, gap>>
            \/ /\ pending' = TRUE /\ snapshots' = Superseding(samples)
               /\ prunedAt' = clock
               /\ tables' = Pruned(tables) /\ UNCHANGED <<prepared, chart, since, gap>>
            \/ /\ pending' = FALSE /\ snapshots' = Superseding(samples)
               /\ prunedAt' = clock
               /\ Rebuilt(Superseding(samples), sums, From)
<1>1. CASE stage = "stored" BY <1>1 DEF Settle
<1>2. CASE stage = "pruned" BY <1>2 DEF Settle
<1>3. CASE stage \notin {"stored", "pruned"}
  <2>1. stage # "stored" /\ stage # "pruned" BY <1>3
  <2>2. Rebuilt(Superseding(samples), sums, DirtyStart(Pruned(tables).fine, clock))
    <3> DEFINE stored == UNCHANGED <<tables, prepared, chart, since, gap>>
               pruned == tables' = Pruned(tables) /\ UNCHANGED <<prepared, chart, since, gap>>
               rebuilt == Rebuilt(Superseding(samples), sums, DirtyStart(Pruned(tables).fine, clock))
    <3>1. (CASE stage = "stored" -> stored [] stage = "pruned" -> pruned [] OTHER -> rebuilt)
      BY Zenon DEF Settle
    <3> HIDE DEF stored, pruned, rebuilt
    <3>2. rebuilt BY <2>1, <3>1
    <3> QED BY <3>2 DEF rebuilt
  <2>3. pending' = FALSE
    <3>1. pending' = (stage \in {"stored", "pruned"}) BY Zenon DEF Settle
    <3>2. (stage \in {"stored", "pruned"}) = FALSE BY <2>1
    <3> QED BY <3>1, <3>2, Zenon
  <2>4. /\ summaries' = sums /\ snapshots' = Superseding(samples)
        /\ prunedAt' = clock
    BY <2>1 DEF Settle
  <2> QED BY <2>2, <2>3, <2>4 DEF From
<1> QED BY <1>1, <1>2, <1>3

LEMMA TodayTaken ==
  ASSUME clock \in Nat, NEW S, Taken(S, clock), Today(S) # {}
  PROVE  /\ Min({s.at : s \in Today(S)}) \in 0..clock
         /\ \A s \in Today(S) : Min({o.at : o \in Today(S)}) <= s.at
<1> DEFINE T == Today(S)
           A == {s.at : s \in T}
<1>1. T \subseteq S BY DEF Today
<1>2. Taken(T, clock) BY <1>1, TakenSubset
<1>3. A \subseteq Int /\ A # {} /\ A \subseteq 0..clock BY <1>2 DEF Taken
<1>4. IsFiniteSet(A)
  <2> DEFINE f == [s \in T |-> s.at]
  <2>1. IsFiniteSet(T) /\ DOMAIN f = T BY <1>2 DEF Taken, Samples
  <2>2. A = {f[s] : s \in T} OBVIOUS
  <2> HIDE DEF f, A, T
  <2> QED BY <2>1, <2>2, ImageFinite
<1>5. \A s \in T : s.at \in A OBVIOUS
<1> HIDE DEF A
<1>6. Min(A) \in A /\ \A x \in A : Min(A) <= x BY <1>3, <1>4, EarliestExists
<1> QED BY <1>3, <1>5, <1>6 DEF A

\* Types after a rebuild by a collector.
LEMMA TypeRebuilt ==
  ASSUME TypeInv, UNCHANGED clock, NEW samples, Taken(samples, clock), NEW sums, Taken(sums, clock),
         Rebuilt(samples, sums, From)
  PROVE  /\ TablesTo(tables', clock) /\ RebuildsTo(tables', Pruned(tables), samples, From, clock + 1)
         /\ prepared' = Windows(tables') /\ prepared'.at = clock
         /\ chart' = TrafficToday(sums) /\ chart' \in [Hours -> Int]
         /\ gap' \in BOOLEAN /\ since' \in 0..clock \cup {None}
<1>1. clock \in Nat /\ clock + 1 \in Int /\ since \in 0..clock \cup {None} BY DEF TypeInv
<1>2. tables' = RebuildRange(Pruned(tables), samples, From, clock + 1) BY DEF Rebuilt
<1>3. TablesTo(tables', clock) /\ RebuildsTo(tables', Pruned(tables), samples, From, clock + 1)
  BY <1>1, <1>2, PrunedFacts, FromFacts, RebuildKeeps
<1>4. prepared' = Windows(tables') /\ prepared'.at = clock BY DEF Rebuilt, Windows
<1>5. chart' = TrafficToday(sums) /\ chart' \in [Hours -> Int]
  BY TrafficTodayFacts DEF Rebuilt, Taken
<1>6. gap' \in BOOLEAN BY DEF Rebuilt, TypeInv, LeftBehind
<1>7. since' \in 0..clock \cup {None}
  <2> DEFINE I == InRange(samples, From, clock + 1)
  <2>1. Taken(I, clock)
    <3>1. I \subseteq samples BY DEF InRange
    <3> QED BY <3>1, TakenSubset
  <2>2. since' = IF Today(I) = {} THEN since ELSE Min({s.at : s \in Today(I)})
    BY DEF Rebuilt
  <2> HIDE DEF I
  <2> QED BY <1>1, <2>1, <2>2, TodayTaken
<1> QED BY <1>3, <1>4, <1>5, <1>6, <1>7

\* Spending a step of a kind.
LEMMA LessFacts ==
  ASSUME NEW l \in [Kinds -> Nat], NEW kind \in Kinds \ {"other"}, l[kind] > 0,
         kind # "full" => l["other"] > 0
  PROVE  /\ Less(l, kind) \in [Kinds -> Nat]
         /\ Less(l, kind)[kind] = l[kind] - 1
         /\ \A k \in Kinds \ {kind, "other"} : Less(l, kind)[k] = l[k]
         /\ kind = "full" => Less(l, kind)["other"] = l["other"]
<1>1. "other" \in Kinds BY DEF Kinds
<1>2. l[kind] - 1 \in Nat /\ (kind # "full" => l["other"] - 1 \in Nat) BY <1>1
<1> QED BY <1>1, <1>2 DEF Less

LEMMA SpendFacts ==
  ASSUME TypeInv, NEW kind \in Kinds \ {"other"}, Spend(kind)
  PROVE  left' \in [Kinds -> Nat] /\ left'[kind] = left[kind] - 1
<1>1. left \in [Kinds -> Nat] BY DEF TypeInv
<1> QED BY <1>1, LessFacts DEF Spend, Able

LEMMA SpendUponFacts ==
  ASSUME TypeInv, NEW kind \in Kinds \ {"other", "fault"}, NEW b, SpendUpon(kind, b)
  PROVE  left' \in [Kinds -> Nat]
<1> DEFINE rest == Less(left, kind)
<1>1. /\ left \in [Kinds -> Nat] /\ left[kind] > 0 /\ (kind # "full" => left["other"] > 0)
      /\ kind \in Kinds \ {"other"} /\ "fault" \in Kinds \ {"other"}
  BY DEF TypeInv, SpendUpon, Able, Kinds
<1>2. rest \in [Kinds -> Nat] BY <1>1, LessFacts
<1>3. \/ rest["fault"] > 0 /\ rest["other"] > 0 /\ left' = Less(rest, "fault")
      \/ left' = rest
  BY DEF SpendUpon
<1> HIDE DEF rest
<1>4. CASE rest["fault"] > 0 /\ rest["other"] > 0 /\ left' = Less(rest, "fault")
  <2>1. Less(rest, "fault") \in [Kinds -> Nat] BY <1>1, <1>2, <1>4, LessFacts
  <2> QED BY <1>4, <2>1
<1> QED BY <1>2, <1>3, <1>4

LEMMA SpendIfFacts ==
  ASSUME TypeInv, NEW b, SpendIf(b)
  PROVE  left' \in [Kinds -> Nat]
<1>1. CASE b BY <1>1, SpendFacts DEF SpendIf, Kinds
<1>2. CASE ~b BY <1>2 DEF SpendIf, TypeInv
<1> QED BY <1>1, <1>2

LEMMA NextDay ==
  ASSUME NEW t \in Nat
  PROVE  DayStart(t + 1) # DayStart(t) => DayStart(t + 1) = t + 1
<1>1. /\ DayStart(t + 1) \in Int /\ DayStart(t + 1) <= t + 1 /\ t + 1 < DayStart(t + 1) + DayTicks
      /\ DayStart(t + 1) = BucketStart(t + 1, "day") /\ DayStart(t) = BucketStart(t, "day")
  BY DayFacts
<1>2. ASSUME DayStart(t + 1) <= t PROVE DayStart(t) = DayStart(t + 1)
  <2>1. "day" \in Layers /\ Length["day"] = DayTicks BY DEF Layers, Length
  <2>2. BucketStart(t + 1, "day") <= t /\ t < BucketStart(t + 1, "day") + Length["day"]
    BY <1>1, <1>2, <2>1, LengthsPositive
  <2>3. t + 1 \in Int /\ t \in Int OBVIOUS
  <2> QED BY <1>1, <2>1, <2>2, <2>3, BucketFacts
<1> QED BY <1>1, <1>2

LEMMA TypeInit ==
  ASSUME Init
  PROVE  TypeInv
<1>1. clock \in 0..MaxClock /\ bootAt \in 0..clock /\ prunedAt \in 0..clock
  BY StoreAssumption DEF Init
<1>2. Taken({}, clock) BY FS_EmptySet DEF Taken, Samples
<1>3. TablesTo(tables, clock)
  <2>1. clock \in Int BY <1>1
  <2> QED BY <2>1, NoTablesFacts DEF Init, TablesTo
<1>4. chart \in [Hours -> Int] BY FlatChartFacts DEF Init
<1>5. left \in [Kinds -> Nat]
  <2>1. /\ MaxFull \in Nat /\ MaxFast \in Nat /\ MaxFaults \in Nat /\ MaxRepairs \in Nat
        /\ MaxOther \in Nat
    BY StoreAssumption
  <2> QED BY <2>1 DEF Init, Kinds
<1>6. IsFiniteSet(backups) /\ backups \subseteq BackupsTo(clock) BY FS_EmptySet DEF Init
<1>7. /\ fetched = None /\ since = None /\ pending = FALSE /\ gap = FALSE /\ prepared = None
      /\ snapshots = {} /\ summaries = {}
  BY DEF Init
<1> QED BY <1>1, <1>2, <1>3, <1>4, <1>5, <1>6, <1>7 DEF TypeInv

LEMMA TypeTick ==
  ASSUME TypeInv, Tick
  PROVE  TypeInv'
<1>1. clock \in Nat /\ clock' = clock + 1 /\ clock' \in 0..MaxClock /\ clock' \in Nat
  BY StoreAssumption DEF TypeInv, Tick
<1>2. /\ fetched' = fetched /\ snapshots' = snapshots /\ tables' = tables /\ prepared' = prepared
      /\ chart' = chart /\ prunedAt' = prunedAt /\ backups' = backups /\ pending' = pending
  BY DEF Tick
<1>3. /\ summaries' = IF NewDay(clock + 1) THEN {} ELSE summaries
      /\ since' = IF NewDay(clock + 1) THEN None ELSE since
      /\ gap' = (gap /\ ~NewDay(clock + 1))
  BY DEF Tick
<1>4. bootAt' \in 0..clock' /\ left' \in [Kinds -> Nat]
  <2>1. CASE bootAt' = (IF NewDay(clock + 1) THEN 0 ELSE bootAt) /\ UNCHANGED left
    BY <1>1, <2>1 DEF TypeInv
  <2>2. CASE bootAt' = clock + 1 /\ Spend("fault")
    <3>1. left' \in [Kinds -> Nat] BY <2>2, SpendFacts DEF Kinds
    <3> QED BY <1>1, <2>2, <3>1
  <2> QED BY <2>1, <2>2 DEF Tick
<1>5. fetched' = None \/ fetched' \in Fetches(clock') BY <1>1, <1>2 DEF TypeInv, Fetches
<1>6. Taken(snapshots, clock') BY <1>1, TakenLater DEF TypeInv
<1>7. Taken(summaries', clock') /\ \A s \in summaries' : DayStart(s.at) = DayStart(clock')
  <2>1. CASE NewDay(clock + 1)
    <3>1. summaries' = {} BY <1>3, <2>1
    <3>2. Taken({}, clock') BY FS_EmptySet DEF Taken, Samples
    <3> QED BY <3>1, <3>2
  <2>2. CASE ~NewDay(clock + 1)
    <3>1. Taken(summaries, clock') BY <1>1, TakenLater DEF TypeInv
    <3>2. summaries' = summaries /\ DayStart(clock') = DayStart(clock)
      BY <1>1, <1>3, <2>2 DEF NewDay
    <3> QED BY <3>1, <3>2 DEF TypeInv
  <2> QED BY <2>1, <2>2
<1>8. TablesTo(tables', clock')
  <2>1. Tables(tables) /\ Past(tables, clock) BY DEF TypeInv, TablesTo
  <2>2. \A l \in {"fine", "hour", "day"} : \A b \in DOMAIN tables[l] : b \in Int
    BY <2>1 DEF Tables, Table, Layers
  <2>3. Past(tables, clock') BY <1>1, <2>1, <2>2 DEF Past
  <2> QED BY <1>2, <2>1, <2>3 DEF TablesTo
<1>9. prepared' # None => prepared'.at \in 0..clock' BY <1>1, <1>2 DEF TypeInv
<1>10. since' \in 0..clock' \cup {None} /\ gap' \in BOOLEAN BY <1>1, <1>3 DEF TypeInv
<1>11. prunedAt' \in 0..clock' BY <1>1, <1>2 DEF TypeInv
<1>12. backups' \subseteq BackupsTo(clock') /\ IsFiniteSet(backups')
  BY <1>1, <1>2 DEF TypeInv, BackupsTo
<1>13. chart' \in [Hours -> Int] /\ pending' \in BOOLEAN BY <1>2 DEF TypeInv
<1> HIDE DEF TypeInv
<1> QED
  BY <1>1, <1>2, <1>4, <1>5, <1>6, <1>7, <1>8, <1>9, <1>10, <1>11, <1>12, <1>13 DEF TypeInv

LEMMA CounterFacts ==
  ASSUME TypeInv
  PROVE  Counter(clock) \in Nat
<1> DEFINE d == DayStart(clock)
           b == bootAt
<1>1. clock \in Nat /\ d \in Int /\ d <= clock /\ b \in Int /\ b <= clock
  BY DayFacts DEF TypeInv
<1>2. Counter(clock) = clock - Max({d, b}) BY DEF Counter
<1> HIDE DEF d, b
<1>3. IsFiniteSet({d, b})
  <2>1. IsFiniteSet({d}) BY FS_Singleton
  <2>2. IsFiniteSet({d} \cup {b}) BY <2>1, FS_AddElement
  <2>3. {d} \cup {b} = {d, b} OBVIOUS
  <2> QED BY <2>2, <2>3
<1>4. {d, b} # {} /\ {d, b} \subseteq Int BY <1>1
<1>5. Max({d, b}) \in {d, b} BY <1>3, <1>4, MaxOfFinite
<1>6. Max({d, b}) \in Int /\ Max({d, b}) <= clock BY <1>1, <1>5
<1> QED BY <1>1, <1>2, <1>6

LEMMA TypeFetch ==
  ASSUME TypeInv, FetchFull
  PROVE  TypeInv'
<1>1. UNCHANGED <<clock, bootAt, snapshots, summaries, models, backups, pending>> BY DEF FetchFull
<1>2. fetched' \in Fetches(clock)
  <2>1. PICK facts, summary \in BOOLEAN :
          fetched' = [at |-> clock, bytes |-> Counter(clock), facts |-> facts, summary |-> summary]
    BY DEF FetchFull
  <2>2. clock \in 0..clock BY DEF TypeInv
  <2> QED BY <2>1, <2>2, CounterFacts DEF Fetches
<1>3. left' \in [Kinds -> Nat]
  <2>1. PICK b : SpendUpon("full", b) BY DEF FetchFull
  <2> QED BY <2>1, SpendUponFacts DEF Kinds
<1> QED BY <1>1, <1>2, <1>3 DEF TypeInv, models, TablesTo, Past, Tables

LEMMA TypeSkip ==
  ASSUME TypeInv, SkipFull
  PROVE  TypeInv'
<1>1. UNCHANGED <<clock, bootAt, snapshots, summaries, models, backups, pending>> /\ fetched' = None
  BY DEF SkipFull
<1>2. left' \in [Kinds -> Nat] BY SpendIfFacts DEF SkipFull
<1> QED BY <1>1, <1>2 DEF TypeInv, models, TablesTo, Past, Tables

\* Types of what a collector that has stored its rows changes.
SettleTypes ==
  /\ Taken(snapshots', clock) /\ Taken(summaries', clock)
  /\ \A s \in summaries' : DayStart(s.at) = DayStart(clock)
  /\ TablesTo(tables', clock)
  /\ prepared' # None => prepared'.at \in 0..clock
  /\ chart' \in [Hours -> Int] /\ pending' \in BOOLEAN /\ gap' \in BOOLEAN
  /\ since' \in 0..clock \cup {None}
  /\ prunedAt' \in 0..clock

LEMMA TypeSettle ==
  ASSUME TypeInv, UNCHANGED clock, NEW samples, Taken(samples, clock), NEW sums, Taken(sums, clock),
         \A s \in sums : DayStart(s.at) = DayStart(clock),
         NEW stage \in Stages, Settle(samples, sums, stage)
  PROVE  SettleTypes
<1>1. prunedAt \in 0..clock /\ clock \in 0..clock BY DEF TypeInv
<1>2. summaries' = sums BY SettleSteps
<1>3. Taken(Superseding(samples), clock) BY SupersedingFacts
<1>4. CASE /\ pending' = TRUE /\ snapshots' = samples
           /\ prunedAt' = prunedAt /\ UNCHANGED <<tables, prepared, chart, since, gap>>
  <2>1. TablesTo(tables', clock) BY <1>4 DEF TypeInv, TablesTo, Past, Tables
  <2> QED BY <1>1, <1>2, <1>4, <2>1 DEF SettleTypes, TypeInv
<1>5. CASE /\ pending' = TRUE /\ snapshots' = Superseding(samples)
           /\ prunedAt' = clock
           /\ tables' = Pruned(tables) /\ UNCHANGED <<prepared, chart, since, gap>>
  <2>1. TablesTo(tables', clock) BY <1>5, PrunedFacts
  <2> QED BY <1>1, <1>2, <1>3, <1>5, <2>1 DEF SettleTypes, TypeInv
<1>6. CASE /\ pending' = FALSE /\ snapshots' = Superseding(samples)
           /\ prunedAt' = clock
           /\ Rebuilt(Superseding(samples), sums, From)
  <2>1. /\ TablesTo(tables', clock) /\ prepared'.at = clock /\ chart' \in [Hours -> Int]
        /\ gap' \in BOOLEAN /\ since' \in 0..clock \cup {None}
    BY <1>3, <1>6, TypeRebuilt
  <2>2. clock \in 0..clock BY DEF TypeInv
  <2> QED BY <1>1, <1>2, <1>3, <1>6, <2>1, <2>2 DEF SettleTypes
<1> QED BY <1>4, <1>5, <1>6, SettleSteps

\* Types of the backups.
LEMMA BackupsAreFiles ==
  ASSUME TypeInv, NEW S, IsFiniteSet(S), S \subseteq BackupsTo(clock)
  PROVE  Files(S)
<1>1. ASSUME NEW f \in S PROVE f.at \in Int /\ f.size \in Nat /\ f.managed \in BOOLEAN
  <2>1. f \in BackupsTo(clock) BY <1>1
  <2>2. f.at \in 0..clock /\ f.size \in Sizes /\ f.managed \in BOOLEAN BY <2>1 DEF BackupsTo
  <2>3. f.size \in Nat BY <2>2, StoreAssumption
  <2>4. clock \in Nat BY DEF TypeInv
  <2>5. f.at \in Int BY <2>2, <2>4
  <2> QED BY <2>2, <2>3, <2>5, Zenon
<1> QED BY <1>1 DEF Files

LEMMA RetainedFacts ==
  ASSUME TypeInv, NEW size \in Sizes, NEW room \in BOOLEAN
  PROVE  LET kept == Retained(backups, clock, size, room)
             new == Created(backups, clock, size, room)
         IN /\ IsFiniteSet(new) /\ new \subseteq BackupsTo(clock)
            /\ Files(Aged(new, clock)) /\ kept = KeepAll(NewestFirst(Aged(new, clock)))
            /\ kept \subseteq new /\ IsFiniteSet(kept) /\ Files(kept)
            /\ Cardinality(kept) <= MaxFiles /\ TotalSize(kept) <= MaxBytes
<1> DEFINE new == Created(backups, clock, size, room)
           x == [at |-> clock, size |-> size, managed |-> TRUE]
           aged == Aged(new, clock)
           kept == Retained(backups, clock, size, room)
<1>1. IsFiniteSet(backups) /\ backups \subseteq BackupsTo(clock) /\ clock \in 0..clock BY DEF TypeInv
<1>2. x \in BackupsTo(clock) BY <1>1 DEF BackupsTo
<1>3. new = backups \/ new = backups \cup {x} BY DEF Created
<1> HIDE DEF x, new
<1>4. IsFiniteSet(new) /\ new \subseteq BackupsTo(clock) BY <1>1, <1>2, <1>3, FS_AddElement
<1>5. IsFiniteSet(aged) /\ aged \subseteq new
  <2>1. aged \subseteq new BY DEF Aged
  <2> QED BY <1>4, <2>1, FS_Subset
<1>6. Files(aged)
  <2> HIDE DEF aged
  <2> QED BY <1>4, <1>5, BackupsAreFiles
<1>7. kept = KeepAll(NewestFirst(aged)) BY Zenon DEF Retained, KeepAll, new
<1> HIDE DEF aged, kept
<1>8. /\ KeepAll(NewestFirst(aged)) \subseteq aged /\ Files(KeepAll(NewestFirst(aged)))
      /\ Cardinality(KeepAll(NewestFirst(aged))) <= MaxFiles
      /\ TotalSize(KeepAll(NewestFirst(aged))) <= MaxBytes
  BY <1>6, KeptIsBounded
<1>9. IsFiniteSet(kept) /\ kept \subseteq new BY <1>5, <1>7, <1>8 DEF Files
<1> QED BY <1>4, <1>6, <1>7, <1>8, <1>9 DEF new, aged, kept

\* What a stored run adds to the snapshots.
LEMMA StoredSamples ==
  ASSUME TypeInv, fetched # None, NEW bytes \in Nat
  PROVE  /\ fetched \in Fetches(clock)
         /\ Taken(WithFacts(bytes), clock) /\ Taken(WithSummary, clock)
         /\ \A s \in WithSummary : DayStart(s.at) = DayStart(clock)
<1>1. fetched \in Fetches(clock) /\ clock \in Nat BY DEF TypeInv
<1>2. Sample \in [at : 0..clock, bytes : Nat] BY <1>1 DEF Sample, Fetches
<1>3. [Sample EXCEPT !.bytes = bytes] \in [at : 0..clock, bytes : Nat] BY <1>2
<1>4. Taken(WithFacts(bytes), clock)
  <2>1. CASE fetched.facts
    <3>1. WithFacts(bytes) = snapshots \cup {[Sample EXCEPT !.bytes = bytes]}
      BY <2>1 DEF WithFacts
    <3> QED BY <1>1, <1>3, <3>1, TakenAdd DEF TypeInv
  <2>2. CASE ~fetched.facts
    <3>1. WithFacts(bytes) = snapshots BY <2>2 DEF WithFacts
    <3> QED BY <3>1 DEF TypeInv
  <2> QED BY <2>1, <2>2
<1>5. /\ Taken(WithSummary, clock)
      /\ \A s \in WithSummary : DayStart(s.at) = DayStart(clock)
  <2>1. CASE fetched.summary /\ DayStart(Sample.at) = DayStart(clock)
    <3>1. WithSummary = summaries \cup {Sample} BY <2>1 DEF WithSummary, Today
    <3>2. Taken(summaries \cup {Sample}, clock) BY <1>1, <1>2, TakenAdd DEF TypeInv
    <3> QED BY <2>1, <3>1, <3>2 DEF TypeInv
  <2>2. CASE ~(fetched.summary /\ DayStart(Sample.at) = DayStart(clock))
    <3>1. WithSummary = summaries BY <2>2 DEF WithSummary, Today
    <3> QED BY <3>1 DEF TypeInv
  <2> QED BY <2>1, <2>2
<1> QED BY <1>1, <1>4, <1>5

LEMMA TypeStore ==
  ASSUME TypeInv, StoreFull
  PROVE  TypeInv'
<1>1. PICK stage \in Stages, size \in Sizes, room \in BOOLEAN :
        /\ Settle(WithFacts(fetched.bytes), WithSummary, stage)
        /\ SpendIf(stage # "done" \/ ~room)
        /\ backups' = IF stage = "done" THEN Retained(backups, clock, size, room) ELSE backups
  BY DEF StoreFull, Stages
<1>2. fetched # None /\ fetched' = None /\ UNCHANGED <<clock, bootAt>> BY DEF StoreFull
<1>3. fetched.bytes \in Nat BY <1>2 DEF TypeInv, Fetches
<1>4. SettleTypes
  <2>1. Taken(WithFacts(fetched.bytes), clock) /\ Taken(WithSummary, clock)
        /\ \A s \in WithSummary : DayStart(s.at) = DayStart(clock)
    BY <1>2, <1>3, StoredSamples
  <2> QED BY <1>1, <1>2, <2>1, TypeSettle
<1>5. left' \in [Kinds -> Nat] BY <1>1, SpendIfFacts
<1>6. IsFiniteSet(backups') /\ backups' \subseteq BackupsTo(clock)
  <2>1. CASE stage = "done"
    <3>1. backups' = Retained(backups, clock, size, room) BY <1>1, <2>1
    <3>2. /\ Created(backups, clock, size, room) \subseteq BackupsTo(clock)
          /\ Retained(backups, clock, size, room) \subseteq Created(backups, clock, size, room)
          /\ IsFiniteSet(Retained(backups, clock, size, room))
      BY <1>1, RetainedFacts
    <3> QED BY <3>1, <3>2
  <2>2. CASE stage # "done" BY <1>1, <2>2 DEF TypeInv
  <2> QED BY <2>1, <2>2
<1>7. clock \in 0..MaxClock /\ bootAt \in 0..clock BY DEF TypeInv
<1> QED BY <1>2, <1>4, <1>5, <1>6, <1>7 DEF TypeInv, SettleTypes, Fetches, BackupsTo

LEMMA TypeStorePartly ==
  ASSUME TypeInv, StorePartly
  PROVE  TypeInv'
<1>1. /\ fetched # None /\ fetched' = None /\ UNCHANGED <<clock, bootAt, backups>>
      /\ Settle(WithFacts(fetched.bytes \div 2), WithSummary, "stored") /\ Spend("fault")
  BY DEF StorePartly
<1>2. fetched.bytes \in Nat BY <1>1 DEF TypeInv, Fetches
<1>3. fetched.bytes \div 2 \in Nat BY <1>2
<1>4. SettleTypes
  <2>1. Taken(WithFacts(fetched.bytes \div 2), clock) /\ Taken(WithSummary, clock)
        /\ \A s \in WithSummary : DayStart(s.at) = DayStart(clock)
    BY <1>1, <1>3, StoredSamples
  <2>2. "stored" \in Stages BY DEF Stages
  <2> QED BY <1>1, <2>1, <2>2, TypeSettle
<1>5. left' \in [Kinds -> Nat] BY <1>1, SpendFacts DEF Kinds
<1>7. clock \in 0..MaxClock /\ bootAt \in 0..clock /\ IsFiniteSet(backups)
      /\ backups \subseteq BackupsTo(clock)
  BY DEF TypeInv
<1> QED BY <1>1, <1>4, <1>5, <1>7 DEF TypeInv, SettleTypes, Fetches, BackupsTo

\* What a light or a live run adds to the summaries.
LEMMA FastSamples ==
  ASSUME TypeInv, NEW light \in BOOLEAN, NEW sums,
         sums = summaries \cup (IF light THEN {[at |-> clock, bytes |-> Counter(clock)]} ELSE {})
  PROVE  Taken(sums, clock) /\ \A s \in sums : DayStart(s.at) = DayStart(clock)
<1> DEFINE x == [at |-> clock, bytes |-> Counter(clock)]
<1>1. clock \in Nat /\ clock \in 0..clock /\ Taken(summaries, clock) BY DEF TypeInv
<1>2. x \in [at : 0..clock, bytes : Nat] BY <1>1, CounterFacts
<1>3. x.at = clock OBVIOUS
<1>4. sums = summaries \/ sums = summaries \cup {x} OBVIOUS
<1> HIDE DEF x
<1>5. Taken(summaries \cup {x}, clock) BY <1>1, <1>2, TakenAdd
<1> QED BY <1>1, <1>3, <1>4, <1>5 DEF TypeInv

LEMMA TypeFast ==
  ASSUME TypeInv, FastCollect
  PROVE  TypeInv'
<1>1. UNCHANGED <<clock, bootAt, fetched, backups>> BY DEF FastCollect
<1>2. PICK light \in BOOLEAN, stage \in Stages :
        /\ SpendUpon("fast", stage # "done")
        /\ Settle(snapshots,
                  summaries \cup (IF light THEN {[at |-> clock, bytes |-> Counter(clock)]} ELSE {}),
                  stage)
  BY DEF FastCollect, Stages
<1>3. SettleTypes
  <2> DEFINE sums == summaries \cup (IF light THEN {[at |-> clock, bytes |-> Counter(clock)]} ELSE {})
  <2>1. Taken(sums, clock) /\ \A s \in sums : DayStart(s.at) = DayStart(clock)
    BY FastSamples
  <2>2. Settle(snapshots, sums, stage) BY <1>2
  <2> HIDE DEF sums
  <2>3. Taken(snapshots, clock) BY DEF TypeInv
  <2> QED BY <1>1, <2>1, <2>2, <2>3, TypeSettle
<1>4. left' \in [Kinds -> Nat]
  <2>1. SpendUpon("fast", stage # "done") BY <1>2
  <2> QED BY <2>1, SpendUponFacts DEF Kinds
<1>5. clock \in 0..MaxClock /\ bootAt \in 0..clock /\ IsFiniteSet(backups)
      /\ backups \subseteq BackupsTo(clock) /\ (fetched = None \/ fetched \in Fetches(clock))
  BY DEF TypeInv
<1> QED BY <1>1, <1>3, <1>4, <1>5 DEF TypeInv, SettleTypes, Fetches, BackupsTo
\* What a collector stores, and how far it comes.
Collects(samples, sums, stage) ==
  /\ Taken(samples, clock) /\ Taken(sums, clock)
  /\ Settle(samples, sums, stage) /\ UNCHANGED <<clock, bootAt>>

LEMMA CollectorSteps ==
  ASSUME TypeInv, StoreFull \/ StorePartly \/ FastCollect
  PROVE  \E stage \in Stages : \E samples, sums : Collects(samples, sums, stage)
<1>1. CASE StoreFull
  <2>1. PICK stage \in Stages : Settle(WithFacts(fetched.bytes), WithSummary, stage)
    BY <1>1 DEF StoreFull, Stages
  <2>2. fetched # None /\ UNCHANGED <<clock, bootAt>> BY <1>1 DEF StoreFull
  <2>3. fetched.bytes \in Nat BY <2>2 DEF TypeInv, Fetches
  <2>4. Taken(WithFacts(fetched.bytes), clock) /\ Taken(WithSummary, clock)
    BY <2>2, <2>3, StoredSamples
  <2>5. Collects(WithFacts(fetched.bytes), WithSummary, stage) BY <2>1, <2>2, <2>4 DEF Collects
  <2> QED BY <2>5
<1>2. CASE StorePartly
  <2>1. /\ fetched # None /\ UNCHANGED <<clock, bootAt>>
        /\ Settle(WithFacts(fetched.bytes \div 2), WithSummary, "stored")
    BY <1>2 DEF StorePartly
  <2>2. fetched.bytes \in Nat BY <2>1 DEF TypeInv, Fetches
  <2>3. fetched.bytes \div 2 \in Nat BY <2>2
  <2>4. Taken(WithFacts(fetched.bytes \div 2), clock) /\ Taken(WithSummary, clock)
    BY <2>1, <2>3, StoredSamples
  <2>5. Collects(WithFacts(fetched.bytes \div 2), WithSummary, "stored") BY <2>1, <2>4 DEF Collects
  <2>6. "stored" \in Stages BY DEF Stages
  <2> QED BY <2>5, <2>6
<1>3. CASE FastCollect
  <2>1. PICK light \in BOOLEAN, stage \in Stages :
          Settle(snapshots,
                 summaries \cup (IF light THEN {[at |-> clock, bytes |-> Counter(clock)]} ELSE {}),
                 stage)
    BY <1>3 DEF FastCollect, Stages
  <2> DEFINE sums == summaries \cup (IF light THEN {[at |-> clock, bytes |-> Counter(clock)]} ELSE {})
  <2>2. Taken(sums, clock) BY FastSamples
  <2>3. Settle(snapshots, sums, stage) BY <2>1
  <2> HIDE DEF sums
  <2>4. Taken(snapshots, clock) /\ UNCHANGED <<clock, bootAt>>
    BY <1>3 DEF TypeInv, FastCollect
  <2>5. Collects(snapshots, sums, stage) BY <2>2, <2>3, <2>4 DEF Collects
  <2> QED BY <2>5
<1> QED BY <1>1, <1>2, <1>3

\* What a repair of a range does.
LEMMA RepairFacts ==
  ASSUME TypeInv, UNCHANGED clock, NEW t, TablesTo(t, clock), NEW from \in Int, NEW to \in Int,
         NEW all, RepairRange(t, from, to, all)
  PROVE  /\ TablesTo(tables', clock) /\ RebuildsTo(tables', t, snapshots, from, to)
         /\ prepared' = Windows(tables') /\ prepared'.at = clock
         /\ chart' = TrafficToday(summaries) /\ chart' \in [Hours -> Int]
         /\ gap' = (gap /\ ~all) /\ gap' \in BOOLEAN /\ since' \in 0..clock \cup {None}
<1>1. clock \in Nat /\ since \in 0..clock \cup {None} /\ Taken(snapshots, clock) /\ Taken(summaries, clock)
  BY DEF TypeInv
<1>2. tables' = RebuildRange(t, snapshots, from, to) BY DEF RepairRange
<1>3. TablesTo(tables', clock) /\ RebuildsTo(tables', t, snapshots, from, to)
  BY <1>1, <1>2, RebuildKeeps
<1>4. prepared' = Windows(tables') /\ prepared'.at = clock BY DEF RepairRange, Windows
<1>5. chart' = TrafficToday(summaries) /\ chart' \in [Hours -> Int]
  BY <1>1, TrafficTodayFacts DEF RepairRange, Taken
<1>6. gap' = (gap /\ ~all) /\ gap' \in BOOLEAN BY DEF RepairRange, TypeInv
<1>7. since' \in 0..clock \cup {None}
  <2> DEFINE I == InRange(snapshots, from, to)
             held == Today(I)
             kept == since' = since
             none == since' = None
             some == since' = Min({s.at : s \in held})
  <2>1. Taken(I, clock)
    <3>1. I \subseteq snapshots BY DEF InRange
    <3> QED BY <1>1, <3>1, TakenSubset
  <2>2. kept \/ (held = {} /\ none) \/ (held # {} /\ some)
    <3>1. since' = CASE ~all -> since [] all /\ held = {} -> None [] OTHER -> Min({s.at : s \in held})
      BY Zenon DEF RepairRange
    <3> QED BY <3>1
  <2>3. CASE held # {} /\ some
    <3>1. Min({s.at : s \in held}) \in 0..clock BY <1>1, <2>1, <2>3, TodayTaken
    <3> QED BY <2>3, <3>1
  <2> QED BY <1>1, <2>2, <2>3
<1> QED BY <1>3, <1>4, <1>5, <1>6, <1>7

\* The range of a repair.
LEMMA RepairRangeIs ==
  ASSUME TypeInv, Repair
  PROVE  \E from \in Int, to \in Int :
           /\ from <= DayStart(clock) /\ to \in {DayStart(clock), clock + 1}
           /\ RepairRange(tables, from, to, to > clock)
<1>1. PICK back \in 0..2, to \in {DayStart(clock), clock + 1} :
        RepairRange(tables, DayStart(clock) - back * DayTicks, to, to > clock)
  BY DEF Repair
<1>2. clock \in Nat /\ DayStart(clock) \in Int BY DayFacts DEF TypeInv
<1>3. back * DayTicks \in Nat BY LengthsPositive
<1>4. /\ DayStart(clock) - back * DayTicks \in Int
      /\ DayStart(clock) - back * DayTicks <= DayStart(clock)
  BY <1>2, <1>3
<1> QED BY <1>1, <1>2, <1>4

LEMMA TypeRepair ==
  ASSUME TypeInv, Repair
  PROVE  TypeInv'
<1>1. UNCHANGED <<clock, bootAt, source, backups, pending, prunedAt>> /\ Spend("repair") /\ fetched = None
  BY DEF Repair
<1>2. PICK from \in Int, to \in Int : RepairRange(tables, from, to, to > clock)
  BY RepairRangeIs
<1>3. TablesTo(tables, clock) /\ clock \in 0..clock BY DEF TypeInv
<1>4. /\ TablesTo(tables', clock) /\ prepared'.at = clock /\ chart' \in [Hours -> Int]
      /\ gap' \in BOOLEAN /\ since' \in 0..clock \cup {None}
  BY <1>1, <1>2, <1>3, RepairFacts
<1>5. left' \in [Kinds -> Nat] BY <1>1, SpendFacts DEF Kinds
<1> QED BY <1>1, <1>3, <1>4, <1>5 DEF TypeInv, source, BackupsTo

\* The earliest row, or now.
LEMMA EarliestFacts ==
  ASSUME TypeInv
  PROVE  LET from == Min({s.at : s \in snapshots} \cup {clock}) IN
         /\ from \in Int /\ from <= clock /\ \A s \in snapshots : from <= s.at
<1> DEFINE A == {s.at : s \in snapshots}
<1>1. clock \in Nat /\ Taken(snapshots, clock) BY DEF TypeInv
<1>2. A \subseteq Int BY <1>1 DEF Taken
<1>3. IsFiniteSet(A)
  <2> DEFINE f == [s \in snapshots |-> s.at]
  <2>1. IsFiniteSet(snapshots) /\ DOMAIN f = snapshots BY <1>1 DEF Taken, Samples
  <2>2. A = {f[s] : s \in snapshots} OBVIOUS
  <2> HIDE DEF f, A
  <2> QED BY <2>1, <2>2, ImageFinite
<1>4. \A s \in snapshots : s.at \in A OBVIOUS
<1> HIDE DEF A
<1>5. IsFiniteSet(A \cup {clock}) BY <1>3, FS_AddElement
<1>6. A \cup {clock} # {} /\ A \cup {clock} \subseteq Int BY <1>1, <1>2
<1>7. /\ Min(A \cup {clock}) \in A \cup {clock}
      /\ \A x \in A \cup {clock} : Min(A \cup {clock}) <= x
  BY <1>5, <1>6, EarliestExists
<1>8. /\ Min(A \cup {clock}) \in Int /\ Min(A \cup {clock}) <= clock
      /\ \A s \in snapshots : Min(A \cup {clock}) <= s.at
  BY <1>4, <1>6, <1>7
<1> QED BY <1>8 DEF A

\* What is rebuilt, if anything is left to rebuild from.
LEMMA RebuildAllIs ==
  ASSUME TypeInv, RebuildAll
  PROVE  \/ \E from \in Int : /\ from <= clock /\ \A s \in snapshots : from <= s.at
                              /\ RepairRange(NoTables, from, clock + 1, TRUE)
         \/ /\ snapshots = {} /\ tables' = NoTables /\ prepared' = None /\ chart' = FlatChart
            /\ since' = None /\ gap' = FALSE
<1> DEFINE from == Min({s.at : s \in snapshots} \cup {clock})
<1>1. from \in Int /\ from <= clock /\ \A s \in snapshots : from <= s.at BY EarliestFacts
<1>2. \/ RepairRange(NoTables, from, clock + 1, TRUE)
      \/ /\ snapshots = {} /\ tables' = NoTables /\ prepared' = None /\ chart' = FlatChart
         /\ since' = None /\ gap' = FALSE
  BY DEF RebuildAll
<1> HIDE DEF from
<1> QED BY <1>1, <1>2

LEMMA TypeRebuildAll ==
  ASSUME TypeInv, RebuildAll
  PROVE  TypeInv'
<1>1. UNCHANGED <<clock, bootAt, source, pending, prunedAt>> /\ Spend("repair") /\ fetched = None
  BY DEF RebuildAll
<1>2. TablesTo(NoTables, clock) /\ clock \in 0..clock /\ clock + 1 \in Int
  BY NoTablesFacts DEF TablesTo, TypeInv
<1>3. /\ TablesTo(tables', clock) /\ (prepared' # None => prepared'.at \in 0..clock)
      /\ chart' \in [Hours -> Int] /\ gap' \in BOOLEAN /\ since' \in 0..clock \cup {None}
  <2>1. CASE \E from \in Int : RepairRange(NoTables, from, clock + 1, TRUE)
    <3>1. PICK from \in Int : RepairRange(NoTables, from, clock + 1, TRUE) BY <2>1
    <3>2. /\ TablesTo(tables', clock) /\ prepared'.at = clock /\ chart' \in [Hours -> Int]
          /\ gap' \in BOOLEAN /\ since' \in 0..clock \cup {None}
      BY <1>1, <1>2, <3>1, RepairFacts
    <3> QED BY <1>2, <3>2
  <2>2. CASE /\ snapshots = {} /\ tables' = NoTables /\ prepared' = None /\ chart' = FlatChart
             /\ since' = None /\ gap' = FALSE
    BY <1>2, <2>2, FlatChartFacts
  <2> QED BY <2>1, <2>2, RebuildAllIs
<1>4. left' \in [Kinds -> Nat] BY <1>1, SpendFacts DEF Kinds
<1>5. IsFiniteSet(backups') /\ backups' \subseteq BackupsTo(clock)
  <2>1. PICK size \in Sizes : backups' = backups \cup {[at |-> clock, size |-> size, managed |-> FALSE]}
    BY DEF RebuildAll
  <2> DEFINE x == [at |-> clock, size |-> size, managed |-> FALSE]
  <2>2. x \in BackupsTo(clock) BY <1>2 DEF BackupsTo
  <2> HIDE DEF x
  <2>3. IsFiniteSet(backups \cup {x}) BY FS_AddElement DEF TypeInv
  <2> QED BY <2>1, <2>2, <2>3 DEF TypeInv, x
<1> QED BY <1>1, <1>2, <1>3, <1>4, <1>5 DEF TypeInv, source, BackupsTo
LEMMA TypeStutter ==
  ASSUME TypeInv, UNCHANGED vars
  PROVE  TypeInv'
BY DEF TypeInv, vars, source, models, TablesTo, Past, Tables, BackupsTo, Taken, Samples, Fetches

LEMMA TypeStep ==
  ASSUME TypeInv, [Next]_vars
  PROVE  TypeInv'
<1>1. ASSUME Next PROVE TypeInv'
  BY <1>1, TypeTick, TypeFetch, TypeSkip, TypeStore, TypeStorePartly, TypeFast, TypeRepair,
     TypeRebuildAll DEF Next
<1> QED BY <1>1, TypeStutter

LEMMA TypeOKHolds == TypeInv => TypeOK
<1> SUFFICES ASSUME TypeInv PROVE TypeOK OBVIOUS
<1>1. MaxClock \in Nat /\ clock \in 0..MaxClock /\ clock \in Nat BY StoreAssumption DEF TypeInv
<1>2. clock \in Ticks /\ bootAt \in Ticks /\ prunedAt \in Ticks /\ since \in Ticks \cup {None}
  BY <1>1 DEF TypeInv, Ticks
<1>3. snapshots \subseteq Rows /\ summaries \subseteq Rows
  BY <1>1 DEF TypeInv, Ticks, Rows, Taken
<1>4. DOMAIN tables = Layers /\ \A l \in Layers : IsLayer(tables[l])
  <2>1. Tables(tables) BY DEF TypeInv, TablesTo
  <2>2. DOMAIN tables = Layers BY <2>1 DEF Tables
  <2>3. ASSUME NEW l \in Layers PROVE IsLayer(tables[l])
    <3>1. Table(tables[l]) BY <2>1 DEF Tables
    <3> DEFINE f == tables[l]
    <3>2. DOMAIN f \subseteq Int /\ \A b \in DOMAIN f : f[b] \in Nat \ {0} BY <3>1 DEF Table
    <3> HIDE DEF f
    <3>3. Range(f) \subseteq Nat \ {0} BY <3>2 DEF Range
    <3> QED BY <3>2, <3>3 DEF IsLayer, f
  <2> QED BY <2>2, <2>3
<1>5. backups \subseteq [at : Ticks, size : Sizes, managed : BOOLEAN]
  BY <1>1 DEF TypeInv, BackupsTo, Ticks
<1>6. Range(left) \subseteq Nat BY DEF TypeInv, Range
<1>7. /\ \A s \in summaries : DayStart(s.at) = DayStart(clock)
      /\ chart \in [Hours -> Int] /\ pending \in BOOLEAN /\ gap \in BOOLEAN
  BY DEF TypeInv
<1> QED BY <1>2, <1>3, <1>4, <1>5, <1>6, <1>7 DEF TypeOK

LEMMA TypeInvAlways == Spec => []TypeInv
<1>1. Init => TypeInv BY TypeInit
<1>2. TypeInv /\ [Next]_vars => TypeInv' BY TypeStep
<1> QED BY <1>1, <1>2, PTL DEF Spec

\* Whatever the collectors and repairs do in whatever order, and wherever a run is
\* killed, the database stays well formed: in particular no layer ever gets a row of
\* no bytes, and no summary of an earlier day is charted (normalize.mjs:2317-2489).
THEOREM StoreTypes == Spec => []TypeOK
BY TypeInvAlways, TypeOKHolds, PTL

-----------------------------------------------------------------------------
(***************************************************************************)
(* The layers agree, and the windows are whole.                            *)
(***************************************************************************)

\* Every row of a layer is the sum of the rows below it, as far back as both are kept.
TablesInv == Agree(tables, Cutoff)

\* Windows that show all the traffic of their days.
Complete(w, t) ==
  LET now   == w.at
      month == MonthStart(now)
  IN /\ w.today = DaysFrom(t, DayStart(now), now)
     /\ w.week = DaysFrom(t, WeekStart(now), now)
     /\ (WeekStart(month) = month \/ WeekStart(now) <= month) =>
          w.month = DaysFrom(t, month, now)

\* Whatever is prepared was prepared from the hours and days as they are, where
\* the days are still kept.
ShowsFrom(bytes, t, lo, now) == Kept("day", lo) => bytes = DaysFrom(t, lo, now)
WindowsOf(w, t) ==
  LET now   == w.at
      month == MonthStart(now)
  IN /\ ShowsFrom(w.today, t, DayStart(now), now)
     /\ ShowsFrom(w.week, t, WeekStart(now), now)
     /\ (WeekStart(month) = month \/ WeekStart(now) <= month) =>
          ShowsFrom(w.month, t, month, now)

WindowsInv == prepared # None => WindowsOf(prepared, tables)

\* Nothing of the day that is running has expired, and no day of its month.
LEMMA CutBeforeToday ==
  ASSUME TypeInv, NEW c \in {Cutoff, Now}
  PROVE  /\ Cuts(c) /\ c.fine <= DayStart(clock) /\ c.hour <= DayStart(clock)
         /\ c.day <= MonthStart(clock)
<1> DEFINE d == DayStart(clock)
           m == MonthStart(clock)
           length == MonthDays * DayTicks
<1>1. clock \in Nat /\ prunedAt \in Int /\ prunedAt <= clock BY DEF TypeInv
<1>2. d \in Int /\ clock < d + DayTicks BY <1>1, DayFacts
<1>3. /\ "month" \in Layers /\ "day" \in Layers /\ <<"day", "month">> \in Filled
      /\ Length["month"] = length
      /\ BucketStart(clock, "month") = m /\ BucketStart(clock, "day") = d
  BY DEF Layers, Filled, Length, BucketStart
<1>4. m \in Int /\ clock < m + length /\ length \in Int
  <2>1. /\ BucketStart(clock, "month") \in Int
        /\ clock < BucketStart(clock, "month") + Length["month"]
        /\ Length["month"] \in Nat \ {0}
    BY <1>1, <1>3, BucketFacts, LengthFacts
  <2> HIDE DEF m, length
  <2> QED BY <1>3, <2>1
<1>5. m <= d BY <1>1, <1>3, RangesNest
<1>6. length <= HourlyTicks /\ length <= DailyTicks BY PyramidAssumption
<1> HIDE DEF d, m, length
<1>7. /\ Now.fine <= d /\ Now.hour <= d /\ Now.day <= m
      /\ Cutoff.fine <= d /\ Cutoff.hour <= d /\ Cutoff.day <= m
  BY <1>1, <1>2, <1>4, <1>5, <1>6, LengthsPositive DEF Now, Cutoff
<1> QED BY <1>7, CutFacts DEF d, m

\* The windows of a rebuild.
LEMMA PreparedFacts ==
  ASSUME TypeInv, NEW t, TablesTo(t, clock), NEW c \in {Cutoff, Now}, Agree(t, c)
  PROVE  Complete(Windows(t), t)
<1>1. clock \in Int /\ Tables(t) /\ Past(t, clock) BY DEF TypeInv, TablesTo
<1>2. \A b \in DOMAIN t.fine : b <= clock BY <1>1 DEF Past
<1>3. /\ Cuts(c) /\ c.fine <= DayStart(clock) /\ c.hour <= DayStart(clock)
      /\ c.day <= MonthStart(clock)
  BY CutBeforeToday
<1>4. /\ WindowBytes(t, "today", clock) = DaysFrom(t, DayStart(clock), clock)
      /\ WindowBytes(t, "week", clock) = DaysFrom(t, WeekStart(clock), clock)
      /\ \/ WeekStart(MonthStart(clock)) = MonthStart(clock)
         \/ WeekStart(clock) <= MonthStart(clock)
         => WindowBytes(t, "month", clock) = DaysFrom(t, MonthStart(clock), clock)
  BY <1>1, <1>2, <1>3, WindowsAreDays
<1>5. /\ Windows(t).at = clock /\ Windows(t).today = WindowBytes(t, "today", clock)
      /\ Windows(t).week = WindowBytes(t, "week", clock)
      /\ Windows(t).month = WindowBytes(t, "month", clock)
  BY DEF Windows
<1> HIDE DEF TypeInv
<1> QED BY <1>4, <1>5 DEF Complete

\* What a collector or a repair that rebuilds leaves.
LEMMA RebuiltPyramid ==
  ASSUME TypeInv, NEW t, TablesTo(t, clock), NEW c \in {Cutoff, Now},
         Agree(t, c), NEW S, NEW from \in Int, NEW to \in Int, NEW n,
         TablesTo(n, clock), RebuildsTo(n, t, S, from, to)
  PROVE  Agree(n, c) /\ Complete(Windows(n), n)
<1>1. Tables(t) BY DEF TablesTo
<1>2. Agree(n, c) BY <1>1, RebuildAgrees
<1> QED BY <1>2, PreparedFacts

LEMMA PrunedPyramid ==
  ASSUME TypeInv, TablesInv
  PROVE  Agree(Pruned(tables), Now)
<1>1. Tables(tables) BY DEF TypeInv, TablesTo
<1>2. Agree(Expired(tables, Now), Now) BY <1>1, CutFacts, ExpiredAgrees DEF TablesInv
<1> QED BY <1>2, PrunedFacts

\* Days that are kept are those there were.
LEMMA DaysKept ==
  ASSUME TypeInv, NEW lo \in Int, lo >= clock - DailyTicks, NEW now \in Int
  PROVE  DaysFrom(Pruned(tables), lo, now) = DaysFrom(tables, lo, now)
<1> DEFINE n == Pruned(tables)
           hi == DayStart(now) + DayTicks
<1>1. hi \in Int BY DayFacts, LengthsPositive
<1>2. Table(n.day) /\ Table(tables.day)
  BY PrunedFacts DEF TypeInv, TablesTo, Tables, Layers
<1>3. clock - DailyTicks \in Int BY LengthsPositive DEF TypeInv
<1>4. \A b \in Int : lo <= b /\ b < hi => Row(n.day, b) = Row(tables.day, b)
  BY <1>3, PrunedFacts DEF SameFrom
<1> HIDE DEF n, hi
<1>5. Span(n.day, lo, hi) = Span(tables.day, lo, hi) BY <1>1, <1>2, <1>4, SpanSame
<1> QED BY <1>5 DEF DaysFrom, n, hi

LEMMA StartsOfWindows ==
  ASSUME NEW t \in Int
  PROVE  DayStart(t) \in Int /\ WeekStart(t) \in Int /\ MonthStart(t) \in Int
<1>1. /\ "week" \in Layers /\ "month" \in Layers
      /\ BucketStart(t, "week") = WeekStart(t) /\ BucketStart(t, "month") = MonthStart(t)
  BY DEF Layers, BucketStart
<1> QED BY <1>1, BucketFacts, DayFacts

\* What was prepared still shows the days that are kept.
LEMMA PrunedWindows ==
  ASSUME TypeInv, WindowsInv, prunedAt' = clock, tables' = Pruned(tables), prepared' = prepared
  PROVE  WindowsInv'
<1> SUFFICES ASSUME prepared # None PROVE WindowsInv'
  BY DEF WindowsInv
<1> DEFINE now == prepared.at
           shown(bytes, lo) == lo >= clock - DailyTicks => bytes = DaysFrom(tables', lo, now)
<1>1. clock \in Nat /\ now \in Int /\ prunedAt \in Int /\ prunedAt <= clock BY DEF TypeInv
<1>2. ASSUME NEW bytes, NEW lo \in Int, ShowsFrom(bytes, tables, lo, now)
      PROVE  shown(bytes, lo)
  <2> SUFFICES ASSUME lo >= clock - DailyTicks PROVE bytes = DaysFrom(tables', lo, now)
    OBVIOUS
  <2>1. lo >= prunedAt - DailyTicks BY <1>1, LengthsPositive
  <2>2. bytes = DaysFrom(tables, lo, now) BY <1>2, <2>1 DEF ShowsFrom, Kept, Cutoff
  <2> QED BY <1>1, <2>2, DaysKept
<1>3. DayStart(now) \in Int /\ WeekStart(now) \in Int /\ MonthStart(now) \in Int
  BY <1>1, StartsOfWindows
<1>4. WindowsOf(prepared, tables) BY DEF WindowsInv
<1>5. /\ shown(prepared.today, DayStart(now)) /\ shown(prepared.week, WeekStart(now))
      /\ (WeekStart(MonthStart(now)) = MonthStart(now) \/ WeekStart(now) <= MonthStart(now)) =>
           shown(prepared.month, MonthStart(now))
  BY <1>2, <1>3, <1>4 DEF WindowsOf
<1>6. \A lo \in Int : Kept("day", lo)' <=> lo >= clock - DailyTicks BY DEF Kept, Cutoff
<1>7. prepared'.at = now OBVIOUS
<1> QED BY <1>3, <1>5, <1>6, <1>7 DEF WindowsInv, WindowsOf, ShowsFrom, DaysFrom

LEMMA PyramidSettle ==
  ASSUME TypeInv, TablesInv, WindowsInv, UNCHANGED clock,
         NEW samples, Taken(samples, clock), NEW sums, Taken(sums, clock),
         NEW stage \in Stages, Settle(samples, sums, stage)
  PROVE  TablesInv' /\ WindowsInv'
<1>1. Agree(Pruned(tables), Now) BY PrunedPyramid
<1>2. prunedAt' = clock => Cutoff' = Now BY DEF Cutoff, Now
<1>3. CASE prunedAt' = prunedAt /\ UNCHANGED <<tables, prepared, chart, since, gap>>
  BY <1>3 DEF TablesInv, WindowsInv, Agree, WindowsOf, ShowsFrom, DaysFrom, Kept, Cutoff
<1>4. CASE /\ prunedAt' = clock /\ tables' = Pruned(tables)
           /\ UNCHANGED <<prepared, chart, since, gap>>
  <2>1. Agree(tables', Cutoff') BY <1>1, <1>2, <1>4
  <2>2. TablesInv' BY <2>1 DEF TablesInv
  <2> QED BY <1>4, <2>2, PrunedWindows
<1>5. CASE prunedAt' = clock /\ Rebuilt(Superseding(samples), sums, From)
  <2>1. Taken(Superseding(samples), clock) BY SupersedingFacts
  <2>2. /\ TablesTo(tables', clock) /\ prepared' = Windows(tables')
        /\ RebuildsTo(tables', Pruned(tables), Superseding(samples), From, clock + 1)
    BY <1>5, <2>1, TypeRebuilt
  <2>3. TablesTo(Pruned(tables), clock) /\ From \in Int /\ clock + 1 \in Int
    BY PrunedFacts, FromFacts DEF TypeInv
  <2> DEFINE n == tables'
             t == Pruned(tables)
  <2>4. /\ TablesTo(n, clock) /\ TablesTo(t, clock) /\ Agree(t, Now)
        /\ RebuildsTo(n, t, Superseding(samples), From, clock + 1)
    BY <1>1, <2>2, <2>3
  <2> HIDE DEF n, t
  <2>5. Agree(n, Now) /\ Complete(Windows(n), n)
    BY <2>3, <2>4, RebuiltPyramid
  <2>6. Agree(tables', Cutoff') BY <1>2, <1>5, <2>5 DEF n
  <2>7. Complete(prepared', tables') BY <2>2, <2>5 DEF n
  <2>8. WindowsInv' BY <2>7 DEF WindowsInv, WindowsOf, ShowsFrom, Complete, DaysFrom
  <2> QED BY <2>6, <2>8 DEF TablesInv
<1> QED BY <1>3, <1>4, <1>5, SettleSteps

LEMMA PyramidRepair ==
  ASSUME TypeInv, TablesInv, UNCHANGED <<clock, prunedAt>>, NEW t, TablesTo(t, clock),
         Agree(t, Cutoff), NEW from \in Int, NEW to \in Int, NEW all,
         RepairRange(t, from, to, all)
  PROVE  TablesInv' /\ WindowsInv'
<1>1. /\ TablesTo(tables', clock) /\ prepared' = Windows(tables')
      /\ RebuildsTo(tables', t, snapshots, from, to)
  BY RepairFacts
<1> DEFINE n == tables'
<1>2. TablesTo(n, clock) /\ RebuildsTo(n, t, snapshots, from, to) BY <1>1
<1> HIDE DEF n
<1>3. Agree(n, Cutoff) /\ Complete(Windows(n), n) BY <1>2, RebuiltPyramid
<1>4. Cutoff' = Cutoff BY DEF Cutoff
<1>5. Agree(tables', Cutoff') BY <1>3, <1>4 DEF n
<1>6. Complete(prepared', tables') BY <1>1, <1>3 DEF n
<1>7. WindowsInv' BY <1>6 DEF WindowsInv, WindowsOf, ShowsFrom, Complete, DaysFrom
<1> QED BY <1>5, <1>7 DEF TablesInv

\* A step that leaves the tables and what was prepared from them alone.
LEMMA PyramidKept ==
  ASSUME TablesInv, WindowsInv, UNCHANGED <<tables, prepared, prunedAt>>
  PROVE  TablesInv' /\ WindowsInv'
BY DEF TablesInv, WindowsInv, WindowsOf, ShowsFrom, DaysFrom, Kept, Cutoff, Agree

LEMMA PyramidStep ==
  ASSUME TypeInv, TablesInv, WindowsInv, [Next]_vars
  PROVE  TablesInv' /\ WindowsInv'
<1>1. clock \in Int /\ TablesTo(tables, clock) /\ clock + 1 \in Int BY DEF TypeInv
<1>2. CASE Tick \/ FetchFull \/ SkipFull \/ UNCHANGED vars
  <2>1. UNCHANGED <<tables, prepared, prunedAt>>
    BY <1>2 DEF Tick, FetchFull, SkipFull, vars, models
  <2> QED BY <2>1, PyramidKept
<1>3. CASE StoreFull \/ StorePartly \/ FastCollect
  <2>1. PICK stage \in Stages : \E samples, sums : Collects(samples, sums, stage)
    BY <1>3, CollectorSteps
  <2>2. PICK samples, sums : Collects(samples, sums, stage) BY <2>1
  <2>3. Taken(samples, clock) /\ Taken(sums, clock) /\ Settle(samples, sums, stage) /\ UNCHANGED clock
    BY <2>2 DEF Collects
  <2> QED BY <2>3, PyramidSettle
<1>4. CASE Repair
  <2>1. PICK from \in Int, to \in Int : RepairRange(tables, from, to, to > clock)
    BY <1>4, RepairRangeIs
  <2>2. UNCHANGED <<clock, prunedAt>> BY <1>4 DEF Repair
  <2>3. Agree(tables, Cutoff) BY DEF TablesInv
  <2> QED BY <1>1, <2>1, <2>2, <2>3, PyramidRepair
<1>5. CASE RebuildAll
  <2>1. UNCHANGED <<clock, prunedAt>> BY <1>5 DEF RebuildAll
  <2>2. TablesTo(NoTables, clock) /\ \A c : Agree(NoTables, c)
    BY <1>1, NoTablesFacts DEF TablesTo
  <2>3. CASE \E from \in Int : RepairRange(NoTables, from, clock + 1, TRUE)
    BY <1>1, <2>1, <2>2, <2>3, PyramidRepair
  <2>4. CASE tables' = NoTables /\ prepared' = None
    <3>1. Agree(tables', Cutoff') BY <2>2, <2>4
    <3> QED BY <2>4, <3>1 DEF TablesInv, WindowsInv
  <2> QED BY <1>5, <2>3, <2>4, RebuildAllIs
<1> QED BY <1>2, <1>3, <1>4, <1>5 DEF Next

LEMMA PyramidAlways == Spec => [](TypeInv /\ TablesInv /\ WindowsInv)
<1>1. Init => TypeInv /\ TablesInv /\ WindowsInv
  <2> SUFFICES ASSUME Init PROVE TypeInv /\ TablesInv /\ WindowsInv OBVIOUS
  <2>1. TypeInv BY TypeInit
  <2>2. tables = NoTables /\ prepared = None BY DEF Init
  <2>3. Agree(tables, Cutoff) BY <2>2, NoTablesFacts
  <2> QED BY <2>1, <2>2, <2>3 DEF TablesInv, WindowsInv
<1>2. TypeInv /\ TablesInv /\ WindowsInv /\ [Next]_vars => (TypeInv /\ TablesInv /\ WindowsInv)'
  BY TypeStep, PyramidStep
<1> QED BY <1>1, <1>2, PTL DEF Spec

\* The row of a bucket, as the invariant has it.
LEMMA AgreeAt ==
  ASSUME NEW t, NEW c, Agree(t, c), NEW k, NEW l, <<k, l>> \in Filled, NEW g \in Int,
         k \in {"fine", "hour", "day"} => g >= c[k],
         l \in {"fine", "hour", "day"} => g >= c[l]
  PROVE  Row(t[l], g) = BucketBytes(t[k], g, l)
<1>1. CASE k = "fine" /\ l = "hour" BY <1>1 DEF Agree
<1>2. CASE k = "hour" /\ l = "day" BY <1>2 DEF Agree
<1>3. CASE k = "day" /\ l = "week" BY <1>3 DEF Agree
<1>4. CASE k = "day" /\ l = "month" BY <1>4 DEF Agree
<1> QED BY <1>1, <1>2, <1>3, <1>4 DEF Filled

LEMMA LayersAgreeHolds == TypeInv /\ TablesInv => LayersAgree
<1> SUFFICES ASSUME TypeInv, TablesInv, NEW p \in Filled,
                    NEW b \in DOMAIN tables[p[1]] \cup DOMAIN tables[p[2]],
                    Kept(p[1], BucketStart(b, p[2])), Kept(p[2], BucketStart(b, p[2]))
             PROVE  Row(tables[p[2]], BucketStart(b, p[2]))
                      = SumFunctionOnSet(tables[p[1]],
                          Between(tables[p[1]], BucketStart(b, p[2]),
                                  BucketStart(b, p[2]) + Length[p[2]]))
  BY Zenon DEF LayersAgree
<1> DEFINE k == p[1]
           l == p[2]
           start == BucketStart(b, l)
<1>1. k \in Layers /\ l \in Layers /\ <<k, l>> \in Filled BY DEF Filled, Layers
<1>2. b \in Int BY <1>1 DEF TypeInv, TablesTo, Tables, Table
<1>3. start \in Int /\ Aligned(start, l)
  BY <1>1, <1>2, BucketFacts, BucketIdempotent DEF Aligned
<1>4. DOMAIN Cutoff = {"fine", "hour", "day"} BY DEF Cutoff
<1>5. /\ k \in {"fine", "hour", "day"} => start >= Cutoff[k]
      /\ l \in {"fine", "hour", "day"} => start >= Cutoff[l]
  <2> HIDE DEF start
  <2>1. Kept(k, start) /\ Kept(l, start) BY DEF start
  <2> QED BY <1>4, <2>1 DEF Kept
<1> HIDE DEF k, l, start
<1>6. Row(tables[l], start) = BucketBytes(tables[k], start, l)
  BY <1>1, <1>3, <1>5, AgreeAt DEF TablesInv
<1>7. Row(tables[l], start) = Span(tables[k], start, start + Length[l])
  BY <1>3, <1>6 DEF BucketBytes
<1> QED BY <1>7 DEF Span, k, l, start

\* Whatever was collected, killed, pruned or repaired, every row of a layer is the sum
\* of the rows below it, as far back as the retention of both layers reaches: for the
\* ranges of every layer reach from bucket border to bucket border, and hold all of the
\* range of the layer below (normalize.mjs:2317-2489, 3593-3596).
THEOREM LayersAlwaysAgree == Spec => []LayersAgree
<1>1. TypeInv /\ TablesInv => LayersAgree BY LayersAgreeHolds
<1> QED BY <1>1, PyramidAlways, PTL

\* The windows are always put together without a day missing or counted twice, and
\* stay those of the days as they are, as long as daily rows are kept
\* (normalize.mjs:2774-2797, 3596).
THEOREM WindowsAlwaysComplete == Spec => []WindowsComplete
<1>1. WindowsInv => WindowsComplete
  BY DEF WindowsInv, WindowsOf, ShowsFrom, WindowsComplete, Shows, DaysFrom, Days, Span
<1> QED BY <1>1, PyramidAlways, PTL
-----------------------------------------------------------------------------
(***************************************************************************)
(* The chart of today.                                                     *)
(***************************************************************************)

\* Two summaries of one instant are one: they say what the router's counter was.
SummaryInv ==
  /\ \A s, o \in summaries : s.at = o.at => s = o
  /\ \A s \in summaries : s.at = clock => s.bytes = Counter(clock)
  /\ fetched # None =>
       /\ fetched.at = clock => fetched.bytes = Counter(clock)
       /\ \A s \in summaries : s.at = fetched.at => s.bytes = fetched.bytes

\* Unless a run died, what was charted today is what today's summaries say.
ChartInv ==
  ~pending /\ prepared # None /\ DayStart(prepared.at) = DayStart(clock)
    => chart = TrafficToday(summaries)

\* One more summary.
LEMMA SummaryAdded ==
  ASSUME TypeInv, SummaryInv, NEW x \in [at : 0..clock, bytes : Nat],
         \A s \in summaries : s.at = x.at => s.bytes = x.bytes,
         x.at = clock => x.bytes = Counter(clock)
  PROVE  /\ \A s, o \in summaries \cup {x} : s.at = o.at => s = o
         /\ \A s \in summaries \cup {x} : s.at = clock => s.bytes = Counter(clock)
<1>1. summaries \subseteq [at : 0..clock, bytes : Nat] BY DEF TypeInv, Taken
<1>2. \A s \in summaries : s.at = x.at => s = x BY <1>1
<1>3. /\ \A s, o \in summaries : s.at = o.at => s = o
      /\ \A s \in summaries : s.at = clock => s.bytes = Counter(clock)
  BY DEF SummaryInv
<1>4. ASSUME NEW s \in summaries \cup {x}, NEW o \in summaries \cup {x}, s.at = o.at PROVE s = o
  BY <1>2, <1>3, <1>4
<1> QED BY <1>3, <1>4

LEMMA SummaryStored ==
  ASSUME TypeInv, SummaryInv, fetched # None, fetched' = None, UNCHANGED <<clock, bootAt>>,
         summaries' = WithSummary
  PROVE  SummaryInv'
<1>1. fetched \in Fetches(clock) BY DEF TypeInv
<1>2. Sample \in [at : 0..clock, bytes : Nat] /\ Sample.at = fetched.at /\ Sample.bytes = fetched.bytes
  BY <1>1 DEF Sample, Fetches
<1>3. /\ \A s \in summaries : s.at = Sample.at => s.bytes = Sample.bytes
      /\ Sample.at = clock => Sample.bytes = Counter(clock)
  BY <1>2 DEF SummaryInv
<1>4. /\ \A s, o \in summaries \cup {Sample} : s.at = o.at => s = o
      /\ \A s \in summaries \cup {Sample} : s.at = clock => s.bytes = Counter(clock)
  BY <1>2, <1>3, SummaryAdded
<1>5. summaries' \subseteq summaries \cup {Sample} BY DEF WithSummary, Today
<1>6. Counter(clock)' = Counter(clock) BY DEF Counter
<1>7. \A s, o \in summaries' : s.at = o.at => s = o BY <1>4, <1>5
<1>8. \A s \in summaries' : s.at = clock => s.bytes = Counter(clock) BY <1>4, <1>5
<1> QED BY <1>6, <1>7, <1>8 DEF SummaryInv

LEMMA SummaryFast ==
  ASSUME TypeInv, SummaryInv, UNCHANGED <<clock, bootAt, fetched>>, NEW light \in BOOLEAN,
         summaries' = summaries \cup (IF light THEN {[at |-> clock, bytes |-> Counter(clock)]} ELSE {})
  PROVE  SummaryInv'
<1> DEFINE x == [at |-> clock, bytes |-> Counter(clock)]
<1>1. x \in [at : 0..clock, bytes : Nat] /\ x.at = clock /\ x.bytes = Counter(clock)
  BY CounterFacts DEF TypeInv
<1>2. summaries' = summaries \/ summaries' = summaries \cup {x} OBVIOUS
<1> HIDE DEF x
<1>3. Counter(clock)' = Counter(clock) BY DEF Counter
<1>4. CASE summaries' = summaries BY <1>3, <1>4 DEF SummaryInv
<1>5. CASE summaries' = summaries \cup {x}
  <2>1. \A s \in summaries : s.at = x.at => s.bytes = x.bytes BY <1>1 DEF SummaryInv
  <2>2. /\ \A s, o \in summaries \cup {x} : s.at = o.at => s = o
        /\ \A s \in summaries \cup {x} : s.at = clock => s.bytes = Counter(clock)
    BY <1>1, <2>1, SummaryAdded
  <2>3. fetched # None => \A s \in summaries' : s.at = fetched.at => s.bytes = fetched.bytes
    BY <1>1, <1>5 DEF SummaryInv
  <2> QED BY <1>3, <1>5, <2>2, <2>3 DEF SummaryInv
<1> QED BY <1>2, <1>4, <1>5

LEMMA SummaryStep ==
  ASSUME TypeInv, SummaryInv, [Next]_vars
  PROVE  SummaryInv'
<1>1. CASE Tick
  <2>1. /\ clock' = clock + 1 /\ fetched' = fetched /\ summaries' \subseteq summaries
        /\ clock \in Nat /\ \A s \in summaries : s.at \in 0..clock
        /\ fetched # None => fetched.at \in 0..clock
    BY <1>1 DEF Tick, TypeInv, Taken, Fetches
  <2>2. \A s \in summaries' : s.at # clock' BY <2>1
  <2>3. fetched' # None => fetched'.at # clock' BY <2>1
  <2>4. \A s, o \in summaries' : s.at = o.at => s = o BY <2>1 DEF SummaryInv
  <2>5. fetched' # None => \A s \in summaries' : s.at = fetched'.at => s.bytes = fetched'.bytes
    BY <2>1 DEF SummaryInv
  <2> QED BY <2>2, <2>3, <2>4, <2>5 DEF SummaryInv
<1>2. CASE FetchFull
  <2>1. UNCHANGED <<clock, bootAt, summaries>> BY <1>2 DEF FetchFull
  <2>2. fetched'.at = clock /\ fetched'.bytes = Counter(clock) BY <1>2 DEF FetchFull
  <2>3. Counter(clock)' = Counter(clock) BY <2>1 DEF Counter
  <2> QED BY <2>1, <2>2, <2>3 DEF SummaryInv
<1>3. ASSUME UNCHANGED <<clock, bootAt, summaries>>, fetched' = None \/ UNCHANGED fetched
      PROVE  SummaryInv'
  <2>1. Counter(clock)' = Counter(clock) BY <1>3 DEF Counter
  <2> QED BY <1>3, <2>1 DEF SummaryInv
<1>4. CASE SkipFull \/ Repair \/ RebuildAll \/ UNCHANGED vars
  <2>1. UNCHANGED <<clock, bootAt, summaries>> /\ (fetched' = None \/ UNCHANGED fetched)
    BY <1>4 DEF SkipFull, Repair, RebuildAll, vars, source
  <2> QED BY <1>3, <2>1
<1>5. CASE StoreFull \/ StorePartly
  <2>1. /\ fetched # None /\ fetched' = None /\ UNCHANGED <<clock, bootAt>>
        /\ summaries' = WithSummary
    BY <1>5 DEF StoreFull, StorePartly, Settle
  <2> QED BY <2>1, SummaryStored
<1>6. CASE FastCollect
  <2>1. PICK light \in BOOLEAN :
          summaries' = summaries \cup (IF light THEN {[at |-> clock, bytes |-> Counter(clock)]} ELSE {})
    BY <1>6 DEF FastCollect, Settle
  <2>2. UNCHANGED <<clock, bootAt, fetched>> BY <1>6 DEF FastCollect
  <2> QED BY <2>1, <2>2, SummaryFast
<1> QED BY <1>1, <1>2, <1>4, <1>5, <1>6 DEF Next

LEMMA ChartSettle ==
  ASSUME TypeInv, UNCHANGED clock, NEW samples, Taken(samples, clock), NEW sums, Taken(sums, clock),
         NEW stage \in Stages, Settle(samples, sums, stage)
  PROVE  ChartInv'
<1>1. CASE pending' = TRUE BY <1>1 DEF ChartInv
<1>2. CASE Rebuilt(Superseding(samples), sums, From)
  <2>1. chart' = TrafficToday(sums) BY <1>2 DEF Rebuilt
  <2>2. summaries' = sums BY SettleSteps
  <2> QED BY <2>1, <2>2 DEF ChartInv
<1> QED BY <1>1, <1>2, SettleSteps
LEMMA ChartStep ==
  ASSUME TypeInv, ChartInv, [Next]_vars
  PROVE  ChartInv'
<1>1. CASE Tick
  <2>1. UNCHANGED <<prepared, chart, pending>> /\ clock' = clock + 1 /\ clock \in Nat
    BY <1>1 DEF Tick, TypeInv
  <2>2. CASE NewDay(clock + 1)
    <3>1. DayStart(clock + 1) = clock + 1 BY <2>1, <2>2, NextDay DEF NewDay
    <3>2. ASSUME prepared # None PROVE DayStart(prepared.at) # clock + 1
      <4>1. prepared.at \in 0..clock BY <3>2 DEF TypeInv
      <4>2. prepared.at \in Int /\ prepared.at <= clock BY <2>1, <4>1
      <4>3. DayStart(prepared.at) \in Int /\ DayStart(prepared.at) <= prepared.at
        BY <4>2, DayFacts
      <4> QED BY <2>1, <4>2, <4>3
    <3> QED BY <2>1, <3>1, <3>2 DEF ChartInv
  <2>3. CASE ~NewDay(clock + 1)
    <3>1. summaries' = summaries /\ DayStart(clock') = DayStart(clock)
      BY <1>1, <2>1, <2>3 DEF Tick, NewDay
    <3> QED BY <2>1, <3>1 DEF ChartInv
  <2> QED BY <2>2, <2>3
<1>2. CASE FetchFull \/ SkipFull \/ UNCHANGED vars
  <2>1. UNCHANGED <<clock, summaries, prepared, chart, pending>>
    BY <1>2 DEF FetchFull, SkipFull, vars, models, source
  <2> QED BY <2>1 DEF ChartInv
<1>3. CASE StoreFull \/ StorePartly \/ FastCollect
  <2>1. PICK stage \in Stages : \E samples, sums : Collects(samples, sums, stage)
    BY <1>3, CollectorSteps
  <2>2. PICK samples, sums : Collects(samples, sums, stage) BY <2>1
  <2>3. Taken(samples, clock) /\ Taken(sums, clock) /\ Settle(samples, sums, stage) /\ UNCHANGED clock
    BY <2>2 DEF Collects
  <2> QED BY <2>3, ChartSettle
<1>4. CASE Repair
  <2>1. summaries' = summaries BY <1>4 DEF Repair, source
  <2>2. chart' = TrafficToday(summaries) BY <1>4 DEF Repair, RepairRange
  <2> QED BY <2>1, <2>2 DEF ChartInv
<1>5. CASE RebuildAll
  <2>1. summaries' = summaries BY <1>5 DEF RebuildAll, source
  <2>2. chart' = TrafficToday(summaries) \/ prepared' = None
    BY <1>5 DEF RebuildAll, RepairRange
  <2> QED BY <2>1, <2>2 DEF ChartInv
<1> QED BY <1>1, <1>2, <1>3, <1>4, <1>5 DEF Next

LEMMA ChartAlways == Spec => [](TypeInv /\ SummaryInv /\ ChartInv)
<1>1. Init => TypeInv /\ SummaryInv /\ ChartInv
  BY TypeInit DEF Init, SummaryInv, ChartInv
<1>2. TypeInv /\ SummaryInv /\ ChartInv /\ [Next]_vars => (TypeInv /\ SummaryInv /\ ChartInv)'
  BY TypeStep, SummaryStep, ChartStep
<1> QED BY <1>1, <1>2, PTL DEF Spec

LEMMA ChartMatches == TypeInv /\ SummaryInv /\ ChartInv => ChartMatchesKpi
<1> SUFFICES ASSUME TypeInv, SummaryInv, ChartInv, ~pending, prepared # None, summaries # {},
                    DayStart(prepared.at) = DayStart(clock)
             PROVE  SumFunction(chart) = Newest(summaries).bytes
  BY DEF ChartMatchesKpi
<1>1. Samples(summaries) BY DEF TypeInv, Taken
<1>2. \E s \in summaries : \A o \in summaries : o.at <= s.at BY <1>1, NewestExists
<1> DEFINE s == Newest(summaries)
<1>3. s \in summaries /\ \A o \in summaries : o.at <= s.at BY <1>2, Zenon DEF Newest
<1> HIDE DEF s
<1>4. \A o \in summaries : o.at <= s.at /\ (o.at = s.at => o = s) BY <1>3 DEF SummaryInv
<1>5. SumFunction(TrafficToday(summaries)) = s.bytes BY <1>1, <1>3, <1>4, TrafficTodayFacts
<1>6. chart = TrafficToday(summaries) BY DEF ChartInv
<1> QED BY <1>5, <1>6 DEF s

\* The hourly points of today always add up to the total last reported, however the
\* samples were spread, differenced and rescaled, and whatever was rounded
\* (normalize.mjs:2668-2764).
THEOREM ChartAlwaysMatches == Spec => []ChartMatchesKpi
BY ChartAlways, ChartMatches, PTL
-----------------------------------------------------------------------------
(***************************************************************************)
(* The backups.                                                            *)
(***************************************************************************)
Dated(files) == {f \in files : f.managed}
OneADay(files) == \A f, g \in Dated(files) : UtcDay(f.at) = UtcDay(g.at) => f = g
Bounded(files) ==
  Cardinality(Dated(files)) <= MaxFiles /\ TotalSize(Dated(files)) <= MaxBytes /\ OneADay(files)

LEMMA CreatedFacts ==
  ASSUME NEW files, NEW now, NEW size, NEW room, OneADay(files)
  PROVE  /\ OneADay(Created(files, now, size, room))
         /\ files \subseteq Created(files, now, size, room)
<1> DEFINE new == Created(files, now, size, room)
           x == [at |-> now, size |-> size, managed |-> TRUE]
<1>1. new = files \/ (new = files \cup {x} /\ ~BackedUpToday(files, now)) BY DEF Created
<1>2. x.at = now /\ x.managed = TRUE OBVIOUS
<1> HIDE DEF new, x
<1>3. CASE new = files BY <1>3 DEF new
<1>4. CASE new = files \cup {x} /\ ~BackedUpToday(files, now)
  <2>1. \A f \in Dated(files) : UtcDay(f.at) # UtcDay(now) BY <1>4 DEF BackedUpToday, Dated
  <2>2. ASSUME NEW f \in Dated(new), NEW g \in Dated(new), UtcDay(f.at) = UtcDay(g.at)
        PROVE  f = g
    <3>1. (f \in Dated(files) \/ f = x) /\ (g \in Dated(files) \/ g = x) BY <1>4 DEF Dated
    <3> QED BY <1>2, <2>1, <2>2, <3>1 DEF OneADay
  <2>3. OneADay(new) BY <2>2 DEF OneADay
  <2> QED BY <1>4, <2>3 DEF new
<1> QED BY <1>1, <1>3, <1>4

\* Fewer files of a bounded set.
LEMMA DatedOfKept ==
  ASSUME NEW kept, Files(kept), Cardinality(kept) <= MaxFiles, TotalSize(kept) <= MaxBytes
  PROVE  Cardinality(Dated(kept)) <= MaxFiles /\ TotalSize(Dated(kept)) <= MaxBytes
<1>1. Dated(kept) \in SUBSET kept BY DEF Dated
<1>2. TotalSize(Dated(kept)) <= TotalSize(kept) /\ TotalSize(Dated(kept)) \in Nat
      /\ TotalSize(kept) \in Nat
  BY <1>1, TotalSizeFacts
<1>3. IsFiniteSet(kept) BY DEF Files
<1>4. Cardinality(Dated(kept)) <= Cardinality(kept) BY <1>1, <1>3, FS_Subset
<1>5. IsFiniteSet(Dated(kept)) BY <1>1, <1>3, FS_Subset
<1>6. Cardinality(Dated(kept)) \in Nat /\ Cardinality(kept) \in Nat
  BY <1>3, <1>5, FS_CardinalityType
<1>7. MaxFiles \in Nat /\ MaxBytes \in Nat BY BackupAssumption
<1> QED BY <1>2, <1>4, <1>6, <1>7

LEMMA BackupsStored ==
  ASSUME TypeInv, Bounded(backups), StoreFull
  PROVE  Bounded(backups')
<1>1. PICK stage \in Stages, size \in Sizes, room \in BOOLEAN :
        backups' = IF stage = "done" THEN Retained(backups, clock, size, room) ELSE backups
  BY DEF StoreFull, Stages
<1>2. CASE backups' = backups BY <1>2
<1>3. CASE backups' = Retained(backups, clock, size, room)
  <2> DEFINE kept == Retained(backups, clock, size, room)
             new == Created(backups, clock, size, room)
  <2>1. /\ kept \subseteq new /\ Files(kept)
        /\ Cardinality(kept) <= MaxFiles /\ TotalSize(kept) <= MaxBytes
    BY RetainedFacts
  <2>2. OneADay(new) BY CreatedFacts DEF Bounded
  <2> HIDE DEF kept, new
  <2>3. OneADay(kept) BY <2>1, <2>2 DEF OneADay, Dated
  <2>4. Cardinality(Dated(kept)) <= MaxFiles /\ TotalSize(Dated(kept)) <= MaxBytes
    BY <2>1, DatedOfKept
  <2>5. Bounded(kept) BY <2>3, <2>4 DEF Bounded
  <2> QED BY <1>3, <2>5 DEF kept
<1> QED BY <1>1, <1>2, <1>3

LEMMA BackupsStep ==
  ASSUME TypeInv, Bounded(backups), [Next]_vars
  PROVE  Bounded(backups)'
<1>1. CASE StoreFull BY <1>1, BackupsStored DEF Bounded, OneADay, Dated
<1>2. CASE RebuildAll
  <2>1. PICK size \in Sizes : backups' = backups \cup {[at |-> clock, size |-> size, managed |-> FALSE]}
    BY <1>2 DEF RebuildAll
  <2>2. Dated(backups') = Dated(backups) BY <2>1 DEF Dated
  <2> QED BY <2>2 DEF Bounded, OneADay, Dated
<1>3. CASE \/ Tick \/ FetchFull \/ SkipFull \/ StorePartly \/ FastCollect \/ Repair
           \/ UNCHANGED vars
  <2>1. backups' = backups
    BY <1>3 DEF Tick, FetchFull, SkipFull, StorePartly, FastCollect, Repair, vars
  <2> QED BY <2>1 DEF Bounded, OneADay, Dated
<1> QED BY <1>1, <1>2, <1>3 DEF Next

LEMMA BoundedIs == Bounded(backups) <=> BackupsBounded
BY DEF Bounded, OneADay, Dated, BackupsBounded, Managed

LEMMA NoBackupsYet == Init => Bounded(backups)
<1> SUFFICES ASSUME Init PROVE Bounded(backups) OBVIOUS
<1>1. Dated(backups) = {} BY DEF Init, Dated
<1>2. Cardinality({}) = 0 BY FS_EmptySet
<1>3. MaxFiles \in Nat /\ MaxBytes \in Nat BY BackupAssumption
<1> QED BY <1>1, <1>2, <1>3, TotalSizeEmpty DEF Bounded, OneADay

\* The dated backups never exceed their number or their bytes and there is one a UTC
\* day at most, whatever undated ones full repairs leave next to them
\* (sqlite-backups.mjs:97-113, 161-179).
THEOREM BackupsStayBounded == Spec => []BackupsBounded
<1>1. Init => TypeInv /\ Bounded(backups) BY TypeInit, NoBackupsYet
<1>2. TypeInv /\ Bounded(backups) /\ [Next]_vars => (TypeInv /\ Bounded(backups))'
  BY TypeStep, BackupsStep
<1>3. Bounded(backups) => BackupsBounded BY BoundedIs
<1> QED BY <1>1, <1>2, <1>3, PTL DEF Spec

\* Retention never costs the newest safety copy: a file that is listed first is kept
\* if it fits at all (sqlite-backups.mjs:83-113).
THEOREM NewestBackupStays == Spec => NewestBackupKept
<1>1. ASSUME TypeInv, [Next]_vars, NEW f \in Aged(backups, clock), f.size <= MaxBytes
      PROVE  \E g \in backups' : g.at >= f.at
  <2>1. f \in backups /\ f.at \in Int /\ clock \in Int /\ f.at >= clock - BackupTicks
    BY <1>1 DEF TypeInv, BackupsTo, Aged
  <2>2. CASE backups \subseteq backups' BY <2>1, <2>2
  <2>3. CASE StoreFull
    <3>1. PICK stage \in Stages, size \in Sizes, room \in BOOLEAN :
            backups' = IF stage = "done" THEN Retained(backups, clock, size, room) ELSE backups
      BY <2>3 DEF StoreFull, Stages
    <3>2. CASE backups' = Retained(backups, clock, size, room)
      <4> DEFINE aged == Aged(Created(backups, clock, size, room), clock)
      <4>1. Files(aged) /\ backups' = KeepAll(NewestFirst(aged)) BY <1>1, <3>2, RetainedFacts
      <4>2. backups \subseteq Created(backups, clock, size, room) BY DEF Created
      <4>3. f \in aged BY <2>1, <4>2 DEF Aged
      <4> HIDE DEF aged
      <4>4. \E g \in KeepAll(NewestFirst(aged)) : g.at >= f.at BY <1>1, <4>1, <4>3, NewestIsKept
      <4> QED BY <4>1, <4>4
    <3> QED BY <2>2, <3>1, <3>2
  <2>4. CASE ~StoreFull
    <3>1. backups \subseteq backups'
      BY <1>1, <2>4
      DEF Next, Tick, FetchFull, SkipFull, StorePartly, FastCollect, Repair, RebuildAll, vars
    <3> QED BY <2>2, <3>1
  <2> QED BY <2>3, <2>4
<1>2. TypeInv /\ [Next]_vars =>
        [ \A f \in Aged(backups, clock) :
            f.size <= MaxBytes /\ (\A g \in backups : g.at <= f.at) =>
              \E g \in backups' : g.at >= f.at ]_vars
  BY <1>1
<1> QED BY <1>2, TypeInvAlways, PTL DEF Spec, NewestBackupKept
-----------------------------------------------------------------------------
(***************************************************************************)
(* The days that are over, and the day that is running.                    *)
(***************************************************************************)
LEMMA RebuildSparesDays ==
  ASSUME TypeInv, NEW t, TablesTo(t, clock), NEW S, NEW n, NEW from \in Int, NEW to \in Int,
         RebuildsTo(n, t, S, from, to), DayStart(clock) <= from,
         NEW d \in Int, d < DayStart(clock)
  PROVE  Row(n.day, d) = Row(t.day, d)
<1>1. /\ clock \in Int /\ DayStart(clock) \in Int /\ DayStart(clock) = BucketStart(clock, "day")
      /\ DayStart(DayStart(clock)) = DayStart(clock)
      /\ DayStart(DayStart(clock)) = BucketStart(DayStart(clock), "day")
  BY DayFacts DEF TypeInv
<1>2. "day" \in Layers BY DEF Layers
<1>3. BucketStart(DayStart(clock), "day") <= BucketStart(from, "day")
  BY <1>1, <1>2, BucketMonotone
<1>4. BucketStart(from, "day") \in Int BY <1>2, BucketFacts
<1>5. IsRefill(n.day, t.day, n.hour, "day", BucketStart(from, "day"), BucketRangeEnd(to, "day"))
  BY DEF RebuildsTo
<1>6. \A g \in Int : ~(BucketStart(from, "day") <= g) => Row(n.day, g) = Row(t.day, g)
  BY <1>5 DEF IsRefill
<1>7. ~(BucketStart(from, "day") <= d) BY <1>1, <1>3, <1>4
<1> QED BY <1>6, <1>7

LEMMA ClosedDaysStep ==
  ASSUME TypeInv, [Next]_vars, left'["repair"] = left["repair"], Pruned(tables).fine # NoRows,
         NEW d \in Int, d < DayStart(clock), d >= clock - DailyTicks
  PROVE  Row(tables'.day, d) = Row(tables.day, d)
<1>0. Row(Pruned(tables).day, d) = Row(tables.day, d) BY PrunedFacts DEF SameFrom
<1>1. CASE tables' = tables BY <1>1
<1>2. CASE Tick \/ FetchFull \/ SkipFull \/ UNCHANGED vars
  BY <1>1, <1>2 DEF Tick, FetchFull, SkipFull, vars, models
<1>3. CASE StoreFull \/ StorePartly \/ FastCollect
  <2>1. PICK stage \in Stages : \E samples, sums : Collects(samples, sums, stage)
    BY <1>3, CollectorSteps
  <2>2. PICK samples, sums : Collects(samples, sums, stage) BY <2>1
  <2>3. Taken(samples, clock) /\ Taken(sums, clock) /\ Settle(samples, sums, stage) /\ UNCHANGED clock
    BY <2>2 DEF Collects
  <2>4. CASE tables' = Pruned(tables) BY <1>0, <2>4
  <2>5. CASE Rebuilt(Superseding(samples), sums, From)
    <3>1. Taken(Superseding(samples), clock) BY <2>3, SupersedingFacts
    <3>2. RebuildsTo(tables', Pruned(tables), Superseding(samples), From, clock + 1)
      BY <2>3, <2>5, <3>1, TypeRebuilt
    <3>3. /\ TablesTo(Pruned(tables), clock)
          /\ From \in Int /\ DayStart(clock) <= From /\ clock + 1 \in Int
      BY PrunedFacts, FromFacts DEF TypeInv
    <3> DEFINE n == tables'
               t == Pruned(tables)
    <3>4. RebuildsTo(n, t, Superseding(samples), From, clock + 1) /\ TablesTo(t, clock)
      BY <3>2, <3>3
    <3> HIDE DEF n, t
    <3>5. Row(n.day, d) = Row(t.day, d) BY <3>3, <3>4, RebuildSparesDays
    <3> QED BY <1>0, <3>5 DEF n, t
  <2> QED BY <1>1, <2>3, <2>4, <2>5, SettleSteps
<1>4. CASE Repair \/ RebuildAll
  <2>1. Spend("repair") BY <1>4 DEF Repair, RebuildAll
  <2>2. left'["repair"] = left["repair"] - 1 BY <2>1, SpendFacts DEF Kinds
  <2>3. left["repair"] \in Nat BY DEF TypeInv, Kinds
  <2> QED BY <2>2, <2>3
<1> QED BY <1>2, <1>3, <1>4 DEF Next

\* A collector never changes the row of a day that is over, as long as daily rows are
\* kept: while the five-minute table holds anything, its range begins today
\* (normalize.mjs:2043, 2317-2489, 3596).
THEOREM ClosedDaysAreKept == Spec => ClosedDaysStay
<1>1. ASSUME TypeInv, [Next]_vars, left'["repair"] = left["repair"], Pruned(tables).fine # NoRows,
             NEW d \in DOMAIN tables.day \cup DOMAIN tables'.day, d < DayStart(clock),
             d >= clock - DailyTicks
      PROVE  Row(tables'.day, d) = Row(tables.day, d)
  <2>1. TypeInv' BY <1>1, TypeStep
  <2>2. Tables(tables) /\ Tables(tables') BY <1>1, <2>1 DEF TypeInv, TablesTo, Tables
  <2> DEFINE n == tables'
  <2>3. Tables(n) BY <2>2
  <2> HIDE DEF n
  <2>4. "day" \in Layers BY DEF Layers
  <2>5. DOMAIN tables.day \subseteq Int BY <2>2, <2>4 DEF Tables, Table
  <2>6. DOMAIN n.day \subseteq Int BY <2>3, <2>4 DEF Tables, Table
  <2>7. d \in Int BY <1>1, <2>5, <2>6 DEF n
  <2> QED BY <1>1, <2>7, ClosedDaysStep
<1>2. TypeInv /\ [Next]_vars =>
        [ left'["repair"] = left["repair"] /\ Pruned(tables).fine # NoRows =>
            \A d \in DOMAIN tables.day \cup DOMAIN tables'.day :
              d < DayStart(clock) /\ d >= clock - DailyTicks =>
                Row(tables'.day, d) = Row(tables.day, d) ]_vars
  BY <1>1
<1> QED BY <1>2, TypeInvAlways, PTL DEF Spec, ClosedDaysStay
\* Every row of the day of c is from the first of its snapshots on.
SinceRows(fine, first, c) ==
  \A b \in DOMAIN fine : DayStart(c) <= b => first # None /\ BucketStart(first, "fine") <= b

IsRowOf(fine, s, c) ==
  \A b \in Int : DayStart(c) <= b =>
    Row(fine, b) = IF b = BucketStart(s.at, "fine") THEN s.bytes ELSE 0

\* The only row of the day of c is that of its snapshot.
OnlyRow(fine, S, c) == \A s \in S : DayStart(s.at) = DayStart(c) => IsRowOf(fine, s, c)

AllOne(S) == \A s, o \in S : s = o

DayInv ==
  /\ ~pending => AllOne(snapshots)
  /\ ~gap => SinceRows(tables.fine, since, clock)
  /\ ~pending /\ ~gap => OnlyRow(tables.fine, snapshots, clock)

LEMMA SameDay ==
  ASSUME NEW c \in Nat, NEW x \in Int, DayStart(c) <= x, x <= c
  PROVE  DayStart(x) = DayStart(c)
<1>1. /\ "day" \in Layers /\ Length["day"] = DayTicks /\ DayStart(x) = BucketStart(x, "day")
      /\ DayStart(c) = BucketStart(c, "day") /\ c < DayStart(c) + DayTicks /\ c \in Int
      /\ DayStart(c) \in Int /\ DayTicks \in Nat
  BY DayFacts, LengthsPositive DEF Layers, Length
<1>2. BucketStart(c, "day") <= x /\ x < BucketStart(c, "day") + Length["day"] BY <1>1
<1> QED BY <1>1, <1>2, BucketFacts

LEMMA RowOfTable ==
  ASSUME NEW f, Table(f), NEW b
  PROVE  /\ b \in DOMAIN f => b \in Int /\ Row(f, b) # 0
         /\ b \notin DOMAIN f => Row(f, b) = 0
BY DEF Table, Row

\* A range that reaches back over all rows of the day leaves those of its snapshots.
ReachesBack(fine, from, c) ==
  \A b \in DOMAIN fine : DayStart(c) <= b => BucketStart(from, "fine") <= b

LEMMA RowsOfToday ==
  ASSUME NEW c \in Nat, NEW t, TablesTo(t, c), NEW S, Taken(S, c), NEW from \in Int, NEW n,
         TablesTo(n, c), RebuildsTo(n, t, S, from, c + 1), ReachesBack(t.fine, from, c),
         NEW b \in DOMAIN n.fine, DayStart(c) <= b
  PROVE  \E s \in S : from <= s.at /\ b = BucketStart(s.at, "fine") /\ DayStart(s.at) = DayStart(c)
<1>1. /\ "fine" \in Layers /\ Table(n.fine) /\ Table(t.fine) /\ DayStart(c) \in Int
      /\ BucketStart(from, "fine") \in Int
  BY DayFacts, BucketFacts DEF TablesTo, Tables, Layers
<1>2. b \in Int /\ Row(n.fine, b) # 0 BY <1>1, RowOfTable
<1>3. Row(n.fine, b) = IF BucketStart(from, "fine") <= b /\ b < c + 1
                         THEN Row(FineRows(InRange(S, from, c + 1)), b) ELSE Row(t.fine, b)
  BY <1>2 DEF RebuildsTo
<1>4. ASSUME Row(t.fine, b) # 0 PROVE BucketStart(from, "fine") <= b /\ b < c + 1
  <2>1. b \in DOMAIN t.fine BY <1>1, <1>4, RowOfTable
  <2>2. b <= c BY <2>1 DEF TablesTo, Past
  <2> QED BY <1>2, <2>1, <2>2 DEF ReachesBack
<1>5. Row(FineRows(InRange(S, from, c + 1)), b) # 0 BY <1>2, <1>3, <1>4
<1>6. Samples(InRange(S, from, c + 1))
  <2>1. InRange(S, from, c + 1) \in SUBSET S BY DEF InRange
  <2>2. Taken(InRange(S, from, c + 1), c) BY <2>1, TakenSubset
  <2> QED BY <2>2 DEF Taken
<1>7. PICK s \in InRange(S, from, c + 1) : b = BucketStart(s.at, "fine")
  <2>1. Table(FineRows(InRange(S, from, c + 1))) BY <1>6, FineRowsFacts
  <2>2. b \in DOMAIN FineRows(InRange(S, from, c + 1)) BY <1>5, <2>1, RowOfTable
  <2> QED BY <1>6, <2>2, FineRowsFacts
<1>8. s \in S /\ from <= s.at /\ s.at \in 0..c BY DEF InRange, Taken
<1>9. b <= s.at BY <1>1, <1>7, <1>8, BucketFacts
<1>10. DayStart(s.at) = DayStart(c) BY <1>1, <1>2, <1>8, <1>9, SameDay
<1> QED BY <1>7, <1>8, <1>10

LEMMA RowOfTheOne ==
  ASSUME NEW c \in Nat, NEW t, TablesTo(t, c), NEW S, Taken(S, c), AllOne(S), NEW from \in Int,
         NEW n, TablesTo(n, c), RebuildsTo(n, t, S, from, c + 1), ReachesBack(t.fine, from, c),
         NEW s \in S, from <= s.at
  PROVE  IsRowOf(n.fine, s, c)
<1>1. /\ "fine" \in Layers /\ Table(t.fine) /\ DayStart(c) \in Int
      /\ BucketStart(from, "fine") \in Int
  BY DayFacts, BucketFacts DEF TablesTo, Tables, Layers
<1>2. s.at \in 0..c /\ s.at \in Int /\ s.at <= c BY DEF Taken
<1>3. InRange(S, from, c + 1) = {s} BY <1>2 DEF InRange, AllOne
<1>4. Samples({s})
  <2>1. {s} \in SUBSET S OBVIOUS
  <2>2. Taken({s}, c) BY <2>1, TakenSubset
  <2> QED BY <2>2 DEF Taken
<1>5. /\ BucketStart(from, "fine") <= BucketStart(s.at, "fine")
      /\ BucketStart(s.at, "fine") \in Int /\ BucketStart(s.at, "fine") <= s.at
  BY <1>1, <1>2, BucketFacts, BucketMonotone
<1>6. ASSUME NEW b \in Int, DayStart(c) <= b
      PROVE  Row(n.fine, b) = IF b = BucketStart(s.at, "fine") THEN s.bytes ELSE 0
  <2>1. Row(n.fine, b) = IF BucketStart(from, "fine") <= b /\ b < c + 1
                           THEN Row(FineRows({s}), b) ELSE Row(t.fine, b)
    BY <1>3 DEF RebuildsTo
  <2>2. CASE BucketStart(from, "fine") <= b /\ b < c + 1
    BY <1>4, <2>1, <2>2, FineRowsOfOne
  <2>3. CASE ~(BucketStart(from, "fine") <= b /\ b < c + 1)
    <3>1. b \notin DOMAIN t.fine
      <4>1. SUFFICES ASSUME b \in DOMAIN t.fine PROVE FALSE OBVIOUS
      <4>2. b <= c BY <4>1 DEF TablesTo, Past
      <4>3. BucketStart(from, "fine") <= b BY <1>6, <4>1 DEF ReachesBack
      <4> QED BY <2>3, <4>2, <4>3
    <3>2. Row(n.fine, b) = 0 BY <1>1, <2>1, <2>3, <3>1, RowOfTable
    <3>3. b # BucketStart(s.at, "fine") BY <1>2, <1>5, <2>3
    <3> QED BY <3>2, <3>3
  <2> QED BY <2>2, <2>3
<1> QED BY <1>6 DEF IsRowOf
\* From when on the tables hold today, after a range has been rebuilt.
SinceHeld(S, from, first) ==
  \A s \in Today(InRange(S, from, clock + 1)) : first \in 0..clock /\ first <= s.at

LEMMA EarliestHeld ==
  ASSUME TypeInv, NEW S, Taken(S, clock), NEW from \in Int, NEW to \in Int,
         NEW first, LET held == Today(InRange(S, from, to))
                    IN held # {} => first = Min({s.at : s \in held})
  PROVE  \A s \in Today(InRange(S, from, to)) : first \in 0..clock /\ first <= s.at
<1> DEFINE I == InRange(S, from, to)
<1>1. Taken(I, clock) /\ clock \in Nat
  <2>1. I \subseteq S BY DEF InRange
  <2> QED BY <2>1, TakenSubset DEF TypeInv
<1>2. Today(I) # {} => first = Min({s.at : s \in Today(I)}) OBVIOUS
<1> HIDE DEF I
<1>3. ASSUME Today(I) # {}
      PROVE  first \in 0..clock /\ \A s \in Today(I) : first <= s.at
  BY <1>1, <1>2, <1>3, TodayTaken
<1>4. \A s \in Today(I) : first \in 0..clock /\ first <= s.at BY <1>3
<1> QED BY <1>4 DEF I

LEMMA DayRebuilt ==
  ASSUME TypeInv, NEW t, TablesTo(t, clock), NEW S, Taken(S, clock), NEW from \in Int,
         NEW n, TablesTo(n, clock), RebuildsTo(n, t, S, from, clock + 1),
         ReachesBack(t.fine, from, clock), NEW first, SinceHeld(S, from, first)
  PROVE  /\ SinceRows(n.fine, first, clock)
         /\ AllOne(S) /\ (\A s \in Today(S) : from <= s.at) => OnlyRow(n.fine, S, clock)
<1>1. clock \in Nat /\ None \notin Int /\ "fine" \in Layers BY StoreAssumption DEF TypeInv, Layers
<1>2. ASSUME NEW b \in DOMAIN n.fine, DayStart(clock) <= b
      PROVE  first # None /\ BucketStart(first, "fine") <= b
  <2>1. PICK s \in S : from <= s.at /\ b = BucketStart(s.at, "fine") /\ DayStart(s.at) = DayStart(clock)
    BY <1>1, <1>2, RowsOfToday
  <2>2. s.at \in Int /\ s.at <= clock BY <1>1 DEF Taken
  <2>3. s \in Today(InRange(S, from, clock + 1)) BY <1>1, <2>1, <2>2 DEF Today, InRange
  <2>4. first \in 0..clock /\ first <= s.at BY <2>3 DEF SinceHeld
  <2>5. first \in Int BY <1>1, <2>4
  <2>6. BucketStart(first, "fine") <= BucketStart(s.at, "fine")
    BY <1>1, <2>2, <2>4, <2>5, BucketMonotone
  <2> QED BY <1>1, <2>1, <2>5, <2>6
<1>3. ASSUME AllOne(S), \A s \in Today(S) : from <= s.at, NEW s \in S, DayStart(s.at) = DayStart(clock)
      PROVE  IsRowOf(n.fine, s, clock)
  <2>1. from <= s.at BY <1>3 DEF Today
  <2> QED BY <1>1, <1>3, <2>1, RowOfTheOne
<1>4. SinceRows(n.fine, first, clock) BY <1>2 DEF SinceRows
<1> QED BY <1>3, <1>4 DEF OnlyRow

\* Unless something of today is left behind, a collector's range reaches back.
LEMMA NothingLeftBehind ==
  ASSUME TypeInv, NEW fine, Table(fine), SinceRows(fine, since, clock), NEW S, NEW from \in Int,
         ~LeftBehind(S, from)
  PROVE  ReachesBack(fine, from, clock) /\ \A s \in Today(S) : ~(s.at < from)
<1>1. since \in 0..clock \cup {None} /\ clock \in Nat /\ "fine" \in Layers /\ DOMAIN fine \subseteq Int
  BY DEF TypeInv, Layers, Table
<1>2. ASSUME NEW b \in DOMAIN fine, DayStart(clock) <= b PROVE BucketStart(from, "fine") <= b
  <2>1. since # None /\ BucketStart(since, "fine") <= b BY <1>2 DEF SinceRows
  <2>2. since \in Int /\ ~(since < from) BY <1>1, <2>1 DEF LeftBehind
  <2>3. from <= since BY <2>2
  <2>4. BucketStart(from, "fine") <= BucketStart(since, "fine") BY <1>1, <2>2, <2>3, BucketMonotone
  <2>5. BucketStart(from, "fine") \in Int /\ BucketStart(since, "fine") \in Int /\ b \in Int
    BY <1>1, <2>2, BucketFacts
  <2> QED BY <2>1, <2>4, <2>5
<1> QED BY <1>2 DEF ReachesBack, LeftBehind

LEMMA DaySettle ==
  ASSUME TypeInv, DayInv, UNCHANGED clock,
         NEW samples, Taken(samples, clock), NEW sums, Taken(sums, clock),
         NEW stage \in Stages, Settle(samples, sums, stage)
  PROVE  DayInv'
<1>1. CASE pending' = TRUE /\ UNCHANGED <<tables, since, gap>> BY <1>1 DEF DayInv, SinceRows
<1>2. CASE pending' = TRUE /\ tables' = Pruned(tables) /\ UNCHANGED <<since, gap>>
  <2>1. DOMAIN tables'.fine \subseteq DOMAIN tables.fine BY <1>2, PrunedFacts
  <2> QED BY <1>2, <2>1 DEF DayInv, SinceRows
<1>3. CASE /\ pending' = FALSE /\ snapshots' = Superseding(samples)
           /\ Rebuilt(Superseding(samples), sums, From)
  <2> DEFINE S == Superseding(samples)
             t == Pruned(tables)
             n == tables'
  <2>1. Taken(S, clock) /\ AllOne(S) BY SupersedingFacts DEF AllOne
  <2>2. TablesTo(tables', clock) /\ RebuildsTo(tables', Pruned(tables), S, From, clock + 1)
    BY <1>3, <2>1, TypeRebuilt
  <2>3. TablesTo(t, clock) /\ DOMAIN t.fine \subseteq DOMAIN tables.fine BY PrunedFacts
  <2>4. From \in Int /\ clock + 1 \in Int BY FromFacts DEF TypeInv
  <2>5. /\ gap' = (gap \/ LeftBehind(S, From))
        /\ LET held == Today(InRange(S, From, clock + 1))
           IN held # {} => since' = Min({s.at : s \in held})
    BY <1>3 DEF Rebuilt
  <2>6. snapshots' = S BY <1>3
  <2>7. TablesTo(n, clock) /\ RebuildsTo(n, t, S, From, clock + 1) BY <2>2
  <2>8. tables' = n OBVIOUS
  <2> HIDE DEF S, t, n
  <2>9. SinceHeld(S, From, since') BY <2>1, <2>4, <2>5, EarliestHeld DEF SinceHeld
  <2>10. ASSUME ~gap' PROVE SinceRows(n.fine, since', clock) /\ OnlyRow(n.fine, S, clock)
    <3>1. ~gap /\ ~LeftBehind(S, From) BY <2>5, <2>10
    <3>2. SinceRows(t.fine, since, clock) BY <2>3, <3>1 DEF DayInv, SinceRows
    <3>3. Table(t.fine) BY <2>3 DEF TablesTo, Tables, Layers
    <3>4. ReachesBack(t.fine, From, clock) /\ \A s \in Today(S) : ~(s.at < From)
      BY <2>4, <3>1, <3>2, <3>3, NothingLeftBehind
    <3>5. \A s \in Today(S) : From <= s.at
      <4>1. \A s \in Today(S) : s.at \in Int BY <2>1 DEF Taken, Today, TypeInv
      <4> QED BY <2>4, <3>4, <4>1
    <3> QED BY <2>1, <2>3, <2>4, <2>7, <2>9, <3>4, <3>5, DayRebuilt
  <2>11. ~gap' => SinceRows(tables'.fine, since', clock') /\ OnlyRow(tables'.fine, snapshots', clock')
    BY <2>6, <2>8, <2>10
  <2>12. AllOne(snapshots') BY <2>1, <2>6
  <2> QED BY <2>11, <2>12 DEF DayInv
<1> QED BY <1>1, <1>2, <1>3, SettleSteps
\* A repair that ends where today begins leaves the rows of today alone.
LEMMA RepairSparesToday ==
  ASSUME TypeInv, NEW t, TablesTo(t, clock), NEW S, NEW from \in Int, NEW n,
         TablesTo(n, clock), RebuildsTo(n, t, S, from, DayStart(clock)),
         NEW b \in Int, DayStart(clock) <= b
  PROVE  Row(n.fine, b) = Row(t.fine, b) /\ (b \in DOMAIN n.fine => b \in DOMAIN t.fine)
<1>1. DayStart(clock) \in Int /\ Table(n.fine) /\ Table(t.fine)
  BY DayFacts DEF TypeInv, TablesTo, Tables, Layers
<1>2. Row(n.fine, b) = Row(t.fine, b) BY <1>1 DEF RebuildsTo
<1> QED BY <1>1, <1>2, RowOfTable

LEMMA DayRepairPast ==
  ASSUME TypeInv, DayInv, UNCHANGED <<clock, snapshots, pending, since, gap>>, NEW from \in Int,
         TablesTo(tables', clock), RebuildsTo(tables', tables, snapshots, from, DayStart(clock))
  PROVE  DayInv'
<1> DEFINE n == tables'
<1>1. TablesTo(n, clock) /\ RebuildsTo(n, tables, snapshots, from, DayStart(clock)) /\ tables' = n
  OBVIOUS
<1> HIDE DEF n
<1>2. TablesTo(tables, clock) BY DEF TypeInv
<1>3. \A b \in Int : DayStart(clock) <= b =>
        Row(n.fine, b) = Row(tables.fine, b) /\ (b \in DOMAIN n.fine => b \in DOMAIN tables.fine)
  BY <1>1, <1>2, RepairSparesToday
<1>4. DOMAIN n.fine \subseteq Int BY <1>1 DEF TablesTo, Tables, Table, Layers
<1>5. ~gap => SinceRows(n.fine, since, clock) BY <1>3, <1>4 DEF DayInv, SinceRows
<1>6. ~pending /\ ~gap => OnlyRow(n.fine, snapshots, clock)
  BY <1>3 DEF DayInv, OnlyRow, IsRowOf
<1>7. ~gap' => SinceRows(tables'.fine, since', clock') BY <1>1, <1>5
<1>8. ~pending' /\ ~gap' => OnlyRow(tables'.fine, snapshots', clock') BY <1>1, <1>6
<1>9. ~pending' => AllOne(snapshots') BY DEF DayInv
<1> QED BY <1>7, <1>8, <1>9 DEF DayInv

\* A repair up to now of a range that begins with today or before.
LEMMA DayRepairAll ==
  ASSUME TypeInv, DayInv, UNCHANGED <<clock, snapshots, pending>>, NEW t, TablesTo(t, clock),
         NEW from \in Int, RepairRange(t, from, clock + 1, TRUE), ReachesBack(t.fine, from, clock),
         \A s \in Today(snapshots) : from <= s.at
  PROVE  DayInv'
<1> DEFINE n == tables'
           held == Today(InRange(snapshots, from, clock + 1))
<1>11. clock + 1 \in Int BY DEF TypeInv
<1>1. TablesTo(tables', clock) /\ RebuildsTo(tables', t, snapshots, from, clock + 1)
  BY <1>11, RepairFacts
<1>2. TablesTo(n, clock) /\ RebuildsTo(n, t, snapshots, from, clock + 1) /\ tables' = n BY <1>1
<1>3. held # {} => since' = Min({s.at : s \in held})
  <2>1. since' = CASE ~TRUE -> since [] TRUE /\ held = {} -> None [] OTHER -> Min({s.at : s \in held})
    BY Zenon DEF RepairRange
  <2> HIDE DEF held
  <2> QED BY <2>1
<1> HIDE DEF n
<1>4. Taken(snapshots, clock) BY DEF TypeInv
<1>5. SinceHeld(snapshots, from, since')
  <2>1. clock + 1 \in Int BY DEF TypeInv
  <2> QED BY <1>3, <1>4, <2>1, EarliestHeld DEF SinceHeld
<1>6. /\ SinceRows(n.fine, since', clock)
      /\ AllOne(snapshots) => OnlyRow(n.fine, snapshots, clock)
  BY <1>2, <1>4, <1>5, DayRebuilt
<1>7. SinceRows(tables'.fine, since', clock') BY <1>2, <1>6
<1>8. AllOne(snapshots) => OnlyRow(tables'.fine, snapshots', clock') BY <1>2, <1>6
<1>9. (~pending => AllOne(snapshots)) /\ pending' = pending /\ snapshots' = snapshots BY DEF DayInv
<1>10. ~pending' => AllOne(snapshots') BY <1>9
<1> QED BY <1>7, <1>8, <1>9, <1>10 DEF DayInv

LEMMA DayTick ==
  ASSUME TypeInv, DayInv, Tick
  PROVE  DayInv'
<1>1. /\ clock' = clock + 1 /\ clock \in Nat /\ clock + 1 \in Int
      /\ UNCHANGED <<snapshots, tables, pending>>
  BY DEF TypeInv, Tick
<1>2. CASE NewDay(clock + 1)
  <2>1. DayStart(clock + 1) = clock + 1 BY <1>1, <1>2, NextDay DEF NewDay
  <2>2. \A b \in DOMAIN tables.fine : b <= clock BY DEF TypeInv, TablesTo, Past
  <2>3. \A s \in snapshots : DayStart(s.at) # clock + 1
    <3>1. \A s \in snapshots : s.at \in Int /\ s.at <= clock BY <1>1 DEF TypeInv, Taken
    <3>2. \A s \in snapshots : DayStart(s.at) \in Int /\ DayStart(s.at) <= s.at BY <3>1, DayFacts
    <3> QED BY <1>1, <3>1, <3>2
  <2>4. DOMAIN tables.fine \subseteq Int BY DEF TypeInv, TablesTo, Tables, Table, Layers
  <2>5. SinceRows(tables'.fine, since', clock') BY <1>1, <2>1, <2>2, <2>4 DEF SinceRows
  <2>6. OnlyRow(tables'.fine, snapshots', clock') BY <1>1, <2>1, <2>3 DEF OnlyRow
  <2> QED BY <1>1, <2>5, <2>6 DEF DayInv, AllOne
<1>3. CASE ~NewDay(clock + 1)
  <2>1. since' = since /\ gap' = gap /\ DayStart(clock') = DayStart(clock)
    BY <1>1, <1>3 DEF Tick, NewDay, TypeInv
  <2> QED BY <1>1, <2>1 DEF DayInv, AllOne, SinceRows, OnlyRow, IsRowOf
<1> QED BY <1>2, <1>3

LEMMA DayStep ==
  ASSUME TypeInv, DayInv, [Next]_vars
  PROVE  DayInv'
<1>1. clock \in Nat /\ DayStart(clock) \in Int /\ DayStart(clock) <= clock /\ TablesTo(tables, clock)
  BY DayFacts DEF TypeInv
<1>2. CASE Tick BY <1>2, DayTick
<1>3. CASE FetchFull \/ SkipFull \/ UNCHANGED vars
  <2>1. UNCHANGED <<clock, snapshots, tables, pending, since, gap>>
    BY <1>3 DEF FetchFull, SkipFull, vars, models, source
  <2> QED BY <2>1 DEF DayInv, AllOne, SinceRows, OnlyRow, IsRowOf
<1>4. CASE StoreFull \/ StorePartly \/ FastCollect
  <2>1. PICK stage \in Stages : \E samples, sums : Collects(samples, sums, stage)
    BY <1>4, CollectorSteps
  <2>2. PICK samples, sums : Collects(samples, sums, stage) BY <2>1
  <2>3. Taken(samples, clock) /\ Taken(sums, clock) /\ Settle(samples, sums, stage) /\ UNCHANGED clock
    BY <2>2 DEF Collects
  <2> QED BY <2>3, DaySettle
<1>5. CASE Repair
  <2>1. PICK from \in Int, to \in Int :
          /\ from <= DayStart(clock) /\ to \in {DayStart(clock), clock + 1}
          /\ RepairRange(tables, from, to, to > clock)
    BY <1>5, RepairRangeIs
  <2>2. UNCHANGED <<clock, snapshots, pending>> BY <1>5 DEF Repair, source
  <2>3. CASE to = DayStart(clock)
    <3>1. (to > clock) = FALSE BY <1>1, <2>3
    <3>2. TablesTo(tables', clock) /\ RebuildsTo(tables', tables, snapshots, from, DayStart(clock))
      BY <1>1, <2>1, <2>2, <2>3, RepairFacts
    <3>3. RepairRange(tables, from, to, FALSE) BY <2>1, <3>1
    <3>4. gap' = gap BY <3>3 DEF RepairRange, TypeInv
    <3>5. since' = since
      <4>1. since' = CASE ~FALSE -> since
                       [] FALSE /\ Today(InRange(snapshots, from, to)) = {} -> None
                       [] OTHER -> Min({s.at : s \in Today(InRange(snapshots, from, to))})
        BY <3>3, Zenon DEF RepairRange
      <4> DEFINE held == Today(InRange(snapshots, from, to))
      <4> HIDE DEF held
      <4> QED BY <4>1 DEF held
    <3> QED BY <2>2, <3>2, <3>4, <3>5, DayRepairPast
  <2>4. CASE to = clock + 1
    <3>1. (to > clock) = TRUE BY <1>1, <2>4
    <3>2. RepairRange(tables, from, clock + 1, TRUE) BY <2>1, <2>4, <3>1
    <3>3. BucketStart(from, "fine") <= from /\ BucketStart(from, "fine") \in Int
      BY BucketFacts DEF Layers
    <3>4. \A b \in DOMAIN tables.fine : b \in Int BY <1>1 DEF TablesTo, Tables, Table, Layers
    <3>5. ReachesBack(tables.fine, from, clock) BY <1>1, <2>1, <3>3, <3>4 DEF ReachesBack
    <3>6. \A s \in Today(snapshots) : from <= s.at
      <4>1. \A s \in Today(snapshots) : s.at \in Int /\ DayStart(s.at) = DayStart(clock)
        BY DEF TypeInv, Taken, Today
      <4>2. \A s \in Today(snapshots) : DayStart(clock) <= s.at BY <4>1, DayFacts
      <4> QED BY <1>1, <2>1, <4>1, <4>2
    <3> QED BY <1>1, <2>2, <3>2, <3>5, <3>6, DayRepairAll
  <2> QED BY <2>1, <2>3, <2>4
<1>6. CASE RebuildAll
  <2>1. UNCHANGED <<clock, snapshots, pending>> BY <1>6 DEF RebuildAll, source
  <2>2. TablesTo(NoTables, clock) BY <1>1, NoTablesFacts DEF TablesTo
  <2>3. NoTables.fine = NoRows /\ DOMAIN NoRows = {} BY DEF NoTables, NoRows, Layers
  <2>4. ASSUME NEW from \in Int, from <= clock, \A s \in snapshots : from <= s.at,
               RepairRange(NoTables, from, clock + 1, TRUE)
        PROVE  DayInv'
    <3>1. ReachesBack(NoTables.fine, from, clock) BY <2>3 DEF ReachesBack
    <3>2. \A s \in Today(snapshots) : from <= s.at BY <2>4 DEF Today
    <3> QED BY <2>1, <2>2, <2>4, <3>1, <3>2, DayRepairAll
  <2>5. CASE snapshots = {} /\ tables' = NoTables
    BY <2>1, <2>3, <2>5 DEF DayInv, AllOne, SinceRows, OnlyRow
  <2> QED BY <1>6, <2>4, <2>5, RebuildAllIs
<1> QED BY <1>2, <1>3, <1>4, <1>5, <1>6 DEF Next
LEMMA DayAlways == Spec => [](TypeInv /\ TablesInv /\ WindowsInv /\ DayInv)
<1>1. Init => DayInv
  <2> SUFFICES ASSUME Init PROVE DayInv OBVIOUS
  <2>1. snapshots = {} /\ tables = NoTables BY DEF Init
  <2>2. NoTables.fine = NoRows /\ DOMAIN NoRows = {} BY DEF NoTables, NoRows, Layers
  <2> QED BY <2>1, <2>2 DEF DayInv, AllOne, SinceRows, OnlyRow
<1>2. TypeInv /\ DayInv /\ [Next]_vars => DayInv' BY DayStep
<1> QED BY <1>1, <1>2, PyramidAlways, PTL DEF Spec

\* A span that holds one row.
HoldsOne(f, lo, x, v) == \A b \in Int : lo <= b => Row(f, b) = IF b = x THEN v ELSE 0

LEMMA SpanOfOne ==
  ASSUME NEW f, Table(f), NEW lo \in Int, NEW hi \in Int, NEW x \in Int, lo <= x, x < hi,
         NEW v \in Nat, HoldsOne(f, lo, x, v)
  PROVE  Span(f, lo, hi) = v
<1>1. \A b \in Int : lo <= b => Row(f, b) = IF b = x THEN v ELSE 0 BY DEF HoldsOne
<1>2. \A b \in DOMAIN f : b \in Int /\ f[b] \in Nat \ {0} /\ Row(f, b) = f[b] BY DEF Table, Row
<1>3. CASE v = 0
  <2>1. \A b \in DOMAIN f : ~(lo <= b) BY <1>1, <1>2, <1>3
  <2>2. \A b \in DOMAIN f : b \in Int /\ ~(lo <= b /\ b < hi) BY <1>2, <2>1
  <2> QED BY <1>3, <2>2, SpanEmpty
<1>4. CASE v # 0
  <2>1. x \in DOMAIN f /\ f[x] = v BY <1>1, <1>4 DEF Row
  <2>2. \A b \in DOMAIN f : lo <= b => b = x BY <1>1, <1>2
  <2>3. Between(f, lo, hi) = {x} BY <2>1, <2>2 DEF Between
  <2>4. IsFiniteSet({}) /\ x \notin {} BY FS_EmptySet
  <2>5. SumFunctionOnSet(f, {} \cup {x}) = f[x] + SumFunctionOnSet(f, {})
    BY <2>1, <2>4, SumAdd
  <2>6. SumFunctionOnSet(f, {}) = 0 BY SumEmpty
  <2>7. {} \cup {x} = {x} OBVIOUS
  <2>8. SumFunctionOnSet(f, {x}) = v BY <2>1, <2>5, <2>6, <2>7
  <2> QED BY <2>3, <2>8 DEF Span
<1> QED BY <1>3, <1>4

LEMMA DayMatches == TypeInv /\ TablesInv /\ DayInv => DayMatchesCounter
<1> SUFFICES ASSUME TypeInv, TablesInv, DayInv, ~pending, ~gap, Today(snapshots) # {}
             PROVE  Row(tables.day, DayStart(clock)) = Newest(snapshots).bytes
  BY DEF DayMatchesCounter
<1> DEFINE today == DayStart(clock)
<1>1. PICK s \in snapshots : DayStart(s.at) = today BY DEF Today
<1>2. Newest(snapshots) = s
  <2>1. Samples(snapshots) /\ snapshots # {} BY DEF TypeInv, Taken
  <2>2. \E o \in snapshots : \A p \in snapshots : p.at <= o.at BY <2>1, NewestExists
  <2>3. Newest(snapshots) \in snapshots BY <2>2, Zenon DEF Newest
  <2> QED BY <2>3 DEF DayInv, AllOne
<1>3. /\ clock \in Nat /\ today \in Int /\ today = BucketStart(clock, "day") /\ DayStart(today) = today
      /\ s.at \in Int /\ s.at <= clock /\ s.bytes \in Nat /\ DayTicks \in Nat
  BY DayFacts, LengthsPositive DEF TypeInv, Taken
<1>0. /\ Cutoff.fine \in Int /\ Cutoff.hour \in Int /\ Cutoff.day \in Int
      /\ Cutoff.fine <= today /\ Cutoff.hour <= today /\ Cutoff.day <= today
  <2>1. /\ Cuts(Cutoff) /\ Cutoff.fine <= today /\ Cutoff.hour <= today
        /\ Cutoff.day <= MonthStart(clock)
    BY CutBeforeToday
  <2>2. MonthStart(clock) <= today /\ MonthStart(clock) \in Int
    <3>1. /\ "day" \in Layers /\ "month" \in Layers /\ <<"day", "month">> \in Filled
          /\ BucketStart(clock, "month") = MonthStart(clock)
      BY DEF Layers, Filled, BucketStart
    <3> QED BY <1>3, <3>1, RangesNest, StartsOfWindows
  <2> QED BY <1>3, <2>1, <2>2 DEF Cuts
<1>4. today <= s.at /\ s.at < today + DayTicks BY <1>1, <1>3, DayFacts
<1>5. /\ "fine" \in Layers /\ "hour" \in Layers /\ "day" \in Layers /\ <<"fine", "hour">> \in Filled
      /\ <<"hour", "day">> \in Filled /\ Length["day"] = DayTicks
  BY DEF Layers, Filled, Length
<1>6. /\ Table(tables.fine) /\ Table(tables.hour) /\ Table(tables.day)
  BY <1>5 DEF TypeInv, TablesTo, Tables
<1>7. IsRowOf(tables.fine, s, clock) BY <1>1 DEF DayInv, OnlyRow
<1> HIDE DEF today
<1>8. Aligned(today, "day") /\ Aligned(today + DayTicks, "day")
  BY <1>3, <1>5, NextBucket
<1>9. Aligned(today, "hour") /\ Aligned(today + DayTicks, "hour")
  <2>1. \A t \in Int : Aligned(t, "day") => Aligned(t, "hour") BY <1>5, BucketsNest DEF Aligned
  <2> QED BY <1>3, <1>8, <2>1
<1>10. Row(tables.day, today) = Span(tables.hour, today, today + DayTicks)
  <2>1. Row(tables.day, today) = BucketBytes(tables.hour, today, "day")
    BY <1>0, <1>3 DEF TablesInv, Agree
  <2> QED BY <1>5, <1>8, <2>1 DEF BucketBytes
<1>11. Span(tables.hour, today, today + DayTicks) = Span(tables.fine, today, today + DayTicks)
  <2>1. \A g \in Int : today <= g => Row(tables.hour, g) = BucketBytes(tables.fine, g, "hour")
    BY <1>0, <1>3 DEF TablesInv, Agree
  <2> QED BY <1>5, <1>6, <1>9, <2>1, SpanOfLayers
<1>12. Span(tables.fine, today, today + DayTicks) = s.bytes
  <2> DEFINE x == BucketStart(s.at, "fine")
  <2>1. x \in Int /\ x <= s.at BY <1>3, <1>5, BucketFacts
  <2>2. today <= x
    <3>1. BucketStart(today, "fine") = today BY <1>5, <1>3, <1>9, BucketsNest DEF Aligned
    <3>2. BucketStart(today, "fine") <= x BY <1>3, <1>4, <1>5, BucketMonotone
    <3> QED BY <3>1, <3>2
  <2>3. \A b \in Int : today <= b => Row(tables.fine, b) = IF b = x THEN s.bytes ELSE 0
    BY <1>7 DEF IsRowOf, today
  <2> DEFINE end == today + DayTicks
             v == s.bytes
  <2>4. end \in Int /\ x < end /\ v \in Nat BY <1>3, <1>4, <2>1
  <2>5. HoldsOne(tables.fine, today, x, v) BY <2>3 DEF HoldsOne
  <2> HIDE DEF x, end, v
  <2>6. Span(tables.fine, today, end) = v BY <1>3, <1>6, <2>1, <2>2, <2>4, <2>5, SpanOfOne
  <2> QED BY <2>6 DEF end, v
<1> QED BY <1>2, <1>10, <1>11, <1>12 DEF today

\* While no run died before its rebuild and no rebuild of today left facts of today
\* behind its range, the day's row is the router's counter as the newest facts give
\* it: of the cumulative snapshots one is left, and every rebuild of today replaces all
\* that the ones before it have added (normalize.mjs:2043, 3545-3575).
THEOREM DayAlwaysMatches == Spec => []DayMatchesCounter
BY DayAlways, DayMatches, PTL

=============================================================================
