--------------------- MODULE ConsoleCollectors_proofs ----------------------
(***************************************************************************)
(* Proofs about the supervisor and the live collector, for any number and  *)
(* length of the logs and of their tails and any number of failures and    *)
(* restarts.                                                               *)
(***************************************************************************)
EXTENDS ConsoleCollectors, FiniteSetTheorems, TLAPS

Who == {"periodic", "startup", "fast"}

\* What the supervisor keeps about its children.
Supervised ==
  /\ enabled \in Modes /\ up \in {"up", "stopping", "down"} /\ started \in BOOLEAN
  /\ collecting \in [Kinds -> BOOLEAN] /\ timer \in [Kinds -> BOOLEAN]
  /\ caller \in [Kinds -> Who \cup {None}]
  /\ starting \in BOOLEAN /\ fast \in {"no", "light", "live", "done"}
  /\ child \in [Kinds -> Step]
  /\ \A k \in Kinds : /\ collecting[k] <=> child[k] # "none"
                      /\ collecting[k] <=> caller[k] # None
                      /\ child[k] \in {"insert", "cursor", "rebuild"} <=> writer = k

\* After a stop no timer is armed.
NoTimers == up # "up" => \A k \in Kinds : ~timer[k]

SupInv == Supervised /\ NoTimers

LEMMA InitSup == Init => SupInv
BY CollectorsAssumption DEF Init, Boot, SupInv, Supervised, NoTimers, Kinds, Step, Who

LEMMA CollectKeeps ==
  ASSUME SupInv, NEW k \in Kinds, NEW who \in Who, NEW base \in [Kinds -> BOOLEAN],
         up # "up" => \A j \in Kinds : ~base[j],
         Collect(k, who, base), UNCHANGED <<enabled, up>>, starting' \in BOOLEAN,
         UNCHANGED writer, fast \in Fast \/ who # "fast"
  PROVE  SupInv'
<1> USE CollectorsAssumption DEF SupInv, Supervised, NoTimers
<1>1. CASE collecting[k] \/ up # "up"
  <2>1. UNCHANGED <<collecting, caller, child>>
    BY <1>1 DEF Collect
  <2>2. timer' \in [Kinds -> BOOLEAN] /\ (up # "up" => \A j \in Kinds : ~timer'[j])
    <3>1. CASE who = "periodic"
      BY <1>1, <3>1 DEF Collect
    <3>2. CASE who = "startup"
      BY <1>1, <3>2 DEF Collect, Return
    <3>3. CASE who = "fast"
      BY <1>1, <3>3 DEF Collect, Return
    <3> QED BY <3>1, <3>2, <3>3 DEF Who
  <2>3. started' \in BOOLEAN /\ fast' \in {"no", "light", "live", "done"}
    <3>1. CASE who = "periodic"
      BY <1>1, <3>1 DEF Collect
    <3>2. CASE who = "startup"
      BY <1>1, <3>2 DEF Collect, Return
    <3>3. CASE who = "fast"
      BY <1>1, <3>3 DEF Collect, Return, NextFast
    <3> QED BY <3>1, <3>2, <3>3 DEF Who
  <2> QED BY <2>1, <2>2, <2>3
<1>2. CASE ~collecting[k] /\ up = "up"
  <2>1. /\ collecting' = [collecting EXCEPT ![k] = TRUE] /\ caller' = [caller EXCEPT ![k] = who]
        /\ child' = [child EXCEPT ![k] = "fetch"] /\ timer' = base /\ UNCHANGED <<started, fast>>
    BY <1>2 DEF Collect
  <2>2. /\ collecting' \in [Kinds -> BOOLEAN] /\ caller' \in [Kinds -> Who \cup {None}]
        /\ child' \in [Kinds -> Step]
    BY <2>1 DEF Step
  <2>3. ASSUME NEW j \in Kinds
        PROVE  /\ collecting'[j] <=> child'[j] # "none"
               /\ collecting'[j] <=> caller'[j] # None
               /\ child'[j] \in {"insert", "cursor", "rebuild"} <=> writer' = j
    <3>1. CASE j = k
      <4>1. collecting'[j] = TRUE /\ child'[j] = "fetch" /\ caller'[j] = who
        BY <2>1, <3>1
      <4>2. who # None /\ writer # j
        BY <1>2, <3>1 DEF Who
      <4> QED BY <4>1, <4>2
    <3>2. CASE j # k
      BY <2>1, <3>2
    <3> QED BY <3>1, <3>2
  <2> QED BY <2>1, <2>2, <2>3
<1> QED BY <1>1, <1>2

LEMMA GoneKeeps ==
  ASSUME SupInv, NEW k \in Kinds, child[k] # "none", Gone(k)
  PROVE  SupInv'
<1> USE CollectorsAssumption DEF Gone, Exited, Return, NextFast, Schedule, SupInv, Supervised, NoTimers,
                                 Kinds, Fast, Step, Who
<1>1. caller[k] \in Who
  OBVIOUS
<1>2. CASE caller[k] = "periodic"
  BY <1>2
<1>3. CASE caller[k] = "startup"
  BY <1>3
<1>4. CASE caller[k] = "fast"
  BY <1>4
<1> QED BY <1>1, <1>2, <1>3, <1>4

LEMMA ChildKeeps ==
  ASSUME SupInv, NEW k \in Kinds, NEW s \in Step, Becomes(k, s), s # "none", child[k] # "none",
         UNCHANGED <<enabled, supervisor>>,
         s \in {"insert", "cursor", "rebuild"} => writer' = k,
         s \in {"fetch", "wait"} => child[k] \in {"fetch", "wait"} /\ writer' = writer,
         writer' = writer \/ (writer = None /\ writer' = k)
  PROVE  SupInv'
BY CollectorsAssumption DEF Becomes, supervisor, SupInv, Supervised, NoTimers, Kinds, Step, Who

LEMMA NextSup == SupInv /\ [Next]_vars => SupInv'
<1> SUFFICES ASSUME SupInv, [Next]_vars PROVE SupInv'
  OBVIOUS
<1> USE CollectorsAssumption DEF data, store
<1>1. CASE StartupFires
  BY <1>1, CollectKeeps DEF StartupFires, SupInv, Supervised, NoTimers, Kinds, Who
<1>2. CASE FastFires
  BY <1>2 DEF FastFires, SupInv, Supervised, NoTimers
<1>3. CASE FastCalls
  <2>1. fast \in Kinds
    BY <1>3 DEF FastCalls, Fast, Kinds
  <2> QED BY <1>3, <2>1, CollectKeeps DEF FastCalls, SupInv, Supervised, NoTimers, Who
<1>4. CASE Stop
  BY <1>4 DEF Stop, SupInv, Supervised, NoTimers, Kinds
<1>5. CASE ServerExit
  BY <1>5 DEF ServerExit, Boot, SupInv, Supervised, NoTimers, Kinds, Step, Who
<1>6. CASE Restart
  BY <1>6 DEF Restart, Boot, SupInv, Supervised, NoTimers, Kinds
<1>7. CASE Live
  <2>1. CASE StoreEvent
    BY <1>7, <2>1, ChildKeeps DEF StoreEvent, SupInv, Supervised, NoTimers, Kinds, Step, supervisor
  <2>2. CASE StoreCursor
    BY <1>7, <2>2, ChildKeeps DEF StoreCursor, SupInv, Supervised, NoTimers, Kinds, Step, supervisor
  <2>3. CASE StoreNothing
    BY <1>7, <2>3, ChildKeeps DEF StoreNothing, SupInv, Supervised, NoTimers, Kinds, Step, supervisor
  <2> QED BY <1>7, <2>1, <2>2, <2>3 DEF Live
<1>8. CASE Log
  BY <1>8 DEF Log, supervisor, SupInv, Supervised, NoTimers
<1>9. ASSUME NEW k \in Kinds, TimerFires(k) PROVE SupInv'
  BY <1>9, CollectKeeps DEF TimerFires, SupInv, Supervised, NoTimers, Who
<1>10. ASSUME NEW k \in Kinds, Fetch(k) PROVE SupInv'
  BY <1>10, ChildKeeps DEF Fetch, Read, Step
<1>11. ASSUME NEW k \in Kinds, Acquire(k) PROVE SupInv'
  BY <1>11, ChildKeeps DEF Acquire, Step
<1>12. ASSUME NEW k \in Kinds, Finish(k) PROVE SupInv'
  BY <1>12, GoneKeeps DEF Finish
<1>13. ASSUME NEW k \in Kinds, Fail(k) PROVE SupInv'
  BY <1>13, GoneKeeps DEF Fail
<1>14. CASE UNCHANGED vars
  BY <1>14 DEF vars, supervisor, SupInv, Supervised, NoTimers
<1> QED BY <1>1, <1>2, <1>3, <1>4, <1>5, <1>6, <1>7, <1>8, <1>9, <1>10, <1>11, <1>12, <1>13, <1>14
        DEF Next, Supervise

LEMMA SupInvariance == Spec => []SupInv
BY InitSup, NextSup, PTL DEF Spec

(***************************************************************************)
(* After a stop nothing is started and no timer armed, in any number of    *)
(* restarts (run-with-collector.mjs:80, 117-155, 188-195).                 *)
(***************************************************************************)
THEOREM NothingAfterStop == Spec => QuietAfterStop
<1> DEFINE Quiet == up # "up" /\ up' # "up" =>
        \A k \in Kinds : ~timer'[k] /\ (child[k] = "none" => child'[k] = "none")
<1>1. ASSUME SupInv, SupInv', [Next]_vars PROVE Quiet
  <2> SUFFICES ASSUME up # "up", up' # "up", NEW j \in Kinds, child[j] = "none"
               PROVE  child'[j] = "none"
    BY <1>1 DEF SupInv, NoTimers
  <2> USE <1>1 DEF SupInv, Supervised, NoTimers
  <2>1. CASE StartupFires
    BY <2>1 DEF StartupFires, Collect
  <2>2. CASE FastCalls
    BY <2>2 DEF FastCalls, Collect
  <2>3. CASE ServerExit
    BY <2>3 DEF ServerExit, Boot
  <2>4. CASE Live
    BY <2>4 DEF Live, StoreEvent, StoreCursor, StoreNothing, Becomes, Kinds
  <2>5. ASSUME NEW k \in Kinds, TimerFires(k) PROVE child'[j] = "none"
    BY <2>5 DEF TimerFires
  <2>6. ASSUME NEW k \in Kinds, Fetch(k) \/ Acquire(k) PROVE child'[j] = "none"
    BY <2>6 DEF Fetch, Read, Acquire, Becomes
  <2>7. ASSUME NEW k \in Kinds, Finish(k) \/ Fail(k) PROVE child'[j] = "none"
    BY <2>7 DEF Finish, Fail, Gone, Exited
  <2> QED BY <2>1, <2>2, <2>3, <2>4, <2>5, <2>6, <2>7
          DEF Next, Supervise, FastFires, Stop, Restart, Log, vars, supervisor
<1>2. Spec => [][Quiet]_vars
  BY <1>1, SupInvariance, PTL DEF Spec
<1> QED BY <1>2 DEF QuietAfterStop
-----------------------------------------------------------------------------
(* The live report.                                                        *)
LinesOK ==
  /\ lines \in Seq(Line) /\ Len(lines) <= MaxLines /\ length \in [Logs -> Nat]
  /\ skipped \subseteq 1..Len(lines)
  /\ \A l \in 1..Len(lines) :
       LET n == length[lines[l].of]
       IN  lines[l].place \in 1..n /\ n - lines[l].place <= Len(lines) - l

\* The end of a sequence.
LEMMA EndOf ==
  ASSUME NEW S, NEW s \in Seq(S), NEW a \in 1..(Len(s) + 1)
  PROVE  /\ SubSeq(s, a, Len(s)) \in Seq(S) /\ Len(SubSeq(s, a, Len(s))) = Len(s) - a + 1
         /\ \A k \in 1..(Len(s) - a + 1) : SubSeq(s, a, Len(s))[k] = s[a + k - 1]
<1> DEFINE n == Len(s) - a + 1
<1>1. n \in Nat
  OBVIOUS
<1>2. SubSeq(s, a, Len(s)) = [k \in 1..n |-> s[a + k - 1]]
  BY <1>1
<1>3. \A k \in 1..n : s[a + k - 1] \in S
  BY <1>1
<1> QED BY <1>1, <1>2, <1>3

\* Each line of a tail has one event, and tails are finite.
LEMMA TailsType ==
  ASSUME LinesOK, NEW read
  PROVE  /\ \A e \in Tails(read) : e \in Event /\ e.line \in 1..Len(lines)
         /\ \A e \in Tails(read), d \in Tails(read) : e.line = d.line => e = d
         /\ \A e \in Tails(read) : e.no = lines[e.line].place - Passed(lines[e.line].of)
         /\ IsFiniteSet(Tails(read))
<1> DEFINE D == {l \in DOMAIN lines : lines[l].of \in read /\ lines[l].place > Passed(lines[l].of)}
           f == [l \in D |-> [line |-> l, no |-> lines[l].place - Passed(lines[l].of)]]
<1>1. Len(lines) \in Nat /\ DOMAIN lines = 1..Len(lines) /\ D \subseteq 1..Len(lines)
  BY DEF LinesOK
<1>2. \A e \in Tails(read) : \E l \in D : e = [line |-> l, no |-> lines[l].place - Passed(lines[l].of)]
  BY DEF Tails
<1>3. ASSUME NEW l \in D PROVE lines[l].place - Passed(lines[l].of) \in 1..Limit /\ l \in 1..MaxLines
  <2>3. lines[l] \in Line
    BY <1>1 DEF LinesOK
  <2>1. lines[l] \in Line /\ length[lines[l].of] \in Nat
    BY <2>3 DEF LinesOK, Line
  <2>2. lines[l].place \in 1..length[lines[l].of] /\ l <= MaxLines
    BY <1>1, CollectorsAssumption DEF LinesOK
  <2> QED BY <1>1, <2>1, <2>2, CollectorsAssumption DEF Passed
<1>4. IsFiniteSet(D)
  <2>1. IsFiniteSet(1..Len(lines))
    BY <1>1, FS_Interval
  <2> QED BY <1>1, <2>1, FS_Subset
<1>5. f \in Surjection(D, Tails(read))
  BY DEF Surjection, Tails
<1>6. IsFiniteSet(Tails(read))
  BY <1>4, <1>5, FS_Surjection
<1> HIDE DEF D, f
<1> QED BY <1>1, <1>2, <1>3, <1>6 DEF Event

\* A line within reach is in the tail of its log.
LEMMA TailReaches ==
  ASSUME LinesOK, NEW read, NEW l \in 1..Len(lines), lines[l].of \in read, l > Len(lines) - Limit
  PROVE  \E e \in Tails(read) : e.line = l
<1>5. lines[l] \in Line
  BY DEF LinesOK
<1>1. lines[l] \in Line /\ lines[l].of \in Logs /\ length[lines[l].of] \in Nat
  BY <1>5 DEF LinesOK, Line
<1>2. /\ lines[l].place \in 1..length[lines[l].of]
      /\ length[lines[l].of] - lines[l].place <= Len(lines) - l
  BY DEF LinesOK
<1>3. lines[l].place > Passed(lines[l].of)
  BY <1>1, <1>2, CollectorsAssumption DEF Passed, LinesOK
<1>4. l \in DOMAIN lines
  BY DEF LinesOK
<1> DEFINE e == [line |-> l, no |-> lines[l].place - Passed(lines[l].of)]
<1>6. e \in Tails(read)
  BY <1>3, <1>4 DEF Tails
<1>7. e.line = l
  OBVIOUS
<1> HIDE DEF e
<1> QED BY <1>6, <1>7

\* A report has every event of the tails once.
LEMMA MergedType ==
  ASSUME LinesOK, NEW read, NEW q \in Merged(Tails(read))
  PROVE  /\ q \in Seq(Tails(read)) /\ q \in Seq(Event)
         /\ \A i \in 1..Len(q) : q[i] \in Tails(read)
         /\ \A i, j \in 1..Len(q) : i # j => q[i] # q[j]
         /\ \A i, j \in 1..Len(q) : i < j => ~Precedes(q[j].line, q[i].line)
         /\ \A e \in Tails(read) : \E i \in 1..Len(q) : q[i] = e
<1> DEFINE T == Tails(read)
           n == Cardinality(T)
<1>1. IsFiniteSet(T) /\ \A e \in T : e \in Event
  BY TailsType
<1>2. n \in Nat
  BY <1>1, FS_CardinalityType
<1>3. q \in [1..n -> T] /\ \A i, j \in 1..n : i # j => q[i] # q[j]
  BY DEF Merged, SetToSeqs
<1>4. \A i, j \in DOMAIN q : i < j => ~Precedes(q[j].line, q[i].line)
  BY DEF Merged
<1> HIDE DEF T, n
<1>5. q \in Injection(1..n, T)
  BY <1>3 DEF Injection, IsInjective
<1>6. IsFiniteSet(1..n) /\ Cardinality(1..n) = n
  BY <1>2, FS_Interval
<1>7. q \in Surjection(1..n, T)
  BY <1>1, <1>5, <1>6, FS_Injection DEF n
<1>8. \A e \in T : \E i \in 1..n : q[i] = e
  BY <1>7 DEF Surjection
<1>9. q \in Seq(T) /\ Len(q) = n /\ DOMAIN q = 1..n
  BY <1>2, <1>3
<1>10. q \in Seq(Event)
  BY <1>1, <1>2, <1>3
<1> QED BY <1>3, <1>4, <1>8, <1>9, <1>10 DEF T

\* Behind the event of a line that is not late stand only those of later lines.
LEMMA LaterBehind ==
  ASSUME LinesOK, NEW read, NEW q \in Merged(Tails(read)), NEW i \in 1..Len(q),
         ~Late(q[i].line)
  PROVE  /\ \A j \in (i + 1)..Len(q) : q[j].line \in (q[i].line + 1)..Len(lines)
         /\ Len(q) - i <= Len(lines) - q[i].line
<1> DEFINE l == q[i].line
           f == [j \in 1..(Len(q) - i) |-> q[i + j].line]
<1>1. /\ \A k \in 1..Len(q) : q[k] \in Tails(read) /\ q[k].line \in 1..Len(lines)
      /\ \A k, j \in 1..Len(q) : k # j => q[k].line # q[j].line
  <2>1. \A k \in 1..Len(q) : q[k] \in Tails(read)
    BY MergedType
  <2>2. \A k \in 1..Len(q) : q[k].line \in 1..Len(lines)
    BY <2>1, TailsType
  <2>3. \A k, j \in 1..Len(q) : k # j => q[k] # q[j]
    BY MergedType
  <2>4. \A k, j \in 1..Len(q) : q[k].line = q[j].line => q[k] = q[j]
    BY <2>1, TailsType
  <2> QED BY <2>1, <2>2, <2>3, <2>4
<1>2. Len(q) \in Nat /\ Len(lines) \in Nat /\ l \in 1..Len(lines)
  <2>1. q \in Seq(Event)
    BY MergedType
  <2> QED BY <1>1, <2>1 DEF LinesOK
<1>3. ASSUME NEW j \in (i + 1)..Len(q) PROVE q[j].line \in (l + 1)..Len(lines)
  <2>1. j \in 1..Len(q) /\ i < j /\ i # j
    BY <1>2
  <2>2. ~Precedes(q[j].line, l)
    BY <2>1, MergedType
  <2>3. q[j].line # l /\ q[j].line \in 1..Len(lines)
    BY <1>1, <2>1
  <2>4. q[j].line \notin 1..(l - 1)
    BY <2>2 DEF Late
  <2> HIDE DEF l
  <2> QED BY <1>2, <2>3, <2>4
<1> HIDE DEF l
<1>4. f \in Injection(1..(Len(q) - i), (l + 1)..Len(lines))
  <2>1. \A j \in 1..(Len(q) - i) : i + j \in (i + 1)..Len(q) /\ i + j \in 1..Len(q)
    BY <1>2
  <2>2. \A j \in 1..(Len(q) - i) : q[i + j].line \in (l + 1)..Len(lines)
    BY <1>3, <2>1
  <2>3. \A j, k \in 1..(Len(q) - i) : j # k => q[i + j].line # q[i + k].line
    <3> SUFFICES ASSUME NEW j \in 1..(Len(q) - i), NEW k \in 1..(Len(q) - i), j # k
                 PROVE  q[i + j].line # q[i + k].line
      OBVIOUS
    <3>1. i + j # i + k /\ i + j \in 1..Len(q) /\ i + k \in 1..Len(q)
      BY <1>2, <2>1
    <3> QED BY <1>1, <3>1
  <2> QED BY <2>2, <2>3 DEF Injection, IsInjective
<1> HIDE DEF f
<1>5. IsFiniteSet((l + 1)..Len(lines)) /\ Cardinality((l + 1)..Len(lines)) = Len(lines) - l
  BY <1>2, FS_Interval
<1>6. Cardinality(1..(Len(q) - i)) = Len(q) - i
  BY <1>2, FS_Interval
<1>7. Cardinality(1..(Len(q) - i)) <= Cardinality((l + 1)..Len(lines))
  BY <1>4, <1>5, FS_Injection
<1> QED BY <1>3, <1>5, <1>6, <1>7 DEF l

\* The last Limit of some events.
LEMMA LastOnesAre ==
  ASSUME NEW s \in Seq(Event)
  PROVE  /\ LastOnes(s) \in Seq(Event)
         /\ \A k \in 1..Len(LastOnes(s)) : \E j \in 1..Len(s) : LastOnes(s)[k] = s[j]
         /\ \A j \in 1..Len(s) :
              Len(s) - j < Limit => \E k \in 1..Len(LastOnes(s)) : LastOnes(s)[k] = s[j]
<1> DEFINE a == IF Len(s) > Limit THEN Len(s) - Limit + 1 ELSE 1
<1>1. a \in 1..(Len(s) + 1) /\ Len(s) \in Nat /\ LastOnes(s) = SubSeq(s, a, Len(s))
  BY CollectorsAssumption DEF LastOnes
<1>2. \A j \in 1..Len(s) : Len(s) - j < Limit => j >= a
  BY CollectorsAssumption
<1> HIDE DEF a
<1>3. /\ LastOnes(s) \in Seq(Event) /\ Len(LastOnes(s)) = Len(s) - a + 1
      /\ \A k \in 1..(Len(s) - a + 1) : LastOnes(s)[k] = s[a + k - 1]
  BY <1>1, EndOf
<1>4. \A k \in 1..(Len(s) - a + 1) : a + k - 1 \in 1..Len(s)
  BY <1>1
<1>5. \A j \in 1..Len(s) : j >= a => j - a + 1 \in 1..(Len(s) - a + 1) /\ a + (j - a + 1) - 1 = j
  BY <1>1
<1>6. \A k \in 1..Len(LastOnes(s)) : \E j \in 1..Len(s) : LastOnes(s)[k] = s[j]
  BY <1>3, <1>4
<1>7. ASSUME NEW j \in 1..Len(s), Len(s) - j < Limit
      PROVE  \E k \in 1..Len(LastOnes(s)) : LastOnes(s)[k] = s[j]
  <2>1. j - a + 1 \in 1..(Len(s) - a + 1) /\ a + (j - a + 1) - 1 = j
    BY <1>2, <1>5, <1>7
  <2>2. LastOnes(s)[j - a + 1] = s[j]
    BY <1>3, <2>1
  <2> QED BY <1>3, <2>1, <2>2
<1> QED BY <1>3, <1>6, <1>7

\* What stands behind the cursor, or all when the cursor is not there.
LEMMA AfterIs ==
  ASSUME NEW s \in Seq(Event), NEW c
  PROVE  \E p \in 0..Len(s) :
           /\ p > 0 => s[p] = c
           /\ After(s, c) \in Seq(Event) /\ Len(After(s, c)) = Len(s) - p
           /\ \A k \in 1..(Len(s) - p) : After(s, c)[k] = s[p + k]
<1> DEFINE Cut(p) == /\ p > 0 => s[p] = c
                     /\ After(s, c) \in Seq(Event) /\ Len(After(s, c)) = Len(s) - p
                     /\ \A k \in 1..(Len(s) - p) : After(s, c)[k] = s[p + k]
<1>1. DOMAIN s = 1..Len(s) /\ Len(s) \in Nat
  OBVIOUS
<1>2. CASE \E i \in DOMAIN s : s[i] = c
  <2> DEFINE p == CHOOSE i \in DOMAIN s : s[i] = c
  <2>1. p \in 1..Len(s) /\ s[p] = c /\ After(s, c) = SubSeq(s, 1 + p, Len(s))
    BY <1>1, <1>2 DEF After
  <2> HIDE DEF p
  <2>2. 1 + p \in 1..(Len(s) + 1) /\ Len(s) - (1 + p) + 1 = Len(s) - p
    BY <1>1, <2>1
  <2>3. /\ After(s, c) \in Seq(Event) /\ Len(After(s, c)) = Len(s) - p
        /\ \A k \in 1..(Len(s) - p) : After(s, c)[k] = s[1 + p + k - 1]
    BY <2>1, <2>2, EndOf
  <2>4. \A k \in 1..(Len(s) - p) : 1 + p + k - 1 = p + k
    BY <1>1, <2>1
  <2>5. \A k \in 1..(Len(s) - p) : After(s, c)[k] = s[p + k]
    BY <2>3, <2>4
  <2>6. p \in 0..Len(s)
    BY <1>1, <2>1
  <2>7. Len(After(s, c)) = Len(s) - p
    BY <2>2, <2>3
  <2> QED BY <2>1, <2>3, <2>5, <2>6, <2>7
<1>3. CASE ~\E i \in DOMAIN s : s[i] = c
  <2>1. After(s, c) = s
    BY <1>3 DEF After
  <2>2. Len(s) - 0 = Len(s) /\ \A k \in 1..Len(s) : 0 + k = k
    BY <1>1
  <2>3. 0 \in 0..Len(s) /\ Cut(0)
    BY <1>1, <2>1, <2>2
  <2> QED BY <2>3
<1> QED BY <1>2, <1>3

\* What a report brings: a line within reach that was read and is not late, unless
\* the cursor's line is that line or a later one.
LEMMA ReportBrings ==
  ASSUME LinesOK, NEW read, NEW q \in Merged(Tails(read)), NEW c \in Event \cup {None},
         NEW l \in 1..Len(lines), lines[l].of \in read, l > Len(lines) - Limit, ~Late(l)
  PROVE  \/ c \in Event /\ c.line >= l
         \/ \E k \in 1..Len(LastOnes(After(q, c))) : LastOnes(After(q, c))[k].line = l
<1>1. q \in Seq(Event) /\ Len(q) \in Nat /\ Len(lines) \in Nat
  <2>1. q \in Seq(Event)
    BY MergedType
  <2> QED BY <2>1 DEF LinesOK
<1>2. PICK e \in Tails(read) : e.line = l
  BY TailReaches
<1>3. PICK i \in 1..Len(q) : q[i] = e
  BY MergedType
<1>4. /\ \A j \in (i + 1)..Len(q) : q[j].line \in (l + 1)..Len(lines)
      /\ Len(q) - i <= Len(lines) - l
  BY <1>2, <1>3, LaterBehind
<1>5. PICK p \in 0..Len(q) :
        /\ p > 0 => q[p] = c
        /\ After(q, c) \in Seq(Event) /\ Len(After(q, c)) = Len(q) - p
        /\ \A k \in 1..(Len(q) - p) : After(q, c)[k] = q[p + k]
  BY <1>1, AfterIs
<1>6. CASE i <= p
  <2>1. p \in 1..Len(q) /\ q[p] = c /\ c \in Event
    BY <1>1, <1>5, <1>6
  <2>2. i = p \/ p \in (i + 1)..Len(q)
    BY <1>1, <1>6, <2>1
  <2>3. c.line = l \/ c.line \in (l + 1)..Len(lines)
    BY <1>2, <1>3, <1>4, <2>1, <2>2
  <2> QED BY <1>1, <2>1, <2>3
<1>7. CASE i > p
  <2>1. i - p \in 1..Len(After(q, c)) /\ After(q, c)[i - p] = e
    <3>1. i - p \in 1..(Len(q) - p) /\ p + (i - p) = i
      BY <1>1, <1>7
    <3> QED BY <1>3, <1>5, <3>1
  <2>2. Len(After(q, c)) - (i - p) < Limit
    BY <1>1, <1>4, <1>5, CollectorsAssumption
  <2>3. \E k \in 1..Len(LastOnes(After(q, c))) : LastOnes(After(q, c))[k] = After(q, c)[i - p]
    BY <1>5, <2>1, <2>2, LastOnesAre
  <2> QED BY <1>2, <2>1, <2>3
<1> QED BY <1>1, <1>6, <1>7

\* The events of a report are events of the tails.
LEMMA ReportType ==
  ASSUME LinesOK, NEW read, NEW q \in Merged(Tails(read)), NEW c
  PROVE  /\ LastOnes(After(q, c)) \in Seq(Event)
         /\ \A k \in 1..Len(LastOnes(After(q, c))) : LastOnes(After(q, c))[k] \in Tails(read)
<1>1. q \in Seq(Event) /\ \A i \in 1..Len(q) : q[i] \in Tails(read)
  BY MergedType
<1>2. PICK p \in 0..Len(q) :
        /\ p > 0 => q[p] = c
        /\ After(q, c) \in Seq(Event) /\ Len(After(q, c)) = Len(q) - p
        /\ \A k \in 1..(Len(q) - p) : After(q, c)[k] = q[p + k]
  BY <1>1, AfterIs
<1>3. \A j \in 1..Len(After(q, c)) : After(q, c)[j] \in Tails(read)
  BY <1>1, <1>2
<1> QED BY <1>2, <1>3, LastOnesAre
-----------------------------------------------------------------------------
(* The live collector.                                                     *)
Reading == {"wait", "insert", "cursor", "rebuild"}

\* Line l needs no event of a report made when there were n lines.
Covered(l, n) == rows[l] > 0 \/ l <= n - Limit \/ l \in skipped \/ Late(l)

StoreOK ==
  /\ LinesOK /\ rows \in [1..MaxLines -> Nat] /\ ids \subseteq Event
  /\ \A l \in 1..MaxLines : l > Len(lines) => rows[l] = 0
  /\ \A e \in ids : e.line <= Len(lines) /\ rows[e.line] > 0

\* The cursor stands for the lines up to its own.
CursorCovers ==
  /\ cursor \in Event \cup {None}
  /\ cursor # None => /\ cursor.line <= Len(lines)
                      /\ \A l \in 1..cursor.line : Covered(l, Len(lines))

\* What a report was to bring is stored or still to be stored.
JobCovers ==
  child["live"] \in Reading =>
    /\ job \in [events : Seq(Event), upTo : Nat] /\ job.upTo <= Len(lines)
    /\ \A i \in 1..Len(job.events) : job.events[i].line <= job.upTo
    /\ \A l \in 1..job.upTo :
         \/ Covered(l, job.upTo)
         \/ /\ child["live"] \in {"wait", "insert"}
            /\ \E i \in 1..Len(job.events) : job.events[i].line = l
    /\ child["live"] = "cursor" => Len(job.events) = 1

DataInv == StoreOK /\ CursorCovers /\ JobCovers

LEMMA InitData == Init => DataInv
<1> SUFFICES ASSUME Init PROVE DataInv
  OBVIOUS
<1>1. child["live"] \notin Reading
  BY DEF Init, Boot, Kinds, Reading
<1>2. lines = <<>> /\ length \in [Logs -> Nat] /\ lines \in Seq(Line) /\ Len(lines) = 0
  BY DEF Init
<1> QED BY <1>1, <1>2, CollectorsAssumption DEF Init, DataInv, StoreOK, LinesOK, CursorCovers, JobCovers

\* The lines there are remain as they are.
Kept == Len(lines) <= Len(lines') /\ \A l \in 1..Len(lines) : lines'[l] = lines[l]

\* A line that is covered remains so.
LEMMA CoveredStays ==
  ASSUME LinesOK, LinesOK', Kept, skipped \subseteq skipped', NEW l \in 1..Len(lines),
         rows[l] > 0 => rows'[l] > 0, NEW n \in Nat, NEW m \in Nat, n <= m, Covered(l, n)
  PROVE  rows'[l] > 0 \/ l <= m - Limit \/ l \in skipped' \/ Late(l)'
<1>1. CASE Late(l)
  <2>1. PICK k \in 1..(l - 1) : ~Precedes(k, l)
    BY <1>1 DEF Late
  <2>2. k \in 1..Len(lines)
    BY DEF LinesOK
  <2>3. lines'[k] = lines[k] /\ lines'[l] = lines[l]
    BY <2>2 DEF Kept
  <2>4. ~Precedes(k, l)'
    BY <2>1, <2>3 DEF Precedes, Dated
  <2> QED BY <2>4 DEF Late
<1>2. l <= n - Limit => l <= m - Limit
  BY CollectorsAssumption DEF LinesOK
<1> QED BY <1>1, <1>2 DEF Covered

\* A step that takes no row away leaves covered what the cursor stands for ...
LEMMA CursorStays ==
  ASSUME DataInv, StoreOK', Kept, skipped \subseteq skipped', cursor' = cursor,
         \A l \in 1..Len(lines) : rows[l] > 0 => rows'[l] > 0
  PROVE  CursorCovers'
<1>1. Len(lines) \in Nat /\ Len(lines)' \in Nat /\ Len(lines) <= Len(lines)' /\ LinesOK /\ LinesOK'
  BY DEF DataInv, StoreOK, LinesOK, Kept
<1> SUFFICES ASSUME cursor # None
             PROVE  cursor.line <= Len(lines)' /\ \A l \in 1..cursor.line : Covered(l, Len(lines))'
  BY DEF DataInv, CursorCovers
<1>2. cursor.line \in Nat /\ cursor.line <= Len(lines)
  BY CollectorsAssumption DEF DataInv, CursorCovers, Event
<1>3. ASSUME NEW l \in 1..cursor.line PROVE Covered(l, Len(lines))'
  <2>1. l \in 1..Len(lines) /\ Covered(l, Len(lines))
    BY <1>1, <1>2 DEF DataInv, CursorCovers
  <2>2. rows'[l] > 0 \/ l <= Len(lines)' - Limit \/ l \in skipped' \/ Late(l)'
    BY <1>1, <2>1, CoveredStays
  <2> QED BY <2>2 DEF Covered
<1> QED BY <1>1, <1>2, <1>3

\* ... and what the live child was to bring.
LEMMA BroughtStays ==
  ASSUME DataInv, StoreOK', Kept, skipped \subseteq skipped', child["live"] \in Reading,
         job'.upTo = job.upTo, \A l \in 1..Len(lines) : rows[l] > 0 => rows'[l] > 0
  PROVE  /\ job.upTo \in Nat /\ job.upTo <= Len(lines)'
         /\ \A l \in 1..job.upTo : Covered(l, job.upTo) => Covered(l, job.upTo)'
<1>1. /\ job.upTo \in Nat /\ job.upTo <= Len(lines) /\ Len(lines) <= Len(lines)'
      /\ Len(lines) \in Nat /\ Len(lines)' \in Nat /\ LinesOK /\ LinesOK'
  BY DEF DataInv, JobCovers, StoreOK, LinesOK, Kept
<1>2. ASSUME NEW l \in 1..job.upTo, Covered(l, job.upTo) PROVE Covered(l, job.upTo)'
  <2>1. l \in 1..Len(lines)
    BY <1>1
  <2>2. rows'[l] > 0 \/ l <= job.upTo - Limit \/ l \in skipped' \/ Late(l)'
    BY <1>1, <1>2, <2>1, CoveredStays
  <2> QED BY <2>2 DEF Covered
<1> QED BY <1>1, <1>2

\* A step that stores nothing lets the live child go on as it was, or ends it.
LEMMA SameData ==
  ASSUME DataInv, StoreOK', Kept, skipped \subseteq skipped', cursor' = cursor,
         \A l \in 1..Len(lines) : rows[l] > 0 => rows'[l] > 0,
         \/ child'["live"] \notin Reading
         \/ /\ child["live"] \in Reading /\ job' = job
            /\ \/ child'["live"] = child["live"]
               \/ child["live"] = "wait" /\ child'["live"] = "insert"
  PROVE  DataInv'
<1>1. CursorCovers'
  BY CursorStays
<1>2. CASE child'["live"] \notin Reading
  BY <1>1, <1>2 DEF DataInv, JobCovers
<1>3. CASE child'["live"] \in Reading
  <2>1. /\ child["live"] \in Reading /\ job' = job
        /\ \/ child'["live"] = child["live"]
           \/ child["live"] = "wait" /\ child'["live"] = "insert"
    BY <1>3
  <2>2. /\ job.upTo <= Len(lines)'
        /\ \A l \in 1..job.upTo : Covered(l, job.upTo) => Covered(l, job.upTo)'
    BY <2>1, BroughtStays
  <2>3. \A l \in 1..job.upTo :
          \/ Covered(l, job.upTo)
          \/ /\ child["live"] \in {"wait", "insert"}
             /\ \E i \in 1..Len(job.events) : job.events[i].line = l
    BY <2>1 DEF DataInv, JobCovers
  <2>4. \A l \in 1..job.upTo :
          \/ Covered(l, job.upTo)'
          \/ /\ child'["live"] \in {"wait", "insert"}
             /\ \E i \in 1..Len(job.events) : job.events[i].line = l
    BY <2>1, <2>2, <2>3
  <2>5. /\ job \in [events : Seq(Event), upTo : Nat]
        /\ \A i \in 1..Len(job.events) : job.events[i].line <= job.upTo
        /\ child["live"] = "cursor" => Len(job.events) = 1
    BY <2>1 DEF DataInv, JobCovers
  <2>6. JobCovers'
    BY <2>1, <2>2, <2>4, <2>5 DEF JobCovers
  <2> QED BY <1>1, <2>6 DEF DataInv
<1> QED BY <1>2, <1>3

LEMMA SameLines ==
  ASSUME DataInv, UNCHANGED <<lines, length, rows, ids, skipped>>
  PROVE  StoreOK' /\ Kept
BY DEF DataInv, StoreOK, LinesOK, Kept

\* A line more: the tails of the other logs and the reach of the report grow alike.
LEMMA LogData ==
  ASSUME DataInv, Log
  PROVE  DataInv' /\ Kept /\ Len(lines') = Len(lines) + 1
<1>1. PICK g \in Logs : \E at \in {Now, Now + 1} :
        /\ lines' = Append(lines, [of |-> g, at |-> at, place |-> length[g] + 1])
        /\ length' = [length EXCEPT ![g] = @ + 1]
  BY DEF Log
<1>2. PICK at \in {Now, Now + 1} :
        /\ lines' = Append(lines, [of |-> g, at |-> at, place |-> length[g] + 1])
        /\ length' = [length EXCEPT ![g] = @ + 1]
  BY <1>1
<1>3. /\ lines \in Seq(Line) /\ Len(lines) \in Nat /\ length \in [Logs -> Nat]
      /\ Len(lines) < MaxLines /\ skipped \subseteq 1..Len(lines)
  BY DEF DataInv, StoreOK, LinesOK, Log
<1>4. at \in Nat
  <2>1. lines # <<>> => lines[Len(lines)] \in Line
    BY <1>3
  <2> QED BY <1>2, <2>1 DEF Now, Line
<1>5. Len(lines') = Len(lines) + 1 /\ lines' \in Seq(Line) /\ Kept
      /\ lines'[Len(lines) + 1] = [of |-> g, at |-> at, place |-> length[g] + 1]
  BY <1>2, <1>3, <1>4 DEF Line, Kept
<1>6. ASSUME NEW l \in 1..Len(lines')
      PROVE  /\ lines'[l].place \in 1..length'[lines'[l].of]
             /\ length'[lines'[l].of] - lines'[l].place <= Len(lines') - l
  <2>1. CASE l = Len(lines) + 1
    BY <1>2, <1>3, <1>5, <2>1
  <2>2. CASE l # Len(lines) + 1
    <3>1. l \in 1..Len(lines) /\ lines'[l] = lines[l]
      BY <1>3, <1>5, <2>2 DEF Kept
    <3>2. lines[l] \in Line
      BY <1>3, <3>1
    <3>3. lines[l].of \in Logs /\ lines[l].place \in Nat
      BY <3>2 DEF Line
    <3>4. /\ lines[l].place \in 1..length[lines[l].of]
          /\ length[lines[l].of] - lines[l].place <= Len(lines) - l
      BY <3>1 DEF DataInv, StoreOK, LinesOK
    <3>5. length'[lines[l].of] \in {length[lines[l].of], length[lines[l].of] + 1}
          /\ length[lines[l].of] \in Nat
      BY <1>2, <1>3, <3>3
    <3> QED BY <1>3, <1>5, <3>1, <3>3, <3>4, <3>5
  <2> QED BY <2>1, <2>2
<1>7. UNCHANGED <<child, job, rows, ids, cursor, skipped>>
  BY DEF Log, store, supervisor
<1>8. LinesOK'
  <2>1. length' \in [Logs -> Nat]
    BY <1>2, <1>3
  <2>2. Len(lines') <= MaxLines /\ skipped' \subseteq 1..Len(lines')
    BY <1>3, <1>5, <1>7, CollectorsAssumption
  <2> QED BY <1>5, <1>6, <2>1, <2>2, Zenon DEF LinesOK
<1>9. StoreOK'
  BY <1>3, <1>5, <1>7, <1>8, CollectorsAssumption DEF DataInv, StoreOK, Event
<1> QED BY <1>5, <1>7, <1>9, SameData

LEMMA FetchData == DataInv /\ SupInv /\ Fetch("live") => DataInv'
<1> SUFFICES ASSUME DataInv, SupInv, Fetch("live") PROVE DataInv'
  OBVIOUS
<1>1. PICK unread \in SUBSET Logs : \E q \in Merged(Tails(Logs \ unread)) :
        /\ job' = [events |-> LastOnes(After(q, cursor)), upTo |-> Len(lines)]
        /\ skipped' = skipped \cup {l \in DOMAIN lines : lines[l].of \in unread}
  BY DEF Fetch, Read
<1>2. PICK q \in Merged(Tails(Logs \ unread)) :
        /\ job' = [events |-> LastOnes(After(q, cursor)), upTo |-> Len(lines)]
        /\ skipped' = skipped \cup {l \in DOMAIN lines : lines[l].of \in unread}
  BY <1>1
<1>3. /\ child'["live"] = "wait" /\ UNCHANGED <<lines, length, rows, ids, cursor>>
  BY DEF Fetch, Becomes, store, logged, SupInv, Supervised, Kinds
<1>4. LinesOK /\ Len(lines) \in Nat /\ DOMAIN lines = 1..Len(lines) /\ lines \in Seq(Line)
      /\ cursor \in Event \cup {None}
  BY DEF DataInv, StoreOK, LinesOK, CursorCovers
<1>5. StoreOK' /\ Kept /\ skipped \subseteq skipped'
  <2>1. skipped \subseteq skipped' /\ skipped' \subseteq 1..Len(lines)
    BY <1>2, <1>4 DEF LinesOK
  <2>2. Kept
    BY <1>3, <1>4 DEF Kept
  <2>3. LinesOK'
    BY <1>3, <1>4, <2>1 DEF LinesOK
  <2>4. StoreOK'
    BY <1>3, <2>3 DEF DataInv, StoreOK
  <2> QED BY <2>1, <2>2, <2>4
<1> DEFINE s == LastOnes(After(q, cursor))
<1>6. s \in Seq(Event) /\ \A k \in 1..Len(s) : s[k].line <= Len(lines)
  <2>1. s \in Seq(Event) /\ \A k \in 1..Len(s) : s[k] \in Tails(Logs \ unread)
    BY <1>4, ReportType
  <2>2. \A k \in 1..Len(s) : s[k].line \in 1..Len(lines)
    BY <1>4, <2>1, TailsType
  <2> QED BY <1>4, <2>1, <2>2
<1>7. CursorCovers'
  <2> SUFFICES ASSUME cursor # None
               PROVE  cursor.line <= Len(lines) /\ \A l \in 1..cursor.line : Covered(l, Len(lines))'
    BY <1>3 DEF DataInv, CursorCovers
  <2>1. cursor.line <= Len(lines) /\ \A l \in 1..cursor.line : Covered(l, Len(lines))
    BY DEF DataInv, CursorCovers
  <2>2. \A l : Late(l)' <=> Late(l)
    BY <1>3 DEF Late, Precedes, Dated
  <2> QED BY <1>3, <1>5, <2>1, <2>2 DEF Covered
<1>8. ASSUME NEW l \in 1..Len(lines)
      PROVE  \/ Covered(l, Len(lines))'
             \/ \E k \in 1..Len(s) : s[k].line = l
  <2>1. Late(l)' <=> Late(l)
    BY <1>3 DEF Late, Precedes, Dated
  <2>2. CASE lines[l].of \in unread
    <3>1. l \in skipped'
      BY <1>2, <1>4, <2>2
    <3> QED BY <3>1 DEF Covered
  <2>3. CASE l <= Len(lines) - Limit \/ Late(l)
    BY <1>3, <2>1, <2>3 DEF Covered
  <2>4. CASE lines[l].of \notin unread /\ ~(l <= Len(lines) - Limit) /\ ~Late(l)
    <3>1. lines[l] \in Line
      BY <1>4
    <3>2. lines[l].of \in Logs \ unread /\ l > Len(lines) - Limit
      BY <1>4, <2>4, <3>1, CollectorsAssumption DEF Line
    <3>3. \/ cursor \in Event /\ cursor.line >= l
          \/ \E k \in 1..Len(s) : s[k].line = l
      BY <1>4, <2>4, <3>2, ReportBrings
    <3>4. CASE cursor \in Event /\ cursor.line >= l
      <4>1. cursor # None /\ l \in 1..cursor.line
        BY <1>4, <3>4, CollectorsAssumption DEF Event
      <4>2. Covered(l, Len(lines))
        BY <4>1 DEF DataInv, CursorCovers
      <4> QED BY <1>3, <1>5, <2>1, <4>2 DEF Covered
    <3> QED BY <3>3, <3>4
  <2> QED BY <2>2, <2>3, <2>4
<1> HIDE DEF s
<1>9. job' = [events |-> s, upTo |-> Len(lines)]
  BY <1>2 DEF s
<1>10. /\ job' \in [events : Seq(Event), upTo : Nat] /\ job'.upTo = Len(lines) /\ job'.events = s
  BY <1>4, <1>6, <1>9
<1>11. \A l \in 1..Len(lines) : \/ Covered(l, job.upTo)'
                                 \/ \E k \in 1..Len(s) : s[k].line = l
  BY <1>3, <1>8, <1>10 DEF Covered
<1>12. JobCovers'
  BY <1>3, <1>4, <1>6, <1>10, <1>11 DEF JobCovers
<1> QED BY <1>5, <1>7, <1>12 DEF DataInv

\* Inserting an event leaves its line with a row and takes no row away.
LEMMA InsertKeeps ==
  ASSUME DataInv, NEW e \in Event, e.line <= Len(lines), Insert(e),
         UNCHANGED <<lines, length, skipped>>
  PROVE  /\ StoreOK' /\ Kept /\ rows'[e.line] > 0
         /\ \A l \in 1..Len(lines) : rows[l] > 0 => rows'[l] > 0
<1>1. LinesOK' /\ Kept
  BY DEF DataInv, StoreOK, LinesOK, Kept
<1>2. /\ rows \in [1..MaxLines -> Nat] /\ ids \subseteq Event /\ e.line \in 1..MaxLines
      /\ \A l \in 1..MaxLines : l > Len(lines) => rows[l] = 0
      /\ \A d \in ids : d.line <= Len(lines) /\ rows[d.line] > 0 /\ d.line \in 1..MaxLines
      /\ Len(lines) \in Nat /\ Len(lines) <= MaxLines
  BY DEF DataInv, StoreOK, LinesOK, Event
<1>3. ids' = ids \cup {e}
  BY DEF Insert
<1>4. CASE e \in ids
  <2>1. rows' = rows
    BY <1>4 DEF Insert
  <2> QED BY <1>1, <1>2, <1>3, <1>4, <2>1 DEF StoreOK
<1>5. CASE e \notin ids
  <2>1. rows' = [rows EXCEPT ![e.line] = rows[e.line] + 1]
    BY <1>5 DEF Insert
  <2>2. rows' \in [1..MaxLines -> Nat]
    BY <1>2, <2>1
  <2>3. \A l \in 1..MaxLines : rows'[l] = IF l = e.line THEN rows[l] + 1 ELSE rows[l]
    BY <1>2, <2>1
  <2>4. rows'[e.line] > 0 /\ \A l \in 1..MaxLines : rows[l] > 0 => rows'[l] > 0
    BY <1>2, <2>3
  <2>5. \A l \in 1..MaxLines : l > Len(lines') => rows'[l] = 0
    BY <1>2, <2>3
  <2>6. \A d \in ids' : d.line <= Len(lines') /\ rows'[d.line] > 0
    BY <1>2, <1>3, <2>4
  <2>7. ids' \subseteq Event
    BY <1>2, <1>3
  <2>8. StoreOK'
    BY <1>1, <2>2, <2>5, <2>6, <2>7, Zenon DEF StoreOK
  <2>9. \A l \in 1..Len(lines) : rows[l] > 0 => rows'[l] > 0
    <3>1. \A l \in 1..Len(lines) : l \in 1..MaxLines
      BY <1>2, CollectorsAssumption
    <3> QED BY <2>4, <3>1
  <2> QED BY <1>1, <2>4, <2>8, <2>9
<1> QED BY <1>4, <1>5

LEMMA StoreEventData == DataInv /\ SupInv /\ StoreEvent => DataInv'
<1> SUFFICES ASSUME DataInv, SupInv, StoreEvent PROVE DataInv'
  OBVIOUS
<1> DEFINE s == job.events
           e == Head(job.events)
           r == Tail(job.events)
<1>1. /\ s \in Seq(Event) /\ s # <<>> /\ child["live"] = "insert" /\ Insert(e)
      /\ UNCHANGED <<lines, length, skipped, cursor>>
      /\ job \in [events : Seq(Event), upTo : Nat] /\ job.upTo <= Len(lines)
      /\ \A i \in 1..Len(s) : s[i].line <= job.upTo
      /\ \A l \in 1..job.upTo : Covered(l, job.upTo) \/ \E i \in 1..Len(s) : s[i].line = l
  BY DEF DataInv, JobCovers, Reading, StoreEvent, logged
<1>2. Len(s) \in Nat /\ Len(s) > 0 /\ e = s[1] /\ e \in Event /\ Len(lines) \in Nat
      /\ e.line <= Len(lines) /\ LinesOK
  <2>1. Len(s) \in Nat /\ Len(s) > 0 /\ e = s[1] /\ e \in Event
    BY <1>1
  <2>2. Len(lines) \in Nat /\ LinesOK
    BY DEF DataInv, StoreOK, LinesOK
  <2> QED BY <1>1, <2>1, <2>2 DEF Event
<1>3. /\ StoreOK' /\ Kept /\ rows'[e.line] > 0
      /\ \A l \in 1..Len(lines) : rows[l] > 0 => rows'[l] > 0
  BY <1>1, <1>2, InsertKeeps
<1>4. CursorCovers'
  BY <1>1, <1>3, CursorStays
<1>5. job'.upTo = job.upTo /\ (Len(s) = 1 => job' = job)
      /\ (Len(s) # 1 => job' = [events |-> r, upTo |-> job.upTo])
  BY <1>1, Zenon DEF StoreEvent
<1>6. ASSUME NEW l \in 1..job.upTo
      PROVE  Covered(l, job.upTo)' \/ \E i \in 2..Len(s) : s[i].line = l
  <2>1. \A m \in 1..job.upTo : Covered(m, job.upTo) => Covered(m, job.upTo)'
    BY <1>1, <1>3, <1>5, BroughtStays DEF Reading
  <2>2. CASE \E i \in 1..Len(s) : s[i].line = l
    <3>1. PICK i \in 1..Len(s) : s[i].line = l
      BY <2>2
    <3>2. CASE i = 1
      BY <1>2, <1>3, <3>1, <3>2 DEF Covered
    <3>3. CASE i # 1
      BY <1>2, <3>1, <3>3
    <3> QED BY <3>2, <3>3
  <2> QED BY <1>1, <2>1, <2>2
<1>7. CASE Len(s) = 1
  <2>1. job' = job /\ child'["live"] = "cursor"
    BY <1>1, <1>7 DEF StoreEvent, Becomes, SupInv, Supervised, Kinds
  <2>2. \A l \in 1..job.upTo : Covered(l, job.upTo)'
    BY <1>2, <1>6, <1>7
  <2>3. JobCovers'
    BY <1>1, <1>7, <2>1, <2>2 DEF JobCovers
  <2> QED BY <1>3, <1>4, <2>3 DEF DataInv
<1>8. CASE Len(s) # 1
  <2>1. job' = [events |-> r, upTo |-> job.upTo] /\ child' = child
    BY <1>1, <1>5, <1>8 DEF StoreEvent
  <2>2. r \in Seq(Event) /\ Len(r) = Len(s) - 1 /\ \A i \in 1..Len(r) : r[i] = s[i + 1]
    BY <1>1, <1>2
  <2> HIDE DEF r
  <2>3. ASSUME NEW l \in 1..job.upTo
        PROVE  Covered(l, job.upTo)' \/ \E i \in 1..Len(r) : r[i].line = l
    <3>1. CASE \E i \in 2..Len(s) : s[i].line = l
      <4>1. PICK i \in 2..Len(s) : s[i].line = l
        BY <3>1
      <4>2. i - 1 \in 1..Len(r) /\ i - 1 + 1 = i
        BY <1>2, <2>2
      <4> QED BY <2>2, <4>1, <4>2
    <3> QED BY <1>6, <3>1
  <2>4. \A i \in 1..Len(r) : r[i].line <= job.upTo
    <3>1. \A i \in 1..Len(r) : i + 1 \in 1..Len(s)
      BY <1>2, <2>2
    <3> QED BY <1>1, <2>2, <3>1
  <2>5. job'.events = r /\ job'.upTo = job.upTo /\ job' \in [events : Seq(Event), upTo : Nat]
    BY <1>1, <2>1, <2>2
  <2>6. \A l \in 1..job'.upTo : Covered(l, job.upTo)' \/ \E i \in 1..Len(r) : r[i].line = l
    BY <2>3, <2>5
  <2>7. JobCovers'
    BY <1>1, <2>1, <2>4, <2>5, <2>6 DEF JobCovers, Reading
  <2> QED BY <1>3, <1>4, <2>7 DEF DataInv
<1> QED BY <1>7, <1>8

LEMMA StoreCursorData == DataInv /\ SupInv /\ StoreCursor => DataInv'
<1> SUFFICES ASSUME DataInv, SupInv, StoreCursor PROVE DataInv'
  OBVIOUS
<1> DEFINE e == Head(job.events)
<1>1. /\ child["live"] = "cursor" /\ child'["live"] = "rebuild" /\ cursor' = e
      /\ UNCHANGED <<job, lines, length, rows, ids, skipped>>
  BY DEF StoreCursor, Becomes, logged, SupInv, Supervised, Kinds
<1>2. /\ job \in [events : Seq(Event), upTo : Nat] /\ Len(job.events) = 1
      /\ job.upTo <= Len(lines) /\ \A i \in 1..Len(job.events) : job.events[i].line <= job.upTo
      /\ \A l \in 1..job.upTo : Covered(l, job.upTo)
  BY <1>1 DEF DataInv, JobCovers, Reading
<1>3. e \in Event /\ e.line \in Nat /\ e.line <= job.upTo
  <2>1. job.events \in Seq(Event) /\ Len(job.events) = 1
    BY <1>2
  <2>2. e = job.events[1] /\ e \in Event
    BY <2>1
  <2> QED BY <1>2, <2>1, <2>2 DEF Event
<1>4. StoreOK' /\ Kept
  BY <1>1, SameLines
<1>5. \A l \in 1..job.upTo : Covered(l, job.upTo)'
  BY <1>1, <1>2, <1>4, BroughtStays DEF Reading
<1>6. ASSUME NEW l \in 1..e.line PROVE Covered(l, Len(lines))
  <2>1. l \in 1..Len(lines) /\ l \in 1..job.upTo /\ Covered(l, job.upTo) /\ Len(lines) \in Nat
    BY <1>2, <1>3 DEF DataInv, StoreOK, LinesOK
  <2> QED BY <1>2, <2>1, CollectorsAssumption DEF Covered
<1>7. CursorCovers'
  <2>1. \A l \in 1..e.line : Covered(l, Len(lines))'
    BY <1>1, <1>6 DEF Covered, Late, Precedes, Dated
  <2>2. e.line <= Len(lines)
    BY <1>2, <1>3 DEF DataInv, StoreOK, LinesOK
  <2> QED BY <1>1, <1>3, <2>1, <2>2 DEF CursorCovers
<1>8. JobCovers'
  BY <1>1, <1>2, <1>5 DEF JobCovers, Reading
<1> QED BY <1>4, <1>7, <1>8 DEF DataInv

LEMMA StoreNothingData == DataInv /\ SupInv /\ StoreNothing => DataInv'
<1> SUFFICES ASSUME DataInv, SupInv, StoreNothing PROVE DataInv'
  OBVIOUS
<1>1. /\ child["live"] = "insert" /\ child'["live"] = "rebuild" /\ job.events = <<>>
      /\ UNCHANGED <<job, lines, length, rows, ids, cursor, skipped>>
  BY DEF StoreNothing, Becomes, store, logged, SupInv, Supervised, Kinds
<1>2. StoreOK' /\ Kept
  BY <1>1, SameLines
<1>3. CursorCovers'
  BY <1>1, <1>2, CursorStays
<1>4. Len(job.events) = 0
  BY <1>1
<1>5. \A l \in 1..job.upTo : Covered(l, job.upTo)'
  <2>1. \A l \in 1..job.upTo : Covered(l, job.upTo)
    BY <1>1, <1>4 DEF DataInv, JobCovers, Reading
  <2> QED BY <1>1, <1>2, <2>1, BroughtStays DEF Reading
<1>6. JobCovers'
  BY <1>1, <1>4, <1>5 DEF DataInv, JobCovers, Reading
<1> QED BY <1>2, <1>3, <1>6 DEF DataInv

\* A step that writes no line and stores nothing.
LEMMA NothingStored ==
  ASSUME DataInv, UNCHANGED <<logged, store, skipped>>,
         \/ child'["live"] \notin Reading
         \/ child'["live"] = child["live"] /\ job' = job
         \/ child["live"] = "wait" /\ child'["live"] = "insert" /\ job' = job
  PROVE  DataInv'
<1>1. UNCHANGED <<lines, length, rows, ids, skipped, cursor>>
  BY DEF logged, store
<1>2. StoreOK' /\ Kept
  BY <1>1, SameLines
<1> QED BY <1>1, <1>2, SameData DEF Reading

LEMMA NextData == DataInv /\ SupInv /\ [Next]_vars => DataInv'
<1> SUFFICES ASSUME DataInv, SupInv, [Next]_vars PROVE DataInv'
  OBVIOUS
<1> USE DEF data, store, logged
<1>1. /\ "live" \in Kinds /\ child \in [Kinds -> Step] /\ LinesOK
      /\ \A k \in Kinds : collecting[k] <=> child[k] # "none"
  BY DEF DataInv, StoreOK, SupInv, Supervised, Kinds
<1>2. ASSUME NEW k \in Kinds, NEW who, NEW base, Collect(k, who, base), UNCHANGED data
      PROVE  DataInv'
  <2>1. \/ child'["live"] = child["live"]
        \/ child'["live"] = "fetch"
    BY <1>1, <1>2 DEF Collect
  <2> QED BY <1>1, <1>2, <2>1, NothingStored DEF Reading
<1>3. CASE StartupFires
  BY <1>2, <1>3 DEF StartupFires, Kinds
<1>4. CASE FastFires
  <2>1. UNCHANGED <<child, job, logged, store, skipped>>
    BY <1>4 DEF FastFires
  <2> QED BY <1>1, <2>1, NothingStored
<1>5. CASE FastCalls
  BY <1>2, <1>5 DEF FastCalls, Fast, Kinds
<1>6. CASE Stop
  BY <1>1, <1>6, NothingStored DEF Stop
<1>7. CASE ServerExit
  <2>1. child'["live"] = "none"
    BY <1>1, <1>7 DEF ServerExit, Boot
  <2> QED BY <1>1, <1>7, <2>1, NothingStored DEF ServerExit, Reading
<1>8. CASE Restart
  BY <1>1, <1>8, NothingStored DEF Restart
<1>9. CASE Live
  BY <1>9, StoreEventData, StoreCursorData, StoreNothingData DEF Live
<1>10. CASE Log
  BY <1>10, LogData
<1>11. ASSUME NEW k \in Kinds, TimerFires(k) PROVE DataInv'
  BY <1>2, <1>11 DEF TimerFires
<1>12. ASSUME NEW k \in Kinds, Fetch(k) PROVE DataInv'
  <2>1. CASE k = "live"
    BY <1>12, <2>1, FetchData
  <2>2. CASE k # "live"
    BY <1>1, <1>12, <2>2, NothingStored DEF Fetch, Becomes
  <2> QED BY <2>1, <2>2
<1>13. ASSUME NEW k \in Kinds, Acquire(k) PROVE DataInv'
  <2>1. CASE k = "live"
    <3>1. child["live"] = "wait" /\ child'["live"] = "insert" /\ UNCHANGED <<job, logged, store, skipped>>
      BY <1>1, <1>13, <2>1 DEF Acquire, Becomes
    <3> QED BY <3>1, NothingStored DEF Reading
  <2>2. CASE k # "live"
    BY <1>1, <1>13, <2>2, NothingStored DEF Acquire, Becomes
  <2> QED BY <2>1, <2>2
<1>14. ASSUME NEW k \in Kinds, Gone(k) PROVE DataInv'
  <2>1. CASE k = "live"
    <3>1. child'["live"] = "none"
      BY <1>1, <1>14, <2>1 DEF Gone, Exited
    <3> QED BY <1>1, <1>14, <3>1, NothingStored DEF Gone, Reading
  <2>2. CASE k # "live"
    BY <1>1, <1>14, <2>2, NothingStored DEF Gone, Exited
  <2> QED BY <2>1, <2>2
<1>15. CASE UNCHANGED vars
  BY <1>1, <1>15, NothingStored DEF vars
<1> QED BY <1>3, <1>4, <1>5, <1>6, <1>7, <1>8, <1>9, <1>10, <1>11, <1>12, <1>13, <1>14, <1>15
        DEF Next, Supervise, Finish, Fail

LEMMA DataInvariance == Spec => []DataInv
BY InitData, NextData, SupInvariance, PTL DEF Spec

\* Every variable of the supervisor and the live collector keeps its type.
THEOREM CollectorsTypeCorrect == Spec => []TypeOK
<1>1. SupInv /\ DataInv => TypeOK
  BY DEF SupInv, Supervised, Who, DataInv, StoreOK, LinesOK, CursorCovers, TypeOK
<1> QED BY <1>1, SupInvariance, DataInvariance, PTL

(***************************************************************************)
(* A live run that has stored its cursor has left out no line that it was  *)
(* to bring, for any logs and tails, any faults and any number of runs     *)
(* (normalize.mjs:5128-5190, live-events-report:50-66, 291-303).           *)
(***************************************************************************)
THEOREM NoLineIsMissed == Spec => []NoLineMissed
<1>1. DataInv => NoLineMissed
  BY DEF DataInv, JobCovers, Covered, Reading, NoLineMissed
<1> QED BY <1>1, DataInvariance, PTL


\* While a log fits its tail, an event has the place of its line in the log.
Placed(e) == length[lines[e.line].of] <= Limit => e.no = lines[e.line].place

\* Then rows are one for each event.
Stable ==
  /\ \A e \in ids : Placed(e)
  /\ child["live"] \in Reading => \A i \in 1..Len(job.events) : Placed(job.events[i])
  /\ \A l \in 1..Len(lines) :
       length[lines[l].of] <= Limit =>
         rows[l] = IF [line |-> l, no |-> lines[l].place] \in ids THEN 1 ELSE 0

LEMMA InitStable == Init => Stable
BY DEF Init, Boot, Kinds, Stable, Reading

\* A log only grows.
Grown == Kept /\ \A g \in Logs : length[g] <= length'[g]

\* So what has its place keeps it, or its log no longer fits.
LEMMA PlacedStays ==
  ASSUME LinesOK, LinesOK', Grown, NEW e \in Event, e.line <= Len(lines), Placed(e)
  PROVE  length'[lines'[e.line].of] <= Limit => e.no = lines'[e.line].place
<1>1. e.line \in 1..Len(lines) /\ lines[e.line] \in Line
  BY DEF Event, LinesOK
<1>2. lines'[e.line] = lines[e.line] /\ lines[e.line].of \in Logs
  BY <1>1 DEF Grown, Kept, Line
<1>3. length[lines[e.line].of] <= length'[lines[e.line].of]
      /\ length[lines[e.line].of] \in Nat /\ length'[lines[e.line].of] \in Nat
  BY <1>2 DEF Grown, LinesOK
<1> QED BY <1>2, <1>3, CollectorsAssumption DEF Placed

LEMMA SameStable ==
  ASSUME Stable, DataInv, DataInv', Grown, rows' = rows, ids' = ids,
         \/ child'["live"] \notin Reading
         \/ child'["live"] \in Reading /\ child["live"] \in Reading /\ job' = job
  PROVE  Stable'
<1>1. LinesOK /\ LinesOK'
  BY DEF DataInv, StoreOK
<1>2. ASSUME NEW e \in ids PROVE Placed(e)'
  <2>1. e \in Event /\ e.line <= Len(lines) /\ Placed(e)
    BY DEF DataInv, StoreOK, Stable
  <2> QED BY <1>1, <2>1, PlacedStays DEF Placed
<1>3. ASSUME child'["live"] \in Reading, NEW i \in 1..Len(job.events) PROVE Placed(job.events[i])'
  <2>1. /\ child["live"] \in Reading /\ job' = job /\ job.events \in Seq(Event)
        /\ job.events[i].line <= job.upTo /\ job.upTo <= Len(lines) /\ job.upTo \in Nat
    BY <1>3 DEF DataInv, JobCovers
  <2>2. job.events[i] \in Event
    BY <2>1
  <2>3. job.events[i].line <= Len(lines) /\ Placed(job.events[i])
    BY <1>1, <2>1, <2>2 DEF Stable, LinesOK, Event
  <2> QED BY <1>1, <2>1, <2>2, <2>3, PlacedStays DEF Placed
<1>4. ASSUME NEW l \in 1..Len(lines'), length'[lines'[l].of] <= Limit
      PROVE  rows[l] = IF [line |-> l, no |-> lines'[l].place] \in ids THEN 1 ELSE 0
  <2>1. CASE l \in 1..Len(lines)
    <3>1. lines[l] \in Line /\ lines'[l] = lines[l]
      BY <1>1, <2>1 DEF LinesOK, Grown, Kept
    <3>2. lines[l].of \in Logs
      BY <3>1 DEF Line
    <3>3. length[lines[l].of] <= length'[lines[l].of]
          /\ length[lines[l].of] \in Nat /\ length'[lines[l].of] \in Nat
      BY <1>1, <3>2 DEF Grown, LinesOK
    <3>4. length[lines[l].of] <= Limit
      BY <1>4, <3>1, <3>3, CollectorsAssumption
    <3> QED BY <2>1, <3>1, <3>4 DEF Stable
  <2>2. CASE l \notin 1..Len(lines)
    <3>1. l \in 1..MaxLines /\ l > Len(lines)
      BY <1>1, <2>2, CollectorsAssumption DEF LinesOK
    <3>2. rows[l] = 0
      BY <3>1 DEF DataInv, StoreOK
    <3>3. \A e \in ids : e.line <= Len(lines)
      BY DEF DataInv, StoreOK
    <3>4. [line |-> l, no |-> lines'[l].place] \notin ids
      <4> SUFFICES ASSUME [line |-> l, no |-> lines'[l].place] \in ids PROVE FALSE
        OBVIOUS
      <4>1. [line |-> l, no |-> lines'[l].place].line <= Len(lines)
        BY <3>3
      <4> QED BY <1>1, <3>1, <4>1, CollectorsAssumption DEF LinesOK
    <3> QED BY <3>2, <3>4
  <2> QED BY <2>1, <2>2
<1> QED BY <1>2, <1>3, <1>4 DEF Stable

LEMMA FetchStable == Stable /\ DataInv /\ DataInv' /\ SupInv /\ Fetch("live") => Stable'
<1> SUFFICES ASSUME Stable, DataInv, DataInv', SupInv, Fetch("live") PROVE Stable'
  OBVIOUS
<1>1. PICK read \in SUBSET Logs : \E q \in Merged(Tails(read)) :
        job'.events = LastOnes(After(q, cursor))
  <2>1. PICK unread \in SUBSET Logs : \E q \in Merged(Tails(Logs \ unread)) :
          job' = [events |-> LastOnes(After(q, cursor)), upTo |-> Len(lines)]
    BY DEF Fetch, Read
  <2> QED BY <2>1
<1>2. PICK q \in Merged(Tails(read)) : job'.events = LastOnes(After(q, cursor))
  BY <1>1
<1>3. child'["live"] = "wait" /\ UNCHANGED <<lines, length, rows, ids>>
  BY DEF Fetch, Becomes, store, logged, SupInv, Supervised, Kinds
<1>4. LinesOK
  BY DEF DataInv, StoreOK
<1>5. ASSUME NEW i \in 1..Len(job'.events) PROVE Placed(job'.events[i])
  <2> DEFINE e == job'.events[i]
  <2>1. e \in Tails(read)
    BY <1>2, <1>4, ReportType
  <2>2. e.line \in 1..Len(lines) /\ e.no = lines[e.line].place - Passed(lines[e.line].of)
    BY <1>4, <2>1, TailsType
  <2> HIDE DEF e
  <2>3. lines[e.line] \in Line
    BY <1>4, <2>2 DEF LinesOK
  <2>4. lines[e.line].of \in Logs /\ lines[e.line].place \in Nat
    BY <2>3 DEF Line
  <2>5. length[lines[e.line].of] <= Limit => Passed(lines[e.line].of) = 0
    BY <1>4, <2>4, CollectorsAssumption DEF Passed, LinesOK
  <2>6. Placed(e)
    BY <2>2, <2>4, <2>5 DEF Placed
  <2> QED BY <2>6 DEF e
<1>6. \A i \in 1..Len(job'.events) : Placed(job.events[i])'
  BY <1>3, <1>5 DEF Placed
<1> QED BY <1>3, <1>6 DEF Stable, Placed

LEMMA StoreEventStable == Stable /\ DataInv /\ SupInv /\ StoreEvent => Stable'
<1> SUFFICES ASSUME Stable, DataInv, SupInv, StoreEvent PROVE Stable'
  OBVIOUS
<1> DEFINE s == job.events
           e == Head(job.events)
           r == Tail(job.events)
<1>1. /\ s \in Seq(Event) /\ s # <<>> /\ child["live"] = "insert" /\ Insert(e)
      /\ UNCHANGED <<lines, length>> /\ \A i \in 1..Len(s) : Placed(s[i])
      /\ job \in [events : Seq(Event), upTo : Nat]
  BY DEF DataInv, JobCovers, Reading, StoreEvent, logged, Stable
<1>2. Len(s) \in Nat /\ Len(s) > 0 /\ e = s[1] /\ e \in Event /\ Placed(e)
      /\ rows \in [1..MaxLines -> Nat] /\ e.line \in 1..MaxLines
  <2>1. Len(s) \in Nat /\ Len(s) > 0 /\ e = s[1] /\ e \in Event
    BY <1>1
  <2> QED BY <1>1, <2>1 DEF DataInv, StoreOK, Event
<1>3. ids' = ids \cup {e}
  BY <1>1 DEF Insert
<1>4. \A d : Placed(d)' <=> Placed(d)
  BY <1>1 DEF Placed
<1>5. ASSUME NEW l \in 1..Len(lines), length[lines[l].of] <= Limit
      PROVE  rows'[l] = IF [line |-> l, no |-> lines[l].place] \in ids' THEN 1 ELSE 0
  <2>1. rows[l] = IF [line |-> l, no |-> lines[l].place] \in ids THEN 1 ELSE 0
    BY <1>5 DEF Stable
  <2>2. CASE l = e.line
    <3>1. e = [line |-> l, no |-> lines[l].place]
      BY <1>2, <1>5, <2>2 DEF Placed, Event
    <3>2. CASE e \in ids
      BY <1>1, <1>3, <2>1, <3>1, <3>2 DEF Insert
    <3>3. CASE e \notin ids
      <4>1. rows' = [rows EXCEPT ![e.line] = rows[e.line] + 1]
        BY <1>1, <3>3 DEF Insert
      <4> QED BY <1>2, <1>3, <2>1, <2>2, <3>1, <3>3, <4>1
    <3> QED BY <3>2, <3>3
  <2>3. CASE l # e.line
    <3>1. [line |-> l, no |-> lines[l].place] # e
      BY <2>3
    <3>2. l \in 1..MaxLines
      BY CollectorsAssumption DEF DataInv, StoreOK, LinesOK
    <3>3. rows'[l] = rows[l]
      BY <1>1, <1>2, <2>3, <3>2 DEF Insert
    <3> QED BY <1>3, <2>1, <3>1, <3>3
  <2> QED BY <2>2, <2>3
<1>6. \A d \in ids' : Placed(d)
  BY <1>2, <1>3 DEF Stable
<1>7. \A i \in 1..Len(job'.events) : Placed(job'.events[i])
  <2>1. CASE Len(s) = 1
    BY <1>1, <2>1 DEF StoreEvent
  <2>2. CASE Len(s) # 1
    <3>1. job' = [events |-> r, upTo |-> job.upTo]
      BY <1>1, <2>2 DEF StoreEvent
    <3>2. Len(r) = Len(s) - 1 /\ \A i \in 1..Len(r) : r[i] = s[i + 1] /\ i + 1 \in 1..Len(s)
      BY <1>1, <1>2
    <3> HIDE DEF r
    <3>3. job'.events = r
      BY <3>1
    <3> QED BY <1>1, <3>2, <3>3
  <2> QED BY <2>1, <2>2
<1>8. \A i \in 1..Len(job'.events) : Placed(job.events[i])'
  BY <1>1, <1>7 DEF Placed
<1>9. \A d \in ids' : Placed(d)'
  BY <1>4, <1>6
<1> QED BY <1>1, <1>5, <1>8, <1>9 DEF Stable

\* A step that writes no line and stores no event.
LEMMA NoEventStored ==
  ASSUME Stable, DataInv, DataInv', UNCHANGED <<logged, rows, ids>>,
         \/ child'["live"] \notin Reading
         \/ child'["live"] \in Reading /\ child["live"] \in Reading /\ job' = job
  PROVE  Stable'
<1>1. lines' = lines /\ length' = length /\ LinesOK
  BY DEF logged, DataInv, StoreOK
<1>2. Grown
  BY <1>1 DEF Grown, Kept, LinesOK
<1> QED BY <1>2, SameStable

LEMMA NextStable == Stable /\ DataInv /\ DataInv' /\ SupInv /\ [Next]_vars => Stable'
<1> SUFFICES ASSUME Stable, DataInv, DataInv', SupInv, [Next]_vars PROVE Stable'
  OBVIOUS
<1> USE DEF data, store
<1>1. /\ "live" \in Kinds /\ child \in [Kinds -> Step]
      /\ \A k \in Kinds : collecting[k] <=> child[k] # "none"
  BY DEF SupInv, Supervised, Kinds
<1>2. ASSUME NEW k \in Kinds, NEW who, NEW base, Collect(k, who, base), UNCHANGED data
      PROVE  Stable'
  <2>1. \/ child'["live"] = child["live"]
        \/ child'["live"] = "fetch"
    BY <1>1, <1>2 DEF Collect
  <2> QED BY <1>1, <1>2, <2>1, NoEventStored DEF Reading
<1>3. CASE StartupFires
  BY <1>2, <1>3 DEF StartupFires, Kinds
<1>4. CASE FastFires
  <2>1. UNCHANGED <<child, job, logged, store>>
    BY <1>4 DEF FastFires
  <2> QED BY <1>1, <2>1, NoEventStored
<1>5. CASE FastCalls
  BY <1>2, <1>5 DEF FastCalls, Fast, Kinds
<1>6. CASE Stop
  BY <1>1, <1>6, NoEventStored DEF Stop
<1>7. CASE ServerExit
  <2>1. child'["live"] = "none"
    BY <1>1, <1>7 DEF ServerExit, Boot
  <2> QED BY <1>1, <1>7, <2>1, NoEventStored DEF ServerExit, Reading
<1>8. CASE Restart
  BY <1>1, <1>8, NoEventStored DEF Restart
<1>9. CASE StoreEvent
  BY <1>9, StoreEventStable
<1>10. CASE StoreCursor \/ StoreNothing
  <2>1. child["live"] \in Reading /\ child'["live"] \in Reading /\ UNCHANGED <<job, logged, rows, ids>>
    BY <1>1, <1>10 DEF StoreCursor, StoreNothing, Becomes, Reading
  <2> QED BY <2>1, NoEventStored
<1>11. CASE Log
  <2>1. Kept /\ UNCHANGED <<child, job, rows, ids>>
    BY <1>11, LogData DEF Log, supervisor
  <2>2. PICK g \in Logs : length' = [length EXCEPT ![g] = @ + 1]
    BY <1>11 DEF Log
  <2>3. Grown
    BY <2>1, <2>2 DEF Grown, DataInv, StoreOK, LinesOK
  <2> QED BY <2>1, <2>3, SameStable
<1>12. ASSUME NEW k \in Kinds, TimerFires(k) PROVE Stable'
  BY <1>2, <1>12 DEF TimerFires
<1>13. ASSUME NEW k \in Kinds, Fetch(k) PROVE Stable'
  <2>1. CASE k = "live"
    BY <1>13, <2>1, FetchStable
  <2>2. CASE k # "live"
    BY <1>1, <1>13, <2>2, NoEventStored DEF Fetch, Becomes
  <2> QED BY <2>1, <2>2
<1>14. ASSUME NEW k \in Kinds, Acquire(k) PROVE Stable'
  <2>1. CASE k = "live"
    <3>1. child["live"] = "wait" /\ child'["live"] = "insert" /\ UNCHANGED <<job, logged, store>>
      BY <1>1, <1>14, <2>1 DEF Acquire, Becomes
    <3> QED BY <3>1, NoEventStored DEF Reading
  <2>2. CASE k # "live"
    BY <1>1, <1>14, <2>2, NoEventStored DEF Acquire, Becomes
  <2> QED BY <2>1, <2>2
<1>15. ASSUME NEW k \in Kinds, Gone(k) PROVE Stable'
  <2>1. CASE k = "live"
    <3>1. child'["live"] = "none"
      BY <1>1, <1>15, <2>1 DEF Gone, Exited
    <3> QED BY <1>1, <1>15, <3>1, NoEventStored DEF Gone, Reading
  <2>2. CASE k # "live"
    BY <1>1, <1>15, <2>2, NoEventStored DEF Gone, Exited
  <2> QED BY <2>1, <2>2
<1>16. CASE UNCHANGED vars
  BY <1>1, <1>16, NoEventStored DEF vars
<1> QED BY <1>3, <1>4, <1>5, <1>6, <1>7, <1>8, <1>9, <1>10, <1>11, <1>12, <1>13, <1>14, <1>15, <1>16
        DEF Next, Live, Supervise, Finish, Fail

(***************************************************************************)
(* As long as a log fits its tail, no line of it is stored twice, however  *)
(* often a run is killed and repeated (normalize.mjs:1890, 5212).          *)
(***************************************************************************)
THEOREM NothingIsStoredTwice == Spec => []StoredOnce
<1>1. Stable /\ DataInv => StoredOnce
  <2> SUFFICES ASSUME Stable, DataInv, NEW l \in DOMAIN lines, length[lines[l].of] <= Limit
               PROVE  rows[l] <= 1
    BY DEF StoredOnce
  <2>1. l \in 1..Len(lines)
    BY DEF DataInv, StoreOK, LinesOK
  <2>2. rows[l] = IF [line |-> l, no |-> lines[l].place] \in ids THEN 1 ELSE 0
    BY <2>1 DEF Stable
  <2>3. rows[l] = 0 \/ rows[l] = 1
    BY <2>2
  <2> QED BY <2>3
<1>2. Spec => []Stable
  BY InitStable, NextStable, SupInvariance, DataInvariance, PTL DEF Spec
<1> QED BY <1>1, <1>2, DataInvariance, PTL
=============================================================================
