------------------------ MODULE RouterRuntime_proofs ------------------------
(***************************************************************************)
(* Proofs about the runtime of the router, for any number of mishaps.      *)
(***************************************************************************)
EXTENDS RouterRuntime, FiniteSetTheorems, TLAPS

ServiceTypeOK ==
  /\ call \in [Caller -> Op \cup {"idle", "stopping", "restarting", "settling",
                                "done"}]
  /\ rival \in [Caller -> BOOLEAN]
  /\ sb \in {"dead", "starting", "up", "dying"}
  /\ stuck \in BOOLEAN /\ mistaken \in BOOLEAN

\* How far a stabilisation can be at each place of the supervisor.
PassOK ==
  /\ job \in {"probe", "inInit", "delay"} => pass \in 0..6
  /\ job \in {"apply", "inRoute"} => pass \in 0..5
  /\ job = "retry" => pass \in {2, 4}
  /\ job = "check" => pass \in {2, 4, 6}
  /\ job \in {"crons", "probe", "inInit"} => pass = 0

IInv == RuntimeTypeOK /\ PassOK

LEMMA Callers == Supervisor \in Caller /\ Firewall \in Caller /\ Watchdog \in Caller
BY RuntimeAssumption

LEMMA InvokeType ==
  ASSUME ServiceTypeOK, NEW c \in Caller, NEW o \in Op, Invoke(c, o)
  PROVE  ServiceTypeOK'
BY DEF ServiceTypeOK, Invoke, Op

LEMMA CallType ==
  ASSUME ServiceTypeOK, NEW c \in Caller, CallStep(c) PROVE ServiceTypeOK'
<1> USE DEF ServiceTypeOK, Then, Done, Op
<1>1. CASE Refuse(c)
  BY <1>1 DEF Refuse
<1>2. CASE Stop(c)
  BY <1>2 DEF Stop
<1>3. CASE Stopped(c)
  BY <1>3 DEF Stopped
<1>4. CASE Start(c)
  BY <1>4 DEF Start
<1>5. CASE Settle(c)
  BY <1>5 DEF Settle
<1>6. CASE Return(c)
  BY <1>6 DEF Return
<1> QED BY <1>1, <1>2, <1>3, <1>4, <1>5, <1>6 DEF CallStep

LEMMA WorldType ==
  ASSUME ServiceTypeOK,
         Progress \/ Lost \/ Reboot \/ OtherEnds \/ (\E c \in Caller : Killed(c))
  PROVE  ServiceTypeOK'
<1> USE DEF ServiceTypeOK, Becomes, Done
<1>1. CASE Progress
  BY <1>1 DEF Progress
<1>2. CASE Lost
  BY <1>2 DEF Lost
<1>3. CASE Reboot
  BY <1>3 DEF Reboot
<1>4. CASE OtherEnds
  BY <1>4 DEF OtherEnds
<1>5. CASE \E c \in Caller : Killed(c)
  BY <1>5 DEF Killed
<1> QED BY <1>1, <1>2, <1>3, <1>4, <1>5

LEMMA InitIInv == RuntimeInit => IInv
<1> SUFFICES ASSUME RuntimeInit PROVE IInv
  OBVIOUS
<1>1. ServiceTypeOK
  BY DEF RuntimeInit, Init, ServiceTypeOK
<1>2. job = "lock" /\ pass = 0 /\ rounds = 2
  BY DEF RuntimeInit
<1>3. job \in JobStep /\ pass \in 0..6 /\ rounds \in 1..2
  BY <1>2 DEF JobStep
<1>4. PassOK
  BY <1>2 DEF PassOK
<1>5. slock \in BOOLEAN /\ cron \in BOOLEAN /\ rebuilt \in BOOLEAN
  BY Zenon DEF RuntimeInit
<1>6. /\ route \in [Runner -> RouteStep] /\ rules \in [RuleKind -> Nat]
      /\ troubles \in [Trouble -> Nat]
  BY DEF RuntimeInit, RouteStep
<1> QED BY <1>1, <1>3, <1>4, <1>5, <1>6 DEF IInv, RuntimeTypeOK, ServiceTypeOK

\* The counters of mishaps.
LEMMA HitType == ASSUME RuntimeTypeOK, NEW t \in Trouble, Hit(t) PROVE troubles' \in [Trouble -> Nat]
<1>1. troubles' = [troubles EXCEPT ![t] = troubles[t] + 1]
  BY Zenon DEF Hit
<1> QED BY <1>1 DEF RuntimeTypeOK

SupTypeOK ==
  /\ job \in JobStep /\ pass \in 0..6 /\ rounds \in 1..2
  /\ slock \in BOOLEAN /\ cron \in BOOLEAN
  /\ PassOK

RuleTypeOK ==
  route \in [Runner -> RouteStep] /\ rules \in [RuleKind -> Nat] /\ rebuilt \in BOOLEAN

LEMMA Parts == IInv <=> ServiceTypeOK /\ SupTypeOK /\ RuleTypeOK /\ troubles \in [Trouble -> Nat]
BY DEF IInv, RuntimeTypeOK, ServiceTypeOK, SupTypeOK, RuleTypeOK

LEMMA RouteType ==
  ASSUME RuleTypeOK, NEW r \in Runner, RouteInit(r) \/ Abort(r) PROVE RuleTypeOK'
<1> USE DEF RuleTypeOK, RouteStep, InTables, RuleKind, Deleted
<1>1. CASE InitReturns(r)
  BY <1>1 DEF InitReturns
<1>2. CASE DeleteRule(r, "redirect", "delRedirect", "addRedirect")
  BY <1>2 DEF DeleteRule
<1>3. CASE AddRule(r, "redirect", "addRedirect", "delQuic")
  BY <1>3 DEF AddRule
<1>4. CASE DeleteRule(r, "quicDrop", "delQuic", "addQuic")
  BY <1>4 DEF DeleteRule
<1>5. CASE AddRule(r, "quicDrop", "addQuic", "off")
  BY <1>5 DEF AddRule
<1>6. CASE Abort(r)
  BY <1>6 DEF Abort
<1> QED BY <1>1, <1>2, <1>3, <1>4, <1>5, <1>6 DEF RouteInit

LEMMA SupervisorType ==
  ASSUME SupTypeOK, RuleTypeOK, ServiceTypeOK, SupervisorStep
  PROVE  SupTypeOK' /\ RuleTypeOK' /\ ServiceTypeOK' /\ UNCHANGED troubles
<1> USE Callers DEF SupTypeOK, PassOK, JobStep, Job, ruleVars
<1>1. CASE TakeLock
  BY <1>1 DEF TakeLock, RuleTypeOK, ServiceTypeOK, serviceVars
<1>2. CASE Probe
  <2>1. ServiceTypeOK'
    BY <1>2, InvokeType DEF Probe, Op, serviceVars, ServiceTypeOK
  <2> QED BY <1>2, <2>1 DEF Probe, RuleTypeOK
<1>10. CASE RegisterCrons
  BY <1>10 DEF RegisterCrons, RuleTypeOK, ServiceTypeOK, serviceVars
<1>3. CASE Restarted
  BY <1>3 DEF Restarted, RuleTypeOK, ServiceTypeOK, serviceVars
<1>4. CASE Apply
  <2>1. ServiceTypeOK'
    BY <1>4, InvokeType DEF Apply, CallInit, Op
  <2> QED BY <1>4, <2>1 DEF Apply, CallInit, RuleTypeOK, RouteStep
<1>5. CASE Applied
  <2>1. SupTypeOK'
    <3>1. pass \in 0..5 /\ pass' = pass + 1 /\ job = "inRoute" /\ UNCHANGED <<rounds, slock, cron>>
      BY <1>5 DEF Applied
    <3>2. CASE pass % 2 = 1
      <4>1. job' = "check" /\ pass \in {1, 3, 5}
        BY <1>5, <3>1, <3>2 DEF Applied
      <4> QED BY <3>1, <4>1
    <3>3. CASE pass % 2 # 1
      <4>1. job' = "apply" /\ pass \in {0, 2, 4}
        BY <1>5, <3>1, <3>3 DEF Applied
      <4> QED BY <3>1, <4>1
    <3> QED BY <3>2, <3>3
  <2> QED BY <1>5, <2>1 DEF Applied, RuleTypeOK, ServiceTypeOK, serviceVars
<1>6. CASE Check
  BY <1>6 DEF Check, RuleTypeOK, ServiceTypeOK, serviceVars
<1>7. CASE Retry
  BY <1>7 DEF Retry, RuleTypeOK, ServiceTypeOK, serviceVars
<1>8. CASE PostBootDelay
  BY <1>8 DEF PostBootDelay, RuleTypeOK, ServiceTypeOK, serviceVars
<1>9. CASE Unlock
  BY <1>9 DEF Unlock, RuleTypeOK, ServiceTypeOK, serviceVars
<1> QED BY <1>1, <1>2, <1>3, <1>4, <1>5, <1>6, <1>7, <1>8, <1>9, <1>10
   DEF SupervisorStep

LEMMA NextIInv == IInv /\ [RuntimeNext]_runtimeVars => IInv'
<1> SUFFICES ASSUME IInv, [RuntimeNext]_runtimeVars PROVE IInv'
  OBVIOUS
<1> DEFINE TroubleOK == troubles \in [Trouble -> Nat]
<1>1. ServiceTypeOK /\ SupTypeOK /\ RuleTypeOK /\ TroubleOK /\ RuntimeTypeOK
  BY Parts DEF IInv
<1>2. (ServiceTypeOK /\ SupTypeOK /\ RuleTypeOK /\ TroubleOK)' => IInv'
  BY DEF IInv, RuntimeTypeOK, ServiceTypeOK, SupTypeOK, RuleTypeOK
<1>3. /\ UNCHANGED serviceVars => ServiceTypeOK'
      /\ UNCHANGED supVars => SupTypeOK'
      /\ UNCHANGED ruleVars => RuleTypeOK'
      /\ UNCHANGED troubles => TroubleOK'
  BY <1>1 DEF serviceVars, ServiceTypeOK, supVars, SupTypeOK, PassOK, ruleVars, RuleTypeOK
<1>4. \A t \in Trouble : Hit(t) => TroubleOK'
  BY <1>1, HitType
<1> HIDE DEF TroubleOK
<1>5. CASE WatchdogRun
  BY <1>1, <1>2, <1>3, <1>5, Callers, InvokeType DEF WatchdogRun, Op
<1>6. CASE SupervisorStep
  BY <1>1, <1>2, <1>3, <1>6, SupervisorType
<1>7. CASE Recover
  <2>1. SupTypeOK'
    BY <1>1, <1>7 DEF Recover, SupTypeOK, PassOK, JobStep
  <2> QED BY <1>2, <1>3, <1>4, <1>7, <2>1 DEF Recover, Trouble
<1>8. CASE FirewallRebuild
  <2>1. RuleTypeOK'
    BY <1>1, <1>8 DEF FirewallRebuild, RuleTypeOK
  <2> QED BY <1>2, <1>3, <1>4, <1>8, <2>1 DEF FirewallRebuild, Trouble
<1>9. CASE FirewallStart
  <2>1. RuleTypeOK'
    BY <1>1, <1>9 DEF FirewallStart, CallInit, RuleTypeOK, RouteStep
  <2>2. ServiceTypeOK'
    BY <1>1, <1>9, Callers, InvokeType DEF FirewallStart, CallInit, Op
  <2> QED BY <1>2, <1>3, <1>9, <2>1, <2>2 DEF FirewallStart
<1>10. ASSUME NEW r \in Runner, RouteInit(r) PROVE IInv'
  <2>1. TroubleOK' /\ UNCHANGED <<serviceVars, supVars>>
    BY <1>3, <1>4, <1>10 DEF RouteInit, InitReturns, DeleteRule, AddRule, Trouble
  <2> QED BY <1>1, <1>2, <1>3, <1>10, <2>1, RouteType
<1>11. ASSUME NEW r \in Runner, Abort(r) PROVE IInv'
  <2>1. TroubleOK' /\ UNCHANGED <<serviceVars, supVars>>
    BY <1>4, <1>11 DEF Abort, Trouble
  <2> QED BY <1>1, <1>2, <1>3, <1>11, <2>1, RouteType
<1>12. ASSUME NEW c \in Caller, InitScript(c) PROVE IInv'
  BY <1>1, <1>2, <1>3, <1>12, CallType DEF InitScript, Quiet
<1>13. CASE SingBox
  BY <1>1, <1>2, <1>3, <1>13, WorldType DEF SingBox, Quiet
<1>14. CASE KillSupervisor
  <2>1. SupTypeOK'
    BY <1>1, <1>14 DEF KillSupervisor, SupTypeOK, PassOK, JobStep
  <2>2. RuleTypeOK'
    BY <1>1, <1>14 DEF KillSupervisor, RuleTypeOK, RouteStep
  <2> QED BY <1>2, <1>3, <1>4, <1>14, <2>1, <2>2 DEF KillSupervisor, Trouble
<1>15. CASE SingBoxLost
  BY <1>1, <1>2, <1>3, <1>4, <1>15, WorldType DEF SingBoxLost, Quiet, Trouble
<1>16. CASE ScriptKilled
  BY <1>1, <1>2, <1>3, <1>4, <1>16, WorldType DEF ScriptKilled, Quiet, Trouble
<1>17. CASE RouterReboots
  <2>1. SupTypeOK'
    <3>1. job' = "lock" /\ pass' = 0 /\ rounds' = 2
      BY <1>17 DEF RouterReboots, Booted
    <3>2. slock' \in BOOLEAN /\ cron' \in BOOLEAN
      BY <1>17, Zenon DEF RouterReboots, Booted
    <3>3. job' \in JobStep /\ pass' \in 0..6 /\ rounds' \in 1..2
      BY <3>1 DEF JobStep
    <3>4. PassOK'
      BY <3>1 DEF PassOK
    <3> QED BY <3>2, <3>3, <3>4 DEF SupTypeOK
  <2>2. RuleTypeOK'
    BY <1>17 DEF RouterReboots, Booted, RuleTypeOK, RouteStep
  <2> QED BY <1>1, <1>2, <1>4, <1>17, <2>1, <2>2, WorldType DEF RouterReboots, Trouble
<1>18. CASE ForeignEnds
  BY <1>1, <1>2, <1>3, <1>18, WorldType DEF ForeignEnds, Quiet
<1>19. CASE UNCHANGED runtimeVars
  BY <1>2, <1>3, <1>19 DEF runtimeVars
<1> QED
  BY <1>5, <1>6, <1>7, <1>8, <1>9, <1>10, <1>11, <1>12, <1>13, <1>14, <1>15, <1>16,
     <1>17, <1>18, <1>19 DEF RuntimeNext

\* Every variable of the runtime keeps its type, for any number of mishaps.
THEOREM RuntimeTypeCorrect == RuntimeSpec => []RuntimeTypeOK
<1>1. IInv => RuntimeTypeOK
  BY DEF IInv
<1> QED BY <1>1, InitIInv, NextIInv, PTL DEF RuntimeSpec
-----------------------------------------------------------------------------
\* A runner that has deleted its copy of a rule and not added it yet.
Adding(r, k) ==
  route[r] = IF k = "redirect" THEN "addRedirect" ELSE "addQuic"

Pending(k) == (IF Adding(Supervisor, k) THEN 1 ELSE 0) + (IF Adding(Firewall, k) THEN 1 ELSE 0)

Silent == troubles["delete"]

\* The copies there are and those that are about to be added.
RoomForAll == \A k \in RuleKind : rules[k] + Pending(k) <= 2 + Silent

LEMMA TwoRunners == Supervisor # Firewall /\ Cardinality(Runner) = 2
<1>1. Supervisor # Firewall
  <2> SUFFICES ASSUME Supervisor = Firewall PROVE FALSE
    OBVIOUS
  <2>1. Caller = {Watchdog, Supervisor}
    BY RuntimeAssumption
  <2>2. Cardinality({Watchdog, Supervisor}) <= 2
    <3>1. IsFiniteSet({Watchdog}) /\ Cardinality({Watchdog}) = 1
      BY FS_Singleton
    <3>2. {Watchdog, Supervisor} = {Watchdog} \cup {Supervisor}
      OBVIOUS
    <3>3. Cardinality({Watchdog} \cup {Supervisor}) \in {1, 2}
      BY <3>1, FS_AddElement
    <3> QED BY <3>2, <3>3
  <2> QED BY <2>1, <2>2, RuntimeAssumption
<1>2. Cardinality(Runner) = 2
  <2>1. IsFiniteSet({Supervisor}) /\ Cardinality({Supervisor}) = 1
    BY FS_Singleton
  <2>2. Cardinality({Supervisor} \cup {Firewall}) = 2
    BY <1>1, <2>1, FS_AddElement
  <2>3. Runner = {Supervisor} \cup {Firewall}
    BY DEF Runner
  <2> QED BY <2>2, <2>3
<1> QED BY <1>1, <1>2

LEMMA InitRoom == RuntimeInit => RoomForAll
<1> SUFFICES ASSUME RuntimeInit, NEW k \in RuleKind PROVE rules[k] + Pending(k) <= 2 + Silent
  BY DEF RoomForAll
<1>1. rules[k] = 0 /\ route[Supervisor] = "off" /\ route[Firewall] = "off"
  BY DEF RuntimeInit, Runner
<1>2. Silent = 0
  BY DEF RuntimeInit, Silent, Trouble
<1> QED BY <1>1, <1>2 DEF Pending, Adding

\* No step takes back a silent failure.
LEMMA HitSilent ==
  ASSUME troubles \in [Trouble -> Nat], NEW t \in Trouble, Hit(t)
  PROVE  Silent \in Nat /\ Silent' \in Nat /\ Silent' >= Silent /\ (t = "delete" => Silent' = Silent + 1)
<1>1. troubles' = [troubles EXCEPT ![t] = troubles[t] + 1]
  BY Zenon DEF Hit
<1>2. "delete" \in Trouble
  BY DEF Trouble
<1> QED BY <1>1, <1>2 DEF Silent

\* A step that adds no copy and lets nobody begin to add one.
LEMMA FewerRoom ==
  ASSUME RuleTypeOK, RoomForAll,
         Silent \in Nat, Silent' \in Nat, Silent' >= Silent,
         \A k \in RuleKind : rules'[k] \in Nat /\ rules'[k] <= rules[k],
         \A r \in Runner, k \in RuleKind : Adding(r, k)' => Adding(r, k)
  PROVE  RoomForAll'
<1> SUFFICES ASSUME NEW k \in RuleKind PROVE (rules[k] + Pending(k))' <= 2 + Silent'
  BY DEF RoomForAll
<1>1. rules[k] \in Nat /\ rules'[k] \in Nat /\ rules'[k] <= rules[k]
  BY DEF RuleTypeOK
<1>2. /\ Adding(Supervisor, k)' => Adding(Supervisor, k)
      /\ Adding(Firewall, k)' => Adding(Firewall, k)
  BY DEF Runner
<1>3. rules[k] + Pending(k) <= 2 + Silent
  BY DEF RoomForAll
<1> QED BY <1>1, <1>2, <1>3 DEF Pending

\* A delete that worked makes room for the copy its runner is about to add;
\* one that failed counts as a silent failure.
LEMMA DeleteRoom ==
  ASSUME RuleTypeOK, RoomForAll, troubles \in [Trouble -> Nat],
         NEW r \in Runner, NEW d \in RuleKind, NEW from \in RouteStep,
         from \notin {"addRedirect", "addQuic"},
         DeleteRule(r, d, from, IF d = "redirect" THEN "addRedirect" ELSE "addQuic")
  PROVE  RoomForAll'
<1> SUFFICES ASSUME NEW k \in RuleKind PROVE (rules[k] + Pending(k))' <= 2 + Silent'
  BY DEF RoomForAll
<1>1. /\ rules[k] \in Nat /\ rules[k] + Pending(k) <= 2 + Silent
      /\ Supervisor \in Runner /\ Firewall \in Runner /\ Silent \in Nat
  BY DEF RuleTypeOK, RoomForAll, Runner, Silent, Trouble
<1>2. r = Supervisor \/ r = Firewall
  BY DEF Runner
<1> USE TwoRunners DEF RuleTypeOK, RuleKind, Pending, Adding
<1>3. /\ route[r] = from
      /\ route' = [route EXCEPT ![r] = IF d = "redirect" THEN "addRedirect" ELSE "addQuic"]
  BY DEF DeleteRule
<1>4. ~Adding(r, k) /\ (Adding(r, k)' <=> k = d)
      /\ \A q \in Runner : q # r => (Adding(q, k)' <=> Adding(q, k))
  BY <1>3
<1>5. Pending(k) \in 0..1 /\ Pending(k)' = IF k = d THEN Pending(k) + 1 ELSE Pending(k)
  BY <1>1, <1>2, <1>4
<1>6. CASE Deleted(d) /\ UNCHANGED troubles
  <2>1. Silent' = Silent
    BY <1>6 DEF Silent
  <2>2. rules'[k] = IF k = d THEN (IF rules[k] = 0 THEN 0 ELSE rules[k] - 1) ELSE rules[k]
    BY <1>6 DEF Deleted
  <2> HIDE DEF Pending
  <2> QED BY <1>1, <1>5, <2>1, <2>2
<1>7. CASE UNCHANGED rules /\ Hit("delete")
  <2>1. Silent' = Silent + 1
    BY <1>7, HitSilent DEF Trouble
  <2> HIDE DEF Pending
  <2> QED BY <1>1, <1>5, <1>7, <2>1
<1> QED BY <1>6, <1>7 DEF DeleteRule

LEMMA RouteRoom ==
  ASSUME RuleTypeOK, RoomForAll, troubles \in [Trouble -> Nat], NEW r \in Runner, RouteInit(r)
  PROVE  RoomForAll'
<1>1. CASE DeleteRule(r, "redirect", "delRedirect", "addRedirect")
  BY <1>1, DeleteRoom DEF RuleKind, RouteStep
<1>2. CASE DeleteRule(r, "quicDrop", "delQuic", "addQuic")
  BY <1>2, DeleteRoom DEF RuleKind, RouteStep, InTables
<1>3. CASE InitReturns(r) \/ AddRule(r, "redirect", "addRedirect", "delQuic")
           \/ AddRule(r, "quicDrop", "addQuic", "off")
  <2> SUFFICES ASSUME NEW k \in RuleKind PROVE (rules[k] + Pending(k))' <= 2 + Silent'
    BY DEF RoomForAll
  <2>1. /\ rules[k] \in Nat /\ rules[k] + Pending(k) <= 2 + Silent
        /\ Supervisor \in Runner /\ Firewall \in Runner /\ Silent \in Nat
    BY DEF RuleTypeOK, RoomForAll, Runner, Silent, Trouble
  <2>2. r = Supervisor \/ r = Firewall
    BY DEF Runner
  <2>3. Silent' = Silent
    BY <1>3 DEF Silent, InitReturns, AddRule
  <2> USE TwoRunners DEF RuleTypeOK, RuleKind, Pending, Adding
  <2>4. CASE InitReturns(r)
    BY <2>1, <2>2, <2>3, <2>4 DEF InitReturns
  <2>5. CASE AddRule(r, "redirect", "addRedirect", "delQuic")
    BY <2>1, <2>2, <2>3, <2>5 DEF AddRule
  <2>6. CASE AddRule(r, "quicDrop", "addQuic", "off")
    BY <2>1, <2>2, <2>3, <2>6 DEF AddRule
  <2> QED BY <1>3, <2>4, <2>5, <2>6
<1> QED BY <1>1, <1>2, <1>3 DEF RouteInit

LEMMA NextRoom == IInv /\ RoomForAll /\ [RuntimeNext]_runtimeVars => RoomForAll'
<1> SUFFICES ASSUME IInv, RoomForAll, [RuntimeNext]_runtimeVars PROVE RoomForAll'
  OBVIOUS
<1>1. RuleTypeOK /\ RuleTypeOK'
  BY Parts, NextIInv DEF IInv, RuntimeTypeOK, RuleTypeOK
<1>2. \A k \in RuleKind : rules[k] \in Nat
  BY <1>1 DEF RuleTypeOK
<1> DEFINE Louder == Silent \in Nat /\ Silent' \in Nat /\ Silent' >= Silent
<1>20. troubles \in [Trouble -> Nat] /\ Silent \in Nat
  BY Parts DEF Silent, Trouble
<1>21. \A t \in Trouble : Hit(t) => Louder
  BY <1>20, HitSilent
<1>22. UNCHANGED troubles => Louder
  BY <1>20 DEF Silent
<1> HIDE DEF Louder
<1>3. UNCHANGED <<route, rules>> /\ Louder => RoomForAll'
  <2> SUFFICES ASSUME UNCHANGED <<route, rules>>, Louder PROVE RoomForAll'
    OBVIOUS
  <2> QED BY <1>1, <1>2, FewerRoom DEF Louder, Adding
<1>4. ASSUME NEW r \in Runner, NEW s \in {"off", "inInit"}, route' = [route EXCEPT ![r] = s],
             UNCHANGED rules, Louder
      PROVE  RoomForAll'
  BY <1>1, <1>2, <1>4, FewerRoom DEF RuleTypeOK, Adding, Louder
<1>5. ASSUME \A r \in Runner : route'[r] = "off", rules' = [k \in RuleKind |-> 0], Louder
      PROVE  RoomForAll'
  BY <1>1, <1>2, <1>5, FewerRoom DEF RuleTypeOK, Adding, Louder
<1>6. CASE WatchdogRun
  BY <1>3, <1>6, <1>22 DEF WatchdogRun, ruleVars
<1>7. CASE SupervisorStep
  <2>1. CASE Apply
    BY <1>4, <1>22, <2>1 DEF Apply, CallInit, Runner
  <2>2. CASE ~Apply
    <3>1. UNCHANGED <<route, rules, troubles>>
      BY <1>7, <2>2 DEF SupervisorStep, TakeLock, RegisterCrons, Probe, Restarted, Applied, Check, Retry,
         PostBootDelay, Unlock, Job, ruleVars
    <3> QED BY <1>3, <1>22, <3>1
  <2> QED BY <2>1, <2>2
<1>8. CASE Recover
  BY <1>3, <1>8, <1>21 DEF Recover, ruleVars, Trouble
<1>9. CASE FirewallRebuild
  <2>1. UNCHANGED route /\ rules' = [k \in RuleKind |-> 0] /\ Louder
    BY <1>9, <1>21 DEF FirewallRebuild, Trouble
  <2> QED BY <1>1, <1>2, <2>1, FewerRoom DEF Adding, Louder
<1>10. CASE FirewallStart
  BY <1>4, <1>10, <1>22 DEF FirewallStart, CallInit, Runner
<1>11. ASSUME NEW r \in Runner, RouteInit(r) PROVE RoomForAll'
  BY <1>1, <1>11, <1>20, RouteRoom
<1>12. ASSUME NEW r \in Runner, Abort(r) PROVE RoomForAll'
  BY <1>4, <1>12, <1>21 DEF Abort, Trouble
<1>13. ASSUME NEW c \in Caller, InitScript(c) PROVE RoomForAll'
  BY <1>3, <1>13, <1>22 DEF InitScript, Quiet, ruleVars
<1>14. CASE SingBox \/ SingBoxLost \/ ScriptKilled \/ ForeignEnds
  BY <1>3, <1>14, <1>21, <1>22 DEF SingBox, SingBoxLost, ScriptKilled, ForeignEnds, Quiet, ruleVars,
     Trouble
<1>15. CASE KillSupervisor
  BY <1>4, <1>15, <1>21 DEF KillSupervisor, Runner, Trouble
<1>16. CASE RouterReboots
  <2>1. route' = [r \in Runner |-> "off"] /\ rules' = [k \in RuleKind |-> 0] /\ Louder
    BY <1>16, <1>21 DEF RouterReboots, Booted, Trouble
  <2> QED BY <1>5, <2>1
<1>17. CASE UNCHANGED runtimeVars
  BY <1>3, <1>17, <1>22 DEF runtimeVars, ruleVars
<1> QED
  BY <1>6, <1>7, <1>8, <1>9, <1>10, <1>11, <1>12, <1>13, <1>14, <1>15, <1>16, <1>17
  DEF RuntimeNext

(***************************************************************************)
(* However often the runs of stealth-route-init overlap, are cut short or  *)
(* are overtaken by rebuilds of the firewall, there is never more than one *)
(* copy of a rule for each runner and each delete that failed silently     *)
(* (stealth-route-init.sh:153-176).                                        *)
(***************************************************************************)
THEOREM CopiesStayBounded == RuntimeSpec => []CopiesBounded
<1>1. IInv /\ RoomForAll => CopiesBounded
  <2> SUFFICES ASSUME IInv, RoomForAll, NEW k \in RuleKind
               PROVE  rules[k] <= Cardinality(Runner) + troubles["delete"]
    BY DEF CopiesBounded
  <2>1. rules[k] \in Nat /\ rules[k] + Pending(k) <= 2 + Silent /\ Silent \in Nat
    BY Parts DEF RuleTypeOK, RoomForAll, Silent, Trouble
  <2> QED BY <2>1, TwoRunners DEF Pending, Silent
<1> QED BY <1>1, InitIInv, NextIInv, InitRoom, NextRoom, PTL DEF RuntimeSpec
=============================================================================
