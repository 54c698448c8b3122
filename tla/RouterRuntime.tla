--------------------------- MODULE RouterRuntime ---------------------------
(***************************************************************************)
(* What keeps sing-box listening and Channel A's rules installed on the    *)
(* router: the watchdog (singbox-watchdog.sh, every minute), the           *)
(* supervisor (ghostroute-runtime-supervisor, at boot and on demand) and   *)
(* stealth-route-init, which the supervisor runs and which firewall-start  *)
(* runs whenever the firmware has rebuilt the firewall.  All of them call  *)
(* the init script of sing-box (the service of SingBoxService, which       *)
(* SingBoxInit implements); each decides to from a look at the listeners   *)
(* that is over before it waits for the script's lock.                     *)
(*                                                                         *)
(* job     the next step of the supervisor; pass: the runs of              *)
(*         stealth-route-init in this stabilisation (two an attempt);      *)
(*         rounds: the stabilisations left (boot makes two)                *)
(* slock   the supervisor's lock directory in /tmp                         *)
(* cron    the watchdog is in cron's table, which a reboot empties         *)
(* route   the next step of stealth-route-init in each of its runners      *)
(* rules   how many copies of the nat REDIRECT rules and of the UDP/443    *)
(*         DROP rules are installed                                        *)
(* rebuilt the firewall was rebuilt and firewall-start has not begun       *)
(* troubles  how many times each kind of Trouble has happened              *)
(***************************************************************************)
EXTENDS SingBoxService, Naturals, FiniteSets, Folds, Functions

CONSTANTS Watchdog, Supervisor, Firewall,
          MaxTroubles   \* bound on firewall rebuilds, recover commands, failing
                        \* commands of stealth-route-init, killed scripts, lost
                        \* daemons and reboots, all together

ASSUME RuntimeAssumption ==
  /\ Caller = {Watchdog, Supervisor, Firewall} /\ Cardinality(Caller) = 3
  /\ MaxTroubles \in Nat

VARIABLES job, pass, rounds, slock, cron, route, rules, rebuilt, troubles

supVars   == <<job, pass, rounds, slock, cron>>
ruleVars  == <<route, rules, rebuilt>>
runtimeVars == <<serviceVars, supVars, ruleVars, troubles>>

Runner    == {Supervisor, Firewall}
RuleKind  == {"redirect", "quicDrop"}
InTables  == {"addRedirect", "delQuic", "addQuic"}
RouteStep == {"off", "inInit", "delRedirect"} \cup InTables
JobStep   == {"off", "lock", "crons", "probe", "inInit", "apply", "inRoute", "check",
              "retry", "delay", "unlock"}

Trouble   == {"rebuild", "recover", "abortSupervisor", "abortFirewall",
              "delete", "kill", "loss", "reboot"}

ListenersUp  == sb = "up"
RulesPresent == \A k \in RuleKind : rules[k] > 0

\* After a boot: services-start has launched the supervisor and the firmware
\* has built the firewall, neither of which has done anything yet.
Booted ==
  /\ job' = "lock" /\ pass' = 0 /\ rounds' = 2 /\ slock' = FALSE /\ cron' = FALSE
  /\ route' = [r \in Runner |-> "off"] /\ rules' = [k \in RuleKind |-> 0]
  /\ rebuilt' = TRUE

RuntimeInit ==
  /\ Init
  /\ job = "lock" /\ pass = 0 /\ rounds = 2 /\ slock = FALSE /\ cron = FALSE
  /\ route = [r \in Runner |-> "off"] /\ rules = [k \in RuleKind |-> 0]
  /\ rebuilt = TRUE
  /\ troubles = [t \in Trouble |-> 0]

Hit(t) ==
  /\ FoldFunction(+, 0, troubles) < MaxTroubles
  /\ troubles' = [troubles EXCEPT ![t] = @ + 1]
-----------------------------------------------------------------------------
\* Mutant: the watchdog asks S99sing-box status and not the listeners.
WatchdogByStatus ==
  /\ cron /\ sb = "dead" /\ ~mistaken /\ Invoke(Watchdog, "restart")
  /\ UNCHANGED <<supVars, ruleVars, troubles>>

\* Once it is registered: the minute's run of the watchdog, when the last one
\* has ended, finds a listener missing (FAIL_LIMIT is 1) and calls restart.
WatchdogRun ==
  /\ cron /\ ~ListenersUp /\ Invoke(Watchdog, "restart")
  /\ UNCHANGED <<supVars, ruleVars, troubles>>
-----------------------------------------------------------------------------
\* stealth-route-init.sh: S99sing-box start, whatever comes of it, then each
\* rule deleted once (one copy of it) and added again.
CallInit(r) ==
  /\ route[r] = "off" /\ Invoke(r, "start")
  /\ route' = [route EXCEPT ![r] = "inInit"]

InitReturns(r) ==
  /\ route[r] = "inInit" /\ ~Active(r)
  /\ route' = [route EXCEPT ![r] = "delRedirect"]
  /\ UNCHANGED <<serviceVars, supVars, rules, rebuilt, troubles>>

\* Mutant: the rules are added without deleting the old ones.
DeleteNothing(r, k, from, to) ==
  /\ route[r] = from /\ route' = [route EXCEPT ![r] = to]
  /\ UNCHANGED <<serviceVars, supVars, rules, rebuilt, troubles>>

Deleted(k) == rules' = [rules EXCEPT ![k] = IF @ = 0 THEN 0 ELSE @ - 1]

\* iptables -D ... 2>/dev/null || true: it fails without a word when another
\* iptables is running (this iptables has no -w), and the script goes on.
DeleteRule(r, k, from, to) ==
  /\ route[r] = from /\ route' = [route EXCEPT ![r] = to]
  /\ \/ Deleted(k) /\ UNCHANGED troubles
     \/ UNCHANGED rules /\ Hit("delete")
  /\ UNCHANGED <<serviceVars, supVars, rebuilt>>

AddRule(r, k, from, to) ==
  /\ route[r] = from /\ route' = [route EXCEPT ![r] = to]
  /\ rules' = [rules EXCEPT ![k] = @ + 1]
  /\ UNCHANGED <<serviceVars, supVars, rebuilt, troubles>>

\* set -e: iptables -A or -I fails because another iptables is running, this
\* script's or the firmware's, and nobody looks at the exit status.
Abort(r) ==
  /\ route[r] \in {"addRedirect", "addQuic"} /\ route' = [route EXCEPT ![r] = "off"]
  /\ Hit(IF r = Firewall THEN "abortFirewall" ELSE "abortSupervisor")
  /\ UNCHANGED <<serviceVars, supVars, rules, rebuilt>>

RouteInit(r) ==
  \/ InitReturns(r)
  \/ DeleteRule(r, "redirect", "delRedirect", "addRedirect")
  \/ AddRule(r, "redirect", "addRedirect", "delQuic")
  \/ DeleteRule(r, "quicDrop", "delQuic", "addQuic")
  \/ AddRule(r, "quicDrop", "addQuic", "off")

FirewallRebuild ==
  /\ Hit("rebuild")
  /\ route[Firewall] = "off" /\ ~Active(Firewall) /\ ~rebuilt
  /\ rebuilt' = TRUE /\ rules' = [k \in RuleKind |-> 0]
  /\ UNCHANGED <<serviceVars, supVars, route>>

FirewallStart ==
  /\ rebuilt /\ rebuilt' = FALSE
  /\ CallInit(Firewall)
  /\ UNCHANGED <<supVars, rules, troubles>>
-----------------------------------------------------------------------------
Job(from, to) ==
  /\ job = from /\ job' = to
  /\ UNCHANGED <<ruleVars, troubles>>

\* "recover" on the command line; boot is started by services-start.
Recover ==
  /\ job = "off" /\ ~Active(Supervisor) /\ route[Supervisor] = "off"
  /\ job' = "lock" /\ rounds' = 1
  /\ Hit("recover")
  /\ UNCHANGED <<serviceVars, pass, slock, cron, ruleVars>>

TakeLock ==
  /\ slock' = TRUE /\ pass' = 0
  /\ IF slock THEN Job("lock", "off") ELSE Job("lock", "crons")
  /\ UNCHANGED <<serviceVars, rounds, cron>>

RegisterCrons ==
  /\ Job("crons", "probe") /\ cron' = TRUE
  /\ UNCHANGED <<serviceVars, pass, rounds, slock>>

\* ensure_singbox
Probe ==
  /\ \/ ListenersUp /\ Job("probe", "apply") /\ UNCHANGED serviceVars
     \/ ~ListenersUp /\ Job("probe", "inInit") /\ Invoke(Supervisor, "restart")
  /\ UNCHANGED <<pass, rounds, slock, cron>>

Restarted ==
  /\ Job("inInit", "apply") /\ ~Active(Supervisor)
  /\ UNCHANGED <<serviceVars, pass, rounds, slock, cron>>

\* apply_routing runs stealth-route-init twice: inside firewall-start, then
\* directly.
Apply ==
  /\ job = "apply" /\ job' = "inRoute"
  /\ CallInit(Supervisor)
  /\ UNCHANGED <<pass, rounds, slock, cron, rules, rebuilt, troubles>>

Applied ==
  /\ job = "inRoute" /\ route[Supervisor] = "off"
  /\ pass' = pass + 1
  /\ IF pass % 2 = 1 THEN Job("inRoute", "check") ELSE Job("inRoute", "apply")
  /\ UNCHANGED <<serviceVars, rounds, slock, cron>>

\* Mutant: stabilize_routing does not look at the rules.
CheckNothing ==
  /\ IF rounds = 2 THEN Job("check", "delay") ELSE Job("check", "unlock")
  /\ UNCHANGED <<serviceVars, pass, rounds, slock, cron>>

\* routing_rules_present, three attempts at most.
Check ==
  /\ IF RulesPresent \/ pass = 6
       THEN IF rounds = 2 THEN Job("check", "delay") ELSE Job("check", "unlock")
       ELSE Job("check", "retry")
  /\ UNCHANGED <<serviceVars, pass, rounds, slock, cron>>

\* sleep 5 outlasts the iptables commands of a run that was under way.
Retry ==
  /\ Job("retry", "apply") /\ \A q \in Runner : route[q] \notin InTables
  /\ UNCHANGED <<serviceVars, pass, rounds, slock, cron>>

PostBootDelay ==
  /\ Job("delay", "apply") /\ rounds' = 1 /\ pass' = 0
  /\ UNCHANGED <<serviceVars, slock, cron>>

\* Mutant: the last stabilisation is counted down too.
UnlockCounts ==
  /\ Job("unlock", "off") /\ slock' = FALSE /\ rounds' = rounds - 1
  /\ UNCHANGED <<serviceVars, pass, cron>>

Unlock ==
  /\ Job("unlock", "off") /\ slock' = FALSE
  /\ UNCHANGED <<serviceVars, pass, rounds, cron>>

SupervisorStep ==
  \/ TakeLock \/ RegisterCrons \/ Probe \/ Restarted \/ Apply \/ Applied \/ Check
  \/ Retry \/ PostBootDelay \/ Unlock

-----------------------------------------------------------------------------
Quiet == UNCHANGED <<supVars, ruleVars>>

InitScript(c) == CallStep(c) /\ Quiet /\ UNCHANGED troubles
SingBox       == Progress /\ Quiet /\ UNCHANGED troubles

\* The supervisor is killed between two of its calls: nothing removes its lock.
KillSupervisor ==
  /\ job # "off" /\ ~Active(Supervisor) /\ Hit("kill")
  /\ job' = "off" /\ route' = [route EXCEPT ![Supervisor] = "off"]
  /\ UNCHANGED <<serviceVars, pass, rounds, slock, cron, rules, rebuilt>>

SingBoxLost == Lost /\ Hit("loss") /\ Quiet
ScriptKilled == Hit("kill") /\ Quiet /\ \E c \in Caller : Killed(c)

\* The directory /tmp, and with it the supervisor's lock, is empty after that.
RouterReboots == Reboot /\ Hit("reboot") /\ Booted

ForeignEnds == OtherEnds /\ Quiet /\ UNCHANGED troubles

RuntimeNext ==
  \/ WatchdogRun \/ SupervisorStep \/ Recover
  \/ FirewallRebuild \/ FirewallStart
  \/ \E r \in Runner : RouteInit(r) \/ Abort(r)
  \/ (\E c \in Caller : InitScript(c)) \/ SingBox
  \/ KillSupervisor \/ SingBoxLost \/ ScriptKilled \/ RouterReboots \/ ForeignEnds

RuntimeSpec == RuntimeInit /\ [][RuntimeNext]_runtimeVars

\* Every script that has been started runs on, cron runs a registered watchdog
\* every minute and a daemon starts or ends in time.  No mishap has to happen.
Fairness ==
  /\ WF_runtimeVars(WatchdogRun)
  /\ WF_runtimeVars(SupervisorStep) /\ WF_runtimeVars(FirewallStart)
  /\ \A r \in Runner : WF_runtimeVars(RouteInit(r))
  /\ \A c \in Caller : WF_runtimeVars(InitScript(c))
  /\ WF_runtimeVars(SingBox)

FairRuntimeSpec == RuntimeSpec /\ Fairness
-----------------------------------------------------------------------------
RuntimeTypeOK ==
  /\ call \in [Caller -> Op \cup {"idle", "stopping", "restarting", "settling",
                                "done"}]
  /\ rival \in [Caller -> BOOLEAN]
  /\ sb \in {"dead", "starting", "up", "dying"}
  /\ stuck \in BOOLEAN /\ mistaken \in BOOLEAN
  /\ job \in JobStep /\ pass \in 0..6 /\ rounds \in 1..2
  /\ slock \in BOOLEAN /\ cron \in BOOLEAN /\ route \in [Runner -> RouteStep]
  /\ rules \in [RuleKind -> Nat] /\ rebuilt \in BOOLEAN
  /\ troubles \in [Trouble -> Nat]

(***************************************************************************)
(* stealth-route-init is "safe to re-run": as one run overtakes another,   *)
(* copies of a rule may stay behind, but never more than one for each      *)
(* runner, however often the runs overlap, and one for each delete that    *)
(* failed without a word.                                                  *)
(***************************************************************************)
CopiesBounded ==
  \A k \in RuleKind : rules[k] <= Cardinality(Runner) + troubles["delete"]

\* The boot's supervisor was killed before it had registered the watchdog.
Unwatched == ~cron /\ job = "off" /\ troubles["kill"] > 0

(***************************************************************************)
(* The listeners come back for good after the last mishap, whichever       *)
(* scripts were killed and whatever the lock and the pid file say, unless  *)
(* the pid in a left-over lock is that of another process that lives on or *)
(* nobody has registered the watchdog since the boot.                      *)
(***************************************************************************)
ListenersRecover == <>[](ListenersUp \/ stuck \/ Unwatched)

(***************************************************************************)
(* Both rules end up installed for good after the last rebuild of the      *)
(* firewall, although a run of the supervisor's may be cut short, provided *)
(* nothing is killed and firewall-start's own run is not cut short.        *)
(***************************************************************************)
RulesRecover ==
  [](troubles["kill"] = 0 /\ troubles["abortFirewall"] = 0) => <>[]RulesPresent
=============================================================================
