----------------------------- MODULE ChannelAmn -----------------------------
(***************************************************************************)
(* The controller of the Channel Amn lab (router/channel-amn.py): one      *)
(* invocation at a time (flock) runs start or stop, command by command.    *)
(* A command of start that fails turns the invocation into stop; stop runs *)
(* its commands with check=False and carries on when one of them fails.    *)
(* The invocation itself may be killed between any two commands, the two   *)
(* processes it spawned may die, and the firmware may rebuild one family's *)
(* firewall at any time, which wipes the GR_AMN_* chains and their hooks.  *)
(*                                                                         *)
(* owned   what /tmp/ghostroute-amn/owned.json holds ("torn": opened for   *)
(*         writing and never completed)                                    *)
(* pc, g   the command the invocation is about to run; g counts commands   *)
(*         inside the loops of guards() and of stop()                      *)
(* fw      the <<family, rule>> pairs installed; top: the first verdict of *)
(*         GR_AMN_UDP, which is all of that chain that a packet sees       *)
(* running processes alive whose pid file names them; orphan: alive and    *)
(*         named by no pid file; child: just spawned, pid not yet written; *)
(*         booting: alive and its interface not yet created                *)
(* links   gr-amn (made by "engine") and gr-amn-tun (made by "policy")     *)
(* linkUp  gr-amn is configured, addressed and up                          *)
(* table, rule   the private routing table and the rule that selects it    *)
(* ignored how many commands of stop have failed unnoticed since boot      *)
(*                                                                         *)
(* A process makes its interface within moments of being spawned, so none  *)
(* is still booting when a later invocation gets past preflight.           *)
(***************************************************************************)
EXTENDS Naturals, Sequences

CONSTANT MaxIgnored          \* bound on unnoticed failures inside stop
ASSUME MaxIgnoredAssumption == MaxIgnored \in Nat

VARIABLES owned, pc, g, fw, top, running, orphan, child, booting, links,
          linkUp, table, rule, ignored

vars == <<owned, pc, g, fw, top, running, orphan, child, booting, links,
          linkUp, table, rule, ignored>>

fwVars   == <<fw, top>>
procVars == <<running, orphan, child, booting>>
netVars  == <<links, linkUp, table, rule>>

Family  == {"iptables", "ip6tables"}
Process == {"engine", "policy"}     \* also names the interface each one makes
Chain   == {"LOCAL", "FWD", "UDP"}
Hook    == {"inLocal", "inUdp", "fwdIface", "fwdTun"}
Body    == {"localDrop", "fwdOut", "fwdBack", "fwdDrop", "udpDrop"}
Rule    == Chain \cup Hook \cup Body

ChainOf(r) ==
  IF r \in {"LOCAL", "localDrop", "inLocal"} THEN "LOCAL"
  ELSE IF r \in {"UDP", "udpDrop", "inUdp"} THEN "UDP" ELSE "FWD"

\* Mutant: each chain created, filled and hooked before the next one.
GuardOrderPerChain ==
  LET perChain(f) ==
        << <<f, "LOCAL">>, <<f, "localDrop">>, <<f, "inLocal">>,
           <<f, "FWD">>, <<f, "fwdDrop">>, <<f, "fwdIface">>, <<f, "fwdTun">>,
           <<f, "UDP">>, <<f, "udpDrop">>, <<f, "inUdp">> >>
  IN  perChain("iptables") \o perChain("ip6tables")

(***************************************************************************)
(* guards(): the iptables commands first, then the ip6tables ones, which   *)
(* have no ACCEPT pair.                                                    *)
(***************************************************************************)
GuardOrder ==
  << <<"iptables", "LOCAL">>, <<"iptables", "FWD">>, <<"iptables", "UDP">>,
     <<"iptables", "localDrop">>, <<"iptables", "fwdOut">>,
     <<"iptables", "fwdBack">>, <<"iptables", "fwdDrop">>,
     <<"iptables", "udpDrop">>, <<"iptables", "inLocal">>,
     <<"iptables", "inUdp">>, <<"iptables", "fwdIface">>,
     <<"iptables", "fwdTun">>,
     <<"ip6tables", "LOCAL">>, <<"ip6tables", "FWD">>, <<"ip6tables", "UDP">>,
     <<"ip6tables", "localDrop">>, <<"ip6tables", "fwdDrop">>,
     <<"ip6tables", "udpDrop">>, <<"ip6tables", "inLocal">>,
     <<"ip6tables", "inUdp">>, <<"ip6tables", "fwdIface">>,
     <<"ip6tables", "fwdTun">> >>

\* What the firewall tears down at the end of stop(), in that order.
TearDown(f) ==
  << <<f, "unhook", "inLocal">>, <<f, "unhook", "inUdp">>,
     <<f, "unhook", "fwdIface">>, <<f, "unhook", "fwdTun">>,
     <<f, "flush", "LOCAL">>, <<f, "delete", "LOCAL">>,
     <<f, "flush", "FWD">>, <<f, "delete", "FWD">>,
     <<f, "flush", "UDP">>, <<f, "delete", "UDP">> >>
ClearOrder == TearDown("iptables") \o TearDown("ip6tables")

\* -N wants the chain absent; -A and -I want it present.
Installable(f, r) ==
  IF r \in Chain THEN <<f, r>> \notin fw ELSE <<f, ChainOf(r)>> \in fw

\* -X fails while a rule is left in the chain or a hook still jumps to it.
Deletable(f, c) ==
  \A r \in Hook \cup Body : ChainOf(r) = c => <<f, r>> \notin fw

Removed(f, op, name) ==
  IF op = "unhook" THEN {<<f, name>>}
  ELSE IF op = "flush" THEN {<<f, r>> : r \in {b \in Body : ChainOf(b) = name}}
  ELSE IF Deletable(f, name) THEN {<<f, name>>} ELSE {}

StartPhase ==
  {"guards", "unreachable", "rule", "spawnPolicy", "pidPolicy", "waitTun",
   "default", "spawnEngine", "pidEngine", "waitSock", "configure", "linkup",
   "accept", "confirm"}
StopPhase ==
  {"shut4", "shut6", "killEngine", "killPolicy", "delIface", "delTun",
   "delRule", "flush", "clear", "disown"}
Phase == {"idle", "owning"} \cup StartPhase \cup StopPhase
-----------------------------------------------------------------------------
Init ==
  /\ owned = "absent" /\ pc = "idle" /\ g = 1
  /\ fw = {} /\ top = [f \in Family |-> "none"]
  /\ running = {} /\ orphan = {} /\ child = "none" /\ booting = {}
  /\ links = {} /\ linkUp = FALSE /\ table = {} /\ rule = FALSE
  /\ ignored = 0

(***************************************************************************)
(* preflight(): nothing of an earlier lab is left where this one would be. *)
(* A start that is refused (here, or because owned.json exists) changes    *)
(* nothing.                                                                *)
(***************************************************************************)
Preflight == links = {} /\ ~rule /\ table = {} /\ fw = {}

StartBegin ==
  /\ pc = "idle" /\ owned = "absent" /\ Preflight /\ booting = {}
  /\ pc' = "owning" /\ owned' = "torn"
  /\ UNCHANGED <<g, fwVars, procVars, netVars, ignored>>

WriteOwned ==
  /\ pc = "owning"
  /\ owned' = "written" /\ pc' = "guards" /\ g' = 1
  /\ UNCHANGED <<fwVars, procVars, netVars, ignored>>

\* Mutant: the loop leaves its counter one past its end.
GuardStepOverrun ==
  /\ pc = "guards"
  /\ LET f == GuardOrder[g][1]
         r == GuardOrder[g][2]
     IN /\ Installable(f, r)
        /\ fw' = fw \cup {<<f, r>>}
        /\ top' = IF r = "udpDrop" /\ top[f] = "none"
                    THEN [top EXCEPT ![f] = "DROP"] ELSE top
  /\ g' = g + 1 /\ pc' = IF g = Len(GuardOrder) THEN "unreachable" ELSE pc
  /\ UNCHANGED <<owned, procVars, netVars, ignored>>

\* One iptables or ip6tables command of guards().
GuardStep ==
  /\ pc = "guards"
  /\ LET f == GuardOrder[g][1]
         r == GuardOrder[g][2]
     IN /\ Installable(f, r)
        /\ fw' = fw \cup {<<f, r>>}
        /\ top' = IF r = "udpDrop" /\ top[f] = "none"
                    THEN [top EXCEPT ![f] = "DROP"] ELSE top
  /\ IF g = Len(GuardOrder) THEN pc' = "unreachable" /\ g' = 1
                            ELSE pc' = pc /\ g' = g + 1
  /\ UNCHANGED <<owned, procVars, netVars, ignored>>

AddUnreachable ==
  /\ pc = "unreachable"
  /\ table' = table \cup {"unreachable"} /\ pc' = "rule"
  /\ UNCHANGED <<owned, g, fwVars, procVars, links, linkUp, rule, ignored>>

AddRule ==
  /\ pc = "rule"
  /\ rule' = TRUE /\ pc' = "spawnPolicy"
  /\ UNCHANGED <<owned, g, fwVars, procVars, links, linkUp, table, ignored>>

\* Popen: the process is alive before its pid file says so.
Spawn(p, from, to) ==
  /\ pc = from
  /\ child' = p /\ booting' = booting \cup {p} /\ pc' = to
  /\ UNCHANGED <<owned, g, fwVars, running, orphan, netVars, ignored>>

\* The pid file is written; a child that died meanwhile is recorded dead.
WritePid(p, from, to) ==
  /\ pc = from
  /\ running' = IF child = p THEN running \cup {p} ELSE running
  /\ child' = "none" /\ pc' = to
  /\ UNCHANGED <<owned, g, fwVars, orphan, booting, netVars, ignored>>

\* wait_for(): the process has made its interface (for the engine: also the
\* control socket, which it opens once its interface is up).
Wait(p, from, to) ==
  /\ pc = from /\ p \in links
  /\ pc' = to
  /\ UNCHANGED <<owned, g, fwVars, procVars, netVars, ignored>>

AddDefault ==
  /\ pc = "default" /\ "policy" \in links
  /\ table' = table \cup {"default"} /\ pc' = "spawnEngine"
  /\ UNCHANGED <<owned, g, fwVars, procVars, links, linkUp, rule, ignored>>

\* configure() through the control socket, then the address of gr-amn.
Configure ==
  /\ pc = "configure" /\ "engine" \in links
  /\ pc' = "linkup"
  /\ UNCHANGED <<owned, g, fwVars, procVars, netVars, ignored>>

LinkUp ==
  /\ pc = "linkup" /\ "engine" \in links
  /\ linkUp' = TRUE /\ pc' = "accept"
  /\ UNCHANGED <<owned, g, fwVars, procVars, links, table, rule, ignored>>

Accept ==
  /\ pc = "accept" /\ <<"iptables", "UDP">> \in fw
  /\ top' = [top EXCEPT !["iptables"] = "ACCEPT"] /\ pc' = "confirm"
  /\ UNCHANGED <<owned, g, fw, procVars, netVars, ignored>>

Confirm ==
  /\ pc = "confirm" /\ running = Process
  /\ pc' = "idle"
  /\ UNCHANGED <<owned, g, fwVars, procVars, netVars, ignored>>

Abandoned == IF child = "none" THEN orphan ELSE orphan \cup {child}

\* Mutant: a failed start dismantles the policy route before the engine.
StartFailsRouteFirst ==
  /\ pc \in StartPhase
  /\ pc' = "delRule"
  /\ orphan' = Abandoned /\ child' = "none"
  /\ UNCHANGED <<owned, g, fwVars, running, booting, netVars, ignored>>

(***************************************************************************)
(* A command of start fails, a wait times out or the final assertion does  *)
(* not hold: except BaseException runs stop().  owned.json is written      *)
(* before that try, so a failure there is a Crash of the invocation.       *)
(***************************************************************************)
StartFails ==
  /\ pc \in StartPhase
  /\ pc' = "shut4"
  /\ orphan' = Abandoned /\ child' = "none"
  /\ UNCHANGED <<owned, g, fwVars, running, booting, netVars, ignored>>

\* Mutant: ownership is given up before the work, not after it.
StopBeginDisowned ==
  /\ pc = "idle" /\ owned = "written"
  /\ pc' = "shut4" /\ owned' = "absent"
  /\ UNCHANGED <<g, fwVars, procVars, netVars, ignored>>

StopBegin ==
  /\ pc = "idle" /\ owned = "written"
  /\ pc' = "shut4"
  /\ UNCHANGED <<owned, g, fwVars, procVars, netVars, ignored>>

\* Mutant: stop does not close the ingress first.
ShutNothing(f, from, to) ==
  /\ pc = from
  /\ pc' = to
  /\ UNCHANGED <<owned, g, fwVars, procVars, netVars, ignored>>

\* -I GR_AMN_UDP 1 -j DROP, for one family.
Shut(f, from, to) ==
  /\ pc = from
  /\ top' = IF <<f, "UDP">> \in fw THEN [top EXCEPT ![f] = "DROP"] ELSE top
  /\ pc' = to
  /\ UNCHANGED <<owned, g, fw, procVars, netVars, ignored>>

\* An interface goes away with the process that made it or by ip link del;
\* routes through gr-amn-tun go with it.
Vanish(p) ==
  /\ links' = links \ {p}
  /\ linkUp' = (linkUp /\ p # "engine")
  /\ table' = IF p = "policy" THEN table \ {"default"} ELSE table
  /\ UNCHANGED rule

\* owned_pid(), SIGTERM, SIGKILL, then the pid file is removed.
Kill(p, from, to) ==
  /\ pc = from
  /\ IF p \in running
       THEN /\ running' = running \ {p} /\ booting' = booting \ {p}
            /\ Vanish(p)
       ELSE UNCHANGED <<running, booting, netVars>>
  /\ pc' = to
  /\ UNCHANGED <<owned, g, fwVars, orphan, child, ignored>>

\* A process that loses its interface under it exits or lingers.
DelLink(p, from, to) ==
  /\ pc = from
  /\ Vanish(p)
  /\ orphan' \in IF p \in links THEN {orphan, orphan \ {p}} ELSE {orphan}
  /\ pc' = to
  /\ UNCHANGED <<owned, g, fwVars, running, child, booting, ignored>>

DelRule ==
  /\ pc = "delRule"
  /\ rule' = FALSE /\ pc' = "flush"
  /\ UNCHANGED <<owned, g, fwVars, procVars, links, linkUp, table, ignored>>

FlushTable ==
  /\ pc = "flush"
  /\ table' = {} /\ pc' = "clear" /\ g' = 1
  /\ UNCHANGED <<owned, fwVars, procVars, links, linkUp, rule, ignored>>

AdvanceClear ==
  IF g = Len(ClearOrder) THEN pc' = "disown" /\ g' = 1
                         ELSE pc' = pc /\ g' = g + 1

ClearStep ==
  /\ pc = "clear"
  /\ LET c == ClearOrder[g]
     IN /\ fw' = fw \ Removed(c[1], c[2], c[3])
        /\ top' = IF c[2] = "flush" /\ c[3] = "UDP"
                    THEN [top EXCEPT ![c[1]] = "none"] ELSE top
  /\ AdvanceClear
  /\ UNCHANGED <<owned, procVars, netVars, ignored>>

\* check=False: a command of stop fails and the next one runs.
Unnoticed ==
  /\ ignored < MaxIgnored /\ ignored' = ignored + 1
  /\ \/ /\ pc = "clear" /\ AdvanceClear
     \/ /\ pc = "shut4" /\ pc' = "shut6" /\ UNCHANGED g
     \/ /\ pc = "shut6" /\ pc' = "killEngine" /\ UNCHANGED g
     \/ /\ pc = "delIface" /\ pc' = "delTun" /\ UNCHANGED g
     \/ /\ pc = "delTun" /\ pc' = "delRule" /\ UNCHANGED g
     \/ /\ pc = "delRule" /\ pc' = "flush" /\ UNCHANGED g
     \/ /\ pc = "flush" /\ pc' = "clear" /\ g' = 1
  /\ UNCHANGED <<owned, fwVars, procVars, netVars>>

Disown ==
  /\ pc = "disown"
  /\ owned' = "absent" /\ pc' = "idle"
  /\ UNCHANGED <<g, fwVars, procVars, netVars, ignored>>
-----------------------------------------------------------------------------
\* The invocation is killed, or a command inside stop exceeds its timeout
\* and the exception leaves stop: flock goes with the process.
Crash ==
  /\ pc # "idle"
  /\ pc' = "idle" /\ g' = 1
  /\ orphan' = Abandoned /\ child' = "none"
  /\ UNCHANGED <<owned, fwVars, running, booting, netVars, ignored>>

\* A spawned process creates its interface.
LinkAppears(p) ==
  /\ p \in booting /\ p \notin links
  /\ links' = links \cup {p} /\ booting' = booting \ {p}
  /\ UNCHANGED <<owned, pc, g, fwVars, running, orphan, child, linkUp, table,
                 rule, ignored>>

\* The interface goes with the process that made it: an orphan that lingers
\* beside a later process of its name has already lost its own.
ProcessDies(p) ==
  /\ \/ /\ p \in running \cup {child}
        /\ running' = running \ {p}
        /\ child' = IF p = child THEN "none" ELSE child
        /\ booting' = booting \ {p} /\ Vanish(p) /\ UNCHANGED orphan
     \/ /\ p \in orphan /\ orphan' = orphan \ {p}
        /\ UNCHANGED <<running, child>>
        /\ IF p \in running \cup {child}
             THEN UNCHANGED <<booting, netVars>>
             ELSE booting' = booting \ {p} /\ Vanish(p)
  /\ UNCHANGED <<owned, pc, g, fwVars, ignored>>

FirewallRebuild(f) ==
  /\ fw' = {x \in fw : x[1] # f}
  /\ top' = [top EXCEPT ![f] = "none"]
  /\ UNCHANGED <<owned, pc, g, procVars, netVars, ignored>>

Reboot ==
  /\ owned' = "absent" /\ pc' = "idle" /\ g' = 1
  /\ fw' = {} /\ top' = [f \in Family |-> "none"]
  /\ running' = {} /\ orphan' = {} /\ child' = "none" /\ booting' = {}
  /\ links' = {} /\ linkUp' = FALSE /\ table' = {} /\ rule' = FALSE
  /\ ignored' = 0
-----------------------------------------------------------------------------
StartStep ==
  \/ StartBegin \/ WriteOwned \/ GuardStep \/ AddUnreachable \/ AddRule
  \/ Spawn("policy", "spawnPolicy", "pidPolicy")
  \/ WritePid("policy", "pidPolicy", "waitTun")
  \/ Wait("policy", "waitTun", "default")
  \/ AddDefault
  \/ Spawn("engine", "spawnEngine", "pidEngine")
  \/ WritePid("engine", "pidEngine", "waitSock")
  \/ Wait("engine", "waitSock", "configure")
  \/ Configure \/ LinkUp \/ Accept \/ Confirm \/ StartFails

StopStep ==
  \/ StopBegin
  \/ Shut("iptables", "shut4", "shut6")
  \/ Shut("ip6tables", "shut6", "killEngine")
  \/ Kill("engine", "killEngine", "killPolicy")
  \/ Kill("policy", "killPolicy", "delIface")
  \/ DelLink("engine", "delIface", "delTun")
  \/ DelLink("policy", "delTun", "delRule")
  \/ DelRule \/ FlushTable \/ ClearStep \/ Unnoticed \/ Disown

Environment ==
  \/ Crash \/ Reboot
  \/ \E p \in Process : LinkAppears(p) \/ ProcessDies(p)
  \/ \E f \in Family : FirewallRebuild(f)

Next == StartStep \/ StopStep \/ Environment

Spec == Init /\ [][Next]_vars
-----------------------------------------------------------------------------
TypeOK ==
  /\ owned \in {"absent", "torn", "written"} /\ pc \in Phase
  /\ g \in 1..Len(GuardOrder)
  /\ fw \subseteq Family \X Rule
  /\ top \in [Family -> {"none", "DROP", "ACCEPT"}]
  /\ running \subseteq Process /\ orphan \subseteq Process
  /\ child \in Process \cup {"none"} /\ booting \subseteq Process
  /\ links \subseteq Process /\ linkUp \in BOOLEAN
  /\ table \subseteq {"unreachable", "default"} /\ rule \in BOOLEAN
  /\ ignored \in 0..MaxIgnored

\* The public UDP port lets the outer packets of peers in.
Open == <<"iptables", "inUdp">> \in fw /\ top["iptables"] = "ACCEPT"

\* What keeps decrypted IPv4 packets away from the router and from the WAN.
Containment ==
  {<<"iptables", r>> : r \in {"LOCAL", "localDrop", "inLocal", "FWD", "fwdDrop",
                              "fwdIface", "fwdTun"}}

(***************************************************************************)
(* While gr-amn can deliver packets, they are looked up in the private     *)
(* table and that table ends in unreachable: whatever dies, fails or is    *)
(* wiped, they never fall through to the main WAN route.                   *)
(***************************************************************************)
RoutedOnlyThroughPolicy == linkUp => rule /\ "unreachable" \in table

(***************************************************************************)
(* While the port is open and the engine can deliver, every IPv4 guard is  *)
(* in place, even when a firewall rebuild hit the middle of guards().      *)
(***************************************************************************)
IngressGuarded == Open /\ linkUp => Containment \subseteq fw

(***************************************************************************)
(* Without a readable owned.json (no later stop will do anything) and with *)
(* no failure inside stop, no recorded process, rule, route or chain of    *)
(* the lab is left, wherever start or stop was interrupted.                *)
(***************************************************************************)
UnownedIsClean ==
  owned # "written" /\ ignored = 0 =>
    running = {} /\ ~linkUp /\ ~rule /\ table = {} /\ fw = {}

(***************************************************************************)
(* It takes three unnoticed failures of stop (the shutting DROP, the       *)
(* unhooking and the flush) to leave the port open with no owner.          *)
(***************************************************************************)
ClosedWithoutOwner == owned # "written" /\ ignored < 3 => ~Open

(***************************************************************************)
(* "Rollback closes Amn ingress, stops only Amn processes, and removes     *)
(* only its owned rules/interfaces", says the runbook: once stop has given *)
(* ownership up, nothing of the lab is left.                               *)
(***************************************************************************)
StopRemovesEverything ==
  owned = "absent" /\ pc = "idle" =>
    running \cup orphan = {} /\ links = {} /\ ~rule /\ table = {} /\ fw = {}
=============================================================================
