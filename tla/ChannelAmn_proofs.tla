------------------------- MODULE ChannelAmn_proofs -------------------------
(***************************************************************************)
(* Proofs about the Amn lab controller, for every set of clients and every *)
(* bound on the unnoticed failures of stop: first about start and stop     *)
(* (ChannelAmn), then about sync-peers (AmnPeers).  sync-peers touches     *)
(* nothing of the lab itself, so that all that is proved of ChannelAmn     *)
(* holds with it; what is proved of the clients rests in turn on the lab's *)
(* invariant.                                                              *)
(***************************************************************************)
EXTENDS AmnPeers, TLAPS

(***************************************************************************)
(* The inductive invariant.                                                *)
(***************************************************************************)
UdpChain == <<"iptables", "UDP">>

\* The rules of the IPv4 guards, without their chains.
V4Rules == {<<"iptables", r>> : r \in Hook \cup Body}

\* A rule is installed only in a chain that exists.
FwClosed ==
  \A x \in fw : x[2] \in Hook \cup Body => <<x[1], ChainOf(x[2])>> \in fw

\* A rebuild in the middle of guards() is noticed: no rule goes into a chain
\* that was wiped, so what guards() believes done is done or the UDP chain is
\* missing and ACCEPT will fail.
GuardsSoFar ==
  pc = "guards" /\ UdpChain \in fw =>
    \A j \in 4..12 : j < g => GuardOrder[j] \in fw

FullOrWiped == UdpChain \in fw => V4Rules \subseteq fw

AfterGuards == StartPhase \ {"guards"}

StartSoFar ==
  /\ pc \in AfterGuards => FullOrWiped
  /\ pc \in AfterGuards \ {"unreachable"} => "unreachable" \in table
  /\ pc \in AfterGuards \ {"unreachable", "rule"} => rule

\* Whoever holds gr-amn while start runs is the engine this start spawned.
EngineSoFar ==
  /\ pc \in {"owning", "guards", "unreachable", "rule", "spawnPolicy",
             "pidPolicy", "waitTun", "default", "spawnEngine"} =>
       "engine" \notin links \cup booting
  /\ pc = "pidEngine" /\ "engine" \in links \cup booting => child = "engine"
  /\ pc \in {"waitSock", "configure", "linkup"} /\ "engine" \in links \cup booting =>
       "engine" \in running

LinkUpWhole ==
  linkUp => /\ "engine" \in links /\ "engine" \in running
            /\ rule /\ "unreachable" \in table /\ FullOrWiped

StopSoFar ==
  /\ pc \in StopPhase \ {"shut4", "shut6", "killEngine"} => ~linkUp
  /\ pc = "clear" => g \in 1..Len(ClearOrder)

IInv ==
  /\ TypeOK /\ FwClosed /\ GuardsSoFar /\ StartSoFar /\ EngineSoFar
  /\ LinkUpWhole /\ StopSoFar

LEMMA GuardOrderType ==
  /\ Len(GuardOrder) = 22
  /\ \A j \in 1..22 : GuardOrder[j] \in Family \X Rule
<1>1. Len(GuardOrder) = 22
  BY DEF GuardOrder
<1>2. \A j \in 1..22 : GuardOrder[j] \in Family \X Rule
  BY DEF GuardOrder, Family, Rule, Chain, Hook, Body
<1> QED BY <1>1, <1>2

LEMMA ClearOrderType ==
  /\ Len(ClearOrder) = 20
  /\ \A j \in 1..20 :
       /\ ClearOrder[j][1] \in Family
       /\ ClearOrder[j][2] = "unhook" => ClearOrder[j][3] \in Hook
  BY DEF ClearOrder, TearDown, Family, Hook

\* The fourth to the twelfth command install the IPv4 rules, all of them; the
\* UDP chain is the third.
LEMMA GuardOrderV4 ==
  /\ \A x \in V4Rules : \E j \in 4..12 : GuardOrder[j] = x
  /\ \A j \in 4..12 : GuardOrder[j] \in V4Rules
  /\ \A j \in 1..22 : GuardOrder[j] = UdpChain => j = 3
  BY DEF GuardOrder, V4Rules, UdpChain, Hook, Body

LEMMA InitIInv == Init => IInv
<1> SUFFICES ASSUME Init PROVE IInv
  OBVIOUS
<1> USE DEF Init
<1>1. TypeOK
  <2>1. g \in 1..Len(GuardOrder)
    BY GuardOrderType
  <2>2. top \in [Family -> {"none", "DROP", "ACCEPT"}]
    OBVIOUS
  <2>3. 0 \in 0..MaxIgnored
    BY MaxIgnoredAssumption
  <2> QED BY <2>1, <2>2, <2>3 DEF TypeOK, Phase, Process
<1>2. FwClosed /\ GuardsSoFar /\ StartSoFar /\ EngineSoFar /\ LinkUpWhole /\ StopSoFar
  BY DEF FwClosed, GuardsSoFar, StartSoFar, EngineSoFar, LinkUpWhole, StopSoFar,
         AfterGuards, StartPhase, StopPhase
<1> QED BY <1>1, <1>2 DEF IInv

LEMMA StartKeeps == IInv /\ StartStep => IInv'
<1> SUFFICES ASSUME IInv, StartStep PROVE IInv'
  OBVIOUS
<1> USE GuardOrderType, ClearOrderType
<1> USE DEF IInv, TypeOK, FwClosed, GuardsSoFar, StartSoFar, EngineSoFar,
            LinkUpWhole, StopSoFar, FullOrWiped, AfterGuards, fwVars,
            procVars, netVars, Phase, StartPhase, StopPhase, Process
<1>1. CASE StartBegin
  BY <1>1 DEF StartBegin, Preflight
<1>2. CASE WriteOwned
  BY <1>2 DEF WriteOwned
<1>3. CASE GuardStep
  <2> DEFINE x == GuardOrder[g]
  <2>1. /\ g \in 1..22 /\ x \in Family \X Rule /\ x = <<x[1], x[2]>>
        /\ pc = "guards" /\ Installable(x[1], x[2]) /\ fw' = fw \cup {x}
    BY <1>3 DEF GuardStep
  <2>2. TypeOK'
    <3>1. fw' \subseteq Family \X Rule
      BY <2>1
    <3>2. top' \in [Family -> {"none", "DROP", "ACCEPT"}]
      BY <1>3 DEF GuardStep
    <3>3. g' \in 1..22
      BY <1>3, <2>1 DEF GuardStep
    <3>4. pc' \in {"guards", "unreachable"}
      BY <1>3, <2>1 DEF GuardStep
    <3> QED BY <1>3, <3>1, <3>2, <3>3, <3>4 DEF GuardStep
  <2>3. FwClosed'
    BY <2>1 DEF Installable, Chain, Hook, Body, Rule
  <2>4. UdpChain \in fw' => \A j \in 4..12 : j <= g => GuardOrder[j] \in fw'
    BY <2>1, GuardOrderV4
  <2>5. GuardsSoFar'
    BY <1>3, <2>1, <2>4 DEF GuardStep
  <2>6. StartSoFar'
    <3>1. CASE g = 22
      BY <1>3, <2>1, <2>4, <3>1, GuardOrderV4 DEF GuardStep
    <3>2. CASE g # 22
      BY <1>3, <2>1, <3>2 DEF GuardStep
    <3> QED BY <3>1, <3>2
  <2>7. EngineSoFar' /\ LinkUpWhole' /\ StopSoFar'
    BY <1>3, <2>1 DEF GuardStep
  <2> QED BY <2>2, <2>3, <2>5, <2>6, <2>7
<1>4. CASE AddUnreachable
  BY <1>4 DEF AddUnreachable
<1>5. CASE AddRule
  BY <1>5 DEF AddRule
<1>6. CASE Spawn("policy", "spawnPolicy", "pidPolicy")
  BY <1>6 DEF Spawn
<1>7. CASE WritePid("policy", "pidPolicy", "waitTun")
  BY <1>7 DEF WritePid
<1>8. CASE Wait("policy", "waitTun", "default")
  BY <1>8 DEF Wait
<1>9. CASE AddDefault
  BY <1>9 DEF AddDefault
<1>10. CASE Spawn("engine", "spawnEngine", "pidEngine")
  BY <1>10 DEF Spawn
<1>11. CASE WritePid("engine", "pidEngine", "waitSock")
  BY <1>11 DEF WritePid
<1>12. CASE Wait("engine", "waitSock", "configure")
  BY <1>12 DEF Wait
<1>13. CASE Configure
  BY <1>13 DEF Configure
<1>14. CASE LinkUp
  BY <1>14 DEF LinkUp
<1>15. CASE Accept
  BY <1>15 DEF Accept
<1>16. CASE Confirm
  BY <1>16 DEF Confirm
<1>17. CASE StartFails
  BY <1>17 DEF StartFails, Abandoned
<1> QED BY <1>1, <1>2, <1>3, <1>4, <1>5, <1>6, <1>7, <1>8, <1>9, <1>10, <1>11, <1>12, <1>13, <1>14, <1>15, <1>16, <1>17 DEF StartStep

LEMMA StopKeeps == IInv /\ StopStep => IInv'
<1> SUFFICES ASSUME IInv, StopStep PROVE IInv'
  OBVIOUS
<1> USE GuardOrderType, ClearOrderType
<1> USE DEF IInv, TypeOK, FwClosed, GuardsSoFar, StartSoFar, EngineSoFar,
            LinkUpWhole, StopSoFar, FullOrWiped, AfterGuards, fwVars,
            procVars, netVars, Phase, StartPhase, StopPhase, Process
<1>1. CASE StopBegin
  BY <1>1 DEF StopBegin
<1>2. CASE Shut("iptables", "shut4", "shut6")
  BY <1>2 DEF Shut
<1>3. CASE Shut("ip6tables", "shut6", "killEngine")
  BY <1>3 DEF Shut
<1>4. CASE Kill("engine", "killEngine", "killPolicy")
  <2>1. CASE "engine" \in running
    <3>1. /\ pc = "killEngine" /\ pc' = "killPolicy" /\ running' = running \ {"engine"}
          /\ booting' = booting \ {"engine"} /\ links' = links \ {"engine"}
          /\ linkUp' = FALSE /\ table' = table
          /\ UNCHANGED <<owned, g, fw, top, rule, orphan, child, ignored>>
      BY <1>4, <2>1 DEF Kill, Vanish
    <3>2. TypeOK'
      BY <3>1
    <3>3. FwClosed' /\ GuardsSoFar' /\ StartSoFar' /\ EngineSoFar'
      BY <3>1
    <3>4. LinkUpWhole' /\ StopSoFar'
      BY <3>1
    <3> QED BY <3>2, <3>3, <3>4
  <2>2. CASE "engine" \notin running
    BY <1>4, <2>2 DEF Kill
  <2> QED BY <2>1, <2>2
<1>5. CASE Kill("policy", "killPolicy", "delIface")
  <2>1. CASE "policy" \in running
    <3>1. /\ pc = "killPolicy" /\ pc' = "delIface" /\ running' = running \ {"policy"}
          /\ booting' = booting \ {"policy"} /\ links' = links \ {"policy"}
          /\ linkUp' = linkUp /\ table' = table \ {"default"}
          /\ UNCHANGED <<owned, g, fw, top, rule, orphan, child, ignored>>
      BY <1>5, <2>1 DEF Kill, Vanish
    <3>2. TypeOK'
      BY <3>1
    <3>3. FwClosed' /\ GuardsSoFar' /\ StartSoFar' /\ EngineSoFar'
      BY <3>1
    <3>4. LinkUpWhole' /\ StopSoFar'
      BY <3>1
    <3> QED BY <3>2, <3>3, <3>4
  <2>2. CASE "policy" \notin running
    BY <1>5, <2>2 DEF Kill
  <2> QED BY <2>1, <2>2
<1>6. CASE DelLink("engine", "delIface", "delTun")
  BY <1>6 DEF DelLink, Vanish
<1>7. CASE DelLink("policy", "delTun", "delRule")
  BY <1>7 DEF DelLink, Vanish
<1>8. CASE DelRule
  BY <1>8 DEF DelRule
<1>9. CASE FlushTable
  BY <1>9 DEF FlushTable
<1>10. CASE ClearStep
  <2> DEFINE c == ClearOrder[g]
  <2>1. /\ g \in 1..20 /\ pc = "clear" /\ ~linkUp
        /\ c[1] \in Family /\ (c[2] = "unhook" => c[3] \in Hook)
        /\ fw' = fw \ Removed(c[1], c[2], c[3])
    BY <1>10 DEF ClearStep
  <2>2. TypeOK'
    <3>1. top' \in [Family -> {"none", "DROP", "ACCEPT"}]
      BY <1>10, <2>1 DEF ClearStep
    <3>2. g' \in 1..22 /\ pc' \in {"clear", "disown"}
      BY <1>10, <2>1 DEF ClearStep, AdvanceClear
    <3> QED BY <1>10, <2>1, <3>1, <3>2 DEF ClearStep
  <2>3. FwClosed'
    <3> SUFFICES ASSUME NEW x \in fw', x[2] \in Hook \cup Body
                 PROVE  <<x[1], ChainOf(x[2])>> \in fw'
      OBVIOUS
    <3>1. x \in fw /\ x = <<x[1], x[2]>> /\ <<x[1], ChainOf(x[2])>> \in fw
      BY <2>1
    <3>2. ChainOf(x[2]) \in Chain /\ ChainOf(x[2]) \notin Hook \cup Body
      BY DEF ChainOf, Chain, Hook, Body
    <3>3. CASE c[2] = "unhook"
      BY <2>1, <3>1, <3>2, <3>3 DEF Removed
    <3>4. CASE c[2] = "flush"
      BY <2>1, <3>1, <3>2, <3>4 DEF Removed
    <3>5. CASE c[2] \notin {"unhook", "flush"}
      BY <2>1, <3>1, <3>2, <3>5 DEF Removed, Deletable
    <3> QED BY <3>3, <3>4, <3>5
  <2>4. pc' \in {"clear", "disown"} /\ (pc' = "clear" => g' \in 1..20) /\ ~linkUp'
    BY <1>10, <2>1 DEF ClearStep, AdvanceClear
  <2>5. GuardsSoFar' /\ StartSoFar' /\ EngineSoFar' /\ LinkUpWhole' /\ StopSoFar'
    BY <2>4
  <2> QED BY <2>2, <2>3, <2>5
<1>11. CASE Unnoticed
  <2>1. TypeOK'
    <3>1. g' \in 1..22 /\ pc' \in Phase
      BY <1>11 DEF Unnoticed, AdvanceClear
    <3>2. ignored' \in 0..MaxIgnored
      BY <1>11, MaxIgnoredAssumption DEF Unnoticed
    <3> QED BY <1>11, <3>1, <3>2 DEF Unnoticed
  <2>2. FwClosed'
    BY <1>11 DEF Unnoticed
  <2>3. GuardsSoFar' /\ StartSoFar' /\ EngineSoFar' /\ LinkUpWhole' /\ StopSoFar'
    BY <1>11 DEF Unnoticed, AdvanceClear
  <2> QED BY <2>1, <2>2, <2>3
<1>12. CASE Disown
  BY <1>12 DEF Disown
<1> QED BY <1>1, <1>2, <1>3, <1>4, <1>5, <1>6, <1>7, <1>8, <1>9, <1>10, <1>11, <1>12 DEF StopStep

LEMMA EnvironmentKeeps == IInv /\ Environment => IInv'
<1> SUFFICES ASSUME IInv, Environment PROVE IInv'
  OBVIOUS
<1> USE GuardOrderType, ClearOrderType
<1> USE DEF IInv, TypeOK, FwClosed, GuardsSoFar, StartSoFar, EngineSoFar,
            LinkUpWhole, StopSoFar, FullOrWiped, AfterGuards, fwVars,
            procVars, netVars, Phase, StartPhase, StopPhase, Process
<1>1. CASE Crash
  BY <1>1 DEF Crash, Abandoned
<1>2. CASE Reboot
  <2>1. TypeOK'
    <3>1. top' \in [Family -> {"none", "DROP", "ACCEPT"}]
      BY <1>2 DEF Reboot
    <3>2. ignored' \in 0..MaxIgnored
      BY <1>2, MaxIgnoredAssumption DEF Reboot
    <3>3. g' \in 1..22 /\ pc' \in Phase
      BY <1>2 DEF Reboot
    <3> QED BY <1>2, <3>1, <3>2, <3>3 DEF Reboot
  <2>2. /\ FwClosed' /\ GuardsSoFar' /\ StartSoFar'
        /\ EngineSoFar' /\ LinkUpWhole' /\ StopSoFar'
    BY <1>2 DEF Reboot
  <2> QED BY <2>1, <2>2
<1>3. ASSUME NEW p \in Process, LinkAppears(p) PROVE IInv'
  BY <1>3 DEF LinkAppears
<1>4. ASSUME NEW p \in Process, ProcessDies(p) PROVE IInv'
  <2>1. TypeOK'
    <3>1. /\ running' \subseteq Process /\ orphan' \subseteq Process
          /\ booting' \subseteq Process /\ child' \in Process \cup {"none"}
      BY <1>4 DEF ProcessDies, Vanish
    <3>2. /\ links' \subseteq Process /\ linkUp' \in BOOLEAN /\ rule' = rule
          /\ table' \subseteq {"unreachable", "default"}
      BY <1>4 DEF ProcessDies, Vanish
    <3> QED BY <1>4, <3>1, <3>2 DEF ProcessDies
  <2>2. FwClosed' /\ GuardsSoFar'
    BY <1>4 DEF ProcessDies
  <2>3. StartSoFar'
    BY <1>4 DEF ProcessDies, Vanish
  <2>4. EngineSoFar'
    BY <1>4 DEF ProcessDies, Vanish
  <2>5. LinkUpWhole' /\ StopSoFar'
    BY <1>4 DEF ProcessDies, Vanish
  <2> QED BY <2>1, <2>2, <2>3, <2>4, <2>5
<1>5. ASSUME NEW f \in Family, FirewallRebuild(f) PROVE IInv'
  <2>1. /\ fw' \subseteq fw
        /\ \A x \in fw : x \in fw' <=> x[1] # f
    BY <1>5 DEF FirewallRebuild
  <2>2. \/ fw' \cap V4Rules = fw \cap V4Rules /\ (UdpChain \in fw' <=> UdpChain \in fw)
        \/ UdpChain \notin fw'
    BY <2>1 DEF V4Rules, UdpChain, Family
  <2>3. TypeOK'
    <3>1. top' \in [Family -> {"none", "DROP", "ACCEPT"}]
      BY <1>5 DEF FirewallRebuild
    <3> QED BY <1>5, <2>1, <3>1 DEF FirewallRebuild
  <2>4. FwClosed'
    BY <2>1
  <2>5. GuardsSoFar'
    BY <1>5, <2>2, GuardOrderV4 DEF FirewallRebuild
  <2>6. FullOrWiped => FullOrWiped'
    BY <2>2
  <2>7. StartSoFar' /\ EngineSoFar' /\ LinkUpWhole' /\ StopSoFar'
    BY <1>5, <2>6 DEF FirewallRebuild
  <2> QED BY <2>3, <2>4, <2>5, <2>7
<1> QED BY <1>1, <1>2, <1>3, <1>4, <1>5 DEF Environment

THEOREM Invariance == Spec => []IInv
<1>1. IInv /\ UNCHANGED vars => IInv'
  BY DEF IInv, TypeOK, FwClosed, GuardsSoFar, StartSoFar, EngineSoFar,
         LinkUpWhole, StopSoFar, FullOrWiped, vars
<1>2. IInv /\ [Next]_vars => IInv'
  BY <1>1, StartKeeps, StopKeeps, EnvironmentKeeps DEF Next
<1> QED BY InitIInv, <1>2, PTL DEF Spec

(***************************************************************************)
(* Every variable of the controller stays in its type.                     *)
(***************************************************************************)
THEOREM TypeCorrect == Spec => []TypeOK
<1>1. IInv => TypeOK
  BY DEF IInv
<1> QED BY <1>1, Invariance, PTL

(***************************************************************************)
(* While gr-amn delivers packets they are looked up in the private table,  *)
(* which ends in unreachable: start adds both before the engine exists and *)
(* stop removes them only once the interface is gone.                      *)
(***************************************************************************)
THEOREM PolicyRouteHolds == Spec => []RoutedOnlyThroughPolicy
<1>1. IInv => RoutedOnlyThroughPolicy
  BY DEF IInv, LinkUpWhole, RoutedOnlyThroughPolicy
<1> QED BY <1>1, Invariance, PTL

(***************************************************************************)
(* With the port open and gr-amn up, every IPv4 guard is installed: a      *)
(* rebuild that hits the middle of guards() leaves no chain for the rest   *)
(* of the commands to fill.                                                *)
(***************************************************************************)
THEOREM GuardsHold == Spec => []IngressGuarded
<1>1. ASSUME IInv, Open, linkUp PROVE Containment \subseteq fw
  <2>1. UdpChain \in fw
    BY <1>1 DEF IInv, FwClosed, Open, UdpChain, ChainOf, Hook
  <2>2. V4Rules \subseteq fw
    BY <1>1, <2>1 DEF IInv, LinkUpWhole, FullOrWiped
  <2>3. \A r \in {"localDrop", "inLocal", "fwdDrop", "fwdIface", "fwdTun"} :
          <<"iptables", r>> \in fw
    BY <2>2 DEF V4Rules, Hook, Body
  <2>4. <<"iptables", "LOCAL">> \in fw /\ <<"iptables", "FWD">> \in fw
    BY <1>1, <2>3 DEF IInv, FwClosed, ChainOf, Hook, Body
  <2> QED BY <2>3, <2>4 DEF Containment
<1>2. IInv => IngressGuarded
  BY <1>1 DEF IngressGuarded
<1> QED BY <1>2, Invariance, PTL
-----------------------------------------------------------------------------
(***************************************************************************)
(* What stop has done when it gives ownership up.  Each command that may   *)
(* fail unnoticed is counted in ignored; what follows says, for each place *)
(* of pc, what is gone if none has failed, and how many must have failed   *)
(* for the port to be open still.                                          *)
(***************************************************************************)
OwnedSoFar ==
  /\ pc \in StartPhase \cup StopPhase => owned = "written"
  /\ pc = "owning" => owned = "torn"
  /\ pc \notin {"pidPolicy", "pidEngine"} => child = "none"

UdpDrop == <<"iptables", "udpDrop">>
UdpHook == <<"iptables", "inUdp">>
Accepts == top["iptables"] = "ACCEPT"

\* The chain that accepts exists, and cannot be deleted while it is filled.
AcceptSoFar == Accepts => {UdpChain, UdpDrop} \subseteq fw

AfterShut == StopPhase \ {"shut4"}

OpenCost ==
  /\ pc \in AfterShut /\ Accepts => ignored >= 1
  /\ pc = "clear" /\ g > 2 /\ Open => ignored >= 2
  /\ pc = "clear" /\ g > 9 /\ Open => ignored >= 3
  /\ pc = "disown" /\ Open => ignored >= 3
  /\ owned # "written" /\ Open => ignored >= 3

\* What a command of ClearOrder is meant to remove.
Swept(c) ==
  IF c[2] = "flush" THEN {<<c[1], r>> : r \in {b \in Body : ChainOf(b) = c[3]}}
                    ELSE {<<c[1], c[3]>>}

Clean == running = {} /\ ~linkUp /\ ~rule /\ table = {} /\ fw = {}

CleanSoFar ==
  /\ pc \in AfterShut \ {"shut6", "killEngine"} => "engine" \notin running
  /\ pc \in AfterShut \ {"shut6", "killEngine", "killPolicy"} => "policy" \notin running
  /\ pc \in {"flush", "clear", "disown"} => ~rule
  /\ pc \in {"clear", "disown"} => table = {}
  /\ pc = "clear" => \A j \in 1..20 : j < g => Swept(ClearOrder[j]) \cap fw = {}
  /\ pc = "disown" => fw = {}
  /\ owned # "written" => Clean

CInv == OwnedSoFar /\ AcceptSoFar /\ OpenCost /\ (ignored = 0 => CleanSoFar)

\* A chain is deleted only after its rules and the hooks to it; in the end every
\* rule has had its command.  Commands 2 and 9 close the port.
LEMMA ClearOrderSweeps ==
  /\ \A i \in 1..20 : ClearOrder[i][2] = "delete" =>
       \A r \in Hook \cup Body : ChainOf(r) = ClearOrder[i][3] =>
         \E j \in 1..20 : j < i /\ <<ClearOrder[i][1], r>> \in Swept(ClearOrder[j])
  /\ \A x \in Family \X Rule : \E j \in 1..20 : x \in Swept(ClearOrder[j])
  /\ ClearOrder[2] = <<"iptables", "unhook", "inUdp">>
  /\ ClearOrder[9] = <<"iptables", "flush", "UDP">>
<1>1. \A i \in 1..20 : ClearOrder[i][2] = "delete" =>
        \A r \in Hook \cup Body : ChainOf(r) = ClearOrder[i][3] =>
          \E j \in 1..20 : j < i /\ <<ClearOrder[i][1], r>> \in Swept(ClearOrder[j])
  BY DEF ClearOrder, TearDown, Swept, Hook, Body, ChainOf
<1>2. \A x \in Family \X Rule : \E j \in 1..20 : x \in Swept(ClearOrder[j])
  BY DEF ClearOrder, TearDown, Swept, Family, Rule, Chain, Hook, Body, ChainOf
<1>3. /\ ClearOrder[2] = <<"iptables", "unhook", "inUdp">>
      /\ ClearOrder[9] = <<"iptables", "flush", "UDP">>
  BY DEF ClearOrder, TearDown
<1> QED BY <1>1, <1>2, <1>3

LEMMA InitCInv == Init => CInv
  BY DEF Init, CInv, OwnedSoFar, AcceptSoFar, Accepts, OpenCost, Open, CleanSoFar,
         Clean, StartPhase, StopPhase, AfterShut, Family

LEMMA StartKeepsC == IInv /\ CInv /\ StartStep => CInv'
<1> SUFFICES ASSUME IInv, CInv, StartStep PROVE CInv'
  OBVIOUS
<1> USE DEF IInv, TypeOK, StartSoFar, FullOrWiped, AfterGuards, CInv, OwnedSoFar, AcceptSoFar,
            Accepts, OpenCost, Open, CleanSoFar, Clean, AfterShut, fwVars, procVars, netVars,
            StartPhase, StopPhase
<1>1. CASE StartBegin
  BY <1>1 DEF StartBegin, Preflight
<1>2. CASE WriteOwned
  BY <1>2 DEF WriteOwned
<1>3. CASE GuardStep
  <2>1. pc = "guards" /\ pc' \in {"guards", "unreachable"} /\ fw \subseteq fw'
    BY <1>3 DEF GuardStep
  <2>2. top'["iptables"] = "ACCEPT" => Accepts
    BY <1>3 DEF GuardStep, Family
  <2> QED BY <1>3, <2>1, <2>2 DEF GuardStep
<1>4. CASE AddUnreachable
  BY <1>4 DEF AddUnreachable
<1>5. CASE AddRule
  BY <1>5 DEF AddRule
<1>6. CASE Spawn("policy", "spawnPolicy", "pidPolicy")
  BY <1>6 DEF Spawn
<1>7. CASE WritePid("policy", "pidPolicy", "waitTun")
  BY <1>7 DEF WritePid
<1>8. CASE Wait("policy", "waitTun", "default")
  BY <1>8 DEF Wait
<1>9. CASE AddDefault
  BY <1>9 DEF AddDefault
<1>10. CASE Spawn("engine", "spawnEngine", "pidEngine")
  BY <1>10 DEF Spawn
<1>11. CASE WritePid("engine", "pidEngine", "waitSock")
  BY <1>11 DEF WritePid
<1>12. CASE Wait("engine", "waitSock", "configure")
  BY <1>12 DEF Wait
<1>13. CASE Configure
  BY <1>13 DEF Configure
<1>14. CASE LinkUp
  BY <1>14 DEF LinkUp
<1>15. CASE Accept
  <2>1. UdpDrop \in V4Rules
    BY DEF UdpDrop, V4Rules, Body
  <2>2. AcceptSoFar'
    BY <1>15, <2>1 DEF Accept, UdpChain
  <2> QED BY <1>15, <2>2 DEF Accept
<1>16. CASE Confirm
  BY <1>16 DEF Confirm
<1>17. CASE StartFails
  BY <1>17 DEF StartFails
<1> QED BY <1>1, <1>2, <1>3, <1>4, <1>5, <1>6, <1>7, <1>8, <1>9, <1>10, <1>11, <1>12, <1>13, <1>14, <1>15, <1>16, <1>17 DEF StartStep

LEMMA StopKeepsC == IInv /\ CInv /\ StopStep => CInv'
<1> SUFFICES ASSUME IInv, CInv, StopStep PROVE CInv'
  OBVIOUS
<1> USE GuardOrderType, ClearOrderType
<1> USE DEF IInv, TypeOK, StopSoFar, CInv, OwnedSoFar, AcceptSoFar,
            Accepts, OpenCost, Open, CleanSoFar, Clean, AfterShut, fwVars, procVars, netVars,
            StartPhase, StopPhase, Process
<1>1. CASE StopBegin
  BY <1>1 DEF StopBegin
<1>2. CASE Shut("iptables", "shut4", "shut6")
  BY <1>2 DEF Shut, UdpChain, Family
<1>3. CASE Shut("ip6tables", "shut6", "killEngine")
  BY <1>3 DEF Shut, Family
<1>4. CASE Kill("engine", "killEngine", "killPolicy")
  BY <1>4 DEF Kill, Vanish
<1>5. CASE Kill("policy", "killPolicy", "delIface")
  BY <1>5 DEF Kill, Vanish
<1>6. CASE DelLink("engine", "delIface", "delTun")
  BY <1>6 DEF DelLink, Vanish
<1>7. CASE DelLink("policy", "delTun", "delRule")
  BY <1>7 DEF DelLink, Vanish
<1>8. CASE DelRule
  BY <1>8 DEF DelRule
<1>9. CASE FlushTable
  BY <1>9 DEF FlushTable
<1>10. CASE ClearStep
  <2> DEFINE c == ClearOrder[g]
  <2>1. /\ g \in 1..20 /\ pc = "clear" /\ owned = "written" /\ child = "none"
        /\ c[1] \in Family /\ (c[2] = "unhook" => c[3] \in Hook)
        /\ fw' = fw \ Removed(c[1], c[2], c[3])
        /\ top' = (IF c[2] = "flush" /\ c[3] = "UDP" THEN [top EXCEPT ![c[1]] = "none"] ELSE top)
        /\ (g < 20 => pc' = "clear" /\ g' = g + 1) /\ (g = 20 => pc' = "disown" /\ g' = 1)
        /\ UNCHANGED <<owned, running, child, linkUp, rule, table, ignored>>
    BY <1>10 DEF ClearStep, AdvanceClear
  <2>2. OwnedSoFar'
    BY <2>1
  <2>3. top'["iptables"] = "ACCEPT" => Accepts /\ {UdpChain, UdpDrop} \subseteq fw'
    <3> SUFFICES ASSUME top'["iptables"] = "ACCEPT" PROVE Accepts /\ {UdpChain, UdpDrop} \subseteq fw'
      OBVIOUS
    <3>1. Accepts /\ ~(c[1] = "iptables" /\ c[2] = "flush" /\ c[3] = "UDP")
      BY <2>1 DEF Family
    <3>2. {UdpChain, UdpDrop} \subseteq fw
      BY <3>1
    <3>3. UdpChain \notin Removed(c[1], c[2], c[3]) /\ UdpDrop \notin Removed(c[1], c[2], c[3])
      <4>1. CASE c[2] = "unhook"
        BY <2>1, <4>1 DEF Removed, UdpChain, UdpDrop, Hook
      <4>2. CASE c[2] = "flush"
        BY <3>1, <4>2 DEF Removed, UdpChain, UdpDrop, Body, ChainOf
      <4>3. CASE c[2] \notin {"unhook", "flush"}
        <5>1. CASE c[1] = "iptables" /\ c[3] = "UDP"
          BY <3>2, <4>3, <5>1 DEF Removed, Deletable, UdpChain, UdpDrop, Body, ChainOf
        <5>2. CASE ~(c[1] = "iptables" /\ c[3] = "UDP")
          <6>1. c[3] # "udpDrop"
            BY <2>1, <4>3 DEF ClearOrder, TearDown
          <6> QED BY <4>3, <5>2, <6>1 DEF Removed, UdpChain, UdpDrop
        <5> QED BY <5>1, <5>2
      <4> QED BY <4>1, <4>2, <4>3
    <3> QED BY <2>1, <3>1, <3>2, <3>3
  <2>4. OpenCost'
    <3>1. fw' \subseteq fw
      BY <2>1
    <3>2. g = 2 => UdpHook \notin fw'
      BY <2>1, ClearOrderSweeps DEF Removed, UdpHook
    <3>3. g = 9 => top'["iptables"] # "ACCEPT"
      BY <2>1, ClearOrderSweeps DEF Family
    <3>4. Open' => Open /\ g # 2 /\ g # 9
      BY <2>3, <3>1, <3>2, <3>3 DEF UdpHook
    <3> QED BY <2>1, <2>3, <3>4
  <2>5. ignored = 0 => CleanSoFar'
    <3> SUFFICES ASSUME ignored = 0 PROVE CleanSoFar'
      OBVIOUS
    <3>1. \A j \in 1..20 : j < g => Swept(ClearOrder[j]) \cap fw = {}
      BY <2>1
    <3>2. Swept(c) \cap fw' = {}
      <4>1. CASE c[2] = "unhook"
        BY <2>1, <4>1 DEF Removed, Swept
      <4>2. CASE c[2] = "flush"
        BY <2>1, <4>2 DEF Removed, Swept
      <4>3. CASE c[2] \notin {"unhook", "flush"}
        <5>1. c[2] = "delete"
          BY <2>1, <4>3 DEF ClearOrder, TearDown
        <5>2. Deletable(c[1], c[3])
          BY <2>1, <3>1, <5>1, ClearOrderSweeps DEF Deletable
        <5> QED BY <2>1, <5>1, <5>2 DEF Removed, Swept
      <4> QED BY <4>1, <4>2, <4>3
    <3>3. \A j \in 1..20 : j <= g => Swept(ClearOrder[j]) \cap fw' = {}
      BY <2>1, <3>1, <3>2
    <3>4. g = 20 => fw' = {}
      BY <2>1, <3>3, ClearOrderSweeps
    <3>5. "engine" \notin running' /\ "policy" \notin running' /\ ~rule' /\ table' = {}
      BY <2>1
    <3>6. pc' = "disown" => fw' = {}
      BY <2>1, <3>4
    <3>7. pc' = "clear" => \A j \in 1..20 : j < g' => Swept(ClearOrder[j]) \cap fw' = {}
      <4> HIDE DEF IInv, CInv, c
      <4>1. pc' = "clear" => g < 20 /\ g' = g + 1 /\ g \in Nat
        BY <2>1
      <4> QED BY <3>3, <4>1
    <3>8. owned' = "written" /\ pc' \in {"clear", "disown"}
      BY <2>1
    <3> HIDE DEF IInv, CInv, c
    <3> QED BY <3>5, <3>6, <3>7, <3>8
  <2> QED BY <2>1, <2>2, <2>3, <2>4, <2>5
<1>11. CASE Unnoticed
  <2>1. ignored' = ignored + 1 /\ ignored \in Nat
    BY <1>11, MaxIgnoredAssumption DEF Unnoticed
  <2>2. OwnedSoFar' /\ AcceptSoFar'
    BY <1>11 DEF Unnoticed, AdvanceClear
  <2>3. OpenCost'
    BY <1>11, <2>1 DEF Unnoticed, AdvanceClear
  <2> QED BY <2>1, <2>2, <2>3
<1>12. CASE Disown
  BY <1>12 DEF Disown
<1> QED BY <1>1, <1>2, <1>3, <1>4, <1>5, <1>6, <1>7, <1>8, <1>9, <1>10, <1>11, <1>12 DEF StopStep

LEMMA EnvironmentKeepsC == IInv /\ CInv /\ Environment => CInv'
<1> SUFFICES ASSUME IInv, CInv, Environment PROVE CInv'
  OBVIOUS
<1> USE DEF IInv, TypeOK, CInv, OwnedSoFar, AcceptSoFar,
            Accepts, OpenCost, Open, CleanSoFar, Clean, AfterShut, fwVars, procVars, netVars,
            StartPhase, StopPhase, Process
<1>1. CASE Crash
  BY <1>1 DEF Crash
<1>2. CASE Reboot
  BY <1>2 DEF Reboot, Family
<1>3. ASSUME NEW p \in Process, LinkAppears(p) PROVE CInv'
  BY <1>3 DEF LinkAppears
<1>4. ASSUME NEW p \in Process, ProcessDies(p) PROVE CInv'
  <2>1. /\ running' \subseteq running /\ table' \subseteq table /\ rule' = rule
        /\ (linkUp' => linkUp) /\ (child = "none" => child' = "none")
        /\ UNCHANGED <<owned, pc, g, fw, top, ignored>>
    BY <1>4 DEF ProcessDies, Vanish
  <2> QED BY <2>1
<1>5. ASSUME NEW f \in Family, FirewallRebuild(f) PROVE CInv'
  <2>1. /\ fw' \subseteq fw
        /\ \A x \in fw : x \in fw' <=> x[1] # f
        /\ top'["iptables"] = "ACCEPT" => Accepts /\ f # "iptables"
    BY <1>5 DEF FirewallRebuild, Family
  <2>2. UNCHANGED <<owned, pc, g, running, child, linkUp, rule, table, ignored>>
    BY <1>5 DEF FirewallRebuild
  <2>3. AcceptSoFar'
    BY <2>1 DEF UdpChain, UdpDrop
  <2> QED BY <2>1, <2>2, <2>3
<1> QED BY <1>1, <1>2, <1>3, <1>4, <1>5 DEF Environment

LEMMA CInvariance == Spec => []CInv
<1>1. CInv /\ UNCHANGED vars => CInv'
  BY DEF CInv, OwnedSoFar, AcceptSoFar, Accepts, OpenCost, Open, CleanSoFar, Clean, vars
<1>2. IInv /\ CInv /\ [Next]_vars => CInv'
  BY <1>1, StartKeepsC, StopKeepsC, EnvironmentKeepsC DEF Next
<1> QED BY InitCInv, <1>2, Invariance, PTL DEF Spec

(***************************************************************************)
(* When no readable owned.json is left and nothing failed inside stop, no  *)
(* recorded process, rule, route or chain is: every command of stop leaves *)
(* what it is to remove removed, so that in the end all of it is.          *)
(***************************************************************************)
THEOREM NothingIsLeft == Spec => []UnownedIsClean
<1>1. CInv => UnownedIsClean
  BY DEF CInv, CleanSoFar, Clean, UnownedIsClean
<1> QED BY <1>1, CInvariance, PTL

(***************************************************************************)
(* It takes three unnoticed failures of stop to leave the port open with   *)
(* no owner, whatever else has failed and however often stop was run.      *)
(***************************************************************************)
THEOREM PortIsClosed == Spec => []ClosedWithoutOwner
<1>1. IInv /\ CInv => ClosedWithoutOwner
  BY MaxIgnoredAssumption DEF IInv, TypeOK, CInv, OpenCost, ClosedWithoutOwner
<1> QED BY <1>1, Invariance, CInvariance, PTL

-----------------------------------------------------------------------------

(***************************************************************************)
(* The controller with sync-peers is the controller: every step of it is   *)
(* a step of ChannelAmn or changes nothing there.                          *)
(***************************************************************************)
THEOREM PeersImplementLab == PeersSpec => Spec
<1>1. PeersInit => Init
  BY DEF PeersInit
<1>2. ASSUME [PeersNext]_allVars PROVE [Next]_vars
  BY <1>2 DEF PeersNext, SyncStep, Stage, LabStep, World, RouterReboots, Next, Environment,
              allVars
<1> QED BY <1>1, <1>2, PTL DEF PeersSpec, Spec

-----------------------------------------------------------------------------
PeersType ==
  /\ staged \subseteq Peer /\ recorded \subseteq Peer /\ served \subseteq Peer
  /\ wanted \subseteq Peer /\ additions \subseteq Peer
  /\ sync \in SyncPhase /\ broken \in BOOLEAN

\* The engine that start configures is the one whose interface is there.
EngineOnce ==
  /\ ~("engine" \in links /\ "engine" \in booting)
  /\ pc = "linkup" => "engine" \notin booting
  /\ pc = "linkup" /\ "engine" \in links => served = wanted

\* Start records what it configures; sync-peers runs alone, adds what is not on
\* record, and records what the engine has been found to know.
SyncSoFar ==
  /\ pc \in StartPhase => wanted = recorded
  /\ sync # "none" => pc = "idle" /\ owned = "written" /\ additions \cap recorded = {}
  /\ owned # "written" => recorded = {}
  /\ sync = "record" /\ linkUp => served = wanted

ServedSoFar ==
  linkUp => /\ recorded \subseteq served
            /\ ~broken /\ sync \in {"none", "add", "restore"} => served = recorded
            /\ ~broken => served \subseteq recorded \cup additions

PInv == PeersType /\ EngineOnce /\ SyncSoFar /\ ServedSoFar

LEMMA InitPInv == PeersInit => PInv
  BY PeersAssumption DEF PeersInit, Init, PInv, PeersType, SyncPhase, EngineOnce, SyncSoFar, ServedSoFar,
         StartPhase

LEMMA SyncKeeps == IInv /\ PInv /\ SyncStep => PInv'
<1> SUFFICES ASSUME IInv, PInv, SyncStep PROVE PInv'
  OBVIOUS
<1>1. /\ UNCHANGED <<owned, pc, links, booting, linkUp>>
      /\ linkUp => Answers
  BY DEF SyncStep, vars, IInv, LinkUpWhole, Answers
<1> USE <1>1 DEF PInv, PeersType, SyncPhase, EngineOnce, SyncSoFar, ServedSoFar, StartPhase, Done
<1>2. CASE SyncBegin
  BY <1>2 DEF SyncBegin, Acceptable
<1>3. CASE Add
  BY <1>3 DEF Add
<1>4. CASE AddFails
  BY <1>4 DEF AddFails
<1>5. CASE Verify
  BY <1>5 DEF Verify
<1>6. CASE LaterFails
  BY <1>6 DEF LaterFails
<1>7. CASE Record
  BY <1>7 DEF Record
<1>8. CASE Undo
  BY <1>8 DEF Undo
<1>9. CASE UndoFails
  BY <1>9 DEF UndoFails
<1>10. CASE Restore
  BY <1>10 DEF Restore
<1>11. CASE SyncKilled
  BY <1>11 DEF SyncKilled
<1> QED BY <1>2, <1>3, <1>4, <1>5, <1>6, <1>7, <1>8, <1>9, <1>10, <1>11 DEF SyncStep

\* What a step of start or stop does to what sync-peers looks at.
LabEffect ==
  /\ links' \subseteq links
  /\ "engine" \in booting' => "engine" \in booting \/ "engine" \notin links
  /\ linkUp' => linkUp \/ (pc = "linkup" /\ "engine" \in links)
  /\ pc' = "linkup" => pc = "configure" /\ "engine" \in links /\ UNCHANGED <<links, booting>>
  /\ pc' \in StartPhase => pc \in StartPhase \/ (pc = "owning" /\ pc' = "guards")
  /\ pc = "owning" /\ pc' = "guards" => owned' = "written"
  /\ owned' # "written" => ~linkUp \/ owned # "written"
  /\ pc \in StartPhase => owned' = owned

LEMMA StartEffect == IInv /\ StartStep => LabEffect
<1> SUFFICES ASSUME IInv, StartStep PROVE LabEffect
  OBVIOUS
<1> USE DEF LabEffect, IInv, TypeOK, LinkUpWhole, EngineSoFar, StopSoFar, StartPhase, StopPhase,
            fwVars, procVars, netVars
<1>1. CASE StartBegin
  BY <1>1 DEF StartBegin, Preflight
<1>2. CASE WriteOwned
  BY <1>2 DEF WriteOwned
<1>3. CASE GuardStep
  BY <1>3 DEF GuardStep
<1>4. CASE AddUnreachable
  BY <1>4 DEF AddUnreachable
<1>5. CASE AddRule
  BY <1>5 DEF AddRule
<1>6. CASE Spawn("policy", "spawnPolicy", "pidPolicy")
  BY <1>6 DEF Spawn
<1>7. CASE WritePid("policy", "pidPolicy", "waitTun")
  BY <1>7 DEF WritePid
<1>8. CASE Wait("policy", "waitTun", "default")
  BY <1>8 DEF Wait
<1>9. CASE AddDefault
  BY <1>9 DEF AddDefault
<1>10. CASE Spawn("engine", "spawnEngine", "pidEngine")
  BY <1>10 DEF Spawn
<1>11. CASE WritePid("engine", "pidEngine", "waitSock")
  BY <1>11 DEF WritePid
<1>12. CASE Wait("engine", "waitSock", "configure")
  BY <1>12 DEF Wait
<1>13. CASE Configure
  BY <1>13 DEF Configure
<1>14. CASE LinkUp
  BY <1>14 DEF LinkUp
<1>15. CASE Accept
  BY <1>15 DEF Accept
<1>16. CASE Confirm
  BY <1>16 DEF Confirm
<1>17. CASE StartFails
  BY <1>17 DEF StartFails
<1> QED BY <1>1, <1>2, <1>3, <1>4, <1>5, <1>6, <1>7, <1>8, <1>9, <1>10, <1>11, <1>12, <1>13, <1>14, <1>15, <1>16, <1>17 DEF StartStep

LEMMA StopEffect == IInv /\ StopStep => LabEffect
<1> SUFFICES ASSUME IInv, StopStep PROVE LabEffect
  OBVIOUS
<1> USE DEF LabEffect, IInv, TypeOK, LinkUpWhole, EngineSoFar, StopSoFar, StartPhase, StopPhase,
            fwVars, procVars, netVars
<1>1. CASE StopBegin
  BY <1>1 DEF StopBegin
<1>2. CASE Shut("iptables", "shut4", "shut6")
  BY <1>2 DEF Shut
<1>3. CASE Shut("ip6tables", "shut6", "killEngine")
  BY <1>3 DEF Shut
<1>4. CASE Kill("engine", "killEngine", "killPolicy")
  BY <1>4 DEF Kill, Vanish
<1>5. CASE Kill("policy", "killPolicy", "delIface")
  BY <1>5 DEF Kill, Vanish
<1>6. CASE DelLink("engine", "delIface", "delTun")
  BY <1>6 DEF DelLink, Vanish
<1>7. CASE DelLink("policy", "delTun", "delRule")
  BY <1>7 DEF DelLink, Vanish
<1>8. CASE DelRule
  BY <1>8 DEF DelRule
<1>9. CASE FlushTable
  BY <1>9 DEF FlushTable
<1>10. CASE ClearStep
  BY <1>10 DEF ClearStep, AdvanceClear
<1>11. CASE Unnoticed
  BY <1>11 DEF Unnoticed, AdvanceClear
<1>12. CASE Disown
  BY <1>12 DEF Disown
<1> QED BY <1>1, <1>2, <1>3, <1>4, <1>5, <1>6, <1>7, <1>8, <1>9, <1>10, <1>11, <1>12 DEF StopStep

LEMMA CrashEffect == IInv /\ Crash => LabEffect
  BY DEF LabEffect, IInv, TypeOK, Crash, StartPhase, procVars, netVars

LEMMA LabKeeps == IInv /\ CInv /\ PInv /\ IInv' /\ LabStep => PInv'
<1> SUFFICES ASSUME IInv, CInv, PInv, IInv', LabStep PROVE PInv'
  OBVIOUS
<1>1. LabEffect
  BY StartEffect, StopEffect, CrashEffect DEF LabStep
<1>2. Clients /\ Engine /\ sync = "none" /\ sync' = "none"
  BY DEF LabStep, Clients
<1>3. linkUp' => "engine" \in links'
  BY DEF IInv, LinkUpWhole
<1>4. linkUp => pc # "owning" /\ "engine" \in links
  BY DEF IInv, EngineSoFar, LinkUpWhole
<1>5. pc \in StartPhase => wanted = recorded /\ owned = "written" /\ owned' = "written"
  BY <1>1 DEF PInv, SyncSoFar, CInv, OwnedSoFar, LabEffect
<1>6. PeersType'
  BY <1>2 DEF PInv, PeersType, Clients, Engine, SyncPhase
<1>7. EngineOnce'
  BY <1>1, <1>2 DEF PInv, EngineOnce, LabEffect, Engine, Clients
<1>8. SyncSoFar'
  <2>1. ASSUME pc' \in StartPhase PROVE wanted' = recorded'
    <3>1. CASE pc \in StartPhase
      BY <1>2, <1>5, <2>1, <3>1 DEF Clients, StartPhase
    <3>2. CASE pc = "owning" /\ pc' = "guards"
      BY <1>2, <3>2 DEF Clients
    <3> QED BY <1>1, <2>1, <3>1, <3>2 DEF LabEffect
  <2>2. owned' # "written" => recorded' = {}
    BY <1>1, <1>2 DEF Clients, LabEffect
  <2> QED BY <1>2, <2>1, <2>2 DEF SyncSoFar
<1>9. ServedSoFar'
  <2> SUFFICES ASSUME linkUp'
               PROVE  /\ recorded' = recorded
                      /\ \/ served' = recorded
                         \/ linkUp /\ served' = served /\ broken' = broken
    BY <1>2 DEF PInv, ServedSoFar, Clients
  <2>1. CASE linkUp
    <3>1. recorded' = recorded
      BY <1>1, <1>2, <1>4, <2>1 DEF Clients, LabEffect, PInv, SyncSoFar
    <3>2. CASE pc = "configure" /\ pc' = "linkup"
      BY <1>2, <1>3, <1>5, <3>1, <3>2 DEF Engine, StartPhase
    <3>3. CASE ~(pc = "configure" /\ pc' = "linkup")
      BY <1>2, <1>3, <2>1, <3>1, <3>3 DEF Engine, PInv, PeersType
    <3> QED BY <3>2, <3>3, <3>1
  <2>2. CASE ~linkUp
    <3>1. pc = "linkup" /\ "engine" \in links
      BY <1>1, <2>2 DEF LabEffect
    <3>2. served = wanted /\ wanted = recorded /\ owned' = "written"
      BY <1>5, <3>1 DEF PInv, EngineOnce, StartPhase
    <3> QED BY <1>2, <1>3, <3>1, <3>2 DEF Engine, Clients
  <2> QED BY <2>1, <2>2
<1> QED BY <1>6, <1>7, <1>8, <1>9 DEF PInv

LEMMA WorldKeeps == IInv /\ PInv /\ IInv' /\ World => PInv'
<1> SUFFICES ASSUME IInv, PInv, IInv', World PROVE PInv'
  OBVIOUS
<1>1. /\ UNCHANGED <<owned, pc, staged, recorded, syncVars>> /\ Engine
      /\ "engine" \in links' => "engine" \in links \/ ("engine" \in booting /\ "engine" \notin booting')
      /\ booting' \subseteq booting
      /\ linkUp' => linkUp
  BY DEF World, LinkAppears, ProcessDies, FirewallRebuild, Vanish, IInv, TypeOK, Process, procVars, netVars
<1>2. linkUp' => "engine" \in links'
  BY DEF IInv, LinkUpWhole
<1>3. PeersType'
  BY <1>1 DEF PInv, PeersType, Engine, syncVars
<1>4. EngineOnce'
  BY <1>1 DEF PInv, EngineOnce, Engine, syncVars
<1>5. SyncSoFar' /\ ServedSoFar'
  BY <1>1, <1>2 DEF PInv, PeersType, SyncSoFar, ServedSoFar, Engine, syncVars
<1> QED BY <1>3, <1>4, <1>5 DEF PInv

LEMMA OthersKeep == PInv /\ (Stage \/ RouterReboots) => PInv'
<1>1. ASSUME PInv, Stage PROVE PInv'
  BY <1>1, PeersAssumption DEF Stage, PInv, PeersType, EngineOnce, SyncSoFar, ServedSoFar, vars, syncVars
<1>2. ASSUME PInv, RouterReboots PROVE PInv'
  BY <1>2 DEF RouterReboots, Reboot, Engine, Done, PInv, PeersType, SyncPhase, EngineOnce, SyncSoFar,
              ServedSoFar, StartPhase
<1> QED BY <1>1, <1>2

LEMMA PeersInvariance == PeersSpec => []PInv
<1>1. PInv /\ UNCHANGED allVars => PInv'
  BY DEF PInv, PeersType, EngineOnce, SyncSoFar, ServedSoFar, allVars, vars, peerVars, syncVars
<1>2. IInv /\ CInv /\ PInv /\ IInv' /\ [PeersNext]_allVars => PInv'
  BY <1>1, SyncKeeps, LabKeeps, WorldKeeps, OthersKeep DEF PeersNext
<1> QED BY InitPInv, <1>2, PeersImplementLab, Invariance, CInvariance, PTL DEF PeersSpec

(***************************************************************************)
(* Every variable of the controller and of sync-peers stays in its type.   *)
(***************************************************************************)
THEOREM PeersTypeCorrect == PeersSpec => []PeersTypeOK
<1>1. IInv /\ PInv => PeersTypeOK
  BY DEF IInv, PInv, PeersType, PeersTypeOK
<1> QED BY <1>1, PeersImplementLab, Invariance, PeersInvariance, PTL

(***************************************************************************)
(* No sync, whichever of its requests fail and wherever it is killed, ever *)
(* takes a client on record out of the engine: the additions it may undo   *)
(* are those the engine did not know, and the engine knew all on record.   *)
(***************************************************************************)
THEOREM ClientsAreServed == PeersSpec => []PeersServed
<1>1. PInv => PeersServed
  BY DEF PInv, ServedSoFar, PeersServed
<1> QED BY <1>1, PeersInvariance, PTL

(***************************************************************************)
(* A sync that was neither killed nor failed to undo its additions leaves  *)
(* the engine with the clients on record and no others.                    *)
(***************************************************************************)
THEOREM SyncIsAtomic == PeersSpec => []AllOrNothing
<1>1. PInv => AllOrNothing
  BY DEF PInv, ServedSoFar, AllOrNothing
<1> QED BY <1>1, PeersInvariance, PTL
=============================================================================
