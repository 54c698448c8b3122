--------------------------- MODULE SingBoxService ---------------------------
(***************************************************************************)
(* What the init script of sing-box promises to its callers: each start,   *)
(* stop or restart takes effect in one step at some moment before it       *)
(* returns, or is refused, and only if another call overlapped it or the   *)
(* left-over lock names another process (stuck); at most one sing-box is   *)
(* alive; a start that has run it returns when it is past its start.  An   *)
(* interrupted call has had its effect or not.                             *)
(*                                                                         *)
(* call    what is left of each caller's call                              *)
(* rival   another call has overlapped it                                  *)
(* sb      the sing-box process                                            *)
(* stuck   the lock records the pid of a live process of another kind      *)
(* mistaken  the pid file does, and start takes that for sing-box          *)
(***************************************************************************)
CONSTANT Caller
VARIABLES call, rival, sb, stuck, mistaken

serviceVars == <<call, rival, sb, stuck, mistaken>>

Op == {"start", "stop", "restart"}

Active(c) == call[c] # "idle"
Then(c, s) == call' = [call EXCEPT ![c] = s] /\ UNCHANGED rival
Done(c)    == call' = [call EXCEPT ![c] = "idle"]
              /\ rival' = [rival EXCEPT ![c] = FALSE]

Init ==
  /\ call = [c \in Caller |-> "idle"] /\ rival = [c \in Caller |-> FALSE]
  /\ sb = "dead" /\ stuck = FALSE /\ mistaken = FALSE
-----------------------------------------------------------------------------
Invoke(c, o) ==
  /\ ~Active(c) /\ call' = [call EXCEPT ![c] = o]
  /\ rival' = [k \in Caller |-> IF k = c THEN \E j \in Caller \ {c} : Active(j)
                                         ELSE rival[k] \/ Active(k)]
  /\ UNCHANGED <<sb, stuck, mistaken>>

Refuse(c) ==
  /\ stuck \/ rival[c]
  /\ \/ call[c] = "restart" /\ Then(c, "start")
     \/ call[c] \in {"start", "stop"} /\ Done(c)
  /\ UNCHANGED <<sb, stuck, mistaken>>

Stop(c) ==
  /\ ~stuck
  /\ \/ call[c] = "stop" /\ Then(c, "stopping")
     \/ call[c] = "restart" /\ Then(c, "restarting")
  /\ sb' = IF sb = "dead" THEN sb ELSE "dying"
  /\ mistaken' \in {mistaken, FALSE} /\ UNCHANGED stuck

Stopped(c) ==
  /\ \/ call[c] = "stopping" /\ Then(c, "done")
     \/ call[c] = "restarting" /\ Then(c, "start")
  /\ mistaken' = FALSE /\ UNCHANGED <<sb, stuck>>

Start(c) ==
  /\ call[c] = "start" /\ ~stuck
  /\ \/ sb = "dead" /\ ~mistaken /\ sb' = "starting" /\ Then(c, "settling")
     \/ (sb # "dead" \/ mistaken) /\ UNCHANGED sb /\ Then(c, "done")
  /\ UNCHANGED <<stuck, mistaken>>

Settle(c) ==
  /\ call[c] = "settling" /\ sb # "starting" /\ Then(c, "done")
  /\ UNCHANGED <<sb, stuck, mistaken>>

Return(c) ==
  /\ call[c] = "done" /\ Done(c)
  /\ UNCHANGED <<sb, stuck, mistaken>>

CallStep(c) ==
  Refuse(c) \/ Stop(c) \/ Stopped(c) \/ Start(c) \/ Settle(c) \/ Return(c)
-----------------------------------------------------------------------------
Becomes(from, to) ==
  sb \in from /\ sb' = to /\ UNCHANGED <<call, rival, stuck, mistaken>>

Progress == Becomes({"starting"}, "up") \/ Becomes({"dying"}, "dead")
Lost     == Becomes({"starting", "up"}, "dead")

Killed(c) == Active(c) /\ Done(c) /\ UNCHANGED <<sb, stuck, mistaken>>

Reboot ==
  /\ call' = [c \in Caller |-> "idle"] /\ rival' = [c \in Caller |-> FALSE]
  /\ sb' = "dead" /\ stuck' \in BOOLEAN /\ mistaken' \in BOOLEAN

OtherEnds ==
  /\ \/ stuck /\ stuck' = FALSE /\ UNCHANGED mistaken
     \/ mistaken /\ mistaken' = FALSE /\ UNCHANGED stuck
  /\ UNCHANGED <<call, rival, sb>>

Next ==
  \/ \E c \in Caller : CallStep(c) \/ Killed(c) \/ \E o \in Op : Invoke(c, o)
  \/ Progress \/ Lost \/ Reboot \/ OtherEnds

Spec == Init /\ [][Next]_serviceVars
=============================================================================
