------------------------ MODULE MCConsoleCollectors ------------------------
(***************************************************************************)
(* ConsoleCollectors for TLC: what the supervisor does does not depend on  *)
(* the log, nor what the live collector reads on the supervisor, so the    *)
(* log grows only where it alone is enabled, and the container is          *)
(* restarted only where it is not alone.                                   *)
(***************************************************************************)
EXTENDS ConsoleCollectors

MCLines    == [m \in Modes |-> IF m = {"live"} THEN MaxLines ELSE 0]
MCRestarts == [m \in Modes |-> IF m = {"live"} THEN 0 ELSE 1]
=============================================================================
