--------------------------- MODULE MCSingBoxInit ---------------------------
(***************************************************************************)
(* SingBoxInit for TLC: callers differ only in when they call, daemons in  *)
(* nothing, so both are symmetric.                                         *)
(***************************************************************************)
EXTENDS SingBoxInit, TLC

Symmetry == Permutations(Caller) \cup Permutations(Daemon)

\* After a lock in use has been removed the module promises nothing: TLC checks
\* the state where that happens and goes no further from it.
Untaken == ~taken
=============================================================================
