----------------------------- MODULE MCLogWindow ------------------------------
(* Small instances of LogWindow for TLC. *)
EXTENDS LogWindow, TLC

\* Calls are interchangeable.  Used by the runs that check no liveness.
CallSymmetry == Permutations(Calls)
===============================================================================
