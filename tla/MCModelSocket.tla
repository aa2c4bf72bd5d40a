---------------------------- MODULE MCModelSocket -----------------------------
(* Small instances of ModelSocket for TLC. *)
EXTENDS ModelSocket, TLC

\* Calls are interchangeable: nothing in the specification orders them.  Used
\* by the runs that check no liveness property.
CallSymmetry == Permutations(Calls)
===============================================================================
