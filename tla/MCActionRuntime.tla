-------------------------- MODULE MCActionRuntime --------------------------
(***************************************************************************)
(* Instances of ActionRuntime for TLC.                                     *)
(***************************************************************************)
EXTENDS ActionRuntime

CONSTANTS f1, f2, order

\* Two Watches fire for the same business operation.
SharedOperation == [f \in Fires |-> order]
\* The fires have no deduplication key.
NoOperations == [f \in Fires |-> NoOperation]
=============================================================================
