------------------------- MODULE ServicesRefinement -------------------------
(***************************************************************************)
(* The program keeps the contract: a handler is pending from the arrival   *)
(* of its request to the step that writes the reply; cache, globals and    *)
(* network are internal.                                                   *)
(***************************************************************************)
EXTENDS Services

Phase ==
  [r \in Handlers |-> CASE pc[r] = "idle" -> "idle"
                        [] pc[r] = "replied" -> "done"
                        [] OTHER -> "pending"]

Contract == INSTANCE ServicesContract WITH phase <- Phase

(***************************************************************************)
(* Every behaviour of the handlers, whatever the cache, the races on the   *)
(* globals and the Feature Service do, is one the contract allows.         *)
(***************************************************************************)
KeepsContract == Contract!Spec
=============================================================================
