-------------------------- MODULE SeatsRefinement --------------------------
(***************************************************************************)
(* The program keeps the promise of the seats API: a request is pending    *)
(* until its reply is written, and its checks, its calls and the cache of  *)
(* ids are internal.                                                       *)
(***************************************************************************)
EXTENDS Seats

Phase ==
  [r \in Handlers |-> CASE pc[r] = "idle" -> "idle"
                        [] pc[r] = "replied" -> "done"
                        [] OTHER -> "pending"]

Status == [r \in Handlers |-> IF written[r] = <<>> THEN 0 ELSE Sent(r)]

\* A listing is past the search of the subscriptions.
Looked == [r \in Handlers |-> request[r].kind = "get" /\ at[r] > 3]

Contract == INSTANCE SeatsContract WITH phase <- Phase, status <- Status, looked <- Looked

(***************************************************************************)
(* Every behaviour of the handlers, whichever ids are cached, answers lost *)
(* and seats, users and organisations moved between two calls, is one the  *)
(* contract allows.                                                        *)
(***************************************************************************)
KeepsSeatsContract == Contract!Spec
=============================================================================
