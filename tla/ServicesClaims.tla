--------------------------- MODULE ServicesClaims ---------------------------
(***************************************************************************)
(* What the repository's documents say of GET /services and the code does  *)
(* not do.  Each claim quotes the line it is taken from; each is refuted   *)
(* by one run.                                                             *)
(***************************************************************************)
EXTENDS Services

(***************************************************************************)
(* README.md:120: "`X-Entitlements-Degraded`: `true` when a dependency     *)
(* failure occurred".  The code takes every empty feature set in the cache *)
(* for a failure, also that of an organisation that holds nothing.         *)
(***************************************************************************)
DegradedMeansFailure ==
  \A r \in Handlers :
    Answered(r) /\ reply[r].degraded => result[r].origin \in {"failure", "garbled"}

(***************************************************************************)
(* The converse of the same line: a dependency failure sets the header.    *)
(* The code drops the errors of reading and of decoding a 200's body.      *)
(***************************************************************************)
FailureMeansDegraded ==
  \A r \in Handlers :
    Answered(r) /\ result[r].origin \in {"failure", "garbled"} => reply[r].degraded
=============================================================================
