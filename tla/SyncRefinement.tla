--------------------------- MODULE SyncRefinement ---------------------------
(***************************************************************************)
(* The init containers keep the promise of bundle-sync: which feature a    *)
(* container is at and which list it has read are internal; it has seen a  *)
(* feature in sync when it has checked it.                                 *)
(***************************************************************************)
EXTENDS BundleSync

Phase ==
  [p \in Pods |-> IF IsActive(p) THEN "running" ELSE pc[p]]

Seen ==
  [p \in Pods |->
     IF p \in Syncing
     THEN {f \in Wanting[loaded[p]] : \E i \in Places : FeatureAt(i) = f /\ Checked(p, i)}
     ELSE {}]

Contract == INSTANCE SyncContract WITH phase <- Phase, seen <- Seen

(***************************************************************************)
(* Every behaviour of the containers, whichever versions of bundles.yml    *)
(* they read, requests that fail and answers that are lost, is one the     *)
(* contract allows: whoever succeeds has seen every feature in sync.       *)
(***************************************************************************)
KeepsSyncContract == Contract!Spec
=============================================================================
