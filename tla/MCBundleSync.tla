---------------------------- MODULE MCBundleSync ----------------------------
(***************************************************************************)
(* Small instances of BundleSync.                                          *)
(***************************************************************************)
EXTENDS SyncRefinement, TLC

CONSTANTS p1, p2, p3

MCBundle(name, skus, eval, paid) ==
  [name |-> name, skus |-> skus, evalSkus |-> eval, paidSkus |-> paid,
   useValidAccNum |-> FALSE, useValidOrgId |-> FALSE, useIsInternal |-> FALSE]

MCSku == {"E1", "P1", "P2", "R1", "X1"}

\* A paid bundle whose trial list repeats a paid SKU, and one with plain SKUs.
Version1 == << MCBundle("ansible", <<>>, <<"E1", "P1">>, <<"P1">>),
               MCBundle("rhel", <<"R1", "R1">>, <<>>, <<>>) >>
\* The next version replaces a SKU.
Version2 == [Version1 EXCEPT ![1].evalSkus = <<"E1">>, ![1].paidSkus = <<"P2">>]
\* One in which rhel has lost its SKUs.
NoSkus   == [Version1 EXCEPT ![2].skus = <<>>]

OneVersion  == <<Version1>>
Changing    == <<Version1, Version2>>
Losing      == <<NoSkus>>
MCFeatures  == <<"rhel", "ansible">>
\* FEATURES with a name that bundles.yml does not define.
Mistyped    == <<"ansible", "rehl">>

Unregistered == [f \in {} |-> EmptyBag]
\* What an earlier configuration, or another client of the API, has left.
Stale == [f \in {Base("ansible"), Base("rhel")} |->
            IF f = Base("rhel") THEN SetToBag({"R1", "X1"}) ELSE SetToBag({"E1"})]
MCRegistered == {Unregistered, Stale}
\* The same, with SKUs under the mistyped name.
MistypedRegistered ==
  {Unregistered, [f \in {Base("ansible"), Base("rehl")} |-> SetToBag({"E1"})]}
MCClean      == {Unregistered}
MCStale      == {Stale}

None       == {}
OnePod     == {p1}
OneAndIdle == {p1, p3}
TwoPods    == {p1, p2}
ThreePods  == {p1, p2, p3}
Third      == {p3}

Symmetry == Permutations({p1, p2})
=============================================================================
