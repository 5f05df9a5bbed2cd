----------------------------- MODULE MCServices -----------------------------
(***************************************************************************)
(* Small instances of Services: the bundles, the callers and the holdings  *)
(* the runs draw from.                                                     *)
(***************************************************************************)
EXTENDS ServicesClaims, ServicesRefinement, ServicesInvariant, TLC

CONSTANTS o1, h1, h2

MCBundle(name, skus, eval, paid) ==
  [name |-> name, skus |-> skus, evalSkus |-> eval, paidSkus |-> paid,
   useValidAccNum |-> FALSE, useValidOrgId |-> FALSE, useIsInternal |-> FALSE]

\* A bundle with trial and paid SKUs, one with plain SKUs that also wants a
\* valid account number, and one for internal users that has SKUs too.
MCBundleInfo ==
  << MCBundle("ansible", <<>>, <<"E1">>, <<"P1">>),
     [MCBundle("rhel", <<"R1">>, <<>>, <<>>) EXCEPT !.useValidAccNum = TRUE],
     [MCBundle("beta", <<"B1">>, <<>>, <<>>) EXCEPT !.useIsInternal = TRUE] >>

MCFeatures == {"ansible", "rhel"}

Trial   == {Base("ansible")}
Paid    == {Base("ansible"), Suffixed("ansible", "_paid")}

MCHoldings      == {{}, Trial, Paid}
MCHoldingsTwo   == {{}, Paid}

Customer == [validAccNum |-> TRUE, hasUser |-> TRUE, internal |-> FALSE, redHatEmail |-> FALSE]
Service  == [validAccNum |-> TRUE, hasUser |-> FALSE, internal |-> FALSE, redHatEmail |-> FALSE]

Plain(o)  == [org |-> o, trialActivated |-> FALSE, id |-> Customer, include |-> {}, exclude |-> {}]
Forced(o) == [Plain(o) EXCEPT !.trialActivated = TRUE]

OneOrg      == {o1}
MCRequests  == {Plain(o1), Forced(o1)}
MCFiltered  == MCRequests \cup {[Plain(o1) EXCEPT !.exclude = {"ansible"}, !.id = Service],
                                [Forced(o1) EXCEPT !.include = {"rhel", "beta"}]}
PlainOnly   == {Plain(o1)}

MCFailures == {503}

TwoHandlers == {h1, h2}

Symmetry == Permutations(Handlers)
=============================================================================
