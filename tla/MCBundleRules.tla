---------------------------- MODULE MCBundleRules ----------------------------
(***************************************************************************)
(* One bundle of every kind, one of them listed twice.                     *)
(***************************************************************************)
EXTENDS BundleRules

B(name, skus, eval, paid) ==
  [name |-> name, skus |-> skus, evalSkus |-> eval, paidSkus |-> paid,
   useValidAccNum |-> FALSE, useValidOrgId |-> FALSE, useIsInternal |-> FALSE]

MCBundleInfo ==
  << B("ansible", <<>>, <<"E1">>, <<"P1">>),
     B("rhel", <<"R1">>, <<>>, <<>>),
     [B("insights", <<>>, <<>>, <<>>) EXCEPT !.useValidAccNum = TRUE],
     [B("trial", <<>>, <<"E2">>, <<>>) EXCEPT !.useValidOrgId = TRUE, !.useValidAccNum = TRUE],
     [B("beta", <<>>, <<"E3">>, <<"P3">>) EXCEPT !.useIsInternal = TRUE],
     [B("rhel", <<"R2">>, <<>>, <<>>) EXCEPT !.useValidOrgId = TRUE] >>

MCFilters == {{}, {"ansible", "rhel"}, {"rhel", "insights"}, {"beta", "nosuch"}}

Caller(acc, user, redhat) ==
  [validAccNum |-> acc, hasUser |-> user, internal |-> redhat, redHatEmail |-> redhat]
MCCallers == {Caller(TRUE, TRUE, FALSE), Caller(TRUE, TRUE, TRUE), Caller(FALSE, FALSE, FALSE)}

MCFeatures == {"ansible", "rhel", "trial", "insights"}
=============================================================================
