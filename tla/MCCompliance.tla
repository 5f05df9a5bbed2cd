---------------------------- MODULE MCCompliance ----------------------------
(***************************************************************************)
(* Two handlers in a pod; deployments right and wrong.  A status below 100 *)
(* is one that net/http accepts from a server and refuses to write.        *)
(***************************************************************************)
EXTENDS Compliance

Deployment ==
  [certsFromEnv |-> "false", disableSeatManager |-> "", debug |-> "", pair |-> TRUE,
   mounted |-> TRUE, ca |-> TRUE, ams |-> TRUE, bop |-> TRUE, legible |-> TRUE]

MCEnvironments ==
  {Deployment,
   [Deployment EXCEPT !.certsFromEnv = "true"],
   [Deployment EXCEPT !.certsFromEnv = "true", !.pair = FALSE],
   [Deployment EXCEPT !.pair = FALSE],
   [Deployment EXCEPT !.mounted = FALSE, !.disableSeatManager = "true"],
   [Deployment EXCEPT !.disableSeatManager = "off", !.bop = FALSE],
   [Deployment EXCEPT !.disableSeatManager = "false", !.debug = "1", !.ams = FALSE],
   [Deployment EXCEPT !.ca = FALSE],
   [Deployment EXCEPT !.legible = FALSE]}

MCTrueTexts == {"1", "t", "T", "true", "TRUE", "True"}
=============================================================================
