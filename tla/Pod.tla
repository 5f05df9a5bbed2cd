-------------------------------- MODULE Pod --------------------------------
(***************************************************************************)
(* An API pod from its start to its end: the settings and the certificates *)
(* it reads, in the order of the program, while the secret they come from  *)
(* is renewed.  Certificate and key are two files: a pod may read one of   *)
(* them before a renewal and the other after it.  Whatever is wrong ends   *)
(* the process, and Kubernetes starts another one.                         *)
(***************************************************************************)
EXTENDS Integers

CONSTANTS
  Environments,  \* what a pod may be deployed with, a set of records
  TrueTexts,     \* the texts strconv.ParseBool takes for true
  MaxVersion     \* bound of the model: how often the secret is renewed

(***************************************************************************)
(* certsFromEnv, disableSeatManager, debug: the texts of three settings,   *)
(* "" if unset.  mounted: there is a volume /certificates.  pair: where the *)
(* certificate is taken from, it can be read and parsed, and so can its    *)
(* key (in the environment, the CA too).  ca: the CA's file can be read.   *)
(* ams, bop: what the clients of AMS and BOP need is there.  legible:      *)
(* bundles.yml and the log level can be read.                              *)
(***************************************************************************)
Environment ==
  [certsFromEnv : STRING, disableSeatManager : STRING, debug : STRING, pair : BOOLEAN,
   mounted : BOOLEAN, ca : BOOLEAN, ams : BOOLEAN, bop : BOOLEAN, legible : BOOLEAN]

ASSUME PodAssumption ==
  /\ Environments \subseteq Environment
  /\ "" \notin TrueTexts

ASSUME VersionAssumption == MaxVersion \in Nat \ {0}

VARIABLES
  env,      \* what the pod is deployed with
  secret,   \* the version of certificate and key the secret holds
  expired,  \* the last version the IT services no longer accept
  phase,    \* how far the pod has come
  source,   \* where its certificates come from: "none", "env", "volume", "test"
  cert,     \* the version of the certificate it has read, 0 for that of the tests
  key,      \* the version of the key
  seats     \* whether it serves the seats API

podVars == <<env, secret, expired, phase, source, cert, key, seats>>

Phases == {"settings", "cert", "key", "ca", "bundles", "routes", "serving", "failed"}

----------------------------------------------------------------------------
(***************************************************************************)
(* viper: an empty variable counts as unset, and a text that is no Boolean *)
(* as false.                                                               *)
(***************************************************************************)
AsBool(text, default) == IF text = "" THEN default ELSE text \in TrueTexts

CertsFromEnv == AsBool(env.certsFromEnv, FALSE)
Debug        == AsBool(env.debug, FALSE)

\* Mutant of SeatsEnabled: the first of the two defaults counts.
SeatsEnabledByDefault == ~AsBool(env.disableSeatManager, FALSE)

\* Of the two defaults of this setting the second counts.
SeatsEnabled == ~AsBool(env.disableSeatManager, TRUE)

\* The clients of the seats API; with the debug setting they are mocks.
ClientsComplete == Debug \/ (env.ams /\ env.bop)

Init ==
  /\ env \in Environments
  /\ secret = 1 /\ expired = 0
  /\ phase = "settings"
  /\ source = "none" /\ cert = 0 /\ key = 0
  /\ seats = FALSE

Enter(next) == phase' = next /\ UNCHANGED <<env, secret, expired>>

\* A panic, or log.Fatal.
Exit == Enter("failed") /\ UNCHANGED <<source, cert, key, seats>>

\* The settings are read; certificates in the environment are used at once.
LoadFromEnvironment ==
  /\ phase = "settings"
  /\ CertsFromEnv
  /\ IF env.pair
     THEN Enter("bundles") /\ source' = "env" /\ cert' = 1 /\ key' = 1 /\ UNCHANGED seats
     ELSE Exit

\* Otherwise the volume's are, or, without a volume, those of the tests.
FindVolume ==
  /\ phase = "settings"
  /\ ~CertsFromEnv
  /\ Enter("cert")
  /\ source' = IF env.mounted THEN "volume" ELSE "test"
  /\ UNCHANGED <<cert, key, seats>>

\* What the files of the source hold at the moment.
Current == IF source = "volume" THEN secret ELSE 0

\* A file that is missing or malformed is an error.  (The program reads both
\* files and then parses them; which of the two is at fault makes no difference.)
ReadCertificate ==
  /\ phase = "cert"
  /\ IF env.pair
     THEN Enter("key") /\ cert' = Current /\ UNCHANGED <<source, key, seats>>
     ELSE Exit

\* Mutant of ReadKey: the key is not compared with the certificate.
ReadAnyKey ==
  /\ phase = "key"
  /\ Enter("ca") /\ key' = Current /\ UNCHANGED <<source, cert, seats>>

\* The key must be the certificate's.
ReadKey ==
  /\ phase = "key"
  /\ IF cert = Current
     THEN Enter("ca") /\ key' = Current /\ UNCHANGED <<source, cert, seats>>
     ELSE Exit

ReadCA ==
  /\ phase = "ca"
  /\ IF env.ca THEN Enter("bundles") /\ UNCHANGED <<source, cert, key, seats>> ELSE Exit

SetBundleInfo ==
  /\ phase = "bundles"
  /\ IF env.legible THEN Enter("routes") /\ UNCHANGED <<source, cert, key, seats>> ELSE Exit

\* The seats API is registered, if enabled, with its clients; the pod listens.
DoRoutes ==
  /\ phase = "routes"
  /\ IF SeatsEnabled => ClientsComplete
     THEN Enter("serving") /\ seats' = SeatsEnabled /\ UNCHANGED <<source, cert, key>>
     ELSE Exit

\* The server cannot listen, or stops; the pod is killed.
Die ==
  /\ phase = "serving"
  /\ Exit

\* Mutant of Restart: the certificate read before is kept.
RestartWithCertificate ==
  /\ phase = "failed"
  /\ Enter(IF cert > 0 THEN "key" ELSE "settings")
  /\ UNCHANGED <<source, cert>>
  /\ key' = 0 /\ seats' = FALSE

\* Kubernetes starts the container again; nothing is left of the process.
Restart ==
  /\ phase = "failed"
  /\ Enter("settings")
  /\ source' = "none" /\ cert' = 0 /\ key' = 0
  /\ seats' = FALSE

\* The secret is renewed: the volume changes at once, all files together.
Renew ==
  /\ secret < MaxVersion
  /\ secret' = secret + 1
  /\ UNCHANGED <<env, expired, phase, source, cert, key, seats>>

\* An older version expires.
Expire ==
  /\ expired + 1 < secret
  /\ expired' = expired + 1
  /\ UNCHANGED <<env, secret, phase, source, cert, key, seats>>

Start ==
  \/ LoadFromEnvironment \/ FindVolume \/ ReadCertificate \/ ReadKey \/ ReadCA
  \/ SetBundleInfo \/ DoRoutes

PodNext == Start \/ Restart \/ Renew \/ Expire

----------------------------------------------------------------------------
\* Type invariant of the pod.
PodTypeOK ==
  /\ env \in Environments
  /\ secret \in 1..MaxVersion /\ expired \in 0..(secret - 1)
  /\ phase \in Phases
  /\ source \in {"none", "env", "volume", "test"}
  /\ cert \in 0..secret /\ key \in 0..secret
  /\ seats \in BOOLEAN

(***************************************************************************)
(* A pod that serves has a certificate together with its own key, though   *)
(* it read them one after the other and the secret may have been renewed   *)
(* in between; the certificate of the tests it has only if it was deployed *)
(* with neither a volume nor certificates in the environment.              *)
(***************************************************************************)
ServesWithItsKey ==
  phase = "serving" =>
    /\ cert = key
    /\ cert = 0 <=> ~env.mounted /\ ~CertsFromEnv

(***************************************************************************)
(* The seats API is served only if somebody set DISABLE_SEAT_MANAGER to    *)
(* something that does not mean true, and never with a client missing.     *)
(***************************************************************************)
SeatsOnlyIfEnabled ==
  phase = "serving" /\ seats =>
    /\ env.disableSeatManager \notin TrueTexts \cup {""}
    /\ Debug \/ (env.ams /\ env.bop)

\* What the pod is deployed with lets it serve.
Deployable ==
  /\ env.pair
  /\ CertsFromEnv \/ env.ca
  /\ env.legible
  /\ SeatsEnabled => ClientsComplete

(***************************************************************************)
(* A pod that is deployed right finally serves, again after each end of    *)
(* the process: a renewal that falls between its reads costs it a restart, *)
(* not its life.                                                           *)
(***************************************************************************)
ServesInTheEnd == (Deployable /\ phase # "serving") ~> (phase = "serving")
=============================================================================
