-------------------------- MODULE ComplianceProofs --------------------------
(***************************************************************************)
(* Proofs about Pod and Compliance, for any deployments, any number of     *)
(* renewals, handlers and statuses.                                        *)
(***************************************************************************)
EXTENDS Compliance, TLAPS

\* How source, certificate and key belong together at each phase of the start.
LoadedInv ==
  /\ phase \in {"cert", "key", "ca"} =>
       ~CertsFromEnv /\ source = IF env.mounted THEN "volume" ELSE "test"
  /\ phase \in {"key", "ca"} => (cert = 0 <=> ~env.mounted)
  /\ phase = "ca" => cert = key
  /\ phase \in {"bundles", "routes", "serving"} =>
       cert = key /\ (cert = 0 <=> ~env.mounted /\ ~CertsFromEnv)

SeatsInv == phase = "serving" /\ seats => SeatsEnabled /\ ClientsComplete

\* What a handler has of the service's, and has written.
RequestInv(r) ==
  /\ screened[r] # {} => caller[r] = "user" /\ pc[r] \in {"screened", "replied"}
  /\ pc[r] = "asked" => caller[r] = "user"
  /\ pc[r] = "screened" => answer[r] \in screened[r]
  /\ body[r] # "none" => pc[r] = "replied"
  /\ body[r] \in {"whole", "cut"} =>
       \E c \in Writable \cap screened[r] : written[r] = <<c>>
  /\ pc[r] = "replied" => \/ \E w \in Writable \cup {400, 500} : written[r] = <<w>>
                          \/ \E c \in Codes \ Writable : written[r] = <<c, 500>>

ComplianceInv == TypeOK /\ LoadedInv /\ SeatsInv /\ \A r \in Handlers : RequestInv(r)

----------------------------------------------------------------------------
LEMMA InitCompliance == ComplianceInit => ComplianceInv
<1> SUFFICES ASSUME ComplianceInit PROVE ComplianceInv
  OBVIOUS
<1>1. PodTypeOK
  <2>1. 1 \in 1..MaxVersion
    BY VersionAssumption
  <2>2. seats \in BOOLEAN
    BY DEF ComplianceInit, Init
  <2>3. expired \in 0..(secret - 1) /\ cert \in 0..secret /\ key \in 0..secret
    BY DEF ComplianceInit, Init
  <2>4. phase \in Phases /\ source \in {"none", "env", "volume", "test"}
    BY DEF ComplianceInit, Init, Phases
  <2>5. QED
    BY <2>1, <2>2, <2>3, <2>4 DEF ComplianceInit, Init, PodTypeOK
<1>2. TypeOK
  BY <1>1, ComplianceAssumption DEF ComplianceInit, TypeOK, Steps, Callers, Bodies
<1>3. LoadedInv /\ SeatsInv
  BY DEF ComplianceInit, Init, LoadedInv, SeatsInv
<1>4. \A r \in Handlers : RequestInv(r)
  BY DEF ComplianceInit, RequestInv
<1>5. QED
  BY <1>2, <1>3, <1>4 DEF ComplianceInv

\* Requests do not feel what leaves their variables alone.
LEMMA RequestsKeep ==
  ASSUME ComplianceInv, UNCHANGED requestVars, PodTypeOK'
  PROVE  TypeOK' /\ \A r \in Handlers : RequestInv(r)'
BY DEF ComplianceInv, TypeOK, RequestInv, requestVars

\* Nor does the pod what leaves its own.
LEMMA PodKeeps ==
  ASSUME ComplianceInv, UNCHANGED podVars
  PROVE  PodTypeOK' /\ LoadedInv' /\ SeatsInv'
BY DEF ComplianceInv, TypeOK, PodTypeOK, LoadedInv, SeatsInv, podVars,
       CertsFromEnv, SeatsEnabled, ClientsComplete, Debug

LEMMA SeatsEnabledIsABoolean == SeatsEnabled \in BOOLEAN
BY Zenon DEF SeatsEnabled

\* No step of the pod changes what it is deployed with.
LEMMA DeployedOnce ==
  ASSUME PodNext \/ Die
  PROVE  /\ env' = env
         /\ CertsFromEnv' <=> CertsFromEnv
         /\ SeatsEnabled' <=> SeatsEnabled
         /\ ClientsComplete' <=> ClientsComplete
<1>1. env' = env
  BY DEF PodNext, Start, LoadFromEnvironment, FindVolume, ReadCertificate, ReadKey, ReadCA,
         SetBundleInfo, DoRoutes, Restart, Renew, Expire, Die, Enter, Exit
<1>2. QED
  BY <1>1 DEF CertsFromEnv, SeatsEnabled, ClientsComplete, Debug

\* The process ends.
LEMMA ExitKeeps ==
  ASSUME ComplianceInv, Exit
  PROVE  PodTypeOK' /\ LoadedInv' /\ SeatsInv'
<1>1. PodTypeOK'
  BY DEF Exit, Enter, ComplianceInv, TypeOK, PodTypeOK, Phases
<1>2. LoadedInv' /\ SeatsInv'
  BY DEF Exit, Enter, LoadedInv, SeatsInv
<1>3. QED
  BY <1>1, <1>2

\* Each step of the pod.
LEMMA PodStep ==
  ASSUME ComplianceInv, PodNext \/ Die
  PROVE  PodTypeOK' /\ LoadedInv' /\ SeatsInv'
<1> USE DeployedOnce
<1>t. PodTypeOK /\ LoadedInv /\ SeatsInv
  BY DEF ComplianceInv, TypeOK
<1>1. CASE LoadFromEnvironment
  <2>x. CASE Exit
    BY <2>x, ExitKeeps
  <2>e. CASE ~Exit
    <3>1. PodTypeOK'
      BY <1>t, <1>1, <2>e DEF LoadFromEnvironment, Enter, PodTypeOK, Phases
    <3>2. LoadedInv'
      BY <1>t, <1>1, <2>e DEF LoadFromEnvironment, Enter, LoadedInv, PodTypeOK
    <3>3. SeatsInv'
      BY <1>t, <1>1, <2>e DEF LoadFromEnvironment, Enter, SeatsInv, PodTypeOK
    <3>4. QED
      BY <3>1, <3>2, <3>3
  <2>q. QED
    BY <2>x, <2>e
<1>2. CASE FindVolume
  <2>1. PodTypeOK'
    BY <1>t, <1>2 DEF FindVolume, Enter, PodTypeOK, Phases
  <2>2. LoadedInv'
    BY <1>t, <1>2 DEF FindVolume, Enter, LoadedInv, PodTypeOK
  <2>3. SeatsInv'
    BY <1>t, <1>2 DEF FindVolume, Enter, SeatsInv, PodTypeOK
  <2>4. QED
    BY <2>1, <2>2, <2>3
<1>3. CASE ReadCertificate
  <2>x. CASE Exit
    BY <2>x, ExitKeeps
  <2>e. CASE ~Exit
    <3>1. PodTypeOK'
      BY <1>t, <1>3, <2>e DEF ReadCertificate, Enter, Current, PodTypeOK, Phases
    <3>2. LoadedInv'
      BY <1>t, <1>3, <2>e DEF ReadCertificate, Enter, Current, LoadedInv, PodTypeOK
    <3>3. SeatsInv'
      BY <1>t, <1>3, <2>e DEF ReadCertificate, Enter, Current, SeatsInv, PodTypeOK
    <3>4. QED
      BY <3>1, <3>2, <3>3
  <2>q. QED
    BY <2>x, <2>e
<1>4. CASE ReadKey
  <2>x. CASE Exit
    BY <2>x, ExitKeeps
  <2>e. CASE ~Exit
    <3>1. PodTypeOK'
      BY <1>t, <1>4, <2>e DEF ReadKey, Enter, Current, PodTypeOK, Phases
    <3>2. LoadedInv'
      BY <1>t, <1>4, <2>e DEF ReadKey, Enter, Current, LoadedInv, PodTypeOK
    <3>3. SeatsInv'
      BY <1>t, <1>4, <2>e DEF ReadKey, Enter, Current, SeatsInv, PodTypeOK
    <3>4. QED
      BY <3>1, <3>2, <3>3
  <2>q. QED
    BY <2>x, <2>e
<1>5. CASE ReadCA
  <2>x. CASE Exit
    BY <2>x, ExitKeeps
  <2>e. CASE ~Exit
    <3>1. PodTypeOK'
      BY <1>t, <1>5, <2>e DEF ReadCA, Enter, PodTypeOK, Phases
    <3>2. LoadedInv'
      BY <1>t, <1>5, <2>e DEF ReadCA, Enter, LoadedInv, PodTypeOK
    <3>3. SeatsInv'
      BY <1>t, <1>5, <2>e DEF ReadCA, Enter, SeatsInv, PodTypeOK
    <3>4. QED
      BY <3>1, <3>2, <3>3
  <2>q. QED
    BY <2>x, <2>e
<1>6. CASE SetBundleInfo
  <2>x. CASE Exit
    BY <2>x, ExitKeeps
  <2>e. CASE ~Exit
    <3>1. PodTypeOK'
      BY <1>t, <1>6, <2>e DEF SetBundleInfo, Enter, PodTypeOK, Phases
    <3>2. LoadedInv'
      BY <1>t, <1>6, <2>e DEF SetBundleInfo, Enter, LoadedInv, PodTypeOK
    <3>3. SeatsInv'
      BY <1>t, <1>6, <2>e DEF SetBundleInfo, Enter, SeatsInv, PodTypeOK
    <3>4. QED
      BY <3>1, <3>2, <3>3
  <2>q. QED
    BY <2>x, <2>e
<1>7. CASE DoRoutes
  <2>x. CASE Exit
    BY <2>x, ExitKeeps
  <2>e. CASE ~Exit
    <3>1. PodTypeOK'
      BY <1>t, <1>7, <2>e, SeatsEnabledIsABoolean DEF DoRoutes, Enter, PodTypeOK, Phases
    <3>2. LoadedInv'
      BY <1>t, <1>7, <2>e DEF DoRoutes, Enter, LoadedInv, PodTypeOK
    <3>3. SeatsInv'
      BY <1>t, <1>7, <2>e DEF DoRoutes, Enter, SeatsInv, PodTypeOK
    <3>4. QED
      BY <3>1, <3>2, <3>3
  <2>q. QED
    BY <2>x, <2>e
<1>8. CASE Restart
  <2>1. PodTypeOK'
    <3>1. seats' \in BOOLEAN
      BY <1>8 DEF Restart
    <3>2. cert' \in 0..secret /\ key' \in 0..secret
      BY <1>t, <1>8, VersionAssumption DEF Restart, PodTypeOK
    <3>3. phase' \in Phases /\ source' \in {"none", "env", "volume", "test"}
      BY <1>8 DEF Restart, Enter, Phases
    <3>4. QED
      BY <1>t, <1>8, <3>1, <3>2, <3>3 DEF Restart, Enter, PodTypeOK
  <2>2. LoadedInv'
    BY <1>t, <1>8 DEF Restart, Enter, LoadedInv, PodTypeOK
  <2>3. SeatsInv'
    BY <1>t, <1>8 DEF Restart, Enter, SeatsInv, PodTypeOK
  <2>4. QED
    BY <2>1, <2>2, <2>3
<1>9. CASE Renew
  <2>1. PodTypeOK'
    BY <1>t, <1>9, VersionAssumption DEF Renew, PodTypeOK, Phases
  <2>2. LoadedInv'
    BY <1>t, <1>9, VersionAssumption DEF Renew, LoadedInv, PodTypeOK
  <2>3. SeatsInv'
    BY <1>t, <1>9 DEF Renew, SeatsInv, PodTypeOK
  <2>4. QED
    BY <2>1, <2>2, <2>3
<1>10. CASE Expire
  <2>1. PodTypeOK'
    BY <1>t, <1>10, VersionAssumption DEF Expire, PodTypeOK, Phases
  <2>2. LoadedInv'
    BY <1>t, <1>10, VersionAssumption DEF Expire, LoadedInv, PodTypeOK
  <2>3. SeatsInv'
    BY <1>t, <1>10 DEF Expire, SeatsInv, PodTypeOK
  <2>4. QED
    BY <2>1, <2>2, <2>3
<1>11. CASE Die
  BY <1>11, ExitKeeps DEF Die
<1>12. QED
  BY <1>1, <1>2, <1>3, <1>4, <1>5, <1>6, <1>7, <1>8, <1>9, <1>10, <1>11 DEF PodNext, Start

\* A handler replies with what becomes it.
LEMMA ReplyKeeps ==
  ASSUME ComplianceInv, NEW r \in Handlers, NEW codes, NEW content \in Bodies \ {"none"},
         Reply(r, codes, content),
         \/ \E w \in Writable \cup {400, 500} : codes = <<w>>
         \/ \E c \in Codes \ Writable : codes = <<c, 500>>,
         content \in {"whole", "cut"} =>
           \E c \in Writable \cap screened[r] : codes = <<c>>,
         screened[r] # {} => caller[r] = "user"
  PROVE  ComplianceInv'
<1>1. PodTypeOK' /\ LoadedInv' /\ SeatsInv'
  BY PodKeeps DEF Reply
<1>2. codes \in {<<>>, <<400>>, <<500>>} \cup {<<c>> : c \in Writable}
                  \cup {<<c, 500>> : c \in Codes}
  OBVIOUS
<1>3. TypeOK'
  <2>1. written' \in [Handlers -> {<<>>, <<400>>, <<500>>} \cup {<<c>> : c \in Writable}
                                    \cup {<<c, 500>> : c \in Codes}]
    BY <1>2 DEF Reply, ComplianceInv, TypeOK
  <2>2. QED
    BY <1>1, <2>1 DEF Reply, Goto, ComplianceInv, TypeOK, Steps
<1>4. ASSUME NEW q \in Handlers PROVE RequestInv(q)'
  <2>1. CASE q = r
    <3>1. /\ pc'[q] = "replied" /\ written'[q] = codes /\ body'[q] = content
          /\ screened'[q] = screened[q] /\ caller'[q] = caller[q]
      BY <2>1 DEF Reply, Goto, ComplianceInv, TypeOK
    <3>2. QED
      BY <2>1, <3>1 DEF RequestInv
  <2>2. CASE q # r
    <3>1. /\ pc'[q] = pc[q] /\ written'[q] = written[q] /\ body'[q] = body[q]
          /\ answer'[q] = answer[q] /\ screened'[q] = screened[q] /\ caller'[q] = caller[q]
      BY <2>2 DEF Reply, Goto, ComplianceInv, TypeOK
    <3>2. QED
      BY <3>1 DEF RequestInv, ComplianceInv
  <2>3. QED
    BY <2>1, <2>2
<1>5. QED
  BY <1>1, <1>3, <1>4 DEF ComplianceInv

\* The steps by which a handler replies.
LEMMA Replies ==
  ASSUME ComplianceInv, NEW r \in Handlers,
         Refuse(r) \/ PassOn(r) \/ PassOnPanics(r) \/ Fail(r) \/ Timeout(r)
  PROVE  ComplianceInv'
<1> USE DEF Bodies
<1>1. screened[r] # {} => caller[r] = "user"
  BY DEF ComplianceInv, RequestInv
<1>2. CASE Refuse(r)
  BY <1>1, <1>2, ReplyKeeps DEF Refuse
<1>3. CASE PassOn(r)
  <2>1. PICK content \in {"whole", "cut"} : Reply(r, <<answer[r]>>, content)
    BY <1>3 DEF PassOn
  <2>2. answer[r] \in Writable \cap screened[r]
    BY <1>3 DEF PassOn, ComplianceInv, RequestInv
  <2>3. QED
    BY <1>1, <2>1, <2>2, ReplyKeeps
<1>4. CASE PassOnPanics(r)
  <2>1. answer[r] \in Codes \ Writable
    BY <1>4 DEF PassOnPanics, ComplianceInv, RequestInv, TypeOK
  <2>2. QED
    BY <1>1, <1>4, <2>1, ReplyKeeps DEF PassOnPanics
<1>5. CASE Fail(r) \/ Timeout(r)
  BY <1>1, <1>5, ReplyKeeps DEF Fail, Timeout
<1>6. QED
  BY <1>2, <1>3, <1>4, <1>5

\* The steps by which a request goes on or ends.
LEMMA Proceeds ==
  ASSUME ComplianceInv, NEW r \in Handlers,
         Arrive(r) \/ Ask(r) \/ Screen(r) \/ Finish(r)
  PROVE  ComplianceInv'
<1>1. UNCHANGED podVars
  BY DEF Arrive, Ask, Screen, Finish
<1>2. PodTypeOK' /\ LoadedInv' /\ SeatsInv'
  BY <1>1, PodKeeps
<1>3. TypeOK'
  <2>1. CASE Arrive(r)
    BY <1>2, <2>1 DEF Arrive, Goto, ComplianceInv, TypeOK, Steps
  <2>2. CASE Ask(r)
    BY <1>2, <2>2 DEF Ask, Goto, ComplianceInv, TypeOK, Steps
  <2>3. CASE Screen(r)
    BY <1>2, <2>3 DEF Screen, Goto, ComplianceInv, TypeOK, Steps
  <2>4. CASE Finish(r)
    <3>1. 0 \in 0..ClientTimeout
      BY ComplianceAssumption
    <3>2. waited' \in [Handlers -> 0..ClientTimeout]
      BY <2>4, <3>1 DEF Finish, ComplianceInv, TypeOK
    <3>3. written' \in [Handlers -> {<<>>, <<400>>, <<500>>} \cup {<<c>> : c \in Writable}
                                      \cup {<<c, 500>> : c \in Codes}]
      BY <2>4 DEF Finish, ComplianceInv, TypeOK
    <3>4. screened' \in [Handlers -> SUBSET Codes]
      BY <2>4 DEF Finish, ComplianceInv, TypeOK
    <3>5. QED
      BY <1>2, <2>4, <3>2, <3>3, <3>4
         DEF Finish, Goto, ComplianceInv, TypeOK, Steps, Callers, Bodies
  <2>5. QED
    BY <2>1, <2>2, <2>3, <2>4
<1>4. ASSUME NEW q \in Handlers PROVE RequestInv(q)'
  <2> USE DEF ComplianceInv, TypeOK, RequestInv, Goto, MayBeScreened
  <2>1. CASE Arrive(r)
    BY <2>1 DEF Arrive
  <2>2. CASE Ask(r)
    BY <2>2 DEF Ask
  <2>3. CASE Screen(r)
    BY <2>3 DEF Screen
  <2>4. CASE Finish(r)
    BY <2>4 DEF Finish
  <2>5. QED
    BY <2>1, <2>2, <2>3, <2>4
<1>5. QED
  BY <1>2, <1>3, <1>4 DEF ComplianceInv

LEMMA NextCompliance == ComplianceInv /\ [Next]_vars => ComplianceInv'
<1> SUFFICES ASSUME ComplianceInv, [Next]_vars PROVE ComplianceInv'
  OBVIOUS
<1>1. CASE PodNext /\ UNCHANGED requestVars
  BY <1>1, PodStep, RequestsKeep DEF ComplianceInv
<1>2. CASE DieServing
  <2>1. PodTypeOK' /\ LoadedInv' /\ SeatsInv'
    BY <1>2, PodStep DEF DieServing
  <2>2. TypeOK'
    BY <1>2, <2>1, ComplianceAssumption DEF DieServing, TypeOK, Steps, Callers, Bodies
  <2>3. \A r \in Handlers : RequestInv(r)'
    BY <1>2 DEF DieServing, RequestInv
  <2>4. QED
    BY <2>1, <2>2, <2>3 DEF ComplianceInv
<1>3. ASSUME NEW r \in Handlers,
             Arrive(r) \/ Compute(r) \/ Screen(r) \/ PassOn(r) \/ PassOnPanics(r) \/ Fail(r)
      PROVE  ComplianceInv'
  BY <1>3, Replies, Proceeds DEF Compute
<1>4. CASE Tick
  <2>1. PodTypeOK' /\ LoadedInv' /\ SeatsInv'
    BY <1>4, PodKeeps DEF Tick
  <2>2. waited' \in [Handlers -> 0..ClientTimeout]
    <3>1. ASSUME NEW r \in Handlers, pc[r] \in InFlight
          PROVE  waited[r] + 1 \in 0..ClientTimeout
      BY <1>4, <3>1, ComplianceAssumption DEF Tick, InFlight, ComplianceInv, TypeOK
    <3>2. QED
      BY <1>4, <3>1 DEF Tick, ComplianceInv, TypeOK
  <2>3. TypeOK' /\ \A r \in Handlers : RequestInv(r)'
    BY <1>4, <2>1, <2>2 DEF Tick, ComplianceInv, TypeOK, RequestInv
  <2>4. QED
    BY <2>1, <2>3 DEF ComplianceInv
<1>5. CASE UNCHANGED vars
  BY <1>5, PodKeeps, RequestsKeep DEF vars, ComplianceInv
<1>6. QED
  BY <1>1, <1>2, <1>3, <1>4, <1>5 DEF Next

LEMMA ComplianceInvariance == ComplianceSpec => []ComplianceInv
BY InitCompliance, NextCompliance, PTL DEF ComplianceSpec

----------------------------------------------------------------------------
(***************************************************************************)
(* The variables of a pod and of its requests keep their types.            *)
(***************************************************************************)
THEOREM ComplianceTypeCorrect == ComplianceSpec => []TypeOK
<1>1. ComplianceInv => TypeOK
  BY DEF ComplianceInv
<1>2. QED
  BY <1>1, ComplianceInvariance, PTL

(***************************************************************************)
(* However renewals fall between its reads, a pod that serves has the key  *)
(* of its certificate, and not that of the tests unless deployed so.       *)
(***************************************************************************)
THEOREM ServesWithItsKeyAlways == ComplianceSpec => []ServesWithItsKey
<1>1. ComplianceInv => ServesWithItsKey
  BY DEF ComplianceInv, LoadedInv, ServesWithItsKey
<1>2. QED
  BY <1>1, ComplianceInvariance, PTL

(***************************************************************************)
(* The seats API is off unless it is enabled, and complete if it is on.    *)
(***************************************************************************)
THEOREM SeatsOnlyIfEnabledAlways == ComplianceSpec => []SeatsOnlyIfEnabled
<1>1. ComplianceInv => SeatsOnlyIfEnabled
  BY DEF ComplianceInv, SeatsInv, SeatsOnlyIfEnabled, SeatsEnabled, ClientsComplete, AsBool
<1>2. QED
  BY <1>1, ComplianceInvariance, PTL

(***************************************************************************)
(* A screening's verdict is the service's for this very request.           *)
(***************************************************************************)
THEOREM VerdictIsTheServicesAlways == ComplianceSpec => []VerdictIsTheServices
<1>1. ComplianceInv => VerdictIsTheServices
  <2> SUFFICES ASSUME ComplianceInv, NEW r \in Handlers
               PROVE  /\ body[r] \in {"whole", "cut"} => Sent(r) \in screened[r]
                      /\ screened[r] # {} => caller[r] = "user"
    BY DEF VerdictIsTheServices
  <2>1. ASSUME body[r] \in {"whole", "cut"} PROVE Sent(r) \in screened[r]
    <3>1. PICK c \in Writable \cap screened[r] : written[r] = <<c>>
      BY <2>1 DEF ComplianceInv, RequestInv
    <3>2. QED
      BY <3>1 DEF Sent
  <2>2. QED
    BY <2>1 DEF ComplianceInv, RequestInv
<1>2. QED
  BY <1>1, ComplianceInvariance, PTL

(***************************************************************************)
(* A request is counted under the status that is sent.                     *)
(***************************************************************************)
THEOREM RecordedAsSentAlways == ComplianceSpec => []RecordedAsSent
<1>1. ComplianceInv => RecordedAsSent
  <2> SUFFICES ASSUME ComplianceInv, NEW r \in Handlers, pc[r] = "replied"
               PROVE  Recorded(r) = Sent(r)
    BY DEF RecordedAsSent
  <2>1. ASSUME NEW w \in Writable \cup {400, 500}, written[r] = <<w>>
        PROVE  Recorded(r) = Sent(r)
    <3>1. w \notin Codes \ Writable
      BY ComplianceAssumption
    <3>2. QED
      BY <2>1, <3>1 DEF Recorded, Sent
  <2>2. ASSUME NEW c \in Codes \ Writable, written[r] = <<c, 500>>
        PROVE  Recorded(r) = Sent(r)
    BY <2>2 DEF Recorded, Sent
  <2>3. QED
    BY <2>1, <2>2 DEF ComplianceInv, RequestInv
<1>2. QED
  BY <1>1, ComplianceInvariance, PTL
=============================================================================
