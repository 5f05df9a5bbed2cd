------------------------- MODULE ServicesInvariant -------------------------
(***************************************************************************)
(* The inductive invariant behind the safety properties of Services: how   *)
(* old the truth behind a feature set may be at each place it passes       *)
(* through on its way from the Feature Service to a client.                *)
(***************************************************************************)
EXTENDS Services

\* By an organisation's history ages, it held the features (of a garbled answer:
\* at least them) at a moment at most bound ticks ago.
Backed(ages, features, origin, bound) ==
  \E f \in Holdings :
    /\ ages[f] <= bound
    /\ features \subseteq f
    /\ origin = "answer" => features = f \cap Query

Bound(r) == IF request[r].trialActivated THEN waited[r] ELSE Window

\* The history of an organisation ends with what it holds.
AgeInv == \A o \in Orgs : age[o][owned[o]] = 0

\* Nobody works with features before the suffix has its value.
SuffixInv ==
  /\ featuresQuery # "unset" => paidFeatureSuffix = PaidFeatureSuffix
  /\ \A r \in Handlers : pc[r] \in {"store", "stored", "await", "answered"} =>
                           paidFeatureSuffix = PaidFeatureSuffix
  /\ \A o \in DOMAIN cache : cache[o].features # {} => paidFeatureSuffix = PaidFeatureSuffix
  /\ \A r \in Handlers : result[r].features # {} => paidFeatureSuffix = PaidFeatureSuffix

\* The older an entry, the less time it has left.
CacheInv ==
  \A o \in DOMAIN cache : ~Expired(cache[o]) =>
    Backed(age[o], cache[o].features, cache[o].origin, Window - cache[o].ttl)

\* An answer on its way reflects a moment since its request arrived.
AnswerOK(r) ==
  pc[r] = "answered" /\ answer[r].code = 200 =>
    Backed(age[Org(r)], answer[r].features, "answer", waited[r])

\* A handler that evaluates has features recent enough for its request.
ResultOK(r) ==
  pc[r] = "evaluate" \/ Answered(r) =>
    Backed(age[Org(r)], result[r].features, result[r].origin, Bound(r))

\* A reply was computed from the result and, if that has features, with the
\* suffix set.
ReplyOK(r) ==
  Answered(r) =>
    \E suffix \in {NoSuffix, PaidFeatureSuffix} :
      /\ result[r].features # {} => suffix = PaidFeatureSuffix
      /\ reply[r].sections = Sections(request[r], result[r].features, suffix)

\* A failure leaves no features; only a mocked call leaves nothing to go by.
SignalsOf(res) ==
  /\ res.error \/ res.code # 200 => res.features = {}
  /\ res.origin = "failure" =>
       res.features = {} /\ (res.error \/ res.code # 200 \/ res.cacheHit)
  /\ res.origin = "none" => SkipsUpstream

\* The cache keeps what a failure left, and a reply tells what its result does.
SignalInv ==
  /\ \A o \in DOMAIN cache :
       /\ cache[o].origin # "none"
       /\ cache[o].origin = "failure" => cache[o].features = {}
  /\ \A r \in Handlers :
       /\ pc[r] = "evaluate" \/ Answered(r) => SignalsOf(result[r])
       /\ Answered(r) =>
            /\ reply[r].degraded <=> IsDegraded(result[r])
            /\ reply[r].degradedStatus # 0 => ~IsCachedFailClosed(result[r])

\* With the calls mocked nothing is ever cached, and nobody comes near the network.
MockInv ==
  SkipsUpstream =>
    /\ DOMAIN cache = {}
    /\ \A r \in Handlers :
         /\ pc[r] \in {"idle", "lookup", "evaluate", "replied"}
         /\ pc[r] = "evaluate" => result[r] = Result(200, FALSE, FALSE, {}, "none")
         /\ Answered(r) => ~reply[r].degraded

ServicesInv ==
  /\ TypeOK
  /\ AgeInv
  /\ SuffixInv
  /\ CacheInv
  /\ \A r \in Handlers : AnswerOK(r) /\ ResultOK(r) /\ ReplyOK(r)
=============================================================================
