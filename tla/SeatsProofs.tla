----------------------------- MODULE SeatsProofs -----------------------------
(***************************************************************************)
(* Theorems about Seats, for every number of handlers, every request,      *)
(* every time to live of the cached ids and every duration of the calls.   *)
(***************************************************************************)
EXTENDS SeatsInvariant, TLAPS

Pcs == {"idle", "check", "run", "listing", "listed", "replied"}

\* The statuses of refusals and errors.
Refusals == {400, 401, 403, 404, 409, 500} \cup AmsErrors

Kinds == {"post", "delete", "get"}

\* The programs, step by step.
LEMMA Programs ==
  /\ Len(Program("post")) = 4
  /\ Program("post")[1] = "user" /\ Program("post")[2] = "convert"
  /\ Program("post")[3] = "quota" /\ Program("post")[4] = "authorize"
  /\ Len(Program("delete")) = 4
  /\ Program("delete")[1] = "subscription" /\ Program("delete")[2] = "convert"
  /\ Program("delete")[3] = "compare" /\ Program("delete")[4] = "delete"
  /\ Len(Program("get")) = 5
  /\ Program("get")[1] = "convert" /\ Program("get")[2] = "filter"
  /\ Program("get")[3] = "subs" /\ Program("get")[4] = "convert"
  /\ Program("get")[5] = "quota"
<1>1. /\ Program("post") = <<"user", "convert", "quota", "authorize">>
      /\ Program("delete") = <<"subscription", "convert", "compare", "delete">>
      /\ Program("get") = <<"convert", "filter", "subs", "convert", "quota">>
  BY DEF Program
<1> QED
  BY <1>1

\* What a handler serves, and how far it has come.
LEMMA Position ==
  ASSUME TypeOK, NEW r \in Handlers
  PROVE  /\ Kind(r) \in Kinds /\ request[r] \in Requests /\ Org(r) \in Orgs
         /\ at[r] \in 1..Len(Program(Kind(r)))
         /\ \/ Kind(r) \in {"post", "delete"} /\ at[r] \in {1, 2, 3, 4}
            \/ Kind(r) = "get" /\ at[r] \in {1, 2, 3, 4, 5}
<1>1. request[r] \in Request
  BY SeatsAssumption DEF TypeOK
<1>2. Kind(r) \in Kinds /\ Org(r) \in Orgs
  BY <1>1 DEF Request, Kind, Kinds, Org
<1>3. at[r] \in 1..Len(Program(Kind(r)))
  BY DEF TypeOK, Kind
<1>4. \/ Kind(r) \in {"post", "delete"} /\ at[r] \in 1..4
      \/ Kind(r) = "get" /\ at[r] \in 1..5
  BY <1>2, <1>3, Programs DEF Kinds
<1> QED
  BY <1>2, <1>3, <1>4 DEF TypeOK

\* Which step of which program a handler is at.
LEMMA Steps ==
  ASSUME TypeOK, NEW r \in Handlers
  PROVE  /\ Doing(r, "user") => pc[r] = "run" /\ Kind(r) = "post" /\ at[r] = 1
         /\ Doing(r, "authorize") => pc[r] = "run" /\ Kind(r) = "post" /\ at[r] = 4
         /\ Doing(r, "subscription") => pc[r] = "run" /\ Kind(r) = "delete" /\ at[r] = 1
         /\ Doing(r, "compare") => pc[r] = "run" /\ Kind(r) = "delete" /\ at[r] = 3
         /\ Doing(r, "delete") => pc[r] = "run" /\ Kind(r) = "delete" /\ at[r] = 4
         /\ Doing(r, "filter") => pc[r] = "run" /\ Kind(r) = "get" /\ at[r] = 2
         /\ Doing(r, "subs") => pc[r] = "run" /\ Kind(r) = "get" /\ at[r] = 3
         /\ Doing(r, "quota") => /\ pc[r] = "run"
                                 /\ \/ Kind(r) = "post" /\ at[r] = 3
                                    \/ Kind(r) = "get" /\ at[r] = 5
         /\ Program(Kind(r))[at[r]] = "convert" =>
              \/ Kind(r) \in {"post", "delete"} /\ at[r] = 2
              \/ Kind(r) = "get" /\ at[r] \in {1, 4}
<1>1. \/ Kind(r) = "post" /\ at[r] \in {1, 2, 3, 4}
      \/ Kind(r) = "delete" /\ at[r] \in {1, 2, 3, 4}
      \/ Kind(r) = "get" /\ at[r] \in {1, 2, 3, 4, 5}
  BY Position DEF Kinds
<1>2. CASE Kind(r) = "post" /\ at[r] \in {1, 2, 3, 4}
  BY <1>2, Programs DEF Doing, Kind
<1>3. CASE Kind(r) = "delete" /\ at[r] \in {1, 2, 3, 4}
  BY <1>3, Programs DEF Doing, Kind
<1>4. CASE Kind(r) = "get" /\ at[r] \in {1, 2, 3, 4, 5}
  BY <1>4, Programs DEF Doing, Kind
<1> QED
  BY <1>1, <1>2, <1>3, <1>4

\* A handler that has made a call, or is about to, has not replied.
LEMMA CallsRun ==
  ASSUME NEW r \in Handlers
  PROVE  /\ \A step : Doing(r, step) => Running(r)
         /\ AsksAms(r) => Running(r)
BY DEF Doing, AsksAms, Running

\* The mapper leaves a refusal's status and gives the others 500.
LEMMA Mapped ==
  /\ \A err \in Errors("ams", AmsErrors) \cup {Other} : MapResponse(err, 500) \in Refusals
  /\ \A s \in SUBSET Refusals :
       \A err \in Errors("bop", s) \cup Errors("client", s) \cup Errors("ams", s) \cup {Other} :
         MapResponse(err, 500) \in Refusals
<1>1. MapResponse(Other, 500) = 500
  BY DEF Other, MapResponse
<1>2. ASSUME NEW kind \in {"ams", "bop", "client"}, NEW s, NEW err \in Errors(kind, s)
      PROVE  MapResponse(err, 500) \in s
  BY DEF Errors, MapResponse
<1>3. 500 \in Refusals /\ AmsErrors \subseteq Refusals
  BY DEF Refusals
<1> QED
  BY <1>1, <1>2, <1>3

\* The statuses of a refusal are those of an error.
LEMMA RefusalRange == Refusals \subseteq 400..599 /\ Refusals \subseteq Statuses
BY SeatsAssumption DEF Refusals, Statuses

----------------------------------------------------------------------------
\* The types of the handlers' locals, and those of everything else.
LocalsOK ==
  /\ pc \in [Handlers -> Pcs]
  /\ request \in [Handlers -> Requests]
  /\ at \in [Handlers -> Nat]
  /\ \A r \in Handlers : at[r] \in 1..Len(Program(request[r].kind))
  /\ subOrg \in [Handlers -> AmsOrgs \cup {NoOrg}]
  /\ amsOrg \in [Handlers -> AmsOrgs \cup {NoOrg}]
  /\ written \in [Handlers -> Seq(Statuses)]
  /\ \A r \in Handlers : Len(written[r]) \in (IF pc[r] = "replied" THEN 1..2 ELSE {0})
  /\ callTime \in [Handlers -> 0..MaxCall]

IdCacheOK ==
  /\ DOMAIN idCache \subseteq Orgs \cap WellFormed
  /\ \A o \in DOMAIN idCache :
       idCache[o] \in [id : AmsOrgs \cap WellFormed, ttl : -1..CacheTTL]

UpstreamOK ==
  /\ amsOf \in [Orgs -> AmsOrgs \cup {NoOrg}]
  /\ DOMAIN seats \subseteq Ids /\ \A i \in DOMAIN seats : seats[i] \in AmsOrgs
  /\ worksFor \in [Users -> Orgs \cup {NoOrg}]

HistoryOK ==
  /\ age \in [Orgs -> [AmsOrgs -> 0..(Window + 1)]]
  /\ member \in [Handlers -> BOOLEAN]
  /\ heldBy \in [Handlers -> SUBSET AmsOrgs]
  /\ changed \in [Handlers -> BOOLEAN]

LEMMA TypeParts == TypeOK <=> LocalsOK /\ IdCacheOK /\ UpstreamOK /\ HistoryOK
BY DEF TypeOK, LocalsOK, IdCacheOK, UpstreamOK, HistoryOK, Pcs

\* A step of one handler leaves the locals of the others alone.
Others(r) ==
  \A s \in Handlers \ {r} :
    /\ pc'[s] = pc[s] /\ at'[s] = at[s] /\ request'[s] = request[s]
    /\ subOrg'[s] = subOrg[s] /\ amsOrg'[s] = amsOrg[s]
    /\ written'[s] = written[s] /\ callTime'[s] = callTime[s]

\* What another handler's step may do to the histories of the rest.
HistoryGrows(r) ==
  \A s \in Handlers \ {r} :
    /\ changed'[s] = changed[s]
    /\ member[s] => member'[s]
    /\ Running(s) /\ Kind(s) = "delete" => heldBy[s] \subseteq heldBy'[s]

LEMMA OthersKeep ==
  ASSUME \A s \in Handlers : HandlerInv(s), NEW r \in Handlers,
         Others(r), HistoryGrows(r), age' = age
  PROVE  \A s \in Handlers \ {r} : HandlerInv(s)'
<1> SUFFICES ASSUME NEW s \in Handlers \ {r} PROVE HandlerInv(s)'
  OBVIOUS
<1>1. /\ pc'[s] = pc[s] /\ at'[s] = at[s] /\ request'[s] = request[s]
      /\ subOrg'[s] = subOrg[s] /\ amsOrg'[s] = amsOrg[s]
      /\ written'[s] = written[s] /\ callTime'[s] = callTime[s]
  BY DEF Others
<1>2. /\ changed'[s] = changed[s]
      /\ member[s] => member'[s]
      /\ Running(s) /\ Kind(s) = "delete" => heldBy[s] \subseteq heldBy'[s]
  BY DEF HistoryGrows
<1>3. CallerInv(s) /\ FoundInv(s) /\ IdInv(s) /\ ReplyInv(s)
  BY DEF HandlerInv
<1>r. /\ Running(s)' <=> Running(s)
      /\ Kind(s)' = Kind(s) /\ Org(s)' = Org(s)
      /\ request'[s].admin = request[s].admin /\ request'[s].valid = request[s].valid
      /\ request'[s].statusOK = request[s].statusOK
      /\ Sent(s)' = Sent(s) /\ Recorded(written[s])' = Recorded(written[s])
  BY <1>1 DEF Running, Kind, Org, Sent, Recorded
<1>4. CallerInv(s)'
  BY <1>1, <1>2, <1>3, <1>r DEF CallerInv
<1>5. FoundInv(s)'
  BY <1>1, <1>2, <1>3, <1>r DEF FoundInv
<1>6. IdInv(s)'
  BY <1>1, <1>3, <1>r DEF IdInv
<1>7. ReplyInv(s)'
  BY <1>1, <1>2, <1>3, <1>r DEF ReplyInv
<1> QED
  BY <1>4, <1>5, <1>6, <1>7 DEF HandlerInv

\* What may be written.
ReplyCodes == {<<s>> : s \in Refusals \cup {200, 204}} \cup {<<200, 500>>}

LEMMA CodesAreSequences ==
  ASSUME NEW codes \in ReplyCodes
  PROVE  codes \in Seq(Statuses) /\ Len(codes) \in 1..2
<1>1. CASE \E s \in Refusals \cup {200, 204} : codes = <<s>>
  BY <1>1, RefusalRange DEF Statuses
<1>2. CASE codes = <<200, 500>>
  BY <1>2 DEF Statuses
<1> QED
  BY <1>1, <1>2 DEF ReplyCodes

LEMMA ReplyLocals ==
  ASSUME TypeOK, NEW r \in Handlers, NEW codes \in ReplyCodes, Reply(r, codes)
  PROVE  /\ LocalsOK' /\ Others(r)
         /\ pc'[r] = "replied" /\ at'[r] = 1 /\ written'[r] = codes /\ request' = request
<1>1. codes \in Seq(Statuses) /\ Len(codes) \in 1..2
  BY CodesAreSequences
<1>2. /\ Others(r)
      /\ pc'[r] = "replied" /\ at'[r] = 1 /\ written'[r] = codes /\ request' = request
  BY DEF Reply, Write, Goto, TypeOK, Others
<1>3. written' \in [Handlers -> Seq(Statuses)]
  BY <1>1 DEF Reply, Write, TypeOK
<1>4. \A s \in Handlers : Len(written'[s]) \in (IF pc'[s] = "replied" THEN 1..2 ELSE {0})
  BY <1>1, <1>2 DEF Others, TypeOK
<1>5. at' \in [Handlers -> Nat]
  BY DEF Reply, TypeOK
<1>6. \A s \in Handlers : at'[s] \in 1..Len(Program(request'[s].kind))
  <2>1. 1 \in 1..Len(Program(Kind(r)))
    BY Position, Programs DEF Kinds
  <2> QED
    BY <1>2, <2>1 DEF Others, TypeOK, Kind
<1>7. callTime' \in [Handlers -> 0..MaxCall]
  BY SeatsAssumption DEF Reply, TypeOK
<1>8. /\ pc' \in [Handlers -> Pcs] /\ request' \in [Handlers -> Requests]
      /\ subOrg' \in [Handlers -> AmsOrgs \cup {NoOrg}]
      /\ amsOrg' \in [Handlers -> AmsOrgs \cup {NoOrg}]
  BY DEF Reply, Goto, TypeOK, Pcs
<1> QED
  BY <1>2, <1>3, <1>4, <1>5, <1>6, <1>7, <1>8 DEF LocalsOK

\* A handler refuses: it has changed nothing, and says so.
LEMMA RefuseKeeps ==
  ASSUME SeatsInv, NEW r \in Handlers, pc[r] \notin {"idle", "replied"},
         NEW s \in Refusals, Refuse(r, s)
  PROVE  SeatsInv'
<1>t. TypeOK /\ \A q \in Handlers : HandlerInv(q)
  BY DEF SeatsInv
<1>1. <<s>> \in ReplyCodes
  BY DEF ReplyCodes
<1>2. /\ LocalsOK' /\ Others(r)
      /\ pc'[r] = "replied" /\ at'[r] = 1 /\ written'[r] = <<s>> /\ request' = request
  BY <1>t, <1>1, ReplyLocals DEF Refuse
<1>3. UNCHANGED <<idCache, upstream, age, changed>>
  BY DEF Refuse
<1>4. HistoryOK'
  BY <1>t, <1>3 DEF Refuse, TypeOK, HistoryOK
<1>5. TypeOK'
  BY <1>t, <1>2, <1>3, <1>4
  DEF TypeOK, LocalsOK, HistoryOK, Pcs, upstream
<1>6. HistoryGrows(r)
  BY <1>t, <1>3 DEF HistoryGrows, Refuse, TypeOK
<1>7. HandlerInv(r)'
  <2>1. ~changed'[r]
    BY <1>t, <1>3 DEF HandlerInv, CallerInv
  <2>2. Sent(r)' = s /\ Recorded(written'[r]) = s /\ s \in 400..599
    BY <1>2, RefusalRange DEF Sent, Recorded
  <2> QED
    BY <1>2, <2>1, <2>2
    DEF HandlerInv, CallerInv, FoundInv, IdInv, ReplyInv, Running, Kind
<1>8. \A q \in Handlers : HandlerInv(q)'
  BY <1>t, <1>2, <1>3, <1>6, <1>7, OthersKeep
<1>9. AgeInv' /\ CacheInv'
  BY <1>3 DEF SeatsInv, AgeInv, CacheInv, upstream
<1> QED
  BY <1>5, <1>8, <1>9 DEF SeatsInv

----------------------------------------------------------------------------
\* A handler gets on: what its next step needs has been found out.
LEMMA AdvanceLocals ==
  ASSUME TypeOK, NEW r \in Handlers, NEW sub \in AmsOrgs \cup {NoOrg},
         NEW ams \in AmsOrgs \cup {NoOrg}, pc[r] \notin {"idle", "replied"},
         Advance(r, sub, ams)
  PROVE  /\ LocalsOK' /\ Others(r)
         /\ pc'[r] = "run" /\ at'[r] = at[r] + 1 /\ at[r] < Len(Program(Kind(r)))
         /\ subOrg'[r] = sub /\ amsOrg'[r] = ams /\ callTime'[r] = 0
         /\ request' = request /\ written' = written
<1>1. /\ Others(r)
      /\ pc'[r] = "run" /\ at'[r] = at[r] + 1 /\ at[r] < Len(Program(Kind(r)))
      /\ subOrg'[r] = sub /\ amsOrg'[r] = ams /\ callTime'[r] = 0
      /\ request' = request /\ written' = written
  BY DEF Advance, Goto, TypeOK, Others, Kind
<1>2. at' \in [Handlers -> Nat]
  BY DEF Advance, TypeOK
<1>3. \A s \in Handlers : at'[s] \in 1..Len(Program(request'[s].kind))
  <2>1. at[r] + 1 \in 1..Len(Program(Kind(r)))
    <3>1. Len(Program(Kind(r))) \in Nat
      BY Position, Programs DEF Kinds
    <3> QED
      BY <1>1, <3>1, Position
  <2> QED
    BY <1>1, <2>1 DEF Others, TypeOK, Kind
<1>4. \A s \in Handlers : Len(written'[s]) \in (IF pc'[s] = "replied" THEN 1..2 ELSE {0})
  BY <1>1 DEF Others, TypeOK
<1>5. callTime' \in [Handlers -> 0..MaxCall]
  BY SeatsAssumption DEF Advance, TypeOK
<1>6. /\ pc' \in [Handlers -> Pcs]
      /\ subOrg' \in [Handlers -> AmsOrgs \cup {NoOrg}]
      /\ amsOrg' \in [Handlers -> AmsOrgs \cup {NoOrg}]
  BY DEF Advance, Goto, TypeOK, Pcs
<1> QED
  BY <1>1, <1>2, <1>3, <1>4, <1>5, <1>6 DEF LocalsOK, TypeOK

\* What a handler must have found out before it does the step n of its program.
Prepared(r, n, sub, ams) ==
  /\ Kind(r) = "post" => member[r]
  /\ Kind(r) = "delete" => sub \in heldBy[r]
  /\ Kind(r) = "delete" /\ n = 4 => ams = sub
  /\ Kind(r) = "get" /\ n > 2 => request[r].statusOK
  /\ HasConverted(Kind(r), n) => ams \in AmsOrgs /\ age[Org(r)][ams] <= MaxCall + CacheTTL

LEMMA AdvanceKeeps ==
  ASSUME SeatsInv, IdCacheOK', CacheInv',
         NEW r \in Handlers, NEW sub \in AmsOrgs \cup {NoOrg}, NEW ams \in AmsOrgs \cup {NoOrg},
         Running(r), Advance(r, sub, ams), Prepared(r, at[r] + 1, sub, ams),
         UNCHANGED <<upstream, history>>
  PROVE  SeatsInv'
<1>t. TypeOK /\ \A q \in Handlers : HandlerInv(q)
  BY DEF SeatsInv
<1>1. /\ LocalsOK' /\ Others(r)
      /\ pc'[r] = "run" /\ at'[r] = at[r] + 1
      /\ subOrg'[r] = sub /\ amsOrg'[r] = ams /\ callTime'[r] = 0
      /\ request' = request /\ written' = written
  BY <1>t, AdvanceLocals DEF Running
<1>2. UNCHANGED <<amsOf, seats, worksFor, age, member, heldBy, changed>>
  BY DEF upstream, history
<1>3. TypeOK'
  <2>1. UpstreamOK' /\ HistoryOK'
    BY <1>t, <1>2 DEF TypeOK, UpstreamOK, HistoryOK
  <2> QED
    BY <1>1, <2>1 DEF TypeOK, LocalsOK, IdCacheOK, UpstreamOK, HistoryOK, Pcs
<1>4. HistoryGrows(r)
  BY <1>2 DEF HistoryGrows
<1>5. HandlerInv(r)'
  <2>1. Kind(r)' = Kind(r) /\ Org(r)' = Org(r) /\ at[r] \in Nat /\ at[r] >= 1
    BY <1>1, <1>t, Position DEF Kind, Org
  <2>2. CallerInv(r)'
    BY <1>1, <1>2, <1>t, <2>1 DEF HandlerInv, CallerInv, Running
  <2>3. FoundInv(r)'
    BY <1>1, <1>2, <2>1 DEF FoundInv, Prepared
  <2>4. IdInv(r)'
    <3>1. HasConverted(Kind(r), at[r] + 1) =>
            ams \in AmsOrgs /\ age[Org(r)][ams] <= MaxCall + CacheTTL + 0
      BY SeatsAssumption DEF Prepared
    <3> QED
      BY <1>1, <1>2, <2>1, <3>1 DEF IdInv
  <2>5. ReplyInv(r)'
    BY <1>1, <1>2, <1>t, <2>1 DEF HandlerInv, CallerInv, ReplyInv, Running
  <2> QED
    BY <2>2, <2>3, <2>4, <2>5 DEF HandlerInv
<1>6. \A q \in Handlers : HandlerInv(q)'
  BY <1>t, <1>1, <1>2, <1>4, <1>5, OthersKeep
<1>7. AgeInv'
  BY <1>2 DEF SeatsInv, AgeInv
<1> QED
  BY <1>3, <1>6, <1>7 DEF SeatsInv

----------------------------------------------------------------------------
\* The last step of a program has succeeded, or its answer was lost.
Codes(r) == IF Kind(r) = "delete" THEN {<<204>>} ELSE {<<200>>, <<200, 500>>}

\* A reply, after which the histories are what they should be.
LEMMA ReplyKeeps ==
  ASSUME SeatsInv, IdCacheOK', UpstreamOK', HistoryOK', AgeInv', CacheInv',
         NEW r \in Handlers, Running(r),
         NEW codes \in ReplyCodes, Reply(r, codes), age' = age, HistoryGrows(r),
         codes \in Codes(r) \/ codes = << 500 >>,
         codes \in Codes(r) => (changed'[r] <=> Kind(r) # "get"),
         changed'[r] /\ Kind(r) = "post" => request[r].admin /\ member'[r]
  PROVE  SeatsInv'
<1>t. TypeOK /\ \A q \in Handlers : HandlerInv(q)
  BY DEF SeatsInv
<1>1. /\ LocalsOK' /\ Others(r)
      /\ pc'[r] = "replied" /\ at'[r] = 1 /\ written'[r] = codes /\ request' = request
  BY <1>t, ReplyLocals
<1>2. TypeOK'
  BY <1>1 DEF TypeOK, LocalsOK, IdCacheOK, UpstreamOK, HistoryOK, Pcs
<1>3. ReplyInv(r)'
  <2>1. Kind(r)' = Kind(r) /\ request'[r].admin = request[r].admin
    BY <1>1 DEF Kind
  <2>2. CASE codes = << 500 >>
    <3>1. Sent(r)' = 500 /\ Recorded(written'[r]) = 500
      BY <1>1, <2>2 DEF Sent, Recorded
    <3> QED
      BY <2>1, <3>1 DEF ReplyInv
  <2>3. CASE codes \in Codes(r)
    <3>1. \/ Sent(r)' \in {200, 204} /\ Recorded(written'[r]) = Sent(r)'
          \/ Sent(r)' = 200 /\ Recorded(written'[r]) = 500 /\ Kind(r) # "delete"
      BY <1>1, <2>3 DEF Sent, Codes, Recorded
    <3>2. Kind(r) \in {"get", "post", "delete"}
      BY <1>t, SeatsAssumption DEF TypeOK, LocalsOK, Kind, SeatsAssumption, Request
    <3> QED
      BY <2>1, <2>3, <3>1, <3>2 DEF ReplyInv
  <2> QED
    BY <2>2, <2>3
<1>4. HandlerInv(r)'
  BY <1>1, <1>3 DEF HandlerInv, CallerInv, FoundInv, IdInv, Running
<1>5. \A q \in Handlers : HandlerInv(q)'
  BY <1>t, <1>1, <1>4, OthersKeep
<1> QED
  BY <1>2, <1>5 DEF SeatsInv

LEMMA CodesAreReplies ==
  ASSUME NEW r, NEW codes \in Codes(r) \cup {<< 500 >>}
  PROVE  codes \in ReplyCodes
BY DEF Codes, ReplyCodes, Refusals

\* A listing has succeeded: nothing is changed.
LEMMA ListingKeeps ==
  ASSUME SeatsInv, NEW r \in Handlers, Running(r), Kind(r) = "get", Succeed(r),
         UNCHANGED <<idCache, upstream, history>>
  PROVE  SeatsInv'
<1>t. TypeOK /\ \A q \in Handlers : HandlerInv(q)
  BY DEF SeatsInv
<1>1. PICK codes \in Codes(r) : Reply(r, codes)
  BY DEF Succeed, Codes, Kind
<1>2. UNCHANGED <<idCache, amsOf, seats, worksFor, age, member, heldBy, changed>>
  BY DEF upstream, history
<1>3. IdCacheOK' /\ UpstreamOK' /\ HistoryOK'
  BY <1>t, <1>2 DEF TypeOK, IdCacheOK, UpstreamOK, HistoryOK
<1>4. AgeInv' /\ CacheInv' /\ HistoryGrows(r)
  BY <1>2 DEF SeatsInv, AgeInv, CacheInv, HistoryGrows
<1>5. ~changed'[r]
  BY <1>2, <1>t DEF HandlerInv, CallerInv, Running
<1> QED
  BY <1>1, <1>2, <1>3, <1>4, <1>5, CodesAreReplies, ReplyKeeps

\* What a change of the subscriptions leaves of their histories.
LEMMA Witnessed ==
  ASSUME TypeOK, \A i \in DOMAIN seats' : seats'[i] \in AmsOrgs,
         NEW S \in SUBSET Handlers, Witness(S)
  PROVE  /\ heldBy' \in [Handlers -> SUBSET AmsOrgs]
         /\ \A q \in S : Running(q) /\ Kind(q) = "delete" => heldBy[q] \subseteq heldBy'[q]
<1>1. \A i \in Ids : Where(seats', i) \in SUBSET AmsOrgs
  BY DEF Where
<1>2. \A q \in Handlers : request[q].id \in Ids
  BY SeatsAssumption DEF TypeOK, Request
<1>3. heldBy' \in [Handlers -> SUBSET AmsOrgs]
  BY <1>1, <1>2 DEF Witness, TypeOK
<1>4. \A q \in S : Running(q) /\ Kind(q) = "delete" => heldBy[q] \subseteq heldBy'[q]
  BY DEF Witness, Running, Kind
<1> QED
  BY <1>3, <1>4

\* A seat is taken away or assigned, and the handler may not learn of it.
LEMMA PerformedReplies ==
  ASSUME NEW r \in Handlers, Kind(r) \in {"post", "delete"}, at[r] = 4, Performed(r)
  PROVE  \E codes \in Codes(r) \cup {<< 500 >>} : Reply(r, codes)
<1>1. at[r] = Len(Program(Kind(r)))
  BY Programs
<1>2. MapResponse(Other, 500) = 500
  BY DEF MapResponse, Other
<1>3. ~Advance(r, subOrg[r], amsOrg[r])
  BY <1>1 DEF Advance, Kind
<1>4. Succeed(r) \/ Reply(r, << 500 >>)
  BY <1>2, <1>3 DEF Performed, Continue
<1>5. ASSUME Succeed(r) PROVE \E codes \in Codes(r) : Reply(r, codes)
  BY <1>5 DEF Succeed, Codes, Kind
<1> QED
  BY <1>4, <1>5

LEMMA PerformedKeeps ==
  ASSUME SeatsInv, DOMAIN seats' \subseteq Ids, \A i \in DOMAIN seats' : seats'[i] \in AmsOrgs,
         NEW r \in Handlers, pc[r] = "run", Kind(r) \in {"post", "delete"}, at[r] = 4,
         Performed(r)
  PROVE  SeatsInv'
<1>t. TypeOK /\ \A q \in Handlers : HandlerInv(q)
  BY DEF SeatsInv
<1>1. UNCHANGED <<idCache, amsOf, worksFor, age, member>>
  BY DEF Performed
<1>3. PICK codes \in Codes(r) \cup {<< 500 >>} : Reply(r, codes)
  BY PerformedReplies
<1>4. changed' = [changed EXCEPT ![r] = TRUE] /\ Witness(Handlers \ {r})
  BY DEF Performed
<1>5. /\ heldBy' \in [Handlers -> SUBSET AmsOrgs]
      /\ \A q \in Handlers \ {r} :
           Running(q) /\ Kind(q) = "delete" => heldBy[q] \subseteq heldBy'[q]
  BY <1>t, <1>4, Witnessed
<1>6. IdCacheOK' /\ UpstreamOK' /\ HistoryOK'
  BY <1>t, <1>1, <1>4, <1>5 DEF TypeOK, IdCacheOK, UpstreamOK, HistoryOK
<1>7. AgeInv' /\ CacheInv' /\ HistoryGrows(r)
  BY <1>t, <1>1, <1>4, <1>5 DEF SeatsInv, AgeInv, CacheInv, HistoryGrows, TypeOK
<1>8. changed'[r] /\ (Kind(r) = "post" => request[r].admin /\ member'[r])
  BY <1>t, <1>1, <1>4 DEF TypeOK, HandlerInv, CallerInv, FoundInv, Running
<1>9. codes \in ReplyCodes
  BY CodesAreReplies
<1> QED
  BY <1>1, <1>3, <1>6, <1>7, <1>8, <1>9, ReplyKeeps DEF Running

----------------------------------------------------------------------------
\* A step of a handler that concerns its own locals only.
LEMMA LocalStep ==
  ASSUME SeatsInv, NEW r \in Handlers, LocalsOK', HistoryOK', Others(r), HistoryGrows(r),
         UNCHANGED <<idCache, upstream, age>>, HandlerInv(r)'
  PROVE  SeatsInv'
<1>1. TypeOK'
  BY DEF SeatsInv, TypeOK, LocalsOK, HistoryOK, Pcs, upstream
<1>2. \A q \in Handlers : HandlerInv(q)'
  BY OthersKeep DEF SeatsInv
<1>3. AgeInv' /\ CacheInv'
  BY DEF SeatsInv, AgeInv, CacheInv, upstream
<1> QED
  BY <1>1, <1>2, <1>3 DEF SeatsInv

\* A request arrives, is begun, and ends.
LEMMA CheckKeeps ==
  ASSUME SeatsInv, NEW r \in Handlers, Check(r) \/ Finish(r)
  PROVE  SeatsInv'
<1>t. TypeOK /\ \A q \in Handlers : HandlerInv(q)
  BY DEF SeatsInv
<1>1. CASE Arrive(r)
  <2>1. PICK q \in Requests :
          /\ request' = [request EXCEPT ![r] = q]
          /\ member' = [member EXCEPT ![r] = q.kind = "post" /\ worksFor[q.user] = q.org]
          /\ heldBy' = [heldBy EXCEPT ![r] =
                          IF q.kind = "delete" THEN Where(seats, q.id) ELSE {}]
    BY <1>1 DEF Arrive
  <2>2. /\ pc[r] = "idle" /\ pc' = [pc EXCEPT ![r] = "check"]
        /\ UNCHANGED <<idCache, at, subOrg, amsOrg, written, callTime, upstream, age, changed>>
    BY <1>1 DEF Arrive, Goto
  <2>3. q.kind \in Kinds /\ at[r] = 1
    BY <1>t, <2>2, SeatsAssumption DEF Request, Kinds, HandlerInv, CallerInv
  <2>4. \A s \in Handlers : at'[s] \in 1..Len(Program(request'[s].kind))
    <3>1. 1 \in 1..Len(Program(q.kind))
      BY <2>3, Programs DEF Kinds
    <3> QED
      BY <1>t, <2>1, <2>2, <2>3, <3>1 DEF TypeOK
  <2>5. \A s \in Handlers : Len(written'[s]) \in (IF pc'[s] = "replied" THEN 1..2 ELSE {0})
    BY <1>t, <2>2 DEF TypeOK
  <2>6. LocalsOK'
    BY <1>t, <2>1, <2>2, <2>4, <2>5 DEF TypeOK, LocalsOK, Pcs
  <2>7. HistoryOK'
    <3>1. Where(seats, q.id) \in SUBSET AmsOrgs
      BY <1>t DEF TypeOK, Where
    <3>2. heldBy' \in [Handlers -> SUBSET AmsOrgs]
      BY <1>t, <2>1, <3>1 DEF TypeOK
    <3>3. (q.kind = "post" /\ worksFor[q.user] = q.org) \in BOOLEAN
      OBVIOUS
    <3>4. member' \in [Handlers -> BOOLEAN]
      BY <1>t, <2>1, <3>3 DEF TypeOK
    <3> QED
      BY <1>t, <2>2, <3>2, <3>4 DEF TypeOK, HistoryOK
  <2>8. Others(r) /\ HistoryGrows(r)
    BY <1>t, <2>1, <2>2 DEF Others, HistoryGrows, TypeOK
  <2>9. HandlerInv(r)'
    <3>1. pc'[r] = "check" /\ at'[r] = 1 /\ ~changed'[r]
      BY <1>t, <2>2, <2>3 DEF TypeOK, HandlerInv, CallerInv
    <3> QED
      BY <3>1 DEF HandlerInv, CallerInv, FoundInv, IdInv, ReplyInv, Running
  <2> QED
    BY <2>2, <2>6, <2>7, <2>8, <2>9, LocalStep
<1>2. CASE RefuseCaller(r) \/ RefuseRequest(r)
  BY <1>2, RefuseKeeps DEF RefuseCaller, RefuseRequest, Refusals
<1>3. CASE Begin(r)
  <2>1. /\ pc[r] = "check" /\ MayCall(request[r]) /\ request[r].valid
        /\ pc' = [pc EXCEPT ![r] = "run"]
        /\ UNCHANGED <<idCache, at, request, subOrg, amsOrg, written, callTime, upstream, history>>
    BY <1>3 DEF Begin, Goto
  <2>2. \A s \in Handlers : Len(written'[s]) \in (IF pc'[s] = "replied" THEN 1..2 ELSE {0})
    BY <1>t, <2>1 DEF TypeOK
  <2>3. LocalsOK'
    BY <1>t, <2>1, <2>2 DEF TypeOK, LocalsOK, Pcs
  <2>4. HistoryOK'
    BY <1>t, <2>1 DEF TypeOK, HistoryOK, history
  <2>5. Others(r) /\ HistoryGrows(r)
    BY <1>t, <2>1 DEF Others, HistoryGrows, TypeOK, history
  <2>6. HandlerInv(r)'
    <3>1. /\ pc'[r] = "run" /\ at'[r] = 1 /\ ~changed'[r] /\ request' = request
          /\ (Kind(r) # "get" => request[r].admin) /\ request[r].valid
      BY <1>t, <2>1 DEF TypeOK, HandlerInv, CallerInv, MayCall, Kind, history
    <3>2. Kind(r) \in Kinds /\ ~HasConverted(Kind(r), 1)
      BY <1>t, Position DEF HasConverted
    <3> QED
      BY <3>1, <3>2 DEF HandlerInv, CallerInv, FoundInv, IdInv, ReplyInv, Running, Kind
  <2> QED
    BY <2>1, <2>3, <2>4, <2>5, <2>6, LocalStep DEF history
<1>4. CASE Finish(r)
  <2>1. /\ pc[r] = "replied" /\ pc' = [pc EXCEPT ![r] = "idle"]
        /\ request' = [request EXCEPT ![r] = AnyRequest]
        /\ written' = [written EXCEPT ![r] = <<>>]
        /\ member' = [member EXCEPT ![r] = FALSE]
        /\ changed' = [changed EXCEPT ![r] = FALSE]
        /\ UNCHANGED <<heldBy, idCache, at, subOrg, amsOrg, callTime, upstream, age>>
    BY <1>4 DEF Finish, Goto
  <2>2. AnyRequest \in Requests /\ AnyRequest.kind \in Kinds
    BY SeatsAssumption DEF AnyRequest, Request, Kinds
  <2>3. \A s \in Handlers : Len(written'[s]) \in (IF pc'[s] = "replied" THEN 1..2 ELSE {0})
    BY <1>t, <2>1 DEF TypeOK
  <2>4. \A s \in Handlers : at'[s] \in 1..Len(Program(request'[s].kind))
    <3>1. 1 \in 1..Len(Program(AnyRequest.kind)) /\ at[r] = 1
      BY <1>t, <2>1, <2>2, Programs DEF Kinds, HandlerInv, CallerInv
    <3> QED
      BY <1>t, <2>1, <3>1 DEF TypeOK
  <2>5. LocalsOK'
    BY <1>t, <2>1, <2>2, <2>3, <2>4 DEF TypeOK, LocalsOK, Pcs
  <2>6. HistoryOK'
    BY <1>t, <2>1 DEF TypeOK, HistoryOK
  <2>7. Others(r) /\ HistoryGrows(r)
    BY <1>t, <2>1 DEF Others, HistoryGrows, TypeOK
  <2>8. HandlerInv(r)'
    <3>1. pc'[r] = "idle" /\ at'[r] = at[r] /\ at[r] = 1 /\ ~changed'[r]
      BY <1>t, <2>1 DEF TypeOK, HandlerInv, CallerInv
    <3> QED
      BY <3>1 DEF HandlerInv, CallerInv, FoundInv, IdInv, ReplyInv, Running
  <2> QED
    BY <2>1, <2>5, <2>6, <2>7, <2>8, LocalStep
<1> QED
  BY <1>1, <1>2, <1>3, <1>4 DEF Check

----------------------------------------------------------------------------
\* An unchanged cache remains what it was.
LEMMA CacheStays ==
  ASSUME SeatsInv, UNCHANGED <<idCache, age>>
  PROVE  IdCacheOK' /\ CacheInv'
BY DEF SeatsInv, TypeOK, IdCacheOK, CacheInv

\* The ways in which a handler ends with a refusal or an error.
LEMMA RefusalsRefuse ==
  ASSUME NEW r \in Handlers,
         \/ FindForeigner(r) \/ FindNobody(r) \/ UserFails(r) \/ ConvertMalformed(r)
         \/ ConvertedToNothing(r) \/ AmsFails(r) \/ SubscriptionGone(r)
         \/ SubscriptionWithoutOrg(r) \/ RefuseForeign(r) \/ RefuseStatus(r) \/ Deny(r)
  PROVE  \E status \in Refusals : Refuse(r, status)
<1>2. {401, 403} \in SUBSET Refusals /\ {404} \in SUBSET Refusals
      /\ {500} \in SUBSET Refusals /\ {400} \in SUBSET Refusals /\ AmsErrors \in SUBSET Refusals
  BY DEF Refusals
<1>3. ASSUME NEW kind \in {"ams", "bop", "client"}, NEW s \in SUBSET Refusals,
             NEW err \in Errors(kind, s) \cup {Other}, Fail(r, err)
      PROVE  \E status \in Refusals : Refuse(r, status)
  <2>1. MapResponse(err, 500) \in Refusals
    BY Mapped
  <2> QED
    BY <1>3, <2>1 DEF Fail
<1>4. CASE FindForeigner(r) \/ SubscriptionWithoutOrg(r) \/ RefuseForeign(r) \/ Deny(r)
  BY <1>4 DEF FindForeigner, SubscriptionWithoutOrg, RefuseForeign, Deny, Refusals
<1>5. CASE FindNobody(r)
  BY <1>2, <1>3, <1>5 DEF FindNobody
<1>6. CASE UserFails(r)
  BY <1>2, <1>3, <1>6 DEF UserFails
<1>7. CASE ConvertMalformed(r)
  BY <1>2, <1>3, <1>7 DEF ConvertMalformed
<1>8. CASE ConvertedToNothing(r)
  BY <1>2, <1>3, <1>8 DEF ConvertedToNothing
<1>9. CASE AmsFails(r)
  BY <1>2, <1>3, <1>9 DEF AmsFails
<1>10. CASE SubscriptionGone(r)
  BY <1>2, <1>3, <1>10 DEF SubscriptionGone
<1>11. CASE RefuseStatus(r)
  BY <1>2, <1>3, <1>11 DEF RefuseStatus
<1> QED
  BY <1>4, <1>5, <1>6, <1>7, <1>8, <1>9, <1>10, <1>11

LEMMA RefusalsKeep ==
  ASSUME SeatsInv, NEW r \in Handlers,
         \/ FindForeigner(r) \/ FindNobody(r) \/ UserFails(r) \/ ConvertMalformed(r)
         \/ ConvertedToNothing(r) \/ AmsFails(r) \/ SubscriptionGone(r)
         \/ SubscriptionWithoutOrg(r) \/ RefuseForeign(r) \/ RefuseStatus(r) \/ Deny(r)
  PROVE  SeatsInv'
<1>1. pc[r] \notin {"idle", "replied"}
  BY CallsRun DEF FindForeigner, FindNobody, UserFails, ConvertMalformed, ConvertedToNothing,
     AmsFails, SubscriptionGone, SubscriptionWithoutOrg, RefuseForeign, RefuseStatus, Deny,
     Running
<1> QED
  BY <1>1, RefusalsRefuse, RefuseKeeps

\* The ways in which a handler gets on.
LEMMA GettingOnKeeps ==
  ASSUME SeatsInv, PresentInv, NEW r \in Handlers,
         FindMember(r) \/ FindSubscription(r) \/ Pass(r) \/ Read(r)
  PROVE  SeatsInv'
<1>t. /\ TypeOK /\ CallerInv(r) /\ FoundInv(r) /\ IdInv(r)
      /\ subOrg[r] \in AmsOrgs \cup {NoOrg} /\ amsOrg[r] \in AmsOrgs \cup {NoOrg}
  BY DEF SeatsInv, HandlerInv, TypeOK
<1>u. UNCHANGED <<idCache, upstream, history>>
  BY DEF FindMember, FindSubscription, Pass, Read
<1>c. IdCacheOK' /\ CacheInv'
  BY <1>u, CacheStays DEF history
<1>r. Running(r) /\ pc[r] = "run"
  BY CallsRun DEF FindMember, FindSubscription, Pass, Read, Doing
<1>1. ASSUME NEW sub \in AmsOrgs \cup {NoOrg}, Advance(r, sub, amsOrg[r]),
             Prepared(r, at[r] + 1, sub, amsOrg[r])
      PROVE  SeatsInv'
  BY <1>1, <1>t, <1>u, <1>c, <1>r, AdvanceKeeps
<1>2. CASE FindMember(r)
  <2>1. Kind(r) = "post" /\ at[r] = 1 /\ worksFor[request[r].user] = Org(r) /\ Continue(r)
    BY <1>2, <1>t, Steps DEF FindMember
  <2>2. member[r]
    BY <1>r, <2>1 DEF PresentInv
  <2>3. Advance(r, subOrg[r], amsOrg[r])
    BY <2>1, Programs DEF Continue, Succeed, Kind
  <2> QED
    BY <1>1, <1>t, <2>1, <2>2, <2>3 DEF Prepared, HasConverted
<1>3. CASE FindSubscription(r)
  <2>1. Kind(r) = "delete" /\ at[r] = 1
    BY <1>3, <1>t, Steps DEF FindSubscription
  <2>2. PICK a \in Where(seats, request[r].id) : Advance(r, a, amsOrg[r])
    BY <1>3 DEF FindSubscription
  <2>3. a \in heldBy[r] /\ a \in AmsOrgs
    BY <1>t, <1>r, <2>1, <2>2 DEF PresentInv, TypeOK, Where
  <2> QED
    BY <1>1, <2>1, <2>2, <2>3 DEF Prepared, HasConverted
<1>4. CASE Pass(r)
  <2>1. \/ Kind(r) = "delete" /\ at[r] = 3 /\ subOrg[r] = amsOrg[r]
        \/ Kind(r) = "get" /\ at[r] = 2 /\ request[r].statusOK
    BY <1>4, <1>t, Steps DEF Pass
  <2>2. Advance(r, subOrg[r], amsOrg[r])
    BY <1>4, <2>1, Programs DEF Pass, Continue, Succeed, Kind
  <2>3. callTime[r] = 0
    BY <1>t, <1>r, <2>1 DEF IdInv, HasConverted, Compares
  <2>4. amsOrg[r] \in AmsOrgs /\ age[Org(r)][amsOrg[r]] <= MaxCall + CacheTTL
    BY <1>t, <1>r, <2>1, <2>3, SeatsAssumption DEF IdInv, HasConverted
  <2> QED
    BY <1>1, <1>t, <1>r, <2>1, <2>2, <2>4 DEF Prepared, FoundInv
<1>5. CASE Read(r)
  <2>1. \/ Kind(r) = "post" /\ at[r] = 3
        \/ Kind(r) = "get" /\ at[r] = 3
        \/ Kind(r) = "get" /\ at[r] = 5
    BY <1>5, <1>t, Steps DEF Read
  <2>2. CASE Kind(r) = "post" /\ at[r] = 3
    <3>1. Advance(r, subOrg[r], amsOrg[r])
      BY <1>5, <2>2, Programs DEF Read, Continue, Succeed, Kind
    <3> QED
      BY <1>1, <1>t, <1>r, <2>2, <3>1 DEF Prepared, FoundInv, HasConverted
  <2>3. CASE Kind(r) = "get" /\ at[r] = 3
    <3>1. Advance(r, subOrg[r], amsOrg[r])
      BY <1>5, <2>3, Programs DEF Read, Continue, Succeed, Kind
    <3>2. ~HasConverted(Kind(r), at[r] + 1)
      BY <2>3 DEF HasConverted
    <3>3. Prepared(r, at[r] + 1, subOrg[r], amsOrg[r])
      BY <1>t, <1>r, <2>3, <3>2 DEF Prepared, FoundInv
    <3> QED
      BY <1>1, <1>t, <3>1, <3>3
  <2>4. CASE Kind(r) = "get" /\ at[r] = 5
    <3>l. Len(Program(request[r].kind)) = 5
      BY <2>4, Programs DEF Kind
    <3>0. ~(at[r] < Len(Program(request[r].kind)))
      BY <2>4, <3>l
    <3>1. Succeed(r)
      BY <1>5, <3>0 DEF Read, Continue, Advance
    <3> QED
      BY <1>r, <1>u, <2>4, <3>1, ListingKeeps
  <2> QED
    BY <2>1, <2>2, <2>3, <2>4
<1> QED
  BY <1>2, <1>3, <1>4, <1>5

\* The organisation's id is converted, from the cache or by AMS.
LEMMA ConvertedKeeps ==
  ASSUME SeatsInv, NEW r \in Handlers, NEW ams \in AmsOrgs,
         Running(r), Program(Kind(r))[at[r]] = "convert", Advance(r, subOrg[r], ams),
         age[Org(r)][ams] <= MaxCall + CacheTTL,
         IdCacheOK', CacheInv', UNCHANGED <<upstream, history>>
  PROVE  SeatsInv'
<1>t. TypeOK /\ FoundInv(r) /\ subOrg[r] \in AmsOrgs \cup {NoOrg}
  BY DEF SeatsInv, HandlerInv, TypeOK
<1>1. \/ Kind(r) \in {"post", "delete"} /\ at[r] = 2
      \/ Kind(r) = "get" /\ at[r] \in {1, 4}
  BY <1>t, Steps
<1>2. Prepared(r, at[r] + 1, subOrg[r], ams)
  BY <1>1, <1>t DEF Prepared, FoundInv
<1> QED
  BY <1>t, <1>2, AdvanceKeeps

LEMMA ConvertKeeps ==
  ASSUME SeatsInv, NEW r \in Handlers,
         ConvertFromCache(r) \/ ConvertByAms(r) \/ ListOrgs(r) \/ Converted(r)
  PROVE  SeatsInv'
<1> USE SeatsAssumption
<1>t. /\ TypeOK /\ HandlerInv(r) /\ CallerInv(r) /\ IdInv(r) /\ CacheInv /\ AgeInv
      /\ Org(r) \in Orgs /\ age[Org(r)] \in [AmsOrgs -> Nat] /\ callTime[r] \in 0..MaxCall
  <2>1. TypeOK /\ HandlerInv(r) /\ CacheInv /\ AgeInv
    BY DEF SeatsInv
  <2>2. Org(r) \in Orgs
    BY <2>1, Position
  <2> QED
    BY <2>1, <2>2 DEF HandlerInv, TypeOK
<1>1. CASE ConvertFromCache(r)
  <2>1. /\ Running(r) /\ Program(Kind(r))[at[r]] = "convert" /\ Org(r) \in DOMAIN idCache
        /\ idCache[Org(r)].ttl >= 0 /\ Advance(r, subOrg[r], idCache[Org(r)].id)
        /\ UNCHANGED <<idCache, upstream, history>>
    BY <1>1, CallsRun DEF ConvertFromCache, Cached, Doing, Kind
  <2>2. idCache[Org(r)].id \in AmsOrgs /\ idCache[Org(r)].ttl \in 0..CacheTTL
    BY <1>t, <2>1 DEF TypeOK
  <2>3. age[Org(r)][idCache[Org(r)].id] <= MaxCall + CacheTTL - idCache[Org(r)].ttl
    BY <1>t, <2>1 DEF CacheInv
  <2>4. age[Org(r)][idCache[Org(r)].id] <= MaxCall + CacheTTL
    BY <1>t, <2>2, <2>3
  <2>5. IdCacheOK' /\ CacheInv'
    BY <2>1, CacheStays DEF history
  <2> QED
    BY <2>1, <2>2, <2>4, <2>5, ConvertedKeeps
<1>2. CASE Converted(r)
  <2>1. /\ Running(r) /\ Program(Kind(r))[at[r]] = "convert" /\ pc[r] = "listed"
        /\ amsOrg[r] \in WellFormed /\ Advance(r, subOrg[r], amsOrg[r])
        /\ idCache' = [o \in DOMAIN idCache \cup {Org(r)} |->
                         IF o = Org(r) THEN [id |-> amsOrg[r], ttl |-> CacheTTL]
                         ELSE idCache[o]]
        /\ UNCHANGED <<upstream, history>>
    BY <1>2, <1>t DEF Converted, Running, CallerInv
  <2>2. amsOrg[r] \in AmsOrgs
    BY <1>t, <2>1 DEF TypeOK
  <2>3. age[Org(r)][amsOrg[r]] <= MaxCall
    BY <1>t, <2>1, <2>2 DEF IdInv
  <2>4. Org(r) \in WellFormed
    BY <1>t, <2>1 DEF CallerInv
  <2>5. IdCacheOK'
    BY <1>t, <2>1, <2>2, <2>4 DEF TypeOK, IdCacheOK
  <2>6. CacheInv'
    BY <1>t, <2>1, <2>2, <2>3 DEF CacheInv, history, TypeOK
  <2>7. age[Org(r)][amsOrg[r]] <= MaxCall + CacheTTL
    BY <1>t, <2>2, <2>3
  <2> QED
    BY <2>1, <2>2, <2>5, <2>6, <2>7, ConvertedKeeps
<1>3. CASE ConvertByAms(r)
  <2>1. /\ Doing(r, "convert") /\ pc' = [pc EXCEPT ![r] = "listing"]
        /\ UNCHANGED <<idCache, at, request, subOrg, amsOrg, written, callTime, upstream, history>>
    BY <1>3 DEF ConvertByAms, Goto
  <2>2. pc[r] = "run" /\ Program(Kind(r))[at[r]] = "convert" /\ Org(r) \in WellFormed
    BY <1>3, <2>1 DEF ConvertByAms, Doing, Kind
  <2>3. \A s \in Handlers : Len(written'[s]) \in (IF pc'[s] = "replied" THEN 1..2 ELSE {0})
    BY <1>t, <2>1, <2>2 DEF TypeOK
  <2>4. LocalsOK' /\ HistoryOK'
    BY <1>t, <2>1, <2>3 DEF TypeOK, LocalsOK, HistoryOK, Pcs, history
  <2>5. Others(r) /\ HistoryGrows(r) /\ pc'[r] = "listing"
    BY <1>t, <2>1 DEF Others, HistoryGrows, TypeOK, history
  <2>6. HandlerInv(r)'
    BY <1>t, <2>1, <2>2, <2>5
    DEF HandlerInv, CallerInv, FoundInv, IdInv, ReplyInv, Running, Kind, Org, history
  <2> QED
    BY <2>1, <2>4, <2>5, <2>6, LocalStep DEF history
<1>4. CASE ListOrgs(r)
  <2>1. /\ pc[r] = "listing" /\ pc' = [pc EXCEPT ![r] = "listed"]
        /\ amsOrg' = [amsOrg EXCEPT ![r] = amsOf[Org(r)]]
        /\ UNCHANGED <<idCache, at, request, subOrg, written, callTime, upstream, history>>
    BY <1>4 DEF ListOrgs, Goto
  <2>2. amsOf[Org(r)] \in AmsOrgs \cup {NoOrg}
    BY <1>t DEF TypeOK
  <2>3. \A s \in Handlers : Len(written'[s]) \in (IF pc'[s] = "replied" THEN 1..2 ELSE {0})
    BY <1>t, <2>1 DEF TypeOK
  <2>4. LocalsOK' /\ HistoryOK'
    BY <1>t, <2>1, <2>2, <2>3 DEF TypeOK, LocalsOK, HistoryOK, Pcs, history
  <2>5. /\ Others(r) /\ HistoryGrows(r) /\ pc'[r] = "listed"
        /\ amsOrg'[r] = amsOf[Org(r)] /\ Org(r)' = Org(r)
    BY <1>t, <2>1 DEF Others, HistoryGrows, TypeOK, history, Org
  <2>6. CallerInv(r)' /\ ReplyInv(r)'
    BY <1>t, <2>1, <2>5 DEF HandlerInv, CallerInv, ReplyInv, Running, Kind, history
  <2>7. IdInv(r)'
    BY <1>t, <2>1, <2>5 DEF IdInv, AgeInv, history
  <2>8. FoundInv(r)'
    <3>1. ~(Kind(r) = "delete" /\ at[r] = 4)
      BY <1>t, <2>1, Steps DEF CallerInv
    <3> QED
      BY <1>t, <2>1, <2>5, <3>1 DEF HandlerInv, FoundInv, Running, Kind, history
  <2> QED
    BY <2>1, <2>4, <2>5, <2>6, <2>7, <2>8, LocalStep DEF history, HandlerInv
<1> QED
  BY <1>1, <1>2, <1>3, <1>4

\* A seat is taken away, or assigned.
LEMMA PerformKeeps ==
  ASSUME SeatsInv, NEW r \in Handlers, PerformDelete(r) \/ Authorize(r)
  PROVE  SeatsInv'
<1>t. TypeOK
  BY DEF SeatsInv
<1>1. CASE PerformDelete(r)
  <2>1. pc[r] = "run" /\ Kind(r) = "delete" /\ at[r] = 4 /\ Performed(r)
    BY <1>1, <1>t, Steps DEF PerformDelete
  <2>2. DOMAIN seats' \subseteq Ids /\ \A i \in DOMAIN seats' : seats'[i] \in AmsOrgs
    BY <1>1, <1>t DEF PerformDelete, TypeOK
  <2> QED
    BY <2>1, <2>2, PerformedKeeps
<1>2. CASE Authorize(r)
  <2>1. pc[r] = "run" /\ Kind(r) = "post" /\ at[r] = 4 /\ Performed(r)
    BY <1>2, <1>t, Steps DEF Authorize
  <2>2. DOMAIN seats' \subseteq Ids /\ \A i \in DOMAIN seats' : seats'[i] \in AmsOrgs
    BY <1>2, <1>t DEF Authorize, TypeOK
  <2> QED
    BY <2>1, <2>2, PerformedKeeps
<1> QED
  BY <1>1, <1>2

----------------------------------------------------------------------------
\* AMS and BOP change by themselves: ids get no older, histories grow.
LEMMA WorldStep ==
  ASSUME SeatsInv, UpstreamOK', HistoryOK', AgeInv',
         UNCHANGED <<idCache, pc, at, request, subOrg, amsOrg, written, callTime, changed>>,
         \A o \in Orgs : \A a \in AmsOrgs : age'[o][a] <= age[o][a],
         \A s \in Handlers :
           /\ member[s] => member'[s]
           /\ Running(s) /\ Kind(s) = "delete" => heldBy[s] \subseteq heldBy'[s]
  PROVE  SeatsInv'
<1> USE SeatsAssumption
<1>t. TypeOK /\ CacheInv /\ \A q \in Handlers : HandlerInv(q)
  BY DEF SeatsInv
<1>1. /\ age \in [Orgs -> [AmsOrgs -> Nat]] /\ age' \in [Orgs -> [AmsOrgs -> Nat]]
      /\ \A o \in DOMAIN idCache : o \in Orgs /\ idCache[o].id \in AmsOrgs
                                   /\ idCache[o].ttl \in -1..CacheTTL
  <2>1. \A o \in DOMAIN idCache : o \in Orgs /\ idCache[o].id \in AmsOrgs
                                  /\ idCache[o].ttl \in -1..CacheTTL
    BY <1>t DEF TypeOK
  <2> QED
    BY <1>t, <2>1 DEF TypeOK, HistoryOK
<1>2. TypeOK'
  BY <1>t DEF TypeOK, UpstreamOK, HistoryOK
<1>3. CacheInv'
  BY <1>t, <1>1 DEF CacheInv
<1>4. ASSUME NEW s \in Handlers PROVE HandlerInv(s)'
  <2>1. /\ CallerInv(s) /\ FoundInv(s) /\ IdInv(s) /\ ReplyInv(s)
        /\ Org(s) \in Orgs /\ callTime[s] \in Nat
    BY <1>t, Position DEF HandlerInv, TypeOK
  <2>2. /\ Running(s)' <=> Running(s)
        /\ Kind(s)' = Kind(s) /\ Org(s)' = Org(s)
        /\ Sent(s)' = Sent(s) /\ Recorded(written[s])' = Recorded(written[s])
    BY DEF Running, Kind, Org, Sent, Recorded
  <2>3. CallerInv(s)' /\ FoundInv(s)' /\ ReplyInv(s)'
    BY <2>1, <2>2 DEF CallerInv, FoundInv, ReplyInv
  <2>4. \A a \in AmsOrgs : age'[Org(s)][a] <= age[Org(s)][a]
                           /\ age'[Org(s)][a] \in Nat /\ age[Org(s)][a] \in Nat
    BY <1>1, <2>1
  <2>5. IdInv(s)'
    BY <2>1, <2>2, <2>4 DEF IdInv
  <2> QED
    BY <2>3, <2>5 DEF HandlerInv
<1> QED
  BY <1>2, <1>3, <1>4 DEF SeatsInv

LEMMA WorldKeeps ==
  ASSUME SeatsInv,
         \/ \E o \in Orgs : Remap(o)
         \/ \E i \in Ids : Transfer(i)
         \/ \E u \in Users : Move(u)
  PROVE  SeatsInv'
<1> USE SeatsAssumption
<1>t. TypeOK /\ AgeInv
  BY DEF SeatsInv
<1>w. Window \in Nat
  BY DEF Window
<1>1. ASSUME NEW o \in Orgs, Remap(o) PROVE SeatsInv'
  <2>1. PICK a \in AmsOrgs \cup {NoOrg} :
          /\ amsOf' = [amsOf EXCEPT ![o] = a]
          /\ age' = [age EXCEPT ![o] = [b \in AmsOrgs |-> IF b = a THEN 0 ELSE @[b]]]
    BY <1>1 DEF Remap
  <2>2. UNCHANGED <<idCache, pc, at, request, subOrg, amsOrg, written, callTime,
                    seats, worksFor, member, heldBy, changed>>
    BY <1>1 DEF Remap
  <2>3. age' \in [Orgs -> [AmsOrgs -> 0..(Window + 1)]]
    BY <1>t, <1>w, <2>1 DEF TypeOK
  <2>4. UpstreamOK' /\ HistoryOK'
    BY <1>t, <2>1, <2>2, <2>3 DEF TypeOK, UpstreamOK, HistoryOK
  <2>5. AgeInv'
    BY <1>t, <2>1 DEF TypeOK, AgeInv
  <2>6. \A p \in Orgs : \A b \in AmsOrgs : age'[p][b] <= age[p][b]
    BY <1>t, <1>w, <2>1 DEF TypeOK
  <2> QED
    BY <2>2, <2>4, <2>5, <2>6, WorldStep
<1>2. ASSUME NEW i \in Ids, Transfer(i) PROVE SeatsInv'
  <2>1. PICK a \in AmsOrgs : seats' = [seats EXCEPT ![i] = a]
    BY <1>2 DEF Transfer
  <2>2. /\ Witness(Handlers)
        /\ UNCHANGED <<idCache, pc, at, request, subOrg, amsOrg, written, callTime,
                       amsOf, worksFor, age, member, changed>>
    BY <1>2 DEF Transfer
  <2>3. DOMAIN seats' \subseteq Ids /\ \A j \in DOMAIN seats' : seats'[j] \in AmsOrgs
    BY <1>t, <2>1 DEF TypeOK
  <2>4. /\ heldBy' \in [Handlers -> SUBSET AmsOrgs]
        /\ \A q \in Handlers : Running(q) /\ Kind(q) = "delete" => heldBy[q] \subseteq heldBy'[q]
    BY <1>t, <2>2, <2>3, Witnessed
  <2>5. UpstreamOK' /\ HistoryOK'
    BY <1>t, <2>2, <2>3, <2>4 DEF TypeOK, UpstreamOK, HistoryOK
  <2>6. AgeInv' /\ \A p \in Orgs : \A b \in AmsOrgs : age'[p][b] <= age[p][b]
    BY <1>t, <1>w, <2>2 DEF TypeOK, AgeInv
  <2> QED
    BY <2>2, <2>4, <2>5, <2>6, WorldStep
<1>3. ASSUME NEW u \in Users, Move(u) PROVE SeatsInv'
  <2>1. PICK o \in Orgs \cup {NoOrg} : worksFor' = [worksFor EXCEPT ![u] = o]
    BY <1>3 DEF Move
  <2>2. UNCHANGED <<idCache, pc, at, request, subOrg, amsOrg, written, callTime,
                    amsOf, seats, age, heldBy, changed>>
    BY <1>3 DEF Move
  <2>3. \A s \in Handlers : member'[s] \in BOOLEAN /\ (member[s] => member'[s])
    BY <1>3, <1>t DEF Move, TypeOK
  <2>4. member' \in [Handlers -> BOOLEAN]
    BY <1>3, <2>3 DEF Move
  <2>5. UpstreamOK' /\ HistoryOK'
    BY <1>t, <2>1, <2>2, <2>4 DEF TypeOK, UpstreamOK, HistoryOK
  <2>6. AgeInv' /\ \A p \in Orgs : \A b \in AmsOrgs : age'[p][b] <= age[p][b]
    BY <1>t, <1>w, <2>2 DEF TypeOK, AgeInv
  <2> QED
    BY <2>2, <2>3, <2>5, <2>6, WorldStep
<1> QED
  BY <1>1, <1>2, <1>3

\* Time passes: what is cached and what is on its way grow older alike.
LEMMA TickKeeps ==
  ASSUME SeatsInv, Tick
  PROVE  SeatsInv'
<1> USE SeatsAssumption
<1>t. TypeOK /\ AgeInv /\ CacheInv /\ \A q \in Handlers : HandlerInv(q)
  BY DEF SeatsInv
<1>w. Window \in Nat
  BY DEF Window
<1>1. /\ callTime' = [r \in Handlers |-> IF pc[r] = "idle" THEN 0 ELSE callTime[r] + 1]
      /\ idCache' = [o \in DOMAIN idCache |->
                       [idCache[o] EXCEPT !.ttl = IF @ < 0 THEN @ ELSE @ - 1]]
      /\ age' = [o \in Orgs |-> [a \in AmsOrgs |->
                   IF a = amsOf[o] THEN 0
                   ELSE IF age[o][a] > Window THEN age[o][a] ELSE age[o][a] + 1]]
      /\ UNCHANGED <<pc, at, request, subOrg, amsOrg, written, upstream, member, heldBy, changed>>
  BY DEF Tick
<1>2. \A r \in Handlers :
        \/ pc[r] = "idle"
        \/ (AsksAms(r) \/ Doing(r, "user")) /\ callTime[r] < MaxCall
  BY DEF Tick
<1>3. \A o \in Orgs : \A a \in AmsOrgs :
        /\ age[o][a] \in 0..(Window + 1) /\ age'[o][a] \in 0..(Window + 1)
        /\ age'[o][a] <= age[o][a] + 1
  BY <1>t, <1>w, <1>1 DEF TypeOK
<1>4. callTime' \in [Handlers -> 0..MaxCall]
  <2>1. \A r \in Handlers : pc[r] # "idle" => callTime[r] < MaxCall
    BY <1>2
  <2>2. \A r \in Handlers : callTime[r] \in 0..MaxCall
    BY <1>t DEF TypeOK
  <2>3. \A r \in Handlers :
          (IF pc[r] = "idle" THEN 0 ELSE callTime[r] + 1) \in 0..MaxCall
    <3> SUFFICES ASSUME NEW r \in Handlers
                 PROVE  (IF pc[r] = "idle" THEN 0 ELSE callTime[r] + 1) \in 0..MaxCall
      OBVIOUS
    <3>1. CASE pc[r] = "idle"
      BY <3>1
    <3>2. CASE pc[r] # "idle"
      <4>1. callTime[r] < MaxCall /\ callTime[r] \in 0..MaxCall
        BY <2>1, <2>2, <3>2
      <4>2. callTime[r] + 1 \in 0..MaxCall
        BY <4>1
      <4> QED
        BY <3>2, <4>2
    <3> QED
      BY <3>1, <3>2
  <2> QED
    BY <1>1, <2>3
<1>5. \A o \in DOMAIN idCache :
        /\ o \in Orgs
        /\ idCache[o].ttl \in -1..CacheTTL /\ idCache[o].id \in AmsOrgs \cap WellFormed
        /\ idCache'[o].id = idCache[o].id /\ idCache'[o].ttl \in -1..CacheTTL
        /\ idCache'[o].ttl = (IF idCache[o].ttl < 0 THEN idCache[o].ttl ELSE idCache[o].ttl - 1)
        /\ idCache'[o] \in [id : AmsOrgs \cap WellFormed, ttl : -1..CacheTTL]
  <2> SUFFICES ASSUME NEW o \in DOMAIN idCache
               PROVE  /\ o \in Orgs
                      /\ idCache[o].ttl \in -1..CacheTTL /\ idCache[o].id \in AmsOrgs \cap WellFormed
                      /\ idCache'[o].id = idCache[o].id /\ idCache'[o].ttl \in -1..CacheTTL
                      /\ idCache'[o].ttl = (IF idCache[o].ttl < 0 THEN idCache[o].ttl
                                            ELSE idCache[o].ttl - 1)
                      /\ idCache'[o] \in [id : AmsOrgs \cap WellFormed, ttl : -1..CacheTTL]
    OBVIOUS
  <2> DEFINE left == IF idCache[o].ttl < 0 THEN idCache[o].ttl ELSE idCache[o].ttl - 1
  <2>1. idCache[o] \in [id : AmsOrgs \cap WellFormed, ttl : -1..CacheTTL] /\ o \in Orgs
    BY <1>t DEF TypeOK
  <2>2. idCache'[o] = [idCache[o] EXCEPT !.ttl = left]
    BY <1>1
  <2>3. left \in -1..CacheTTL
    BY <2>1
  <2>4. idCache'[o] = [id |-> idCache[o].id, ttl |-> left]
    BY <2>1, <2>2
  <2> QED
    BY <2>1, <2>3, <2>4
<1>6. IdCacheOK'
  <2>1. DOMAIN idCache' = DOMAIN idCache
    BY <1>1
  <2> QED
    BY <1>t, <1>5, <2>1 DEF TypeOK, IdCacheOK
<1>7. age' \in [Orgs -> [AmsOrgs -> 0..(Window + 1)]]
  BY <1>1, <1>3
<1>8. TypeOK'
  BY <1>t, <1>1, <1>4, <1>6, <1>7 DEF TypeOK, IdCacheOK, upstream
<1>9. AgeInv'
  BY <1>1 DEF AgeInv, upstream
<1>10. CacheInv'
  <2>1. ASSUME NEW o \in DOMAIN idCache, idCache'[o].ttl >= 0
        PROVE  age'[o][idCache'[o].id] <= MaxCall + CacheTTL - idCache'[o].ttl
    <3>1. idCache[o].ttl >= 0 /\ idCache'[o].ttl = idCache[o].ttl - 1
      BY <1>5, <2>1
    <3>2. age[o][idCache[o].id] <= MaxCall + CacheTTL - idCache[o].ttl
      BY <1>t, <3>1 DEF CacheInv
    <3>3. /\ age'[o][idCache[o].id] <= age[o][idCache[o].id] + 1
          /\ age'[o][idCache[o].id] \in Nat /\ age[o][idCache[o].id] \in Nat
      BY <1>3, <1>5, <1>w
    <3> QED
      BY <1>5, <3>1, <3>2, <3>3
  <2> QED
    BY <1>1, <2>1 DEF CacheInv
<1>11. ASSUME NEW s \in Handlers PROVE HandlerInv(s)'
  <2>1. /\ CallerInv(s) /\ FoundInv(s) /\ IdInv(s) /\ ReplyInv(s)
        /\ Org(s) \in Orgs /\ callTime[s] \in Nat
    BY <1>t, Position DEF HandlerInv, TypeOK
  <2>2. /\ Running(s)' <=> Running(s)
        /\ Kind(s)' = Kind(s) /\ Org(s)' = Org(s)
        /\ Sent(s)' = Sent(s) /\ Recorded(written[s])' = Recorded(written[s])
    BY <1>1 DEF Running, Kind, Org, Sent, Recorded
  <2>3. CallerInv(s)' /\ FoundInv(s)' /\ ReplyInv(s)'
    BY <1>1, <2>1, <2>2 DEF CallerInv, FoundInv, ReplyInv
  <2>4. \A a \in AmsOrgs : age'[Org(s)][a] <= age[Org(s)][a] + 1
                           /\ age'[Org(s)][a] \in Nat /\ age[Org(s)][a] \in Nat
    BY <1>3, <1>w, <2>1
  <2>5. pc[s] # "idle" => callTime'[s] = callTime[s] + 1
    BY <1>1
  <2>6. ~(pc[s] = "run" /\ Compares(Kind(s), at[s]))
    <3>1. CASE Kind(s) = "delete" /\ at[s] = 3
      BY <1>2, <3>1, Programs DEF AsksAms, Doing, Kind, Compares
    <3>2. CASE Kind(s) = "get" /\ at[s] = 2
      BY <1>2, <3>2, Programs DEF AsksAms, Doing, Kind, Compares
    <3> QED
      BY <3>1, <3>2 DEF Compares
  <2>7. IdInv(s)'
    BY <1>1, <2>1, <2>2, <2>4, <2>5, <2>6 DEF IdInv
  <2> QED
    BY <2>3, <2>7 DEF HandlerInv
<1> QED
  BY <1>8, <1>9, <1>10, <1>11 DEF SeatsInv

----------------------------------------------------------------------------
\* The histories keep up with the present: a step of a handler that leaves AMS
\* and BOP alone, or with which its request ends.
Past(r) == pc'[r] \in {"idle", "replied"} \/ pc[r] \notin {"idle", "replied"}

LEMMA PresentStep ==
  ASSUME PresentInv, NEW r \in Handlers, Others(r), Past(r),
         UNCHANGED <<seats, worksFor>>,
         pc'[r] \notin {"idle", "replied"} => request' = request,
         \A s \in Handlers : /\ pc'[s] \notin {"idle", "replied"} =>
                                  member'[s] = member[s] /\ heldBy'[s] = heldBy[s]
  PROVE  PresentInv'
<1> SUFFICES ASSUME NEW s \in Handlers, pc'[s] \notin {"idle", "replied"}
             PROVE  /\ Kind(s)' = "post" /\ worksFor'[request'[s].user] = Org(s)' => member'[s]
                    /\ Kind(s)' = "delete" => Where(seats', request'[s].id) \subseteq heldBy'[s]
  BY DEF PresentInv
<1>1. pc[s] \notin {"idle", "replied"} /\ request'[s] = request[s]
  BY DEF Past, Others
<1> QED
  BY <1>1 DEF PresentInv, Kind, Org, Where

LEMMA ReplyOthers ==
  ASSUME TypeOK, NEW r \in Handlers, NEW codes, Reply(r, codes)
  PROVE  Others(r) /\ pc'[r] = "replied"
BY DEF Reply, Write, Goto, TypeOK, Others

LEMMA RefusalPresent ==
  ASSUME TypeOK, PresentInv, NEW r \in Handlers, NEW status, Refuse(r, status)
  PROVE  PresentInv'
<1>1. Others(r) /\ pc'[r] = "replied"
  BY ReplyOthers DEF Refuse
<1>2. UNCHANGED <<seats, worksFor>>
  BY DEF Refuse, upstream
<1>3. \A s \in Handlers \ {r} : member'[s] = member[s] /\ heldBy'[s] = heldBy[s]
  BY DEF Refuse, TypeOK
<1> QED
  BY <1>1, <1>2, <1>3, PresentStep DEF Past

\* A handler gets on, or ends with a success.
LEMMA ContinuePresent ==
  ASSUME TypeOK, PresentInv, NEW r \in Handlers, Running(r), UNCHANGED <<upstream, history>>,
         \/ \E sub, ams : Advance(r, sub, ams)
         \/ Continue(r)
  PROVE  PresentInv'
<1>1. UNCHANGED <<seats, worksFor, member, heldBy>>
  BY DEF upstream, history
<1>2. CASE \E sub, ams : Advance(r, sub, ams)
  <2>1. Others(r) /\ pc'[r] = "run" /\ request' = request
    BY <1>2 DEF Advance, Goto, TypeOK, Others
  <2> QED
    BY <1>1, <2>1, PresentStep DEF Past, Running
<1>3. CASE Succeed(r)
  <2>1. Others(r) /\ pc'[r] = "replied"
    BY <1>3, ReplyOthers DEF Succeed
  <2> QED
    BY <1>1, <2>1, PresentStep DEF Past
<1> QED
  BY <1>2, <1>3 DEF Continue

\* A subscription changes: Witness puts it into the histories.
LEMMA WitnessPresent ==
  ASSUME PresentInv, NEW S \in SUBSET Handlers, Witness(S), UNCHANGED <<worksFor, member>>,
         \A s \in S : pc'[s] = pc[s] /\ request'[s] = request[s],
         \A s \in Handlers \ S : pc'[s] \in {"idle", "replied"}
  PROVE  PresentInv'
<1> SUFFICES ASSUME NEW s \in Handlers, pc'[s] \notin {"idle", "replied"}
             PROVE  /\ Kind(s)' = "post" /\ worksFor'[request'[s].user] = Org(s)' => member'[s]
                    /\ Kind(s)' = "delete" => Where(seats', request'[s].id) \subseteq heldBy'[s]
  BY DEF PresentInv
<1>1. s \in S /\ pc[s] \notin {"idle", "replied"} /\ request'[s] = request[s]
  OBVIOUS
<1>2. Kind(s) = "delete" => heldBy'[s] = heldBy[s] \cup Where(seats', request[s].id)
  BY <1>1 DEF Witness, Kind
<1> QED
  BY <1>1, <1>2 DEF PresentInv, Kind, Org

LEMMA PerformedPresent ==
  ASSUME SeatsInv, PresentInv, NEW r \in Handlers, PerformDelete(r) \/ Authorize(r)
  PROVE  PresentInv'
<1>t. TypeOK
  BY DEF SeatsInv
<1>1. Performed(r) /\ Kind(r) \in {"post", "delete"} /\ at[r] = 4
  BY <1>t, Steps DEF PerformDelete, Authorize
<1>2. ~Advance(r, subOrg[r], amsOrg[r])
  <2>1. Len(Program(request[r].kind)) = 4
    BY <1>1, Programs DEF Kind
  <2> QED
    BY <1>1, <2>1 DEF Advance
<1>3. Others(r) /\ pc'[r] = "replied"
  BY <1>1, <1>2, <1>t, ReplyOthers DEF Performed, Continue, Succeed
<1>4. Witness(Handlers \ {r}) /\ UNCHANGED <<worksFor, member>>
  BY <1>1 DEF Performed
<1>5. /\ \A s \in Handlers \ {r} : pc'[s] = pc[s] /\ request'[s] = request[s]
      /\ \A s \in Handlers \ (Handlers \ {r}) : pc'[s] \in {"idle", "replied"}
  BY <1>3 DEF Others
<1>6. Handlers \ {r} \in SUBSET Handlers
  OBVIOUS
<1> QED
  BY <1>4, <1>5, <1>6, WitnessPresent

\* The steps of one handler.
HandlerStep(r) ==
  \/ Check(r) \/ GetUser(r) \/ ConvertUserOrgId(r)
  \/ Subscriptions(r) \/ AmsFails(r) \/ Finish(r)

LEMMA HandlerPresent ==
  ASSUME SeatsInv, PresentInv, NEW r \in Handlers, HandlerStep(r)
  PROVE  PresentInv'
<1>t. TypeOK
  BY DEF SeatsInv
<1>1. CASE Arrive(r)
  <2>1. PICK q \in Requests :
          /\ request' = [request EXCEPT ![r] = q]
          /\ member' = [member EXCEPT ![r] = q.kind = "post" /\ worksFor[q.user] = q.org]
          /\ heldBy' = [heldBy EXCEPT ![r] =
                          IF q.kind = "delete" THEN Where(seats, q.id) ELSE {}]
    BY <1>1 DEF Arrive
  <2>2. /\ pc[r] = "idle" /\ pc' = [pc EXCEPT ![r] = "check"]
        /\ UNCHANGED <<seats, worksFor>>
    BY <1>1 DEF Arrive, Goto, upstream
  <2>3. ASSUME NEW s \in Handlers, pc'[s] \notin {"idle", "replied"}
        PROVE  /\ Kind(s)' = "post" /\ worksFor'[request'[s].user] = Org(s)' => member'[s]
               /\ Kind(s)' = "delete" => Where(seats', request'[s].id) \subseteq heldBy'[s]
    <3>1. CASE s = r
      <4>1. request'[r] = q /\ heldBy'[r] = (IF q.kind = "delete" THEN Where(seats, q.id) ELSE {})
        BY <1>t, <2>1 DEF TypeOK
      <4>2. q.kind = "post" /\ worksFor[q.user] = q.org => member'[r]
        BY <1>t, <2>1 DEF TypeOK
      <4> QED
        BY <2>2, <3>1, <4>1, <4>2 DEF Kind, Org, Where
    <3>2. CASE s # r
      <4>1. /\ pc[s] \notin {"idle", "replied"} /\ request'[s] = request[s]
            /\ member'[s] = member[s] /\ heldBy'[s] = heldBy[s]
        BY <1>t, <2>1, <2>2, <2>3, <3>2 DEF TypeOK
      <4> QED
        BY <2>2, <4>1 DEF PresentInv, Kind, Org, Where
    <3> QED
      BY <3>1, <3>2
  <2> QED
    BY <2>3 DEF PresentInv
<1>2. CASE Begin(r) \/ ConvertByAms(r) \/ ListOrgs(r)
  <2>1. /\ pc[r] \in {"check", "run", "listing"}
        /\ \E step : pc' = [pc EXCEPT ![r] = step]
        /\ UNCHANGED <<at, request, subOrg, written, callTime, seats, worksFor, member, heldBy>>
    BY <1>2 DEF Begin, ConvertByAms, ListOrgs, Doing, Goto, upstream, history
  <2>2. \A s \in Handlers \ {r} : amsOrg'[s] = amsOrg[s]
    BY <1>2, <1>t DEF Begin, ConvertByAms, ListOrgs, TypeOK
  <2> QED
    BY <1>t, <2>1, <2>2, PresentStep DEF Others, TypeOK, Past
<1>3. CASE Finish(r)
  <2>1. /\ pc' = [pc EXCEPT ![r] = "idle"]
        /\ request' = [request EXCEPT ![r] = AnyRequest]
        /\ written' = [written EXCEPT ![r] = <<>>]
        /\ member' = [member EXCEPT ![r] = FALSE]
        /\ UNCHANGED <<heldBy, at, subOrg, amsOrg, callTime, seats, worksFor>>
    BY <1>3 DEF Finish, Goto, upstream
  <2> QED
    BY <1>t, <2>1, PresentStep DEF Others, TypeOK, Past
<1>4. CASE PerformDelete(r) \/ Authorize(r)
  BY <1>4, PerformedPresent
<1>5. CASE \/ FindMember(r) \/ FindSubscription(r) \/ Pass(r) \/ Read(r)
           \/ ConvertFromCache(r) \/ Converted(r)
  <2>1. Running(r)
    BY <1>5, CallsRun DEF FindMember, FindSubscription, Pass, Read, ConvertFromCache,
       Converted, Doing, Running
  <2>2. UNCHANGED <<upstream, history>>
    BY <1>5 DEF FindMember, FindSubscription, Pass, Read, ConvertFromCache, Converted
  <2>3. (\E sub, ams : Advance(r, sub, ams)) \/ Continue(r)
    BY <1>5 DEF FindMember, FindSubscription, Pass, Read, ConvertFromCache, Converted
  <2> QED
    BY <1>t, <2>1, <2>2, <2>3, ContinuePresent
<1>6. CASE \/ RefuseCaller(r) \/ RefuseRequest(r) \/ FindForeigner(r)
           \/ SubscriptionWithoutOrg(r) \/ RefuseForeign(r) \/ Deny(r)
  BY <1>t, <1>6, RefusalPresent
  DEF RefuseCaller, RefuseRequest, FindForeigner, SubscriptionWithoutOrg, RefuseForeign, Deny
<1>7. CASE \/ FindNobody(r) \/ UserFails(r) \/ ConvertMalformed(r) \/ ConvertedToNothing(r)
           \/ AmsFails(r) \/ SubscriptionGone(r) \/ RefuseStatus(r)
  <2>1. \E err : Fail(r, err)
    BY <1>7 DEF FindNobody, UserFails, ConvertMalformed, ConvertedToNothing, AmsFails,
       SubscriptionGone, RefuseStatus
  <2> QED
    BY <1>t, <2>1, RefusalPresent DEF Fail
<1> QED
  BY <1>1, <1>2, <1>3, <1>4, <1>5, <1>6, <1>7
  DEF HandlerStep, Check, GetUser, ConvertUserOrgId, Subscriptions

LEMMA HandlerKeeps ==
  ASSUME SeatsInv, PresentInv, NEW r \in Handlers, HandlerStep(r)
  PROVE  SeatsInv'
BY CheckKeeps, RefusalsKeep, GettingOnKeeps, ConvertKeeps, PerformKeeps
   DEF HandlerStep, GetUser, ConvertUserOrgId, Subscriptions

LEMMA WorldPresent ==
  ASSUME SeatsInv, PresentInv,
         \/ \E o \in Orgs : Remap(o)
         \/ \E i \in Ids : Transfer(i)
         \/ \E u \in Users : Move(u)
         \/ Tick
         \/ UNCHANGED vars
  PROVE  PresentInv'
<1>1. CASE \E i \in Ids : Transfer(i)
  <2>1. /\ Witness(Handlers) /\ UNCHANGED <<worksFor, member, pc, request>>
        /\ Handlers \in SUBSET Handlers
    BY <1>1 DEF Transfer
  <2> QED
    BY <2>1, WitnessPresent
<1>2. CASE \E u \in Users : Move(u)
  <2>1. /\ member' = [r \in Handlers |-> \/ member[r]
                                         \/ /\ pc[r] \notin {"idle", "replied"}
                                            /\ request[r].kind = "post"
                                            /\ worksFor'[request[r].user] = Org(r)]
        /\ UNCHANGED <<pc, request, seats, heldBy>>
    BY <1>2 DEF Move
  <2> QED
    BY <2>1 DEF PresentInv, Kind, Org, Where
<1>3. CASE (\E o \in Orgs : Remap(o)) \/ Tick \/ UNCHANGED vars
  <2>1. UNCHANGED <<pc, request, seats, worksFor, member, heldBy>>
    BY <1>3 DEF Remap, Tick, vars, upstream, history
  <2> QED
    BY <2>1 DEF PresentInv, Kind, Org, Where
<1> QED
  BY <1>1, <1>2, <1>3

----------------------------------------------------------------------------
LEMMA NextSeats ==
  ASSUME SeatsInv, PresentInv, [Next]_vars
  PROVE  SeatsInv' /\ PresentInv'
<1>1. CASE \E r \in Handlers : HandlerStep(r)
  BY <1>1, HandlerKeeps, HandlerPresent
<1>2. CASE \/ \E o \in Orgs : Remap(o)
           \/ \E i \in Ids : Transfer(i)
           \/ \E u \in Users : Move(u)
  BY <1>2, WorldKeeps, WorldPresent
<1>3. CASE Tick
  BY <1>3, TickKeeps, WorldPresent
<1>4. CASE UNCHANGED vars
  <2>1. UNCHANGED <<idCache, pc, at, request, subOrg, amsOrg, written, callTime,
                    amsOf, seats, worksFor, age, member, heldBy, changed>>
    BY <1>4 DEF vars, upstream, history
  <2>2. TypeOK' /\ AgeInv' /\ CacheInv'
    BY <2>1 DEF SeatsInv, TypeOK, AgeInv, CacheInv
  <2>3. \A r \in Handlers : HandlerInv(r)'
    BY <2>1 DEF SeatsInv, HandlerInv, CallerInv, FoundInv, IdInv, ReplyInv, Running, Kind, Org,
       Sent, Recorded
  <2> QED
    BY <1>4, <2>2, <2>3, WorldPresent DEF SeatsInv
<1> QED
  BY <1>1, <1>2, <1>3, <1>4 DEF Next, HandlerStep

LEMMA InitSeats ==
  ASSUME Init
  PROVE  SeatsInv /\ PresentInv
<1> USE SeatsAssumption
<1>w. Window \in Nat
  BY DEF Window
<1>1. /\ idCache = [o \in {} |-> [id |-> NoOrg, ttl |-> 0]]
      /\ pc = [r \in Handlers |-> "idle"]
      /\ at = [r \in Handlers |-> 1]
      /\ request = [r \in Handlers |-> AnyRequest]
      /\ subOrg = [r \in Handlers |-> NoOrg]
      /\ amsOrg = [r \in Handlers |-> NoOrg]
      /\ written = [r \in Handlers |-> <<>>]
      /\ callTime = [r \in Handlers |-> 0]
      /\ amsOf \in [Orgs -> AmsOrgs \cup {NoOrg}]
      /\ worksFor \in [Users -> Orgs \cup {NoOrg}]
      /\ member = [r \in Handlers |-> FALSE]
      /\ heldBy = [r \in Handlers |-> {}]
      /\ changed = [r \in Handlers |-> FALSE]
  BY DEF Init
<1>2. AnyRequest \in Requests /\ AnyRequest.kind \in Kinds
  BY DEF AnyRequest, Request, Kinds
<1>3. \A r \in Handlers : at[r] \in 1..Len(Program(request[r].kind))
  <2>1. 1 \in 1..Len(Program(AnyRequest.kind))
    BY <1>2, Programs DEF Kinds
  <2> QED
    BY <1>1, <2>1
<1>4. DOMAIN seats \subseteq Ids /\ \A i \in DOMAIN seats : seats[i] \in AmsOrgs
  BY DEF Init
<1>5. age = [o \in Orgs |-> [a \in AmsOrgs |-> IF a = amsOf[o] THEN 0 ELSE Window + 1]]
  BY DEF Init
<1>6. LocalsOK
  BY <1>1, <1>2, <1>3 DEF LocalsOK, Pcs
<1>7. IdCacheOK
  BY <1>1 DEF IdCacheOK
<1>8. UpstreamOK /\ HistoryOK
  BY <1>w, <1>1, <1>4, <1>5 DEF UpstreamOK, HistoryOK
<1>9. AgeInv /\ CacheInv
  BY <1>1, <1>5 DEF AgeInv, CacheInv
<1>10. \A r \in Handlers : HandlerInv(r)
  <2> SUFFICES ASSUME NEW r \in Handlers PROVE HandlerInv(r)
    OBVIOUS
  <2>1. pc[r] = "idle" /\ at[r] = 1 /\ ~changed[r]
    BY <1>1
  <2>2. CallerInv(r) /\ FoundInv(r)
    BY <2>1 DEF CallerInv, FoundInv, Running
  <2>3. IdInv(r) /\ ReplyInv(r)
    BY <2>1 DEF IdInv, ReplyInv
  <2> QED
    BY <2>2, <2>3 DEF HandlerInv
<1>11. PresentInv
  BY <1>1 DEF PresentInv
<1> QED
  BY <1>6, <1>7, <1>8, <1>9, <1>10, <1>11, TypeParts DEF SeatsInv

LEMMA SeatsInvariance == Spec => [](SeatsInv /\ PresentInv)
<1>1. Init => SeatsInv /\ PresentInv
  BY InitSeats
<1>2. SeatsInv /\ PresentInv /\ [Next]_vars => (SeatsInv /\ PresentInv)'
  BY NextSeats
<1> QED
  BY <1>1, <1>2, PTL DEF Spec

\* The handlers' locals, the id cache and the upstream states have their types.
THEOREM SeatsTypeCorrect == Spec => []TypeOK
<1>1. SeatsInv => TypeOK
  BY DEF SeatsInv
<1> QED
  BY <1>1, SeatsInvariance, PTL

(***************************************************************************)
(* PostSeats reserves a seat only for a user who was in the organisation   *)
(* of the administrator at a moment since the request arrived.             *)
(***************************************************************************)
THEOREM AssignedToMemberAlways == Spec => []AssignedToMember
<1>1. SeatsInv => AssignedToMember
  BY DEF SeatsInv, HandlerInv, ReplyInv, AssignedToMember, Kind
<1> QED
  BY <1>1, SeatsInvariance, PTL

\* A 4xx has changed nothing in AMS, a 2xx has done what was asked.
THEOREM StatusTellsAlways == Spec => []StatusTells
<1>1. SeatsInv => StatusTells
  BY DEF SeatsInv, HandlerInv, ReplyInv, StatusTells, Kind
<1> QED
  BY <1>1, SeatsInvariance, PTL

\* Every reply of the seats API is counted under the status it is sent with, but for
\* a 200 whose body could not be encoded.
THEOREM ErrorsAreCountedAlways == Spec => []ErrorsAreCounted
<1>1. SeatsInv => ErrorsAreCounted
  BY DEF SeatsInv, HandlerInv, ReplyInv, ErrorsAreCounted, Kind
<1> QED
  BY <1>1, SeatsInvariance, PTL

(***************************************************************************)
(* DeleteSeatsId deletes, and GetSeats lists, only the caller's own.       *)
(***************************************************************************)
LEMMA StepOwnOrgOnly ==
  ASSUME SeatsInv, [Next]_vars, NEW r \in Handlers
  PROVE  /\ (request[r].kind = "delete" /\ changed'[r] /\ ~changed[r]) =>
              request[r].admin /\ \E a \in heldBy[r] : Had(Org(r), a)
         /\ (Doing(r, "subs") /\ at'[r] > at[r]) => Had(Org(r), amsOrg[r])
<1> USE SeatsAssumption
<1>t. /\ TypeOK /\ CallerInv(r) /\ FoundInv(r) /\ IdInv(r) /\ Org(r) \in Orgs
      /\ age[Org(r)] \in [AmsOrgs -> Nat] /\ callTime[r] \in 0..MaxCall
  <2>1. TypeOK /\ HandlerInv(r)
    BY DEF SeatsInv
  <2>2. Org(r) \in Orgs
    BY <2>1, Position
  <2> QED
    BY <2>1, <2>2 DEF HandlerInv, TypeOK
<1>h. ASSUME pc[r] = "run", HasConverted(Kind(r), at[r]) PROVE Had(Org(r), amsOrg[r])
  <2>1. amsOrg[r] \in AmsOrgs /\ age[Org(r)][amsOrg[r]] <= MaxCall + CacheTTL + callTime[r]
    BY <1>h, <1>t DEF IdInv
  <2>2. age[Org(r)][amsOrg[r]] <= CacheTTL + 2 * MaxCall
    BY <1>t, <2>1
  <2> QED
    BY <2>1, <2>2 DEF Had, Window
<1>1. ASSUME request[r].kind = "delete", changed'[r], ~changed[r]
      PROVE  request[r].admin /\ \E a \in heldBy[r] : Had(Org(r), a)
  <2>1. PICK q \in Handlers : PerformDelete(q) \/ Authorize(q) \/ Finish(q)
    <3>1. CASE UNCHANGED changed
      BY <1>1, <3>1
    <3>2. CASE ~UNCHANGED changed
      <4>1. PICK q \in Handlers : HandlerStep(q)
        BY <3>2 DEF Next, HandlerStep, Remap, Transfer, Move, Tick, vars, history
      <4>2. PerformDelete(q) \/ Authorize(q) \/ Finish(q)
        <5>1. ASSUME NEW status, Refuse(q, status) PROVE FALSE
          BY <3>2, <5>1 DEF Refuse
        <5>2. ASSUME NEW err, Fail(q, err) PROVE FALSE
          BY <5>1, <5>2 DEF Fail
        <5>3. ~Check(q)
          BY <3>2, <5>1 DEF Check, Arrive, RefuseCaller, RefuseRequest, Begin, history
        <5>4. ~GetUser(q)
          BY <3>2, <5>1, <5>2 DEF GetUser, FindMember, FindForeigner, FindNobody, UserFails,
             history
        <5>5. ~ConvertUserOrgId(q)
          BY <3>2, <5>2 DEF ConvertUserOrgId, ConvertFromCache, ConvertMalformed, ConvertByAms,
             ListOrgs, ConvertedToNothing, Converted, history
        <5>6. ~AmsFails(q)
          BY <5>2 DEF AmsFails
        <5>7. Subscriptions(q) => PerformDelete(q) \/ Authorize(q)
          BY <3>2, <5>1, <5>2 DEF Subscriptions, FindSubscription, SubscriptionGone,
             SubscriptionWithoutOrg, RefuseForeign, RefuseStatus, Pass, Read, Deny, history
        <5> QED
          BY <4>1, <5>3, <5>4, <5>5, <5>6, <5>7 DEF HandlerStep
      <4> QED
        BY <4>2
    <3> QED
      BY <3>1, <3>2
  <2>2. CASE Finish(q)
    BY <1>1, <1>t, <2>2 DEF Finish, TypeOK
  <2>3. CASE PerformDelete(q) \/ Authorize(q)
    <3>1. changed' = [changed EXCEPT ![q] = TRUE]
      BY <2>3 DEF PerformDelete, Authorize, Performed
    <3>2. q = r
      BY <1>1, <1>t, <3>1 DEF TypeOK
    <3>3. pc[r] = "run" /\ Kind(r) = "delete" /\ at[r] = 4
      BY <1>1, <1>t, <2>3, <3>2, Steps DEF PerformDelete, Authorize, Kind
    <3>4. Had(Org(r), amsOrg[r])
      BY <1>h, <3>3 DEF HasConverted
    <3>5. request[r].admin /\ amsOrg[r] \in heldBy[r]
      BY <1>t, <3>3 DEF CallerInv, FoundInv, Running
    <3> QED
      BY <3>4, <3>5
  <2> QED
    BY <2>1, <2>2, <2>3
<1>2. ASSUME Doing(r, "subs") PROVE Had(Org(r), amsOrg[r])
  <2>1. pc[r] = "run" /\ Kind(r) = "get" /\ at[r] = 3
    BY <1>2, <1>t, Steps
  <2> QED
    BY <1>h, <2>1 DEF HasConverted
<1> QED
  BY <1>1, <1>2

(***************************************************************************)
(* DeleteSeatsId deletes, and GetSeats lists, only the caller's own: what  *)
(* is deleted was, since the request arrived, under an AMS id that the     *)
(* organisation had within the window, however late any answer comes.      *)
(***************************************************************************)
THEOREM OwnOrgOnlyAlways == Spec => OwnOrgOnly
<1>1. SeatsInv /\ [Next]_vars =>
        [\A r \in Handlers :
           /\ (request[r].kind = "delete" /\ changed'[r] /\ ~changed[r]) =>
                request[r].admin /\ \E a \in heldBy[r] : Had(Org(r), a)
           /\ (Doing(r, "subs") /\ at'[r] > at[r]) => Had(Org(r), amsOrg[r])]_vars
  BY StepOwnOrgOnly
<1> QED
  BY <1>1, SeatsInvariance, PTL DEF Spec, OwnOrgOnly

(***************************************************************************)
(* Where nothing has moved lately, nothing is left of that slack: if the   *)
(* organisation has kept its AMS id for the window, and the subscription   *)
(* its organisation since the request arrived, a deleted seat is the       *)
(* caller's own at that very step; and a list is that of the id it has.    *)
(***************************************************************************)
KeptItsId(o) == \A a \in AmsOrgs : Had(o, a) => a = amsOf[o]

ExactlyOwn ==
  [][\A r \in Handlers : KeptItsId(Org(r)) =>
       /\ /\ request[r].kind = "delete" /\ changed'[r] /\ ~changed[r]
          /\ heldBy[r] \subseteq Where(seats, request[r].id)
          => Where(seats, request[r].id) = {amsOf[Org(r)]}
       /\ Doing(r, "subs") /\ at'[r] > at[r] => amsOrg[r] = amsOf[Org(r)]]_vars

THEOREM ExactlyOwnAlways == Spec => ExactlyOwn
<1>1. SeatsInv /\ [Next]_vars =>
        [\A r \in Handlers : KeptItsId(Org(r)) =>
           /\ /\ request[r].kind = "delete" /\ changed'[r] /\ ~changed[r]
              /\ heldBy[r] \subseteq Where(seats, request[r].id)
              => Where(seats, request[r].id) = {amsOf[Org(r)]}
           /\ Doing(r, "subs") /\ at'[r] > at[r] => amsOrg[r] = amsOf[Org(r)]]_vars
  <2> SUFFICES ASSUME SeatsInv, [Next]_vars, NEW r \in Handlers, KeptItsId(Org(r)), vars' # vars
               PROVE  /\ /\ request[r].kind = "delete" /\ changed'[r] /\ ~changed[r]
                         /\ heldBy[r] \subseteq Where(seats, request[r].id)
                         => Where(seats, request[r].id) = {amsOf[Org(r)]}
                      /\ Doing(r, "subs") /\ at'[r] > at[r] => amsOrg[r] = amsOf[Org(r)]
    OBVIOUS
  <2>1. /\ (request[r].kind = "delete" /\ changed'[r] /\ ~changed[r]) =>
             request[r].admin /\ \E a \in heldBy[r] : Had(Org(r), a)
        /\ (Doing(r, "subs") /\ at'[r] > at[r]) => Had(Org(r), amsOrg[r])
    BY StepOwnOrgOnly
  <2>2. \A a : Had(Org(r), a) => a = amsOf[Org(r)]
    BY DEF KeptItsId, Had
  <2>3. ASSUME request[r].kind = "delete", changed'[r], ~changed[r],
               heldBy[r] \subseteq Where(seats, request[r].id)
        PROVE  Where(seats, request[r].id) = {amsOf[Org(r)]}
    <3>1. amsOf[Org(r)] \in heldBy[r]
      BY <2>1, <2>2, <2>3
    <3> QED
      BY <2>3, <3>1 DEF Where
  <2> QED
    BY <2>1, <2>2, <2>3
<1> QED
  BY <1>1, SeatsInvariance, PTL DEF Spec, ExactlyOwn
=============================================================================
