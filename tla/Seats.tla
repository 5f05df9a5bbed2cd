------------------------------- MODULE Seats -------------------------------
(***************************************************************************)
(* The seats API of one pod: POST /seats assigns a seat to a user, DELETE  *)
(* /seats/{id} takes one away, GET /seats lists them.  The handlers keep   *)
(* nothing themselves; they ask BOP whom a user works for and AMS for      *)
(* everything else, one call after the other, while users move, seats move *)
(* and AMS gives organisations other ids.  What the handlers share is the  *)
(* AMS client's cache of organisation ids.                                 *)
(*                                                                         *)
(* A service acts on a call at one moment, and the answer may be lost.     *)
(* Only for the id of an organisation is the moment of the answer a step   *)
(* of its own: its life in the cache begins there.                         *)
(***************************************************************************)
EXTENDS SeatsConfig

VARIABLES
  idCache,   \* organisation -> its cached AMS id and time to live
  pc,        \* "idle", "check", "run", "listing", "listed", "replied"
  at,        \* how far a handler has come in the program of its request
  request,   \* the request it serves
  subOrg,    \* the organisation of the subscription it fetched
  amsOrg,    \* the AMS id it works with; of an answer on its way in "listed"
  written,   \* the statuses it has passed to WriteHeader
  callTime,  \* ticks its call has lasted
  amsOf,     \* AMS's truth: the id of each organisation
  seats,     \* AMS's truth: subscription -> AMS id of its organisation
  worksFor,  \* BOP's truth: the organisation of each user
  age,       \* history: ticks since an organisation last had an AMS id
  member,    \* history: the user of a POST was in its org since it arrived
  heldBy,    \* history: where the subscription of a DELETE was since then
  changed    \* history: the request has changed something in AMS

upstream == <<amsOf, seats, worksFor>>
history  == <<age, member, heldBy, changed>>
vars     == <<idCache, pc, at, request, subOrg, amsOrg, written, callTime, upstream, history>>

----------------------------------------------------------------------------
Org(r) == request[r].org

\* Mutant of Program: PostSeats checks the user once the seat is reserved.
ProgramUserLast(kind) ==
  CASE kind = "post"   -> <<"convert", "quota", "authorize", "user">>
    [] kind = "delete" -> <<"subscription", "convert", "compare", "delete">>
    [] kind = "get"    -> <<"convert", "filter", "subs", "convert", "quota">>

\* What each handler does, in its order; GetQuotaCost and GetSubscriptions
\* convert the organisation's id first.
Program(kind) ==
  CASE kind = "post"   -> <<"user", "convert", "quota", "authorize">>
    [] kind = "delete" -> <<"subscription", "convert", "compare", "delete">>
    [] kind = "get"    -> <<"convert", "filter", "subs", "convert", "quota">>

Doing(r, step) == pc[r] = "run" /\ Program(request[r].kind)[at[r]] = step

\* The handler asks AMS, or has asked it and not heard from it.
AsksAms(r) ==
  \/ pc[r] \in {"listing", "listed"}
  \/ \E step \in {"subscription", "quota", "subs", "authorize", "delete"} : Doing(r, step)

(***************************************************************************)
(* The error mapper: errors of AMS, of the AMS client and of a BOP that    *)
(* knows why carry their own status; any other takes the handler's.        *)
(***************************************************************************)
Errors(kind, statuses) == [kind : {kind}, status : statuses]
Other == [kind |-> "other", status |-> 0]

\* Mutant of MapResponse: errors of the transport are taken for refusals.
MapToForbidden(err, status) == IF err.kind = "other" THEN 403 ELSE err.status

MapResponse(err, status) == IF err.kind = "other" THEN status ELSE err.status

\* net/http sends the first status a handler writes.
Sent(r) == written[r][1]

\* Mutant of Recorded: the wrapper does not override WriteHeader.
RecordedAtStart(codes) == 200

\* The metrics middleware counts the last one it saw, 200 if there was none.
Recorded(codes) == IF codes = <<>> THEN 200 ELSE codes[Len(codes)]

Write(r, codes) == written' = [written EXCEPT ![r] = codes]

Goto(r, step) == pc' = [pc EXCEPT ![r] = step]

\* The handler writes its reply and returns; its locals are gone.
Reply(r, codes) ==
  /\ Write(r, codes)
  /\ Goto(r, "replied")
  /\ at' = [at EXCEPT ![r] = 1]
  /\ subOrg' = [subOrg EXCEPT ![r] = NoOrg]
  /\ amsOrg' = [amsOrg EXCEPT ![r] = NoOrg]
  /\ callTime' = [callTime EXCEPT ![r] = 0]
  /\ UNCHANGED request

\* A reply without effect in AMS; the histories behind the checks end with it.
Refuse(r, status) ==
  /\ Reply(r, <<status>>)
  /\ member' = [member EXCEPT ![r] = FALSE]
  /\ heldBy' = [heldBy EXCEPT ![r] = {}]
  /\ UNCHANGED <<idCache, upstream, age, changed>>

Fail(r, err) == Refuse(r, MapResponse(err, 500))

\* The last step succeeded.  Encoding the body of a 200 may fail once the header
\* is written, and then a 500 is written too.
Succeed(r) ==
  /\ at[r] = Len(Program(request[r].kind))
  /\ \E codes \in IF request[r].kind = "delete" THEN {<<204>>} ELSE {<<200>>, <<200, 500>>} :
       Reply(r, codes)

\* Another step succeeded, and has left the locals sub and ams.
Advance(r, sub, ams) ==
  /\ at[r] < Len(Program(request[r].kind))
  /\ at' = [at EXCEPT ![r] = @ + 1]
  /\ Goto(r, "run")
  /\ subOrg' = [subOrg EXCEPT ![r] = sub]
  /\ amsOrg' = [amsOrg EXCEPT ![r] = ams]
  /\ callTime' = [callTime EXCEPT ![r] = 0]
  /\ UNCHANGED <<request, written>>

Continue(r) == Succeed(r) \/ Advance(r, subOrg[r], amsOrg[r])

----------------------------------------------------------------------------
\* Nothing is cached; what AMS and BOP hold is any state of theirs.
Init ==
  /\ idCache = [o \in {} |-> [id |-> NoOrg, ttl |-> 0]]
  /\ pc = [r \in Handlers |-> "idle"]
  /\ at = [r \in Handlers |-> 1]
  /\ request = [r \in Handlers |-> AnyRequest]
  /\ subOrg = [r \in Handlers |-> NoOrg]
  /\ amsOrg = [r \in Handlers |-> NoOrg]
  /\ written = [r \in Handlers |-> <<>>]
  /\ callTime = [r \in Handlers |-> 0]
  /\ amsOf \in [Orgs -> AmsOrgs \cup {NoOrg}]
  /\ \A o \in Orgs \ WellFormed : amsOf[o] = NoOrg
  /\ seats \in UNION {[S -> AmsOrgs] : S \in SUBSET Ids}
  /\ worksFor \in [Users -> Orgs \cup {NoOrg}]
  /\ age = [o \in Orgs |-> [a \in AmsOrgs |->
              IF a = amsOf[o] THEN 0 ELSE Window + 1]]
  /\ member = [r \in Handlers |-> FALSE]
  /\ heldBy = [r \in Handlers |-> {}]
  /\ changed = [r \in Handlers |-> FALSE]

\* The history of the subscriptions that requests are about.
Witness(handlers) ==
  heldBy' = [r \in Handlers |->
               IF r \in handlers /\ pc[r] \notin {"idle", "replied"} /\ request[r].kind = "delete"
               THEN heldBy[r] \cup Where(seats', request[r].id) ELSE {}]

\* A request arrives: identity, parameters and body are known.
Arrive(r) ==
  /\ pc[r] = "idle"
  /\ \E q \in Requests :
       /\ request' = [request EXCEPT ![r] = q]
       /\ member' = [member EXCEPT ![r] = q.kind = "post" /\ worksFor[q.user] = q.org]
       /\ heldBy' = [heldBy EXCEPT ![r] = IF q.kind = "delete" THEN Where(seats, q.id) ELSE {}]
  /\ Goto(r, "check")
  /\ UNCHANGED <<idCache, at, subOrg, amsOrg, written, callTime, upstream, age, changed>>

\* Others than administrators only list.
RefuseCaller(r) ==
  /\ pc[r] = "check"
  /\ ~MayCall(request[r])
  /\ Refuse(r, 403)

\* A POST whose body is no seat request, a GET with limit < 1 or offset < 0.
RefuseRequest(r) ==
  /\ pc[r] = "check"
  /\ MayCall(request[r])
  /\ ~request[r].valid
  /\ Refuse(r, 400)

\* The first call is made.
Begin(r) ==
  /\ pc[r] = "check"
  /\ MayCall(request[r])
  /\ request[r].valid
  /\ Goto(r, "run")
  /\ UNCHANGED <<idCache, at, request, subOrg, amsOrg, written, callTime, upstream, history>>

----------------------------------------------------------------------------
\* BOP: the user is one of the caller's organisation.
FindMember(r) ==
  /\ Doing(r, "user")
  /\ worksFor[request[r].user] = Org(r)
  /\ Continue(r)
  /\ UNCHANGED <<idCache, upstream, history>>

\* The user is another organisation's.
FindForeigner(r) ==
  /\ Doing(r, "user")
  /\ worksFor[request[r].user] \notin {Org(r), NoOrg}
  /\ Refuse(r, 403)

\* BOP's list of users is empty.
FindNobody(r) ==
  /\ Doing(r, "user")
  /\ worksFor[request[r].user] = NoOrg
  /\ \E err \in Errors("bop", {404}) : Fail(r, err)

\* BOP refuses the API's own credentials, fails, or answers something else.
UserFails(r) ==
  /\ Doing(r, "user")
  /\ \E err \in Errors("bop", {401, 403}) \cup {Other} : Fail(r, err)

----------------------------------------------------------------------------
\* Mutant of Cached: the deadline is not looked at.
CachedForever(o) == o \in DOMAIN idCache

\* The id of an organisation is in the cache and has not expired.
Cached(o) == o \in DOMAIN idCache /\ idCache[o].ttl >= 0

\* ConvertUserOrgId: from the cache.
ConvertFromCache(r) ==
  /\ Doing(r, "convert")
  /\ Cached(Org(r))
  /\ Advance(r, subOrg[r], idCache[Org(r)].id)
  /\ UNCHANGED <<idCache, upstream, history>>

\* An id with characters other than letters and digits is not sent to AMS.
ConvertMalformed(r) ==
  /\ Doing(r, "convert")
  /\ ~Cached(Org(r))
  /\ Org(r) \notin WellFormed
  /\ \E err \in Errors("client", {500}) : Fail(r, err)

\* AMS has to be asked.
ConvertByAms(r) ==
  /\ Doing(r, "convert")
  /\ ~Cached(Org(r))
  /\ Org(r) \in WellFormed
  /\ Goto(r, "listing")
  /\ UNCHANGED <<idCache, at, request, subOrg, amsOrg, written, callTime, upstream, history>>

\* AMS looks the organisation up: from here on its answer is fixed.
ListOrgs(r) ==
  /\ pc[r] = "listing"
  /\ amsOrg' = [amsOrg EXCEPT ![r] = amsOf[Org(r)]]
  /\ Goto(r, "listed")
  /\ UNCHANGED <<idCache, at, request, subOrg, written, callTime, upstream, history>>

\* An answer without an organisation, or with a malformed id, is not cached.
ConvertedToNothing(r) ==
  /\ pc[r] = "listed"
  /\ amsOrg[r] \notin WellFormed
  /\ \E err \in Errors("client", {IF amsOrg[r] = NoOrg THEN 400 ELSE 500}) : Fail(r, err)

\* Mutant of Converted: the answer is cached before it is looked at.
ConvertedAnyway(r) ==
  /\ pc[r] = "listed"
  /\ idCache' = [o \in DOMAIN idCache \cup {Org(r)} |->
                   IF o = Org(r) THEN [id |-> amsOrg[r], ttl |-> CacheTTL] ELSE idCache[o]]
  /\ Advance(r, subOrg[r], amsOrg[r])
  /\ UNCHANGED <<upstream, history>>

\* The answer names the organisation.
Converted(r) ==
  /\ pc[r] = "listed"
  /\ amsOrg[r] \in WellFormed
  /\ idCache' = [o \in DOMAIN idCache \cup {Org(r)} |->
                   IF o = Org(r) THEN [id |-> amsOrg[r], ttl |-> CacheTTL] ELSE idCache[o]]
  /\ Advance(r, subOrg[r], amsOrg[r])
  /\ UNCHANGED <<upstream, history>>

\* A call to AMS that changes nothing there fails, or its answer is lost.
AmsFails(r) ==
  /\ AsksAms(r)
  /\ \E err \in Errors("ams", AmsErrors) \cup {Other} : Fail(r, err)

----------------------------------------------------------------------------
\* GetSubscription: the subscription and the organisation it belongs to.
FindSubscription(r) ==
  /\ Doing(r, "subscription")
  /\ \E a \in Where(seats, request[r].id) : Advance(r, a, amsOrg[r])
  /\ UNCHANGED <<idCache, upstream, history>>

\* AMS does not know the subscription.
SubscriptionGone(r) ==
  /\ Doing(r, "subscription") \/ Doing(r, "delete")
  /\ Where(seats, request[r].id) = {}
  /\ \E err \in Errors("ams", {404}) : Fail(r, err)

\* AMS answers with a subscription that names no organisation.
SubscriptionWithoutOrg(r) ==
  /\ Doing(r, "subscription")
  /\ Refuse(r, 500)

\* The subscription is another organisation's.
RefuseForeign(r) ==
  /\ Doing(r, "compare")
  /\ subOrg[r] # amsOrg[r]
  /\ Refuse(r, 403)

\* The filter names a status the API does not support; AMS is not asked.
RefuseStatus(r) ==
  /\ Doing(r, "filter")
  /\ ~request[r].statusOK
  /\ \E err \in Errors("client", {400}) : Fail(r, err)

\* Mutant of Pass: the subscription's organisation is not compared.
PassUncompared(r) ==
  /\ \/ Doing(r, "compare")
     \/ Doing(r, "filter") /\ request[r].statusOK
  /\ Continue(r)
  /\ UNCHANGED <<idCache, upstream, history>>

\* The subscription is the organisation's own; AMS supports the filter.
Pass(r) ==
  /\ \/ Doing(r, "compare") /\ subOrg[r] = amsOrg[r]
     \/ Doing(r, "filter") /\ request[r].statusOK
  /\ Continue(r)
  /\ UNCHANGED <<idCache, upstream, history>>

\* A call has changed something in AMS; the handler may not learn of it.
Performed(r) ==
  /\ changed' = [changed EXCEPT ![r] = TRUE]
  /\ Witness(Handlers \ {r})
  /\ Continue(r) \/ Reply(r, <<MapResponse(Other, 500)>>)
  /\ UNCHANGED <<idCache, amsOf, worksFor, age, member>>

\* AMS deletes the subscription.
PerformDelete(r) ==
  /\ Doing(r, "delete")
  /\ Where(seats, request[r].id) # {}
  /\ seats' = [i \in DOMAIN seats \ {request[r].id} |-> seats[i]]
  /\ Performed(r)

----------------------------------------------------------------------------
\* GetQuotaCost and the search of GetSubscriptions.
Read(r) ==
  /\ Doing(r, "quota") \/ Doing(r, "subs")
  /\ Continue(r)
  /\ UNCHANGED <<idCache, upstream, history>>

\* AMS reserves a seat for the user, in the organisation it knows the account by.
Authorize(r) ==
  /\ Doing(r, "authorize")
  /\ \E i \in Ids \ DOMAIN seats : \E a \in AmsOrgs :
       seats' = [j \in DOMAIN seats \cup {i} |-> IF j = i THEN a ELSE seats[j]]
  /\ Performed(r)

\* AMS denies it: 409 if that is for want of quota.
Deny(r) ==
  /\ Doing(r, "authorize")
  /\ \E status \in {403, 409} : Refuse(r, status)

\* The goroutine ends.
Finish(r) ==
  /\ pc[r] = "replied"
  /\ Goto(r, "idle")
  /\ request' = [request EXCEPT ![r] = AnyRequest]
  /\ written' = [written EXCEPT ![r] = <<>>]
  /\ member' = [member EXCEPT ![r] = FALSE]
  /\ changed' = [changed EXCEPT ![r] = FALSE]
  /\ UNCHANGED <<heldBy, idCache, at, subOrg, amsOrg, callTime, upstream, age>>

----------------------------------------------------------------------------
\* AMS gives an organisation another id, or forgets it.
Remap(o) ==
  /\ o \in WellFormed
  /\ \E a \in (AmsOrgs \cup {NoOrg}) \ {amsOf[o]} :
       /\ amsOf' = [amsOf EXCEPT ![o] = a]
       /\ age' = [age EXCEPT ![o] = [b \in AmsOrgs |-> IF b = a THEN 0 ELSE @[b]]]
  /\ UNCHANGED <<idCache, pc, at, request, subOrg, amsOrg, written, callTime,
                 seats, worksFor, member, heldBy, changed>>

\* AMS transfers a subscription to another organisation.
Transfer(i) ==
  /\ i \in DOMAIN seats
  /\ \E a \in AmsOrgs \ {seats[i]} : seats' = [seats EXCEPT ![i] = a]
  /\ Witness(Handlers)
  /\ UNCHANGED <<idCache, pc, at, request, subOrg, amsOrg, written, callTime,
                 amsOf, worksFor, age, member, changed>>

\* A user leaves for another organisation.
Move(u) ==
  /\ \E o \in (Orgs \cup {NoOrg}) \ {worksFor[u]} :
       worksFor' = [worksFor EXCEPT ![u] = o]
  /\ member' = [r \in Handlers |-> \/ member[r]
                                   \/ /\ pc[r] \notin {"idle", "replied"}
                                      /\ request[r].kind = "post"
                                      /\ worksFor'[request[r].user] = Org(r)]
  /\ UNCHANGED <<idCache, pc, at, request, subOrg, amsOrg, written, callTime,
                 amsOf, seats, age, heldBy, changed>>

\* Time passes, while every busy handler waits for an answer that is not due yet.
Tick ==
  /\ \A r \in Handlers :
       \/ pc[r] = "idle"
       \/ (AsksAms(r) \/ Doing(r, "user")) /\ callTime[r] < MaxCall
  /\ callTime' = [r \in Handlers |-> IF pc[r] = "idle" THEN 0 ELSE callTime[r] + 1]
  /\ idCache' = [o \in DOMAIN idCache |->
                   [idCache[o] EXCEPT !.ttl = IF @ < 0 THEN @ ELSE @ - 1]]
  /\ age' = [o \in Orgs |-> [a \in AmsOrgs |->
               IF a = amsOf[o] THEN 0
               ELSE IF age[o][a] > Window THEN age[o][a] ELSE age[o][a] + 1]]
  /\ UNCHANGED <<pc, at, request, subOrg, amsOrg, written, upstream, member, heldBy, changed>>

----------------------------------------------------------------------------
Check(r) == Arrive(r) \/ RefuseCaller(r) \/ RefuseRequest(r) \/ Begin(r)

GetUser(r) == FindMember(r) \/ FindForeigner(r) \/ FindNobody(r) \/ UserFails(r)

ConvertUserOrgId(r) ==
  \/ ConvertFromCache(r) \/ ConvertMalformed(r) \/ ConvertByAms(r)
  \/ ListOrgs(r) \/ ConvertedToNothing(r) \/ Converted(r)

Subscriptions(r) ==
  \/ FindSubscription(r) \/ SubscriptionGone(r) \/ SubscriptionWithoutOrg(r)
  \/ RefuseForeign(r) \/ RefuseStatus(r) \/ Pass(r)
  \/ PerformDelete(r) \/ Read(r) \/ Authorize(r) \/ Deny(r)

Next ==
  \/ \E r \in Handlers : \/ Check(r) \/ GetUser(r) \/ ConvertUserOrgId(r)
                         \/ Subscriptions(r) \/ AmsFails(r) \/ Finish(r)
  \/ \E o \in Orgs : Remap(o)
  \/ \E i \in Ids : Transfer(i)
  \/ \E u \in Users : Move(u)
  \/ Tick

Spec == Init /\ [][Next]_vars

----------------------------------------------------------------------------
(***************************************************************************)
(* Properties.                                                             *)
(***************************************************************************)
Statuses == {200, 204, 400, 401, 403, 404, 409, 500} \cup AmsErrors

\* Type invariant: the values of the handlers' locals, the id cache and what BOP
\* and AMS hold.
TypeOK ==
  /\ DOMAIN idCache \subseteq Orgs \cap WellFormed
  /\ \A o \in DOMAIN idCache :
       idCache[o] \in [id : AmsOrgs \cap WellFormed, ttl : -1..CacheTTL]
  /\ pc \in [Handlers -> {"idle", "check", "run", "listing", "listed", "replied"}]
  /\ request \in [Handlers -> Requests]
  /\ at \in [Handlers -> Nat]
  /\ \A r \in Handlers : at[r] \in 1..Len(Program(request[r].kind))
  /\ subOrg \in [Handlers -> AmsOrgs \cup {NoOrg}]
  /\ amsOrg \in [Handlers -> AmsOrgs \cup {NoOrg}]
  /\ written \in [Handlers -> Seq(Statuses)]
  /\ \A r \in Handlers : Len(written[r]) \in (IF pc[r] = "replied" THEN 1..2 ELSE {0})
  /\ callTime \in [Handlers -> 0..MaxCall]
  /\ amsOf \in [Orgs -> AmsOrgs \cup {NoOrg}]
  /\ DOMAIN seats \subseteq Ids /\ \A i \in DOMAIN seats : seats[i] \in AmsOrgs
  /\ worksFor \in [Users -> Orgs \cup {NoOrg}]
  /\ age \in [Orgs -> [AmsOrgs -> 0..(Window + 1)]]
  /\ member \in [Handlers -> BOOLEAN]
  /\ heldBy \in [Handlers -> SUBSET AmsOrgs]
  /\ changed \in [Handlers -> BOOLEAN]

Had(o, a) == a \in AmsOrgs /\ age[o][a] <= Window

(***************************************************************************)
(* DeleteSeatsId deletes, and GetSeats lists, only the caller's own: the   *)
(* step that deletes is an administrator's, for a subscription that was,   *)
(* since the request arrived, under an AMS id the organisation had within  *)
(* the window; the seats listed are those of such an id.  The id in the    *)
(* cache, the subscription and the check may all be out of date by then.   *)
(***************************************************************************)
OwnOrgOnly ==
  [][\A r \in Handlers :
       /\ (request[r].kind = "delete" /\ changed'[r] /\ ~changed[r]) =>
            request[r].admin /\ \E a \in heldBy[r] : Had(Org(r), a)
       /\ (Doing(r, "subs") /\ at'[r] > at[r]) => Had(Org(r), amsOrg[r])]_vars

(***************************************************************************)
(* PostSeats reserves a seat only for a user who was in the organisation   *)
(* of the administrator at a moment since the request arrived.             *)
(***************************************************************************)
AssignedToMember ==
  \A r \in Handlers :
    changed[r] /\ request[r].kind = "post" => request[r].admin /\ member[r]

(***************************************************************************)
(* The status tells what happened: a request answered with a 4xx has       *)
(* changed nothing in AMS, one answered with a 2xx has done what it asked. *)
(* Only a 5xx leaves the client in doubt.                                  *)
(***************************************************************************)
StatusTells ==
  \A r \in Handlers : pc[r] = "replied" =>
    /\ Sent(r) \in 400..499 => ~changed[r]
    /\ Sent(r) \in 200..299 => (changed[r] <=> request[r].kind # "get")

(***************************************************************************)
(* entitlements_api_response_status counts every reply under the status    *)
(* the client is sent, except for one: a listed page or an assigned seat   *)
(* whose body could not be encoded is sent as a 200 and counted as a 500.  *)
(* No error is counted as a success, nor under another error's status.     *)
(***************************************************************************)
ErrorsAreCounted ==
  \A r \in Handlers :
    pc[r] = "replied" /\ Recorded(written[r]) # Sent(r) =>
      /\ Sent(r) = 200 /\ Recorded(written[r]) = 500
      /\ request[r].kind \in {"get", "post"}
=============================================================================
