------------------------------ MODULE SeatList ------------------------------
(***************************************************************************)
(* GET /seats as its caller sees it: the query that is built for AMS, the  *)
(* page of AMS's list that an offset is turned into, and the links to the  *)
(* other pages, followed by a client while seats come and go.  The server  *)
(* keeps nothing between two requests, so a walk along the links is only   *)
(* as good as the offsets in them.                                         *)
(*                                                                         *)
(* Module Seats has the calls behind a GET one by one; here they are one   *)
(* step, taken when AMS reads its list.                                    *)
(***************************************************************************)
EXTENDS Integers, FiniteSets

CONSTANTS
  Subs,          \* AMS's subscriptions, numbered in the order it lists them
  Attr,          \* subscription -> field -> value
  Plan,          \* the plan of the seats
  AmsOrg,        \* the AMS id of the caller's organisation
  Statuses,      \* the statuses the API supports
  Requests,      \* the query parameters a client may send, a set of records
  Absent,        \* a parameter that is not sent
  Blank,         \* the empty text, and, for an account, one of spaces
  DefaultLimit,  \* the limit if none is sent
  MaxInt,        \* the largest int
  AmsErrors      \* the statuses of failed calls to AMS

AccountFields ==
  {"creator.username", "creator.email", "creator.first_name", "creator.last_name"}

Fields == {"plan.id", "organization_id", "status"} \cup AccountFields

\* What an int can be: a request with any other number is not parsed.
Ints == -(MaxInt + 1)..MaxInt

ASSUME SeatListAssumption ==
  /\ MaxInt \in Nat
  /\ Subs \subseteq Nat /\ IsFiniteSet(Subs) /\ Cardinality(Subs) <= MaxInt
  /\ \A q \in Requests : /\ q.limit \in Ints \cup {Absent}
                         /\ q.offset \in Ints \cup {Absent}
  /\ Absent \notin Int
  /\ DefaultLimit \in 1..MaxInt
  /\ 200 \notin AmsErrors /\ 0 \notin AmsErrors

VARIABLES
  held,   \* AMS's truth: the subscriptions there are
  asked,  \* the client's last request, or NoRequest
  reply,  \* the answer to it
  walk    \* history: the client's walk along the links "next"

vars == <<held, asked, reply, walk>>

----------------------------------------------------------------------------
\* fillDefaults.
Limit(q)  == IF q.limit = Absent THEN DefaultLimit ELSE q.limit
Offset(q) == IF q.offset = Absent THEN 0 ELSE q.offset

\* Mutant of Acceptable: the offset is not checked.
AcceptableAnyOffset(q) == Limit(q) >= 1

Acceptable(q) == Limit(q) >= 1 /\ Offset(q) >= 0

\* The sum of two ints of which none is negative: it wraps around.
Wrap(n) == IF n > MaxInt THEN n - 2 * (MaxInt + 1) ELSE n

\* AMS has pages and no offsets: an offset is rounded down to a page.
PageOf(offset, limit) == 1 + (offset \div limit)

PageAsked(offset, limit) == Wrap(PageOf(offset, limit))

\* Mutants of NextOffset: the link skips a seat; it repeats one.
NextOffsetPastIt(offset, limit) == Wrap(offset + limit + 1)
NextOffsetInclusive(offset, limit) == Wrap(offset + limit - 1)

NextOffset(offset, limit) == Wrap(offset + limit)

\* Mutant of PreviousOffset: a negative one is left in the link.
PreviousUnclamped(offset, limit) == offset - limit

PreviousOffset(offset, limit) == IF offset < limit THEN 0 ELSE offset - limit

----------------------------------------------------------------------------
(***************************************************************************)
(* The query: a conjunction of clauses, each a field and the values it may *)
(* have.  (The LIKE of the plan has no wildcard.)  Blank filters are left  *)
(* out; of a list of statuses, the blank ones are, and what is left may be *)
(* the clause  status IN ()  that nothing satisfies.                       *)
(***************************************************************************)
Clause(field, values) == [field |-> field, values |-> values]

Supported(q) == q.status # Absent => q.status \subseteq Statuses \cup {Blank}

\* Mutant of StatusClauses: a list without a status that counts is no filter.
StatusClausesUnlessBlank(q) ==
  IF q.status \in {Absent, {}, {Blank}} THEN {} ELSE {Clause("status", q.status \ {Blank})}

StatusClauses(q) ==
  IF q.status \in {Absent, {}} THEN {} ELSE {Clause("status", q.status \ {Blank})}

Query(q) ==
  {Clause("plan.id", {Plan}), Clause("organization_id", {AmsOrg})} \cup StatusClauses(q)
    \cup {Clause(f, {q.account[f]}) : f \in {g \in AccountFields : q.account[g] \notin {Absent, Blank}}}

\* AMS: the subscriptions a query selects,
Selected(query, subs) == {s \in subs : \A c \in query : Attr[s][c.field] \in c.values}

\* the place of one in its list, counted from 0,
Rank(s, list) == Cardinality({t \in list : t < s})

\* and the page of a list; no page has a number below 1.
Page(list, size, page) == {s \in list : PageOf(Rank(s, list), size) = page}

----------------------------------------------------------------------------
NoFilter == [status |-> Absent, account |-> [f \in AccountFields |-> Absent]]

Params(limit, offset, filter) ==
  [limit |-> limit, offset |-> offset, status |-> filter.status, account |-> filter.account]

FilterOf(q) == [status |-> q.status, account |-> q.account]

NoRequest == Params(Absent, Absent, NoFilter)
NoLink    == [limit |-> 1, offset |-> 0]
Waiting   == [status |-> 0, data |-> {}, first |-> NoLink, next |-> NoLink, previous |-> NoLink]
NoWalk    == [on |-> FALSE, filter |-> NoFilter, since |-> {}, met |-> {},
              twice |-> FALSE, added |-> FALSE, removed |-> FALSE]

Pending == reply.status = 0

\* Nothing has been asked: as after a reply of no use.
Init ==
  /\ held \in SUBSET Subs
  /\ asked = NoRequest
  /\ reply = [Waiting EXCEPT !.status = 500]
  /\ walk = NoWalk

Send(q) ==
  /\ asked' = q
  /\ reply' = Waiting
  /\ UNCHANGED held

\* The client sends a request of its own.  From the first seat on it may walk.
Ask(q) ==
  /\ ~Pending
  /\ Send(q)
  /\ walk' = IF Acceptable(q) /\ Offset(q) = 0
             THEN [NoWalk EXCEPT !.on = TRUE, !.filter = FilterOf(q),
                                 !.since = Selected(Query(q), held)]
             ELSE NoWalk

\* The client follows a link.  The links carry no filters: it adds those of the
\* request, or leaves it at that.
Follow(link, filter) ==
  /\ ~Pending
  /\ reply.status = 200
  /\ Send(Params(link.limit, link.offset, filter))

\* A link that has wrapped around is refused: it ends the walk.
FollowNext(filter) ==
  /\ Follow(reply.next, filter)
  /\ walk' = IF filter = walk.filter /\ reply.next.offset >= 0 THEN walk ELSE NoWalk

FollowBack(filter) ==
  /\ Follow(reply.previous, filter) \/ Follow(reply.first, filter)
  /\ walk' = NoWalk

\* The request failed; the client sends it again.
Retry ==
  /\ reply.status \in AmsErrors \cup {500}
  /\ Send(asked)
  /\ UNCHANGED walk

Answer(status) ==
  /\ reply' = [Waiting EXCEPT !.status = status]
  /\ UNCHANGED <<held, asked, walk>>

\* The page asked for, or the status filtered by, is refused.
Refuse ==
  /\ Pending
  /\ ~Acceptable(asked) \/ ~Supported(asked)
  /\ Answer(400)

\* One of the calls behind the request fails.
Fail ==
  /\ Pending
  /\ Acceptable(asked)
  /\ \E status \in AmsErrors \cup {500} : Answer(status)

\* The page and the links.
List ==
  /\ Pending
  /\ Acceptable(asked) /\ Supported(asked)
  /\ LET limit  == Limit(asked)
         offset == Offset(asked)
         data   == Page(Selected(Query(asked), held), limit, PageAsked(offset, limit))
         Link(o) == [limit |-> limit, offset |-> o]
     IN  /\ reply' = [status |-> 200, data |-> data, first |-> Link(0),
                      next |-> Link(NextOffset(offset, limit)),
                      previous |-> Link(PreviousOffset(offset, limit))]
         /\ walk' = [walk EXCEPT !.met = @ \cup data, !.twice = @ \/ walk.met \cap data # {}]
  /\ UNCHANGED <<held, asked>>

\* AMS gets a subscription, or loses one.
Assign(s) ==
  /\ held' = held \cup {s}
  /\ walk' = [walk EXCEPT !.added = @ \/ s \notin held]
  /\ UNCHANGED <<asked, reply>>

Remove(s) ==
  /\ held' = held \ {s}
  /\ walk' = [walk EXCEPT !.removed = @ \/ s \in held]
  /\ UNCHANGED <<asked, reply>>

Next ==
  \/ \E q \in Requests : Ask(q)
  \/ \E filter \in {FilterOf(asked), NoFilter} : FollowNext(filter) \/ FollowBack(filter)
  \/ Retry \/ Refuse \/ Fail \/ List
  \/ \E s \in Subs : Assign(s) \/ Remove(s)

Spec == Init /\ [][Next]_vars

----------------------------------------------------------------------------
Link == [limit : 1..MaxInt, offset : 0..MaxInt]

Listed == reply.status = 200

\* Type invariant: in particular, the links back can always be followed.
TypeOK ==
  /\ held \subseteq Subs
  /\ asked.limit \in Ints \cup {Absent} /\ asked.offset \in Ints \cup {Absent}
  /\ reply \in [status : {0, 200, 400, 500} \cup AmsErrors, data : SUBSET Subs,
                first : Link, next : [limit : 1..MaxInt, offset : Ints], previous : Link]
  /\ walk \in [on : BOOLEAN, filter : {walk.filter}, since : SUBSET Subs, met : SUBSET Subs,
               twice : BOOLEAN, added : BOOLEAN, removed : BOOLEAN]

(***************************************************************************)
(* Whatever the filters, a listed seat is one of the caller's own          *)
(* organisation and satisfies every filter of the request: a filter whose  *)
(* values are all blank never lists a seat the caller did not ask for.     *)
(***************************************************************************)
OnlyMatching ==
  Listed => \A s \in reply.data :
    /\ Attr[s]["plan.id"] = Plan
    /\ Attr[s]["organization_id"] = AmsOrg
    /\ asked.status \notin {Absent, {}} => Attr[s]["status"] \in asked.status
    /\ \A f \in AccountFields : asked.account[f] \notin {Absent, Blank} =>
                                  Attr[s][f] = asked.account[f]

(***************************************************************************)
(* The links are computed from the offset as it was sent, the page from    *)
(* the offset rounded down.  Still the pages they lead to are the ones     *)
(* next to the page shown, also when the offset was no multiple of the     *)
(* limit.  Where offset + limit wraps around, the link next leads nowhere: *)
(* its offset is one the API refuses, never that of another page.          *)
(***************************************************************************)
LinksAreNeighbours ==
  Listed =>
    LET shown   == PageOf(Offset(asked), Limit(asked))
        At(link) == PageOf(link.offset, link.limit)
        next     == Params(reply.next.limit, reply.next.offset, NoFilter)
    IN  /\ At(reply.first) = 1
        /\ Acceptable(next) <=> Offset(asked) + Limit(asked) <= MaxInt
        /\ Acceptable(next) => At(reply.next) = shown + 1
        /\ At(reply.previous) = IF shown = 1 THEN 1 ELSE shown - 1

(***************************************************************************)
(* A client that walks from the first page along the links "next", with    *)
(* the same filters, retrying what fails, misses none of the seats there   *)
(* were when it set out, as long as none is removed: those up to the page  *)
(* shown it has met, however many were assigned meanwhile.                 *)
(***************************************************************************)
NoneSkipped ==
  walk.on /\ ~walk.removed /\ Listed =>
    \A s \in walk.since :
      Rank(s, Selected(Query(asked), held)) < Offset(asked) + Limit(asked) => s \in walk.met

(***************************************************************************)
(* There is no link "last" and no total: a client stops when a page has    *)
(* fewer seats than the limit.  It then has met every seat it set out for. *)
(***************************************************************************)
ShortPageIsTheLast ==
  walk.on /\ ~walk.removed /\ Listed /\ Cardinality(reply.data) < Limit(asked) =>
    walk.since \subseteq walk.met

(***************************************************************************)
(* Nor does it meet a seat twice, as long as none is assigned.             *)
(***************************************************************************)
NoneTwice == walk.on /\ ~walk.added => ~walk.twice

----------------------------------------------------------------------------
(***************************************************************************)
(* The inductive invariant.  A walk has offsets that are multiples of the  *)
(* limit, so that its pages meet; Reached is the place in the list up to   *)
(* which it has come.                                                      *)
(***************************************************************************)
Matching == Selected(Query(asked), held)

Reached == IF Listed THEN Offset(asked) + Limit(asked) ELSE Offset(asked)

ReplyInv ==
  Listed =>
    /\ Acceptable(asked)
    /\ reply.data \subseteq Selected(Query(asked), Subs)
    /\ reply.first = [limit |-> Limit(asked), offset |-> 0]
    /\ reply.next = [limit |-> Limit(asked), offset |-> NextOffset(Offset(asked), Limit(asked))]
    /\ reply.previous = [limit |-> Limit(asked),
                         offset |-> PreviousOffset(Offset(asked), Limit(asked))]

WalkInv ==
  walk.on =>
    /\ Acceptable(asked)
    /\ FilterOf(asked) = walk.filter
    /\ \E k \in Nat : Offset(asked) = k * Limit(asked)

MetInv ==
  walk.on /\ ~walk.removed =>
    \A s \in walk.since : s \in Matching /\ (Rank(s, Matching) < Reached => s \in walk.met)

OnceInv ==
  walk.on /\ ~walk.added =>
    /\ ~walk.twice
    /\ \A s \in walk.met : s \in held => Rank(s, Matching) < Reached

SeatListInv == TypeOK /\ ReplyInv /\ WalkInv /\ MetInv /\ OnceInv
=============================================================================
