--------------------------- MODULE SeatListProofs ---------------------------
(***************************************************************************)
(* Proofs about SeatList, for any subscriptions, requests, filters, limits *)
(* and offsets.  The arithmetic of pages and the ranks in a list that      *)
(* changes come first; then each conjunct of SeatListInv is shown to be    *)
(* kept by every step.                                                     *)
(***************************************************************************)
EXTENDS SeatList, FiniteSetTheorems, WellFoundedInduction, TLAPS

\* The page behind an offset moves by one as the offset moves by the limit.
LEMMA PageStep ==
  ASSUME NEW o \in Nat, NEW l \in Nat \ {0}
  PROVE  /\ PageOf(o, l) \in Nat \ {0}
         /\ PageOf(o + l, l) = PageOf(o, l) + 1
         /\ o < l => PageOf(o, l) = 1
         /\ o >= l => /\ PreviousOffset(o, l) = o - l
                      /\ PageOf(o, l) = PageOf(o - l, l) + 1
                      /\ PageOf(o - l, l) \in Nat \ {0}
<1>1. o \div l \in Nat
  BY SMT
<1>2. (o + l) \div l = o \div l + 1
  BY SMT
<1>3. o < l => o \div l = 0
  BY SMT
<1>4. ASSUME o >= l PROVE (o - l) \div l \in Nat /\ o \div l = (o - l) \div l + 1
  BY <1>4, SMT
<1>5. QED
  BY <1>1, <1>2, <1>3, <1>4 DEF PageOf, PreviousOffset

\* The offset of the link next is that of the next page, unless it wraps around:
\* then it is negative.
LEMMA NextOffsetWraps ==
  ASSUME SeatListAssumption, NEW o \in 0..MaxInt, NEW l \in 1..MaxInt
  PROVE  /\ NextOffset(o, l) \in Ints
         /\ NextOffset(o, l) >= 0 <=> o + l <= MaxInt
         /\ o + l <= MaxInt => NextOffset(o, l) = o + l
BY DEF SeatListAssumption, NextOffset, Wrap, Ints

LEMMA PreviousOffsetType ==
  ASSUME SeatListAssumption, NEW o \in 0..MaxInt, NEW l \in 1..MaxInt
  PROVE  PreviousOffset(o, l) \in 0..MaxInt
BY DEF SeatListAssumption, PreviousOffset

\* The number of a page wraps around only past every page there may be.
LEMMA PageAskedWraps ==
  ASSUME SeatListAssumption, NEW o \in 0..MaxInt, NEW l \in 1..MaxInt
  PROVE  \/ PageAsked(o, l) = PageOf(o, l)
         \/ o = MaxInt /\ l = 1 /\ PageAsked(o, l) < 0
<1>1. MaxInt \in Nat
  BY DEF SeatListAssumption
<1>2. o \div l \in Nat /\ l * (o \div l) <= o
  BY <1>1, SMT
<1>3. o \div l <= o
  BY <1>1, <1>2, SMT
<1>4. ASSUME 1 + (o \div l) > MaxInt PROVE o = MaxInt /\ l = 1
  <2>1. o = MaxInt /\ o \div l = o
    BY <1>1, <1>2, <1>3, <1>4
  <2>2. l >= 2 => l * o >= 2 * o
    BY <1>1, SMT
  <2>3. o >= 1
    BY <1>1, <2>1
  <2> QED
    BY <1>1, <1>2, <2>1, <2>2, <2>3, SMT
<1>5. CASE 1 + (o \div l) > MaxInt
  <2>1. o = MaxInt /\ l = 1
    BY <1>4, <1>5
  <2>2. o \div l = MaxInt
    BY <1>1, <2>1, SMT
  <2> QED
    BY <1>1, <1>5, <2>1, <2>2 DEF PageAsked, Wrap, PageOf
<1>6. CASE ~(1 + (o \div l) > MaxInt)
  BY <1>6 DEF PageAsked, Wrap, PageOf
<1> QED
  BY <1>5, <1>6

\* The ranks on the page behind a multiple of the limit.
LEMMA PageRanks ==
  ASSUME NEW k \in Nat, NEW l \in Nat \ {0}, NEW r \in Nat
  PROVE  PageOf(r, l) = PageOf(k * l, l) <=> k * l <= r /\ r < k * l + l
<1>1. (k * l) \div l = k
  BY SMT
<1>2. l * (r \div l) <= r /\ r < l * (r \div l) + l /\ r \div l \in Nat
  BY SMT
<1>3. k * l <= r /\ r < k * l + l => r \div l = k
  BY SMT
<1>4. r \div l = k => k * l <= r /\ r < k * l + l
  BY <1>2, SMT
<1>5. QED
  BY <1>1, <1>2, <1>3, <1>4 DEF PageOf

\* In a longer list a subscription's rank is no smaller.
LEMMA RankGrows ==
  ASSUME NEW L, IsFiniteSet(L), NEW T \in SUBSET L, NEW s
  PROVE  Rank(s, T) \in Nat /\ Rank(s, L) \in Nat /\ Rank(s, T) <= Rank(s, L)
<1> DEFINE below(M) == {t \in M : t < s}
<1>1. below(T) \subseteq below(L) /\ below(L) \subseteq L
  OBVIOUS
<1>2. IsFiniteSet(below(L))
  BY <1>1, FS_Subset
<1>3. IsFiniteSet(below(T)) /\ Cardinality(below(T)) <= Cardinality(below(L))
  BY <1>1, <1>2, FS_Subset
<1>4. QED
  BY <1>2, <1>3, FS_CardinalityType DEF Rank

\* Selecting from a larger set selects no less.
LEMMA SelectedGrows ==
  ASSUME NEW q, NEW L, NEW T \in SUBSET L
  PROVE  Selected(q, T) \subseteq Selected(q, L) /\ Selected(q, L) \subseteq L
BY DEF Selected

\* A rank is less than the length of the list.
LEMMA RankBelow ==
  ASSUME NEW L \in SUBSET Nat, IsFiniteSet(L), NEW s \in L
  PROVE  Rank(s, L) \in Nat /\ Rank(s, L) < Cardinality(L)
<1> DEFINE below == {t \in L : t < s}
<1>1. below \subseteq L \ {s}
  OBVIOUS
<1>2. /\ IsFiniteSet(L \ {s}) /\ Cardinality(L \ {s}) = Cardinality(L) - 1
      /\ Cardinality(L) \in Nat
  BY FS_RemoveElement, FS_CardinalityType
<1>3. Cardinality(below) <= Cardinality(L \ {s}) /\ Cardinality(below) \in Nat
  BY <1>1, <1>2, FS_Subset, FS_CardinalityType
<1> QED
  BY <1>2, <1>3 DEF Rank

\* The page behind a multiple of the limit, whether its number wraps around or not.
LEMMA PageData ==
  ASSUME SeatListAssumption, NEW L \in SUBSET Subs,
         NEW o \in 0..MaxInt, NEW l \in 1..MaxInt, \E k \in Nat : o = k * l
  PROVE  Page(L, l, PageAsked(o, l)) = {s \in L : o <= Rank(s, L) /\ Rank(s, L) < o + l}
<1>1. L \subseteq Nat /\ IsFiniteSet(L) /\ IsFiniteSet(Subs) /\ MaxInt \in Nat
  BY FS_Subset DEF SeatListAssumption
<1>2. \A s \in L : Rank(s, L) \in Nat /\ Rank(s, L) < MaxInt
  <2>1. Cardinality(L) <= Cardinality(Subs) /\ Cardinality(L) \in Nat /\ Cardinality(Subs) \in Nat
    BY <1>1, FS_Subset, FS_CardinalityType
  <2>2. Cardinality(Subs) <= MaxInt
    BY DEF SeatListAssumption
  <2> QED
    BY <1>1, <2>1, <2>2, RankBelow
<1>3. l \in Nat \ {0} /\ o \in Nat
  BY <1>1
<1>4. CASE PageAsked(o, l) = PageOf(o, l)
  <2>1. PICK k \in Nat : o = k * l
    OBVIOUS
  <2> QED
    BY <1>2, <1>3, <1>4, <2>1, PageRanks DEF Page
<1>5. CASE o = MaxInt /\ l = 1 /\ PageAsked(o, l) < 0
  <2>1. \A s \in L : PageOf(Rank(s, L), l) \in Nat
    BY <1>2, <1>3, PageStep
  <2>2. \A s \in L : PageOf(Rank(s, L), l) # PageAsked(o, l) /\ ~(o <= Rank(s, L))
    BY <1>1, <1>2, <1>5, <2>1
  <2> QED
    BY <2>2 DEF Page
<1> QED
  BY <1>4, <1>5, PageAskedWraps

LEMMA MatchingFinite ==
  ASSUME SeatListAssumption, NEW M \in SUBSET Subs, NEW q
  PROVE  IsFiniteSet(Selected(q, M)) /\ Selected(q, M) \subseteq M
<1>1. Selected(q, M) \subseteq M
  BY SelectedGrows
<1>2. QED
  BY <1>1, FS_Subset DEF SeatListAssumption

\* The query depends on the filters only.
LEMMA SameQuery ==
  ASSUME NEW p, NEW q, FilterOf(p) = FilterOf(q)
  PROVE  Query(p) = Query(q)
<1>1. p.status = q.status /\ p.account = q.account
  BY DEF FilterOf
<1>2. QED
  BY <1>1 DEF Query, StatusClauses

LEMMA AcceptableType ==
  ASSUME SeatListAssumption, NEW q,
         q.limit \in Ints \cup {Absent}, q.offset \in Ints \cup {Absent}, Acceptable(q)
  PROVE  /\ Limit(q) \in 1..MaxInt /\ Offset(q) \in 0..MaxInt
         /\ Limit(q) \in Nat \ {0} /\ Offset(q) \in Nat
BY DEF SeatListAssumption, Acceptable, Limit, Offset, Ints

\* The request made from a link.
LEMMA LinkParams ==
  ASSUME SeatListAssumption, NEW link, NEW f, link.limit \in Int, link.offset \in Int
  PROVE  /\ Params(link.limit, link.offset, f).limit = link.limit
         /\ Params(link.limit, link.offset, f).offset = link.offset
         /\ Limit(Params(link.limit, link.offset, f)) = link.limit
         /\ Offset(Params(link.limit, link.offset, f)) = link.offset
         /\ FilterOf(Params(link.limit, link.offset, f)) = [status |-> f.status, account |-> f.account]
BY DEF SeatListAssumption, Params, Limit, Offset, FilterOf

\* The fields of a walk's history are what they should be.
WalkType(w) ==
  [on : BOOLEAN, filter : {w.filter}, since : SUBSET Subs, met : SUBSET Subs,
   twice : BOOLEAN, added : BOOLEAN, removed : BOOLEAN]

ReplyType ==
  [status : {0, 200, 400, 500} \cup AmsErrors, data : SUBSET Subs,
   first : Link, next : [limit : 1..MaxInt, offset : Ints], previous : Link]

\* A reply without a list.
LEMMA WaitingType ==
  ASSUME SeatListAssumption, NEW status \in {0, 400, 500} \cup AmsErrors
  PROVE  Waiting \in ReplyType /\ [Waiting EXCEPT !.status = status] \in ReplyType
<1>1. /\ 1 \in 1..MaxInt /\ 0 \in 0..MaxInt /\ 0 \in Ints
  BY DEF SeatListAssumption, Ints
<1>2. NoLink \in Link /\ NoLink \in [limit : 1..MaxInt, offset : Ints]
  BY <1>1 DEF NoLink, Link
<1> QED
  BY <1>2 DEF Waiting, ReplyType

LEMMA Marked ==
  ASSUME NEW w, w \in WalkType(w), NEW t, NEW subs, NEW v,
         \/ v = [w EXCEPT !.removed = @ \/ t \in subs]
         \/ v = [w EXCEPT !.added = @ \/ t \notin subs]
  PROVE  v \in WalkType(v)
<1>1. CASE v = [w EXCEPT !.removed = @ \/ t \in subs]
  BY <1>1 DEF WalkType
<1>2. CASE v = [w EXCEPT !.added = @ \/ t \notin subs]
  BY <1>2 DEF WalkType
<1>3. QED
  BY <1>1, <1>2

----------------------------------------------------------------------------
LEMMA InitSeatList == SeatListAssumption /\ Init => SeatListInv
<1> SUFFICES ASSUME SeatListAssumption, Init PROVE SeatListInv
  OBVIOUS
<1>1. ~walk.on /\ ~Listed
  BY DEF Init, NoWalk, Waiting, Listed
<1>2. TypeOK
  <2>1. reply \in ReplyType
    BY WaitingType DEF Init
  <2> QED
    BY <2>1 DEF Init, TypeOK, ReplyType, NoRequest, Params, NoWalk
<1>3. QED
  BY <1>1, <1>2 DEF SeatListInv, ReplyInv, WalkInv, MetInv, OnceInv

\* A request was sent: nothing is listed, whatever it asks.
LEMMA SendKeeps ==
  ASSUME SeatListAssumption, SeatListInv, NEW q, Send(q),
         q.limit \in Ints \cup {Absent}, q.offset \in Ints \cup {Absent},
         walk' \in {walk, NoWalk}
  PROVE  TypeOK' /\ ReplyInv' /\ ~Listed'
<1>1. reply' = Waiting /\ asked' = q /\ held' = held
  BY DEF Send
<1>2. ~Listed'
  BY <1>1 DEF Listed, Waiting
<1>3. TypeOK'
  <2>1. walk' \in [on : BOOLEAN, filter : {walk'.filter}, since : SUBSET Subs, met : SUBSET Subs,
                   twice : BOOLEAN, added : BOOLEAN, removed : BOOLEAN]
    <3>1. CASE walk' = NoWalk
      BY <3>1 DEF NoWalk
    <3>2. CASE walk' = walk
      BY <3>2 DEF SeatListInv, TypeOK
    <3>3. QED
      BY <3>1, <3>2
  <2>2. QED
    <3>1. reply' \in ReplyType
      BY <1>1, WaitingType
    <3> QED
      BY <1>1, <2>1, <3>1 DEF SeatListInv, TypeOK, ReplyType
<1>4. QED
  BY <1>2, <1>3 DEF ReplyInv

LEMMA AskKeeps ==
  ASSUME SeatListAssumption, SeatListInv, NEW q \in Requests, Ask(q)
  PROVE  SeatListInv'
<1>1. reply' = Waiting /\ asked' = q /\ held' = held
  BY DEF Ask, Send
<1>2. ~Listed'
  BY <1>1 DEF Listed, Waiting
<1>3. q.limit \in Ints \cup {Absent} /\ q.offset \in Ints \cup {Absent}
  BY DEF SeatListAssumption
<1>4. CASE ~(Acceptable(q) /\ Offset(q) = 0)
  <2>1. walk' = NoWalk
    BY <1>4 DEF Ask
  <2>2. TypeOK'
    <3>1. reply' \in ReplyType
      BY <1>1, WaitingType
    <3> QED
      BY <1>1, <1>3, <2>1, <3>1 DEF SeatListInv, TypeOK, ReplyType, NoWalk
  <2>3. ~walk'.on
    BY <2>1 DEF NoWalk
  <2>4. QED
    BY <1>2, <2>2, <2>3 DEF SeatListInv, ReplyInv, WalkInv, MetInv, OnceInv
<1>5. CASE Acceptable(q) /\ Offset(q) = 0
  <2>1. walk' = [NoWalk EXCEPT !.on = TRUE, !.filter = FilterOf(q),
                               !.since = Selected(Query(q), held)]
    BY <1>5 DEF Ask
  <2>2. /\ walk'.filter = FilterOf(q) /\ walk'.since = Selected(Query(q), held)
        /\ walk'.met = {} /\ ~walk'.twice
    BY <2>1 DEF NoWalk
  <2>3. held \subseteq Subs
    BY DEF SeatListInv, TypeOK
  <2>4. Selected(Query(q), held) \subseteq Subs
    BY <2>3, MatchingFinite
  <2>5. TypeOK'
    <3>1. walk' \in [on : BOOLEAN, filter : {walk'.filter}, since : SUBSET Subs, met : SUBSET Subs,
                   twice : BOOLEAN, added : BOOLEAN, removed : BOOLEAN]
      BY <2>1, <2>4 DEF NoWalk
    <3>2. reply' \in ReplyType
      BY <1>1, WaitingType
    <3>3. QED
      BY <1>1, <1>3, <3>1, <3>2 DEF SeatListInv, TypeOK, ReplyType
  <2>6. Limit(q) \in Nat \ {0}
    BY <1>3, <1>5, AcceptableType
  <2>7. WalkInv'
    <3>1. Offset(q) = 0 * Limit(q)
      BY <1>5, <2>6
    <3>2. Acceptable(asked') /\ FilterOf(asked') = walk'.filter
      BY <1>1, <1>5, <2>2
    <3>3. \E k \in Nat : Offset(asked') = k * Limit(asked')
      BY <1>1, <3>1
    <3>4. QED
      BY <3>2, <3>3 DEF WalkInv
  <2>8. Matching' = Selected(Query(q), held) /\ Reached' = 0
    BY <1>1, <1>2, <1>5 DEF Matching, Reached
  <2>9. MetInv'
    <3>1. ASSUME NEW s \in Selected(Query(q), held) PROVE ~(Rank(s, Matching') < 0)
      BY <2>3, <2>8, MatchingFinite, RankGrows
    <3>2. QED
      BY <2>2, <2>8, <3>1 DEF MetInv
  <2>10. OnceInv'
    BY <2>2 DEF OnceInv
  <2>11. QED
    BY <1>2, <2>5, <2>7, <2>9, <2>10 DEF SeatListInv, ReplyInv
<1>6. QED
  BY <1>4, <1>5

\* The walk goes on with the next page: the place reached stays the same.
LEMMA FollowNextKeeps ==
  ASSUME SeatListAssumption, SeatListInv, NEW filter \in {FilterOf(asked), NoFilter},
         FollowNext(filter)
  PROVE  SeatListInv'
<1> DEFINE limit  == Limit(asked)
           offset == Offset(asked)
           q == Params(reply.next.limit, reply.next.offset, filter)
<1> DEFINE next == NextOffset(offset, limit)
<1>1. Listed /\ Acceptable(asked) /\ reply.next = [limit |-> limit, offset |-> next]
  BY DEF FollowNext, Follow, Listed, SeatListInv, ReplyInv
<1>2. /\ limit \in 1..MaxInt /\ offset \in 0..MaxInt /\ MaxInt \in Nat
      /\ next \in Ints /\ next \in Int
      /\ next >= 0 => next = offset + limit
  <2>1. limit \in 1..MaxInt /\ offset \in 0..MaxInt
    BY <1>1, AcceptableType DEF SeatListInv, TypeOK
  <2> QED
    BY <2>1, NextOffsetWraps DEF SeatListAssumption, Ints
<1>3. Send(q) /\ asked' = q /\ held' = held /\ reply' = Waiting
  BY DEF FollowNext, Follow, Send
<1>4. reply.next.limit = limit /\ reply.next.offset = next
  BY <1>1
<1>5. /\ q.limit = limit /\ q.offset = next
      /\ Limit(q) = limit /\ Offset(q) = next
      /\ FilterOf(q) = [status |-> filter.status, account |-> filter.account]
  <2>1. reply.next.limit \in Int /\ reply.next.offset \in Int
    BY <1>2, <1>4
  <2> QED
    BY <1>4, <2>1, LinkParams
<1>6. FilterOf(q) = filter
  BY <1>5 DEF FilterOf, NoFilter
<1>7. walk' = IF filter = walk.filter /\ next >= 0 THEN walk ELSE NoWalk
  BY <1>4 DEF FollowNext
<1>8. TypeOK' /\ ReplyInv' /\ ~Listed'
  <2>1. limit \in Ints
    BY <1>2 DEF Ints
  <2> QED
    BY <1>2, <1>3, <1>5, <1>7, <2>1, SendKeeps
<1>9. CASE ~(walk.on /\ filter = walk.filter /\ next >= 0)
  <2>1. ~walk'.on
    BY <1>7, <1>9 DEF NoWalk
  <2>2. QED
    BY <1>8, <2>1 DEF SeatListInv, WalkInv, MetInv, OnceInv
<1>10. CASE walk.on /\ filter = walk.filter /\ next >= 0
  <2>1. walk' = walk
    BY <1>7, <1>10
  <2>2. Query(q) = Query(asked)
    BY <1>6, <1>10, SameQuery DEF SeatListInv, WalkInv
  <2>3. Matching' = Matching
    BY <1>3, <2>2 DEF Matching
  <2>4. Reached' = Reached
    BY <1>1, <1>2, <1>3, <1>5, <1>8, <1>10 DEF Reached
  <2>5. WalkInv'
    <3>1. PICK k \in Nat : offset = k * limit
      BY <1>10 DEF SeatListInv, WalkInv
    <3>2. next = (k + 1) * limit
      BY <1>2, <1>10, <3>1, SMT
    <3>3. \E n \in Nat : Offset(asked') = n * Limit(asked')
      BY <1>3, <1>5, <3>2
    <3>4. Acceptable(asked')
      BY <1>2, <1>3, <1>5, <1>10 DEF Acceptable
    <3>5. QED
      BY <1>3, <1>6, <1>10, <2>1, <3>3, <3>4 DEF WalkInv
  <2>6. MetInv'
    BY <2>1, <2>3, <2>4 DEF SeatListInv, MetInv
  <2>7. OnceInv'
    BY <1>3, <2>1, <2>3, <2>4 DEF SeatListInv, OnceInv
  <2>8. QED
    BY <1>8, <2>5, <2>6, <2>7 DEF SeatListInv
<1>11. QED
  BY <1>9, <1>10

LEMMA FollowBackKeeps ==
  ASSUME SeatListAssumption, SeatListInv, NEW filter, FollowBack(filter)
  PROVE  SeatListInv'
<1>1. PICK link \in {reply.previous, reply.first} : Follow(link, filter)
  BY DEF FollowBack
<1>2. link.limit \in Ints /\ link.offset \in Ints /\ link.limit \in Int /\ link.offset \in Int
  BY DEF SeatListInv, TypeOK, Link, Ints, SeatListAssumption
<1>3. Send(Params(link.limit, link.offset, filter))
  BY <1>1 DEF Follow
<1>4. walk' = NoWalk
  BY DEF FollowBack
<1>5. TypeOK' /\ ReplyInv' /\ ~Listed'
  BY <1>2, <1>3, <1>4, LinkParams, SendKeeps
<1>6. ~walk'.on
  BY <1>4 DEF NoWalk
<1>7. QED
  BY <1>5, <1>6 DEF SeatListInv, WalkInv, MetInv, OnceInv

\* Nothing was listed and nothing is: the walk is where it was.
LEMMA StandsStill ==
  ASSUME SeatListInv, UNCHANGED <<held, asked, walk>>, ~Listed, ~Listed'
  PROVE  ReplyInv' /\ WalkInv' /\ MetInv' /\ OnceInv'
<1>1. Matching' = Matching /\ Reached' = Reached
  BY DEF Matching, Reached
<1>2. QED
  BY <1>1 DEF SeatListInv, ReplyInv, WalkInv, MetInv, OnceInv

LEMMA RetryKeeps ==
  ASSUME SeatListAssumption, SeatListInv, Retry
  PROVE  SeatListInv'
<1>1. Send(asked) /\ walk' = walk /\ ~Listed
  BY DEF Retry, Listed, SeatListAssumption
<1>2. TypeOK' /\ ReplyInv' /\ ~Listed'
  BY <1>1, SendKeeps DEF SeatListInv, TypeOK
<1>3. UNCHANGED <<held, asked, walk>>
  BY <1>1 DEF Send
<1>4. QED
  BY <1>1, <1>2, <1>3, StandsStill DEF SeatListInv

LEMMA AnswerKeeps ==
  ASSUME SeatListAssumption, SeatListInv, Pending,
         NEW status \in {400, 500} \cup AmsErrors, Answer(status)
  PROVE  SeatListInv'
<1>1. UNCHANGED <<held, asked, walk>> /\ reply' = [Waiting EXCEPT !.status = status]
  BY DEF Answer
<1>2. ~Listed /\ ~Listed'
  BY <1>1 DEF Listed, Pending, Waiting, SeatListAssumption
<1>3. TypeOK'
  BY <1>1, WaitingType DEF SeatListInv, TypeOK, ReplyType
<1>4. QED
  BY <1>1, <1>2, <1>3, StandsStill DEF SeatListInv

\* The page adds to the walk what has its rank between the old and the new place.
LEMMA ListKeeps ==
  ASSUME SeatListAssumption, SeatListInv, List
  PROVE  SeatListInv'
<1> DEFINE limit  == Limit(asked)
           offset == Offset(asked)
           data   == Page(Matching, limit, PageAsked(offset, limit))
<1>1. /\ Acceptable(asked) /\ held' = held /\ asked' = asked /\ ~Listed
      /\ reply' = [status |-> 200, data |-> data, first |-> [limit |-> limit, offset |-> 0],
                   next |-> [limit |-> limit, offset |-> NextOffset(offset, limit)],
                   previous |-> [limit |-> limit, offset |-> PreviousOffset(offset, limit)]]
      /\ walk' = [walk EXCEPT !.met = @ \cup data, !.twice = @ \/ walk.met \cap data # {}]
  BY DEF List, Matching, Pending, Listed
<1>2. /\ limit \in 1..MaxInt /\ offset \in 0..MaxInt
      /\ limit \in Nat \ {0} /\ offset \in Nat
  BY <1>1, AcceptableType DEF SeatListInv, TypeOK
<1>3. Listed'
  BY <1>1 DEF Listed
<1>4. held \subseteq Subs /\ Matching \subseteq held /\ IsFiniteSet(Matching)
  BY MatchingFinite DEF SeatListInv, TypeOK, Matching
<1>5. data \subseteq Matching
  BY DEF Page
<1>6. Matching' = Matching /\ Reached = offset /\ Reached' = offset + limit
  BY <1>1, <1>3 DEF Matching, Reached
<1>7. TypeOK'
  <2>1. NextOffset(offset, limit) \in Ints /\ PreviousOffset(offset, limit) \in 0..MaxInt
        /\ 0 \in 0..MaxInt
    BY <1>2, NextOffsetWraps, PreviousOffsetType DEF SeatListAssumption
  <2>2. /\ reply' \in [status : {0, 200, 400, 500} \cup AmsErrors, data : SUBSET Subs,
                       first : Link, next : [limit : 1..MaxInt, offset : Ints], previous : Link]
    BY <1>1, <1>2, <1>4, <1>5, <2>1 DEF Link
  <2>3. walk \in WalkType(walk) /\ data \in SUBSET Subs
    BY <1>4, <1>5 DEF SeatListInv, TypeOK, WalkType
  <2>4. walk' \in WalkType(walk')
    <3> HIDE DEF data
    <3>1. (walk.twice \/ walk.met \cap data # {}) \in BOOLEAN
      OBVIOUS
    <3>2. PICK b \in BOOLEAN : walk' = [walk EXCEPT !.met = walk.met \cup data, !.twice = b]
      BY <1>1, <3>1, Zenon
    <3> QED
      BY <2>3, <3>2 DEF WalkType
  <2>5. QED
    BY <1>1, <2>2, <2>4 DEF SeatListInv, TypeOK, WalkType
<1>8. ReplyInv'
  <2>1. data \subseteq Selected(Query(asked), Subs)
    BY <1>4, <1>5, SelectedGrows DEF Matching
  <2>2. QED
    BY <1>1, <2>1 DEF ReplyInv
<1>9. /\ walk'.on = walk.on /\ walk'.filter = walk.filter /\ walk'.since = walk.since
      /\ walk'.added = walk.added /\ walk'.removed = walk.removed
      /\ walk'.met = walk.met \cup data
      /\ walk'.twice = (walk.twice \/ walk.met \cap data # {})
  BY <1>1 DEF SeatListInv, TypeOK
<1>10. WalkInv'
  BY <1>1, <1>9 DEF SeatListInv, WalkInv
<1>11. ASSUME walk.on, NEW s \in Matching
       PROVE  /\ Rank(s, Matching) \in Nat
              /\ s \in data <=> offset <= Rank(s, Matching) /\ Rank(s, Matching) < offset + limit
  <2>1. \E k \in Nat : offset = k * limit
    BY <1>11 DEF SeatListInv, WalkInv
  <2>2. Rank(s, Matching) \in Nat
    BY <1>4, RankGrows
  <2>3. Matching \in SUBSET Subs
    BY <1>4
  <2>4. data = {t \in Matching : offset <= Rank(t, Matching) /\ Rank(t, Matching) < offset + limit}
    BY <1>2, <2>1, <2>3, PageData
  <2>5. QED
    BY <2>2, <2>4
<1>12. MetInv'
  <2> SUFFICES ASSUME walk.on, ~walk.removed, NEW s \in walk.since
               PROVE  s \in Matching /\ (Rank(s, Matching) < offset + limit
                                           => s \in walk.met \cup data)
    BY <1>6, <1>9 DEF MetInv
  <2>1. s \in Matching /\ (Rank(s, Matching) < offset => s \in walk.met)
    BY <1>6 DEF SeatListInv, MetInv
  <2>2. QED
    BY <1>2, <1>11, <2>1
<1>13. OnceInv'
  <2> SUFFICES ASSUME walk.on, ~walk.added
               PROVE  /\ ~walk'.twice
                      /\ \A s \in walk.met \cup data : s \in held =>
                           Rank(s, Matching) < offset + limit
    BY <1>1, <1>6, <1>9 DEF OnceInv
  <2>1. /\ ~walk.twice
        /\ \A s \in walk.met : s \in held => Rank(s, Matching) < offset
    BY <1>6 DEF SeatListInv, OnceInv
  <2>2. \A s \in data : /\ Rank(s, Matching) \in Nat /\ s \in held
                        /\ offset <= Rank(s, Matching)
                        /\ Rank(s, Matching) < offset + limit
    BY <1>4, <1>5, <1>11
  <2>3. walk.met \cap data = {}
    BY <1>2, <2>1, <2>2
  <2>4. ASSUME NEW s \in walk.met, s \in held PROVE Rank(s, Matching) < offset + limit
    <3>1. Rank(s, Matching) \in Nat
      BY <1>4, RankGrows
    <3>2. QED
      BY <1>2, <2>1, <2>4, <3>1
  <2>5. QED
    BY <1>9, <2>1, <2>2, <2>3, <2>4
<1>14. QED
  BY <1>7, <1>8, <1>10, <1>12, <1>13 DEF SeatListInv

\* An assigned seat moves others towards the end.
LEMMA AssignKeeps ==
  ASSUME SeatListAssumption, SeatListInv, NEW t \in Subs, Assign(t)
  PROVE  SeatListInv'
<1>1. /\ held' = held \cup {t} /\ asked' = asked /\ reply' = reply
      /\ walk' = [walk EXCEPT !.added = @ \/ t \notin held]
  BY DEF Assign
<1>2. /\ walk'.on = walk.on /\ walk'.filter = walk.filter /\ walk'.since = walk.since
      /\ walk'.met = walk.met /\ walk'.twice = walk.twice /\ walk'.removed = walk.removed
      /\ walk'.added = (walk.added \/ t \notin held)
  BY <1>1 DEF SeatListInv, TypeOK
<1>3. TypeOK'
  <2>1. walk \in WalkType(walk)
    BY DEF SeatListInv, TypeOK, WalkType
  <2>2. walk' \in WalkType(walk')
    BY <1>1, <2>1, Marked
  <2>3. QED
    BY <1>1, <2>2 DEF SeatListInv, TypeOK, WalkType
<1>4. ReplyInv' /\ WalkInv' /\ Reached' = Reached
  BY <1>1, <1>2 DEF SeatListInv, ReplyInv, WalkInv, Listed, Reached
<1>5. MetInv'
  <2> SUFFICES ASSUME walk.on, ~walk.removed, NEW s \in walk.since, s \in Matching,
                      Rank(s, Matching) < Reached => s \in walk.met
               PROVE  s \in Matching' /\ (Rank(s, Matching') < Reached => s \in walk.met)
    BY <1>2, <1>4 DEF SeatListInv, MetInv
  <2>1. Matching \subseteq Matching'
    BY <1>1, SelectedGrows DEF Matching
  <2>2. IsFiniteSet(Matching')
    <3>1. held' \subseteq Subs
      BY <1>3 DEF TypeOK
    <3>2. QED
      BY <3>1, MatchingFinite DEF Matching
  <2>3. Rank(s, Matching) \in Nat /\ Rank(s, Matching') \in Nat
        /\ Rank(s, Matching) <= Rank(s, Matching')
    BY <2>1, <2>2, RankGrows
  <2>4. Reached \in Int
    <3>1. Limit(asked) \in Nat \ {0} /\ Offset(asked) \in Nat
      BY AcceptableType DEF SeatListInv, TypeOK, WalkInv
    <3>2. QED
      BY <3>1 DEF Reached
  <2>5. QED
    BY <2>1, <2>3, <2>4
<1>6. OnceInv'
  <2>1. CASE t \in held
    <3>1. held' = held
      BY <1>1, <2>1
    <3>2. QED
      BY <1>1, <1>2, <1>4, <3>1 DEF SeatListInv, OnceInv, Matching
  <2>2. CASE t \notin held
    BY <1>2, <2>2 DEF OnceInv
  <2>3. QED
    BY <2>1, <2>2
<1>7. QED
  BY <1>3, <1>4, <1>5, <1>6 DEF SeatListInv

\* A removed seat moves others towards the front.
LEMMA RemoveKeeps ==
  ASSUME SeatListAssumption, SeatListInv, NEW t \in Subs, Remove(t)
  PROVE  SeatListInv'
<1>1. /\ held' = held \ {t} /\ asked' = asked /\ reply' = reply
      /\ walk' = [walk EXCEPT !.removed = @ \/ t \in held]
  BY DEF Remove
<1>2. /\ walk'.on = walk.on /\ walk'.filter = walk.filter /\ walk'.since = walk.since
      /\ walk'.met = walk.met /\ walk'.twice = walk.twice /\ walk'.added = walk.added
      /\ walk'.removed = (walk.removed \/ t \in held)
  BY <1>1 DEF SeatListInv, TypeOK
<1>3. TypeOK'
  <2>1. walk \in WalkType(walk)
    BY DEF SeatListInv, TypeOK, WalkType
  <2>2. walk' \in WalkType(walk')
    BY <1>1, <2>1, Marked
  <2>3. QED
    BY <1>1, <2>2 DEF SeatListInv, TypeOK, WalkType
<1>4. ReplyInv' /\ WalkInv' /\ Reached' = Reached
  BY <1>1, <1>2 DEF SeatListInv, ReplyInv, WalkInv, Listed, Reached
<1>5. MetInv'
  <2>1. CASE t \notin held
    <3>1. held' = held
      BY <1>1, <2>1
    <3>2. QED
      BY <1>1, <1>2, <1>4, <3>1 DEF SeatListInv, MetInv, Matching
  <2>2. CASE t \in held
    BY <1>2, <2>2 DEF MetInv
  <2>3. QED
    BY <2>1, <2>2
<1>6. OnceInv'
  <2> SUFFICES ASSUME walk.on, ~walk.added, NEW s \in walk.met, s \in held,
                      Rank(s, Matching) < Reached
               PROVE  Rank(s, Matching') < Reached
    BY <1>1, <1>2, <1>4 DEF SeatListInv, OnceInv
  <2>1. Matching' \subseteq Matching
    BY <1>1, SelectedGrows DEF Matching
  <2>2. IsFiniteSet(Matching)
    BY MatchingFinite DEF SeatListInv, TypeOK, Matching
  <2>3. Rank(s, Matching') \in Nat /\ Rank(s, Matching) \in Nat
        /\ Rank(s, Matching') <= Rank(s, Matching)
    BY <2>1, <2>2, RankGrows
  <2>4. Limit(asked) \in Nat \ {0} /\ Offset(asked) \in Nat
    BY AcceptableType DEF SeatListInv, TypeOK, WalkInv
  <2>5. QED
    BY <2>3, <2>4 DEF Reached
<1>7. QED
  BY <1>3, <1>4, <1>5, <1>6 DEF SeatListInv

LEMMA NextSeatList == SeatListAssumption /\ SeatListInv /\ [Next]_vars => SeatListInv'
<1> SUFFICES ASSUME SeatListAssumption, SeatListInv, [Next]_vars PROVE SeatListInv'
  OBVIOUS
<1>1. ASSUME NEW q \in Requests, Ask(q) PROVE SeatListInv'
  BY <1>1, AskKeeps
<1>2. ASSUME NEW filter \in {FilterOf(asked), NoFilter}, FollowNext(filter) PROVE SeatListInv'
  BY <1>2, FollowNextKeeps
<1>3. ASSUME NEW filter \in {FilterOf(asked), NoFilter}, FollowBack(filter) PROVE SeatListInv'
  BY <1>3, FollowBackKeeps
<1>4. CASE Retry
  BY <1>4, RetryKeeps
<1>5. CASE Refuse
  BY <1>5, AnswerKeeps DEF Refuse
<1>6. CASE Fail
  BY <1>6, AnswerKeeps DEF Fail
<1>7. CASE List
  BY <1>7, ListKeeps
<1>8. ASSUME NEW s \in Subs, Assign(s) PROVE SeatListInv'
  BY <1>8, AssignKeeps
<1>9. ASSUME NEW s \in Subs, Remove(s) PROVE SeatListInv'
  BY <1>9, RemoveKeeps
<1>10. CASE UNCHANGED vars
  BY <1>10 DEF vars, SeatListInv, TypeOK, ReplyInv, WalkInv, MetInv, OnceInv,
               Listed, Matching, Reached
<1>11. QED
  BY <1>1, <1>2, <1>3, <1>4, <1>5, <1>6, <1>7, <1>8, <1>9, <1>10 DEF Next

LEMMA SeatListInvariance == Spec => []SeatListInv
<1>1. Init => SeatListInv
  BY SeatListAssumption, InitSeatList
<1>2. SeatListInv /\ [Next]_vars => SeatListInv'
  BY SeatListAssumption, NextSeatList
<1>3. QED
  BY <1>1, <1>2, PTL DEF Spec

----------------------------------------------------------------------------
(***************************************************************************)
(* Every reply of GET /seats is well formed; its links back can be         *)
(* followed.                                                               *)
(***************************************************************************)
THEOREM SeatListTypeCorrect == Spec => []TypeOK
<1>1. SeatListInv => TypeOK
  BY DEF SeatListInv
<1>2. QED
  BY <1>1, SeatListInvariance, PTL

(***************************************************************************)
(* A listed seat is one of the caller's organisation and satisfies every   *)
(* filter of the request.                                                  *)
(***************************************************************************)
THEOREM OnlyMatchingAlways == Spec => []OnlyMatching
<1>1. SeatListInv => OnlyMatching
  <2> SUFFICES ASSUME SeatListInv, Listed, NEW s \in reply.data
               PROVE  /\ Attr[s]["plan.id"] = Plan
                      /\ Attr[s]["organization_id"] = AmsOrg
                      /\ asked.status \notin {Absent, {}} => Attr[s]["status"] \in asked.status
                      /\ \A f \in AccountFields : asked.account[f] \notin {Absent, Blank} =>
                                                    Attr[s][f] = asked.account[f]
    BY DEF OnlyMatching
  <2>1. \A c \in Query(asked) : Attr[s][c.field] \in c.values
    BY DEF SeatListInv, ReplyInv, Selected
  <2>2. \A c : c \in {Clause("plan.id", {Plan}), Clause("organization_id", {AmsOrg})} =>
                 c \in Query(asked)
    BY DEF Query
  <2>3. Attr[s]["plan.id"] = Plan
    BY <2>1, <2>2 DEF Clause
  <2>4. Attr[s]["organization_id"] = AmsOrg
    BY <2>1, <2>2 DEF Clause
  <2>5. ASSUME asked.status \notin {Absent, {}} PROVE Attr[s]["status"] \in asked.status
    <3>1. Clause("status", asked.status \ {Blank}) \in Query(asked)
      BY <2>5 DEF Query, StatusClauses
    <3>2. QED
      BY <2>1, <3>1 DEF Clause
  <2>6. ASSUME NEW f \in AccountFields, asked.account[f] \notin {Absent, Blank}
        PROVE  Attr[s][f] = asked.account[f]
    <3>1. Clause(f, {asked.account[f]}) \in Query(asked)
      BY <2>6 DEF Query
    <3>2. QED
      BY <2>1, <3>1 DEF Clause
  <2>7. QED
    BY <2>3, <2>4, <2>5, <2>6
<1>2. QED
  BY <1>1, SeatListInvariance, PTL

(***************************************************************************)
(* The links lead to the first page and to the neighbours of the page      *)
(* shown, for every limit and every offset; a link next whose offset       *)
(* wraps around is refused.                                                *)
(***************************************************************************)
THEOREM LinksAreNeighboursAlways == Spec => []LinksAreNeighbours
<1>1. SeatListAssumption /\ SeatListInv => LinksAreNeighbours
  <2> SUFFICES ASSUME SeatListAssumption, SeatListInv, Listed PROVE LinksAreNeighbours
    BY DEF LinksAreNeighbours
  <2> DEFINE limit  == Limit(asked)
             offset == Offset(asked)
  <2>1. /\ limit \in 1..MaxInt /\ offset \in 0..MaxInt
        /\ limit \in Nat \ {0} /\ offset \in Nat
    BY AcceptableType DEF SeatListInv, TypeOK, ReplyInv
  <2>2. /\ reply.first.limit = limit /\ reply.first.offset = 0
        /\ reply.next.limit = limit /\ reply.next.offset = NextOffset(offset, limit)
        /\ reply.previous.limit = limit
        /\ reply.previous.offset = PreviousOffset(offset, limit)
    BY DEF SeatListInv, ReplyInv
  <2>3. PageOf(0, limit) = 1
    <3>1. 0 \in Nat /\ 0 < limit
      BY <2>1
    <3>2. QED
      BY <2>1, <3>1, PageStep
  <2>4. /\ NextOffset(offset, limit) \in Int
        /\ NextOffset(offset, limit) >= 0 <=> offset + limit <= MaxInt
        /\ NextOffset(offset, limit) >= 0 =>
             PageOf(NextOffset(offset, limit), limit) = PageOf(offset, limit) + 1
    <3>1. /\ NextOffset(offset, limit) \in Ints
          /\ NextOffset(offset, limit) >= 0 <=> offset + limit <= MaxInt
          /\ offset + limit <= MaxInt => NextOffset(offset, limit) = offset + limit
      BY <2>1, NextOffsetWraps
    <3>2. PageOf(offset + limit, limit) = PageOf(offset, limit) + 1
      BY <2>1, PageStep
    <3>3. NextOffset(offset, limit) \in Int
      BY <3>1 DEF Ints, SeatListAssumption
    <3> QED
      BY <3>1, <3>2, <3>3
  <2>6. /\ Acceptable(Params(limit, NextOffset(offset, limit), NoFilter))
             <=> offset + limit <= MaxInt
        /\ Acceptable(Params(limit, NextOffset(offset, limit), NoFilter)) =>
             PageOf(NextOffset(offset, limit), limit) = PageOf(offset, limit) + 1
    <3> DEFINE link == [limit |-> limit, offset |-> NextOffset(offset, limit)]
    <3>1. link.limit \in Int /\ link.offset \in Int
      BY <2>1, <2>4
    <3>2. /\ Limit(Params(link.limit, link.offset, NoFilter)) = link.limit
          /\ Offset(Params(link.limit, link.offset, NoFilter)) = link.offset
      BY <3>1, LinkParams
    <3> QED
      BY <2>1, <2>4, <3>2 DEF Acceptable
  <2>5. PageOf(PreviousOffset(offset, limit), limit)
          = IF PageOf(offset, limit) = 1 THEN 1 ELSE PageOf(offset, limit) - 1
    <3>1. CASE offset < limit
      <4>1. PageOf(offset, limit) = 1 /\ PreviousOffset(offset, limit) = 0
        BY <2>1, <3>1, PageStep DEF PreviousOffset
      <4>2. QED
        BY <2>3, <4>1
    <3>2. CASE offset >= limit
      <4>1. /\ PreviousOffset(offset, limit) = offset - limit
            /\ PageOf(offset, limit) = PageOf(offset - limit, limit) + 1
            /\ PageOf(offset - limit, limit) \in Nat \ {0}
        BY <2>1, <3>2, PageStep
      <4>2. QED
        BY <4>1
    <3>3. QED
      BY <2>1, <3>1, <3>2
  <2>7. QED
    BY <2>2, <2>3, <2>5, <2>6 DEF LinksAreNeighbours
<1>2. SeatListInv => LinksAreNeighbours
  BY <1>1, SeatListAssumption
<1>3. QED
  BY <1>2, SeatListInvariance, PTL

(***************************************************************************)
(* A walk along the links "next" misses no seat that stayed: those ranked  *)
(* before the end of the page shown have all been on a page.               *)
(***************************************************************************)
THEOREM NoneSkippedAlways == Spec => []NoneSkipped
<1>1. SeatListInv => NoneSkipped
  BY DEF SeatListInv, MetInv, NoneSkipped, Reached, Matching
<1>2. QED
  BY <1>1, SeatListInvariance, PTL

(***************************************************************************)
(* A walk meets no seat twice unless one is assigned meanwhile.            *)
(***************************************************************************)
THEOREM NoneTwiceAlways == Spec => []NoneTwice
<1>1. SeatListInv => NoneTwice
  BY DEF SeatListInv, OnceInv, NoneTwice
<1>2. QED
  BY <1>1, SeatListInvariance, PTL

----------------------------------------------------------------------------
\* The end of a walk.

\* A nonempty set of numbers has a least one.
LEMMA LeastNumber ==
  ASSUME NEW N \in SUBSET Nat, N # {}
  PROVE  \E k \in N : \A n \in N : k <= n
<1>1. PICK k \in N : \A n \in N : ~(<<n, k>> \in OpToRel(<, Nat))
  BY NatLessThanWellFounded, WFMin
<1>2. \A n \in N : ~(n < k)
  BY <1>1 DEF OpToRel
<1> QED
  BY <1>2

\* Before a subscription that is not the first there is another one.
LEMMA RankBefore ==
  ASSUME NEW L \in SUBSET Nat, IsFiniteSet(L), NEW s \in L, Rank(s, L) # 0
  PROVE  \E t \in L : Rank(t, L) = Rank(s, L) - 1
<1> DEFINE below    == {t \in L : t < s}
           distance == {s - t : t \in below}
<1>1. IsFiniteSet(below) /\ below # {} /\ Rank(s, L) = Cardinality(below)
  BY FS_Subset, FS_EmptySet DEF Rank
<1>2. \A t \in L : t \in Nat
  OBVIOUS
<1>3. distance \subseteq Nat /\ distance # {}
  <2>1. \A t \in below : s - t \in Nat
    BY <1>2
  <2> QED
    BY <1>1, <2>1
<1>4. PICK d \in distance : \A e \in distance : d <= e
  BY <1>3, LeastNumber
<1>5. PICK t \in below : d = s - t
  OBVIOUS
<1>6. ASSUME NEW u \in L, u < s PROVE u <= t
  <2>1. s - u \in distance
    BY <1>6
  <2>2. s - t <= s - u
    BY <1>4, <1>5, <2>1
  <2>3. s \in Nat /\ t \in Nat /\ u \in Nat
    BY <1>2
  <2> HIDE DEF distance, below
  <2> QED
    BY <2>2, <2>3
<1>7. {u \in L : u < t} = below \ {t}
  <2>1. \A u \in L : u < t <=> u < s /\ u # t
    BY <1>2, <1>6
  <2> QED
    BY <2>1
<1> HIDE DEF below
<1>8. Cardinality(below \ {t}) = Cardinality(below) - 1
  BY <1>1, FS_RemoveElement
<1>9. t \in L
  BY DEF below
<1> QED
  BY <1>1, <1>7, <1>8, <1>9 DEF Rank

\* There are no gaps among the ranks of a list.
LEMMA AllRanks ==
  ASSUME NEW L \in SUBSET Nat, IsFiniteSet(L), NEW s \in L, NEW n \in Nat, n <= Rank(s, L)
  PROVE  \E t \in L : Rank(t, L) = n
<1> DEFINE ranks == {Rank(t, L) : t \in L}
           above == {k \in ranks : n <= k}
<1>1. \A t \in L : Rank(t, L) \in Nat
  BY RankGrows
<1>2. above \subseteq Nat /\ above # {}
  BY <1>1
<1>3. PICK k \in above : \A m \in above : k <= m
  BY <1>2, LeastNumber
<1>4. PICK t \in L : k = Rank(t, L)
  OBVIOUS
<1>5. k = n
  <2> SUFFICES ASSUME k # n PROVE FALSE
    OBVIOUS
  <2>1. k \in Nat /\ n <= k - 1 /\ k # 0
    BY <1>2, <1>3
  <2>2. PICK u \in L : Rank(u, L) = k - 1
    BY <1>4, <2>1, RankBefore
  <2>3. k - 1 \in above
    BY <2>1, <2>2
  <2> QED
    BY <1>3, <2>1, <2>3
<1> QED
  BY <1>4, <1>5

\* A page that is not the last is full.
LEMMA FullPage ==
  ASSUME NEW L \in SUBSET Nat, IsFiniteSet(L), NEW s \in L,
         NEW o \in Nat, NEW l \in Nat \ {0}, o + l <= Rank(s, L),
         NEW data, data = {t \in L : o <= Rank(t, L) /\ Rank(t, L) < o + l}
  PROVE  ~(Cardinality(data) < l)
<1> DEFINE places == o..(o + l - 1)
           at == [n \in places |-> CHOOSE t \in L : Rank(t, L) = n]
<1>1. IsFiniteSet(places) /\ Cardinality(places) = l
  BY FS_Interval
<1>2. IsFiniteSet(data)
  BY FS_Subset
<1>3. ASSUME NEW n \in places PROVE at[n] \in L /\ Rank(at[n], L) = n
  <2>1. n \in Nat /\ n <= Rank(s, L)
    BY RankGrows
  <2>2. \E t \in L : Rank(t, L) = n
    BY <2>1, AllRanks
  <2> QED
    BY <2>2
<1>4. at \in [places -> data]
  BY <1>3
<1> HIDE DEF at, places
<1>5. \A m, n \in places : m # n => at[m] # at[n]
  BY <1>3
<1> QED
  BY <1>1, <1>2, <1>4, <1>5, FS_PigeonHole

(***************************************************************************)
(* A client that stops at a page with fewer seats than the limit has met   *)
(* every seat it set out for, as long as none was removed.                 *)
(***************************************************************************)
THEOREM ShortPageIsTheLastAlways == Spec => []ShortPageIsTheLast
<1>1. Init => ShortPageIsTheLast
  BY DEF Init, ShortPageIsTheLast, NoWalk
<1>2. SeatListInv /\ SeatListInv' /\ ShortPageIsTheLast /\ [Next]_vars => ShortPageIsTheLast'
  <2> SUFFICES ASSUME SeatListInv, SeatListInv', ShortPageIsTheLast, [Next]_vars,
                      walk'.on, ~walk'.removed, Listed', Cardinality(reply'.data) < Limit(asked')
               PROVE  walk'.since \subseteq walk'.met
    BY DEF ShortPageIsTheLast
  <2>1. CASE List
    <3> DEFINE data == Page(Matching, Limit(asked), PageAsked(Offset(asked), Limit(asked)))
    <3>1. /\ Acceptable(asked) /\ held' = held /\ asked' = asked /\ reply'.data = data
          /\ walk'.on = walk.on /\ walk'.since = walk.since /\ walk'.removed = walk.removed
      <4>1. walk' = [walk EXCEPT !.met = @ \cup data, !.twice = @ \/ walk.met \cap data # {}]
        BY <2>1 DEF List, Matching
      <4>2. walk'.on = walk.on /\ walk'.since = walk.since /\ walk'.removed = walk.removed
        BY <4>1 DEF SeatListInv, TypeOK
      <4>3. Acceptable(asked) /\ held' = held /\ asked' = asked /\ reply'.data = data
        BY <2>1 DEF List, Matching
      <4> QED
        BY <4>2, <4>3
    <3>2. /\ Limit(asked) \in 1..MaxInt /\ Offset(asked) \in 0..MaxInt
          /\ Limit(asked) \in Nat \ {0} /\ Offset(asked) \in Nat
      BY <3>1, SeatListAssumption, AcceptableType DEF SeatListInv, TypeOK
    <3>3. Matching \subseteq Nat /\ Matching \subseteq Subs /\ IsFiniteSet(Matching)
      BY SeatListAssumption, MatchingFinite DEF SeatListInv, TypeOK, Matching, SeatListAssumption
    <3>4. \E k \in Nat : Offset(asked) = k * Limit(asked)
      BY <3>1 DEF SeatListInv, WalkInv
    <3>5. \A s \in Matching : Rank(s, Matching) \in Nat
      BY <3>3, RankGrows
    <3>6. data = {s \in Matching : /\ Offset(asked) <= Rank(s, Matching)
                                   /\ Rank(s, Matching) < Offset(asked) + Limit(asked)}
      <4>1. Matching \in SUBSET Subs
        BY <3>3
      <4> QED
        BY <3>2, <3>4, <4>1, SeatListAssumption, PageData
    <3>7. \A s \in Matching : ~(Offset(asked) + Limit(asked) <= Rank(s, Matching))
      BY <3>1, <3>2, <3>3, <3>6, FullPage
    <3>8. Matching' = Matching /\ Reached' = Offset(asked) + Limit(asked)
      BY <3>1 DEF Matching, Reached
    <3>9. \A s \in walk.since :
            s \in Matching /\ (Rank(s, Matching) < Offset(asked) + Limit(asked) => s \in walk'.met)
      BY <3>1, <3>8 DEF SeatListInv, MetInv
    <3> QED
      BY <3>1, <3>2, <3>5, <3>7, <3>9
  <2>2. CASE \E s \in Subs : Assign(s) \/ Remove(s)
    <3>1. reply' = reply /\ asked' = asked /\ Listed
      BY <2>2 DEF Assign, Remove, Listed
    <3>2. /\ walk.on /\ ~walk.removed
          /\ walk'.since = walk.since /\ walk'.met = walk.met
      BY <2>2 DEF Assign, Remove, SeatListInv, TypeOK
    <3> QED
      BY <3>1, <3>2 DEF ShortPageIsTheLast
  <2>3. CASE UNCHANGED vars
    BY <2>3 DEF vars, Listed, ShortPageIsTheLast
  <2>4. ASSUME NEW q, Send(q) PROVE FALSE
    BY <2>4 DEF Send, Waiting, Listed
  <2>5. reply'.status = 200 /\ 200 \notin AmsErrors \cup {400, 500}
    BY SeatListAssumption DEF Listed, SeatListAssumption
  <2>6. /\ \A q \in Requests : ~Ask(q)
        /\ \A filter : ~FollowNext(filter) /\ ~FollowBack(filter)
        /\ ~Retry
    BY <2>4 DEF Ask, FollowNext, FollowBack, Follow, Retry
  <2>7. ~Refuse /\ ~Fail
    <3>1. ASSUME NEW status, reply' = [Waiting EXCEPT !.status = status]
          PROVE  reply'.status = status
      BY <3>1 DEF Waiting
    <3>2. ~Refuse
      BY <2>5, <3>1 DEF Refuse, Answer
    <3>3. ~Fail
      BY <2>5, <3>1 DEF Fail, Answer
    <3> QED
      BY <3>2, <3>3
  <2>8. CASE Next
    <3>1. \/ \E q \in Requests : Ask(q)
          \/ \E filter \in {FilterOf(asked), NoFilter} : FollowNext(filter) \/ FollowBack(filter)
          \/ Retry \/ Refuse \/ Fail \/ List
          \/ \E s \in Subs : Assign(s) \/ Remove(s)
      BY <2>8 DEF Next
    <3>2. List \/ \E s \in Subs : Assign(s) \/ Remove(s)
      BY <2>6, <2>7, <3>1, Zenon
    <3> QED
      BY <2>1, <2>2, <3>2
  <2> QED
    BY <2>3, <2>8
<1> QED
  BY <1>1, <1>2, SeatListInvariance, PTL DEF Spec
=============================================================================
