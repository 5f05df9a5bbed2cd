---------------------------- MODULE SeatsConfig ----------------------------
(***************************************************************************)
(* What the seats API is configured with and asked: shared by what it      *)
(* promises (SeatsContract) and by the program (Seats).                    *)
(***************************************************************************)
EXTENDS Integers, Sequences

CONSTANTS
  Handlers,    \* goroutines serving /seats
  Orgs,        \* organisations (org_id of the identity header and of BOP's users)
  NoOrg,       \* no organisation: of an unknown user; of an organisation unknown to AMS
  AmsOrgs,     \* ids AMS gives to organisations
  WellFormed,  \* the ids that are alphanumeric, of both kinds
  Users,       \* account user names
  Ids,         \* subscription ids; a seat is a subscription
  Requests,    \* what may be asked, a set of records
  AmsErrors,   \* the statuses of AMS's error answers
  CacheTTL,    \* time to live of a cached organisation id, in ticks
  MaxCall      \* the longest a call takes, in ticks: the code sets no timeout

Request ==
  [kind : {"post", "delete", "get"}, org : Orgs, admin : BOOLEAN, valid : BOOLEAN,
   statusOK : BOOLEAN, user : Users, id : Ids]

ASSUME SeatsAssumption ==
  /\ NoOrg \notin Orgs \cup AmsOrgs \cup WellFormed
  /\ Requests # {} /\ Requests \subseteq Request
  /\ AmsErrors \subseteq 400..599
  /\ CacheTTL \in Nat /\ MaxCall \in Nat

AnyRequest == CHOOSE q \in Requests : TRUE

\* POST and DELETE are for administrators.
MayCall(q) == q.kind = "get" \/ q.admin

\* The organisation of a subscription, if there is one.
Where(held, i) == IF i \in DOMAIN held THEN {held[i]} ELSE {}

\* How long ago an organisation may have had the AMS id a handler works with: the
\* answer that brought it travels, it lives in the cache, and the next call travels.
Window == CacheTTL + 2 * MaxCall
=============================================================================
