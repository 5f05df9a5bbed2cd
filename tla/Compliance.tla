----------------------------- MODULE Compliance -----------------------------
(***************************************************************************)
(* GET /compliance: the handlers of a pod, the middlewares around them and *)
(* the Export Compliance Service, which accepts the pod's certificate as   *)
(* long as that has not expired.  Nothing is cached and nothing repeated;  *)
(* what the service answers is passed on.                                  *)
(***************************************************************************)
EXTENDS Pod, Sequences

CONSTANTS
  Handlers,      \* goroutines serving /compliance
  Codes,         \* the statuses the service may answer
  Writable,      \* those net/http lets a handler write
  ClientTimeout  \* timeout of the HTTP client, in ticks

ASSUME ComplianceAssumption ==
  /\ Codes \subseteq Nat \ {0} /\ Writable \subseteq Codes
  /\ \A c \in Codes \ Writable : c < 100
  /\ ClientTimeout \in Nat

VARIABLES
  pc,        \* "idle", "check", "asked", "screened", "replied"
  caller,    \* who asks: "service account", "nameless", "user"
  answer,    \* the service's answer on its way, 0 if none
  written,   \* the statuses passed to WriteHeader
  body,      \* what the reply consists of
  waited,    \* ticks since the request arrived
  screened   \* history: the statuses the service gave for this request

requestVars == <<pc, caller, answer, written, body, waited, screened>>
vars == <<podVars, requestVars>>

Callers == {"service account", "nameless", "user"}
Steps   == {"idle", "check", "asked", "screened", "replied"}
Bodies  == {"none", "refusal", "failure", "whole", "cut", "panic"}

\* The steps at which a handler waits for the network.
InFlight == {"asked", "screened"}

----------------------------------------------------------------------------
ComplianceInit ==
  /\ Init
  /\ pc = [r \in Handlers |-> "idle"]
  /\ caller = [r \in Handlers |-> "user"]
  /\ answer = [r \in Handlers |-> 0]
  /\ written = [r \in Handlers |-> <<>>]
  /\ body = [r \in Handlers |-> "none"]
  /\ waited = [r \in Handlers |-> 0]
  /\ screened = [r \in Handlers |-> {}]

Goto(r, step) == pc' = [pc EXCEPT ![r] = step]

Arrive(r) ==
  /\ phase = "serving"
  /\ pc[r] = "idle"
  /\ Goto(r, "check")
  /\ \E c \in Callers : caller' = [caller EXCEPT ![r] = c]
  /\ UNCHANGED <<podVars, answer, written, body, waited, screened>>

\* Mutant of Reply: the recovered panic writes no status.
ReplyOnce(r, codes, content) ==
  /\ Goto(r, "replied")
  /\ written' = [written EXCEPT ![r] = <<codes[1]>>]
  /\ body' = [body EXCEPT ![r] = content]
  /\ answer' = [answer EXCEPT ![r] = 0]
  /\ UNCHANGED <<podVars, caller, waited, screened>>

Reply(r, codes, content) ==
  /\ Goto(r, "replied")
  /\ written' = [written EXCEPT ![r] = codes]
  /\ body' = [body EXCEPT ![r] = content]
  /\ answer' = [answer EXCEPT ![r] = 0]
  /\ UNCHANGED <<podVars, caller, waited, screened>>

\* There is a user, and the user has a name.
MayBeScreened(c) == c = "user"

Refuse(r) ==
  /\ pc[r] = "check"
  /\ ~MayBeScreened(caller[r])
  /\ Reply(r, <<400>>, "refusal")

Ask(r) ==
  /\ pc[r] = "check"
  /\ MayBeScreened(caller[r])
  /\ Goto(r, "asked")
  /\ UNCHANGED <<podVars, caller, answer, written, body, waited, screened>>

\* The service screens the user: from here on its answer is fixed.
Screen(r) ==
  /\ pc[r] = "asked"
  /\ cert > expired
  /\ \E c \in Codes : /\ answer' = [answer EXCEPT ![r] = c]
                      /\ screened' = [screened EXCEPT ![r] = @ \cup {c}]
  /\ Goto(r, "screened")
  /\ UNCHANGED <<podVars, caller, written, body, waited>>

\* Mutant of PassOn: the response is kept where all handlers find it.
PassOnAny(r) ==
  /\ pc[r] = "screened"
  /\ \E other \in Handlers :
       /\ answer[other] \in Writable
       /\ \E content \in {"whole", "cut"} : Reply(r, <<answer[other]>>, content)

\* Status and body are passed on.  An error of reading the body is dropped: the
\* client gets the part that came, under the service's status.
PassOn(r) ==
  /\ pc[r] = "screened"
  /\ answer[r] \in Writable
  /\ \E content \in {"whole", "cut"} : Reply(r, <<answer[r]>>, content)

\* WriteHeader panics at a status that is none; the metrics have it by then.
\* middleware.Recoverer writes a 500.
PassOnPanics(r) ==
  /\ pc[r] = "screened"
  /\ answer[r] \notin Writable
  /\ Reply(r, <<answer[r], 500>>, "panic")

\* No connection, no handshake, or no answer.
Fail(r) ==
  /\ pc[r] \in InFlight
  /\ Reply(r, <<500>>, "failure")

\* Mutant of Timeout: there is none.
TimeoutNever(r) ==
  /\ pc[r] \in InFlight
  /\ waited[r] > ClientTimeout
  /\ Reply(r, <<500>>, "failure")

Timeout(r) ==
  /\ pc[r] \in InFlight
  /\ waited[r] = ClientTimeout
  /\ Reply(r, <<500>>, "failure")

Finish(r) ==
  /\ pc[r] = "replied"
  /\ Goto(r, "idle")
  /\ caller' = [caller EXCEPT ![r] = "user"]
  /\ written' = [written EXCEPT ![r] = <<>>]
  /\ body' = [body EXCEPT ![r] = "none"]
  /\ waited' = [waited EXCEPT ![r] = 0]
  /\ screened' = [screened EXCEPT ![r] = {}]
  /\ UNCHANGED <<podVars, answer>>

\* The process ends, and its requests with it.
DieServing ==
  /\ Die
  /\ pc' = [r \in Handlers |-> "idle"]
  /\ caller' = [r \in Handlers |-> "user"]
  /\ answer' = [r \in Handlers |-> 0]
  /\ written' = [r \in Handlers |-> <<>>]
  /\ body' = [r \in Handlers |-> "none"]
  /\ waited' = [r \in Handlers |-> 0]
  /\ screened' = [r \in Handlers |-> {}]

\* Time passes; a handler that has waited for the client's timeout acts first.
Tick ==
  /\ \A r \in Handlers : \/ pc[r] = "idle"
                         \/ pc[r] \in InFlight /\ waited[r] < ClientTimeout
  /\ waited' = [r \in Handlers |-> IF pc[r] \in InFlight THEN waited[r] + 1 ELSE waited[r]]
  /\ UNCHANGED <<podVars, pc, caller, answer, written, body, screened>>

Compute(r) == Refuse(r) \/ Ask(r) \/ Timeout(r) \/ Finish(r)

Next ==
  \/ PodNext /\ UNCHANGED requestVars
  \/ DieServing
  \/ \E r \in Handlers : \/ Arrive(r) \/ Compute(r) \/ Screen(r)
                         \/ PassOn(r) \/ PassOnPanics(r) \/ Fail(r)
  \/ Tick

ComplianceSpec == ComplianceInit /\ [][Next]_vars

(***************************************************************************)
(* The process runs and Kubernetes restarts it; the scheduler runs each    *)
(* handler, the client's timer fires, and time passes between the steps of *)
(* other requests.  Nothing is assumed of the service or of renewals.      *)
(***************************************************************************)
FairSpec ==
  /\ ComplianceSpec
  /\ WF_vars((Start \/ Restart) /\ UNCHANGED requestVars)
  /\ \A r \in Handlers : WF_vars(Compute(r))
  /\ SF_vars(Tick)

----------------------------------------------------------------------------
\* net/http sends the first status it can; the metrics record the last one.
Sent(r) == IF written[r][1] \in Codes \ Writable THEN written[r][2] ELSE written[r][1]

\* Mutant of Recorded: the first one counts.
RecordedFirst(r) == written[r][1]

Recorded(r) == written[r][Len(written[r])]

\* Type invariant.
TypeOK ==
  /\ PodTypeOK
  /\ pc \in [Handlers -> Steps]
  /\ caller \in [Handlers -> Callers]
  /\ answer \in [Handlers -> Codes \cup {0}]
  /\ written \in [Handlers -> {<<>>, <<400>>, <<500>>} \cup {<<c>> : c \in Writable}
                                \cup {<<c, 500>> : c \in Codes}]
  /\ body \in [Handlers -> Bodies]
  /\ waited \in [Handlers -> 0..ClientTimeout]
  /\ screened \in [Handlers -> SUBSET Codes]

(***************************************************************************)
(* No verdict is invented, kept or mixed up: a reply with the service's    *)
(* body has the status that the service gave for this very request, and    *)
(* only requests of users with a name are ever put to it.                  *)
(***************************************************************************)
VerdictIsTheServices ==
  \A r \in Handlers :
    /\ body[r] \in {"whole", "cut"} => Sent(r) \in screened[r]
    /\ screened[r] # {} => caller[r] = "user"

(***************************************************************************)
(* A request is counted under the status its client is sent, also if the   *)
(* handler panics in the middle of writing it.                             *)
(***************************************************************************)
RecordedAsSent ==
  \A r \in Handlers : pc[r] = "replied" => Recorded(r) = Sent(r)

\* Every request ends, though the service may never answer.
EveryScreeningEnds ==
  \A r \in Handlers : pc[r] = "check" ~> pc[r] = "idle"
=============================================================================
