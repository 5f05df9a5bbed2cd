------------------------------ MODULE MCSeats ------------------------------
(***************************************************************************)
(* A small instance of Seats: two handlers, with every kind of request.    *)
(***************************************************************************)
EXTENDS SeatsRefinement, SeatsInvariant, TLC

CONSTANTS o1, bad, a1, a2, u1, s1, h1, h2

MCOrgs     == {o1, bad}
MCAmsOrgs  == {a1, a2}
MCWellFormed == {o1, a1, a2}

Ask(kind) == [kind |-> kind, org |-> o1, admin |-> TRUE, valid |-> TRUE,
              statusOK |-> TRUE, user |-> u1, id |-> s1]

\* Each kind of request, and each reason to refuse one at once.
MCRequests == {Ask("post"), Ask("delete"), Ask("get"),
               [Ask("post") EXCEPT !.admin = FALSE, !.valid = FALSE],
               [Ask("get") EXCEPT !.valid = FALSE],
               [Ask("get") EXCEPT !.statusOK = FALSE], [Ask("get") EXCEPT !.org = bad]}

MCAmsErrors == {403}
Symmetry == Permutations(Handlers) \cup Permutations(AmsOrgs)
=============================================================================
