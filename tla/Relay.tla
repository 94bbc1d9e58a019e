------------------------------- MODULE Relay -------------------------------
(***************************************************************************)
(* What the DHCPv4-over-DHCPv6 relay promises its clients, whatever        *)
(* happens between the two servers: a query is answered at most once, with *)
(* a reply built for a query of the same transaction id, and no reply is   *)
(* used twice.  A query may go unanswered.                                 *)
(***************************************************************************)
CONSTANTS Query, xid

VARIABLES
    unasked,  \* queries not sent yet
    waiting,  \* queries the relay may still answer
    replies   \* answers given: records [to, answer]

rvars == <<unasked, waiting, replies>>

Used == {r.answer : r \in replies}

Init ==
    /\ unasked = Query
    /\ waiting = {}
    /\ replies = {}

Ask(q) ==
    /\ q \in unasked
    /\ unasked' = unasked \ {q}
    /\ waiting' = waiting \cup {q}
    /\ UNCHANGED replies

Lose(q) ==
    /\ q \in unasked
    /\ unasked' = unasked \ {q}
    /\ UNCHANGED <<waiting, replies>>

Reply(q, a) ==
    /\ q \in waiting
    /\ a \notin unasked \cup Used
    /\ xid[q] = xid[a]
    /\ waiting' = waiting \ {q}
    /\ replies' = replies \cup {[to |-> q, answer |-> a]}
    /\ UNCHANGED unasked

Forget ==
    /\ waiting' \in SUBSET waiting
    /\ UNCHANGED <<unasked, replies>>

Next ==
    \/ \E q \in unasked : Ask(q) \/ Lose(q)
    \/ \E q \in waiting, a \in Query : Reply(q, a)
    \/ Forget

Spec == Init /\ [][Next]_rvars
=============================================================================
