----------------------------- MODULE TicketLedger -----------------------------
(***************************************************************************)
(* What the power domain promises about tickets, with slots, queues, tasks  *)
(* and arbitration left out: a ticket is issued once, in order; it is        *)
(* answered exactly once; its client takes that one answer or has walked     *)
(* away from it; a closed ticket is never heard of again.                    *)
(***************************************************************************)
EXTENDS Naturals

CONSTANT MaxTickets

VARIABLE status   \* per sequence number

Tickets == 1..MaxTickets

LedgerInit == status = [n \in Tickets |-> "unissued"]

Issue(n) ==
    /\ status[n] = "unissued"
    /\ \A m \in Tickets : m < n => status[m] # "unissued"
    /\ status' = [status EXCEPT ![n] = "waiting"]

\* One decision may answer several tickets: a refresh answers the tickets that
\* joined it, a stronger command answers the command it unseats.
Answer(S) ==
    /\ S # {}
    /\ \A n \in S : status[n] \in {"waiting", "abandoned"}
    /\ status' = [n \in Tickets |->
                    IF n \notin S THEN status[n]
                    ELSE IF status[n] = "waiting" THEN "answered" ELSE "closed"]

Take(n)    == status[n] = "answered" /\ status' = [status EXCEPT ![n] = "closed"]
Abandon(n) == status[n] = "waiting"  /\ status' = [status EXCEPT ![n] = "abandoned"]

LedgerNext ==
    \/ \E n \in Tickets : Issue(n) \/ Take(n) \/ Abandon(n)
    \/ \E S \in SUBSET Tickets : Answer(S)

LedgerSpec == LedgerInit /\ [][LedgerNext]_status
=============================================================================
