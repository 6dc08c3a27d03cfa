------------------------------- MODULE Outbox -------------------------------
(***************************************************************************)
(* What becomes of a /send once it has committed, without handlers, broker *)
(* and workers: one mail is due, and then goes out or is lost.  Nothing    *)
(* but a fault or the deletion of the invoice loses it, and nothing but a  *)
(* fault makes a second one due - one fault for each, and only while one   *)
(* is due already.                                                         *)
(***************************************************************************)
EXTENDS Integers

CONSTANTS Sends, MaxFaults

VARIABLES
    live,       \* the invoice exists
    accepted,   \* sendings that have committed
    due,        \* mails to come, by sending
    mailed,     \* mails that have gone out
    faults      \* faults so far

outbox == <<live, accepted, due, mailed, faults>>

Init ==
    /\ live = TRUE
    /\ accepted = {}
    /\ due = [s \in Sends |-> 0]
    /\ mailed = [s \in Sends |-> 0]
    /\ faults = 0

\* POST /invoices/{id}/send answers 200, or at least has committed
Accept(s) ==
    /\ live /\ s \notin accepted
    /\ accepted' = accepted \cup {s}
    /\ due' = [due EXCEPT ![s] = 1]
    /\ UNCHANGED <<live, mailed, faults>>

\* the mail server has the mail
Mail(s) ==
    /\ due[s] > 0
    /\ due' = [due EXCEPT ![s] = @ - 1]
    /\ mailed' = [mailed EXCEPT ![s] = @ + 1]
    /\ UNCHANGED <<live, accepted, faults>>

Loses(s) == due[s] > 0 /\ due' = [due EXCEPT ![s] = @ - 1]

Repeats(s) == due[s] > 0 /\ due' = [due EXCEPT ![s] = @ + 1]

\* the row is gone when the handler or the worker wants to read it
Miss(s) == ~ live /\ Loses(s) /\ UNCHANGED <<live, accepted, mailed, faults>>

Fault ==
    /\ faults < MaxFaults /\ faults' = faults + 1
    /\ UNCHANGED due \/ \E s \in Sends : Loses(s) \/ Repeats(s)
    /\ UNCHANGED <<live, accepted, mailed>>

Delete == live /\ live' = FALSE /\ UNCHANGED <<accepted, due, mailed, faults>>

Next ==
    \/ \E s \in Sends : Accept(s) \/ Mail(s) \/ Miss(s)
    \/ Fault \/ Delete

Spec == Init /\ [][Next]_outbox

=============================================================================
