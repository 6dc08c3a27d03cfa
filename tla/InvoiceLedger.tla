--------------------------- MODULE InvoiceLedger ---------------------------
(***************************************************************************)
(* What the invoice API promises when nothing overlaps: every operation on *)
(* an invoice takes effect in one step, and each payment or refund leaves  *)
(* the status that the rule in InvoiceRules derives from the rows as they  *)
(* are after that step.  InvoiceSessions is the implementation, in which   *)
(* an operation is several statements of a database session.               *)
(***************************************************************************)
EXTENDS InvoiceRules

VARIABLES
    live,       \* the invoice row exists
    status,     \* its status column
    lineitems,  \* keys of its line items
    payments    \* keys of its payments

ledger == <<live, status, lineitems, payments>>

(***************************************************************************)
(* An invoice as a client may leave it before the first payment: drafted   *)
(* or already sent, with any line items.                                   *)
(***************************************************************************)
Init ==
    /\ live = TRUE
    /\ status \in {"DRAFT", "SENT"}
    /\ lineitems \in SUBSET Items
    /\ payments = {}

\* The rows change to `pays'; the status follows by the rule, which takes a
\* new payment for what was entered.
Settle(pays) ==
    /\ payments' = pays
    /\ status' = StatusAfter(status, Counted(pays, pays \ payments), Total(lineitems))
    /\ UNCHANGED <<live, lineitems>>

\* POST /invoices/{id}/payments
Pay(p) ==
    /\ live /\ status # "DRAFT" /\ p \notin payments
    /\ Settle(payments \cup {p})

\* DELETE /invoices/{id}/payments/{payment_id}
Refund(p) ==
    /\ live /\ p \in payments
    /\ Settle(payments \ {p})

\* POST and DELETE /invoices/{id}/lineitems: the status is left alone
AddItem(i) ==
    /\ live /\ i \notin lineitems
    /\ lineitems' = lineitems \cup {i}
    /\ UNCHANGED <<live, status, payments>>

DropItem(i) ==
    /\ live /\ i \in lineitems
    /\ lineitems' = lineitems \ {i}
    /\ UNCHANGED <<live, status, payments>>

\* PUT and PATCH /invoices/{id} accept any status
SetStatus(s) ==
    /\ live /\ status' = s
    /\ UNCHANGED <<live, lineitems, payments>>

\* POST /invoices/{id}/send
Send ==
    /\ live /\ status = "DRAFT"
    /\ status' = "SENT"
    /\ UNCHANGED <<live, lineitems, payments>>

\* the daily job
MarkOverdue ==
    /\ live /\ status \in {"SENT", "PARTIALLY_PAID"}
    /\ status' = "OVERDUE"
    /\ UNCHANGED <<live, lineitems, payments>>

\* DELETE /invoices/{id}: the children go with the row
Erase ==
    /\ live /\ live' = FALSE
    /\ lineitems' = {} /\ payments' = {}
    /\ UNCHANGED status

Next ==
    \/ \E p \in Pays : Pay(p) \/ Refund(p)
    \/ \E i \in Items : AddItem(i) \/ DropItem(i)
    \/ \E s \in Statuses : SetStatus(s)
    \/ Send
    \/ MarkOverdue
    \/ Erase

Spec == Init /\ [][Next]_ledger

=============================================================================
