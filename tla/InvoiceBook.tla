---------------------------- MODULE InvoiceBook ----------------------------
(***************************************************************************)
(* What the invoice API keeps its promise on under any overlap: which rows *)
(* there are.  A payment is drawn (its INSERT is flushed), then kept or    *)
(* abandoned, and a kept one may be refunded; its key passes through this  *)
(* once.  Line items come and go likewise in one step.  The invoice goes   *)
(* with all of its children, never under a payment that is drawn.  What    *)
(* overlap does spoil, the status, is left out; InvoiceLedger has it.      *)
(***************************************************************************)
EXTENDS InvoiceRules

VARIABLES
    live,       \* the invoice row exists
    lineitems,  \* keys of its line items
    payments,   \* keys of its payments
    drawn,      \* keys of payments on their way
    used        \* keys that will not be given out again

book == <<live, lineitems, payments, drawn, used>>

Init ==
    /\ live = TRUE
    /\ lineitems \in SUBSET Items
    /\ payments = {}
    /\ drawn = {}
    /\ used = lineitems

\* create_payment: session.add and flush
Draw(p) ==
    /\ live /\ p \notin used
    /\ drawn' = drawn \cup {p}
    /\ used' = used \cup {p}
    /\ UNCHANGED <<live, lineitems, payments>>

\* ... its commit
Keep(p) ==
    /\ live /\ p \in drawn
    /\ drawn' = drawn \ {p}
    /\ payments' = payments \cup {p}
    /\ UNCHANGED <<live, lineitems, used>>

\* ... or its rollback
Abandon(p) ==
    /\ p \in drawn
    /\ drawn' = drawn \ {p}
    /\ UNCHANGED <<live, lineitems, payments, used>>

Refund(p) ==
    /\ live /\ p \in payments
    /\ payments' = payments \ {p}
    /\ UNCHANGED <<live, lineitems, drawn, used>>

AddItem(i) ==
    /\ live /\ i \notin used
    /\ lineitems' = lineitems \cup {i}
    /\ used' = used \cup {i}
    /\ UNCHANGED <<live, payments, drawn>>

DropItem(i) ==
    /\ live /\ i \in lineitems
    /\ lineitems' = lineitems \ {i}
    /\ UNCHANGED <<live, payments, drawn, used>>

Erase ==
    /\ live /\ drawn = {}
    /\ live' = FALSE
    /\ lineitems' = {} /\ payments' = {}
    /\ UNCHANGED <<drawn, used>>

Next ==
    \/ \E p \in Pays : Draw(p) \/ Keep(p) \/ Abandon(p) \/ Refund(p)
    \/ \E i \in Items : AddItem(i) \/ DropItem(i)
    \/ Erase

Spec == Init /\ [][Next]_book

=============================================================================
