-------------------------- MODULE InvoiceSessions --------------------------
(***************************************************************************)
(* The handlers that write one invoice, each running in its own database   *)
(* session (database.get_db, or task_session_factory for the daily job)    *)
(* against PostgreSQL at READ COMMITTED.  A handler SELECTs the invoice and *)
(* its children once, keeps them in the session's identity map, decides on *)
(* them, and commits.  Each statement is a step; requests interleave at    *)
(* every await.                                                            *)
(*                                                                         *)
(* What the database adds, as the handlers rely on it:                     *)
(*   - a second SELECT in a session does not refresh attributes that are   *)
(*     already loaded, so `seen' is fixed once read;                       *)
(*   - UPDATE writes the columns that differ from the loaded value, and    *)
(*     raises StaleDataError when the row is gone;                         *)
(*   - INSERT of a child takes a key-share lock on the invoice until the   *)
(*     transaction ends, and raises IntegrityError when the row is gone;   *)
(*   - DELETE of a payment locks it until the transaction ends, and is     *)
(*     only a warning when the row is gone;                                *)
(*   - keys come from a sequence: a rolled-back INSERT uses its key up.    *)
(***************************************************************************)
EXTENDS InvoiceRules

CONSTANTS
    Requests,   \* slots for requests that may be in progress together
    Ops         \* the operations enabled in this instance

\* "overdue" is the daily job's pass over this invoice; the rest are routes.
AllOps == {"pay", "refund", "addItem", "dropItem", "edit", "send", "overdue",
           "delete"}

ASSUME OpsAssumption == Ops \subseteq AllOps

VARIABLES
    live, status, lineitems, payments,  \* the committed rows
    issued,     \* keys the sequences have handed out
    pc,         \* how far each request has come
    op,         \* the operation it serves
    own,        \* the payment it inserts or deletes, as a set of at most one
    seen,       \* the invoice in its identity map
    next,       \* the status it will write at commit
    clean       \* history: requests no commit has disturbed since they began

rows == <<live, status, lineitems, payments>>
vars == <<live, status, lineitems, payments, issued, pc, op, own, seen, next,
          clean>>

Invoice == [status : Statuses, items : SUBSET Items, pays : SUBSET Pays]
Unloaded == [status |-> "DRAFT", items |-> {}, pays |-> {}]

\* States of a request that holds an open transaction with a flushed change.
Flushed == {"flushed", "computed"}

TypeOK ==
    /\ live \in BOOLEAN
    /\ status \in Statuses
    /\ lineitems \in SUBSET Items
    /\ payments \in SUBSET Pays
    /\ issued \in SUBSET (Items \cup Pays)
    /\ pc \in [Requests -> {"idle", "found", "row", "items", "loaded"}
                            \cup Flushed]
    /\ op \in [Requests -> AllOps]
    /\ own \in [Requests -> SUBSET Pays]
    /\ seen \in [Requests -> Invoice]
    /\ next \in [Requests -> Statuses]
    /\ clean \in SUBSET Requests

(***************************************************************************)
(* create_invoice leaves a draft without children; the instance starts     *)
(* once line items have been entered and the invoice may have been sent.   *)
(***************************************************************************)
Init ==
    /\ live = TRUE
    /\ status \in {"DRAFT", "SENT"}
    /\ lineitems \in SUBSET Items
    /\ payments = {}
    /\ issued = lineitems
    /\ pc = [r \in Requests |-> "idle"]
    /\ op = [r \in Requests |-> "edit"]
    /\ own = [r \in Requests |-> {}]
    /\ seen = [r \in Requests |-> Unloaded]
    /\ next = [r \in Requests |-> "DRAFT"]
    /\ clean = {}

-----------------------------------------------------------------------------
(***************************************************************************)
(* How a request moves on, and how it ends.  Ending closes the session; a  *)
(* commit that changes a row may disturb the other requests in progress.   *)
(***************************************************************************)
Advance(r, from, to) ==
    /\ pc[r] = from
    /\ pc' = [pc EXCEPT ![r] = to]

Close(r) ==
    /\ pc' = [pc EXCEPT ![r] = "idle"]
    /\ op' = [op EXCEPT ![r] = "edit"]
    /\ own' = [own EXCEPT ![r] = {}]
    /\ seen' = [seen EXCEPT ![r] = Unloaded]
    /\ next' = [next EXCEPT ![r] = "DRAFT"]

(***************************************************************************)
(* History: which commits a request in progress cannot be overtaken by     *)
(* without harm.  A payment or refund rests on all it has loaded by then,  *)
(* /send and the job on the status they have tested, the others on nothing *)
(* they have loaded.  What a DELETE takes away they find out by themselves.*)
(***************************************************************************)
Disturbs(o, q) ==
    \/ /\ op[q] \in {"pay", "refund"}
       /\ \/ o = "refund"
          \/ o \in {"pay", "edit", "send", "overdue"} /\ pc[q] # "found"
          \/ o \in {"addItem", "dropItem"} /\ pc[q] \notin {"found", "row"}
    \/ op[q] = "send" /\ o \in {"pay", "refund", "edit", "overdue"}
    \/ op[q] = "overdue" /\ o \in {"pay", "refund", "edit"}

Commit(r) ==
    /\ Close(r)
    /\ clean' = IF rows' = rows THEN clean \ {r}
                ELSE {q \in clean \ {r} : ~ Disturbs(op[r], q)}

Rollback(r) ==
    /\ Close(r)
    /\ clean' = clean \ {r}
    /\ UNCHANGED <<rows, issued>>

(***************************************************************************)
(* Loading: delete_payment finds the payment first; then every handler     *)
(* runs get_invoice_nocache (the job get_overdue_invoices), one SELECT for *)
(* the row and one for each collection.                                    *)
(***************************************************************************)
Loads(r, s, items, pays) ==
    seen' = [seen EXCEPT ![r] = [status |-> s, items |-> items, pays |-> pays]]

LookUpPayment(r) ==
    /\ Advance(r, "idle", "found")
    /\ "refund" \in Ops
    /\ op' = [op EXCEPT ![r] = "refund"]
    /\ \E p \in payments : own' = [own EXCEPT ![r] = {p}]
    /\ clean' = clean \cup {r}
    /\ UNCHANGED <<rows, issued, seen, next>>

\* The daily job selects by status (and due date); the routes by key.
Selects(o) == live /\ (o = "overdue" => status \in {"SENT", "PARTIALLY_PAID"})

SelectInvoice(r) ==
    /\ \/ /\ Advance(r, "idle", "row")
          /\ \E o \in Ops \ {"refund"} : Selects(o) /\ op' = [op EXCEPT ![r] = o]
          /\ clean' = clean \cup {r}
       \/ /\ Advance(r, "found", "row")
          /\ live
          /\ UNCHANGED <<op, clean>>
    /\ Loads(r, status, {}, {})
    /\ UNCHANGED <<rows, issued, own, next>>

SelectLineItems(r) ==
    /\ Advance(r, "row", "items")
    /\ Loads(r, seen[r].status, lineitems, {})
    /\ UNCHANGED <<rows, issued, op, own, next, clean>>

SelectPayments(r) ==
    /\ Advance(r, "items", "loaded")
    /\ Loads(r, seen[r].status, seen[r].items, payments)
    /\ UNCHANGED <<rows, issued, op, own, next, clean>>

-----------------------------------------------------------------------------
(***************************************************************************)
(* Payments: flush the INSERT or DELETE, re-derive the status inside the   *)
(* transaction, commit.                                                    *)
(***************************************************************************)
MayPay_Always(invoice) == TRUE     \* mutant: the draft check is missing

MayPay(invoice) == invoice.status # "DRAFT"

\* r's uncommitted DELETE of payment p holds the lock on its row
DeletesPayment(r, p) ==
    op[r] = "refund" /\ pc[r] \in Flushed /\ own[r] = {p} /\ p \in payments

FlushInsert(r) ==
    /\ Advance(r, "loaded", "flushed")
    /\ op[r] = "pay"
    /\ MayPay(seen[r])
    /\ live
    /\ \E p \in Pays \ issued :
          /\ own' = [own EXCEPT ![r] = {p}]
          /\ issued' = issued \cup {p}
    /\ UNCHANGED <<rows, op, seen, next, clean>>

FlushDelete(r) ==
    /\ Advance(r, "loaded", "flushed")
    /\ op[r] = "refund"
    /\ \A p \in own[r] : ~ \E q \in Requests : DeletesPayment(q, p)
    /\ UNCHANGED <<rows, issued, op, own, seen, next, clean>>

\* the payments a SELECT in r's transaction returns
Visible(r) == IF op[r] = "pay" THEN payments \cup own[r] ELSE payments \ own[r]

\* mutant: the payments of the identity map instead of a new SELECT
Recomputed_FromLoaded(r) ==
    StatusAfter(seen[r].status, Paid(seen[r].pays), Total(seen[r].items))

\* payments are read again, line items and status come from the identity map,
\* and so does the value of the payment the session has just inserted
Recomputed(r) ==
    StatusAfter(seen[r].status,
                Counted(Visible(r), Visible(r) \cap own[r]),
                Total(seen[r].items))

Recompute(r) ==
    /\ Advance(r, "flushed", "computed")
    /\ live
    /\ next' = [next EXCEPT ![r] = Recomputed(r)]
    /\ UNCHANGED <<rows, issued, op, own, seen, clean>>

\* the flush at commit: no UPDATE when the value is the loaded one
WriteStatus(r, s) ==
    IF s = seen[r].status THEN UNCHANGED status ELSE live /\ status' = s

CommitPayment(r) ==
    /\ pc[r] = "computed"
    /\ payments' = Visible(r)
    /\ WriteStatus(r, next[r])
    /\ UNCHANGED <<live, lineitems, issued>>
    /\ Commit(r)

-----------------------------------------------------------------------------
(***************************************************************************)
(* The other writers flush and commit in one call to session.commit().     *)
(***************************************************************************)
Ready(r, o) == pc[r] = "loaded" /\ op[r] = o

CommitAddItem(r) ==
    /\ Ready(r, "addItem")
    /\ live
    /\ \E i \in Items \ issued :
          /\ lineitems' = lineitems \cup {i}
          /\ issued' = issued \cup {i}
    /\ UNCHANGED <<live, status, payments>>
    /\ Commit(r)

\* session.get serves the line item from the identity map if it is there
CommitDropItem(r) ==
    /\ Ready(r, "dropItem")
    /\ \E i \in seen[r].items \cup lineitems : lineitems' = lineitems \ {i}
    /\ UNCHANGED <<live, status, payments, issued>>
    /\ Commit(r)

\* update_invoice and patch_invoice: any status, or the loaded one
CommitEdit(r) ==
    /\ Ready(r, "edit")
    /\ \E s \in Statuses : WriteStatus(r, s)
    /\ UNCHANGED <<live, lineitems, payments, issued>>
    /\ Commit(r)

CommitSend(r) ==
    /\ Ready(r, "send")
    /\ seen[r].status = "DRAFT"
    /\ WriteStatus(r, "SENT")
    /\ UNCHANGED <<live, lineitems, payments, issued>>
    /\ Commit(r)

\* the UPDATE goes by primary key: the status is not tested again
CommitOverdue(r) ==
    /\ Ready(r, "overdue")
    /\ WriteStatus(r, "OVERDUE")
    /\ UNCHANGED <<live, lineitems, payments, issued>>
    /\ Commit(r)

\* mutant: the INSERT of a payment does not lock its invoice
Locked_NotByInsert == \E q \in Requests : \E p \in payments : DeletesPayment(q, p)

\* an open transaction holds a lock that a DELETE of the invoice waits for
Locked == \E q \in Requests :
    /\ pc[q] \in Flushed
    /\ op[q] = "pay" \/ \E p \in payments : DeletesPayment(q, p)

\* mutant: children without a foreign key
SeenAll_NotAsked(r) == TRUE

\* the foreign keys: every child in the table is one the session has loaded
SeenAll(r) == lineitems \subseteq seen[r].items /\ payments \subseteq seen[r].pays

\* ORM cascade: the loaded children go
CommitDelete(r) ==
    /\ Ready(r, "delete")
    /\ ~ Locked
    /\ SeenAll(r)
    /\ live' = FALSE
    /\ lineitems' = lineitems \ seen[r].items
    /\ payments' = payments \ seen[r].pays
    /\ UNCHANGED <<status, issued>>
    /\ Commit(r)

-----------------------------------------------------------------------------
(***************************************************************************)
(* A request the code turns away or that an exception ends.  Running out   *)
(* of Items or Pays is this instance's bound on inserted rows.             *)
(***************************************************************************)
\* HTTPException: 404 for a missing row, 400 for a status that forbids it
TurnedAway(r) ==
    \/ pc[r] = "found" /\ ~ live
    \/ Ready(r, "dropItem") /\ seen[r].items \cup lineitems = {}
    \/ Ready(r, "pay") /\ ~ MayPay(seen[r])
    \/ Ready(r, "send") /\ seen[r].status # "DRAFT"

\* mutant: update_invoice_status waits for an invoice that is gone
Raises_NoAssert(r) ==
    \/ /\ ~ live
       /\ \/ \E o \in {"pay", "addItem", "send", "overdue"} : Ready(r, o)
          \/ pc[r] = "computed" /\ next[r] # seen[r].status
    \/ Ready(r, "delete") /\ ~ Locked /\ ~ SeenAll(r)

\* IntegrityError, StaleDataError, or the assertion in update_invoice_status
Raises(r) ==
    \/ /\ ~ live
       /\ \/ \E o \in {"pay", "addItem", "send", "overdue"} : Ready(r, o)
          \/ pc[r] = "flushed"
          \/ pc[r] = "computed" /\ next[r] # seen[r].status
    \/ Ready(r, "delete") /\ ~ Locked /\ ~ SeenAll(r)

OutOfKeys(r) ==
    \/ Ready(r, "pay") /\ Pays \subseteq issued
    \/ Ready(r, "addItem") /\ Items \subseteq issued

Refuse(r) == (TurnedAway(r) \/ Raises(r) \/ OutOfKeys(r)) /\ Rollback(r)

\* a cancelled request, a lost connection, a killed process, at any await
Fail(r) == pc[r] # "idle" /\ Rollback(r)

-----------------------------------------------------------------------------
\* what a handler does by itself once it has been called
Step(r) ==
    \/ pc[r] = "found" /\ SelectInvoice(r)
    \/ SelectLineItems(r) \/ SelectPayments(r)
    \/ FlushInsert(r) \/ FlushDelete(r) \/ Recompute(r) \/ CommitPayment(r)
    \/ CommitAddItem(r) \/ CommitDropItem(r) \/ CommitEdit(r)
    \/ CommitSend(r) \/ CommitOverdue(r) \/ CommitDelete(r)
    \/ Refuse(r)

Next == \E r \in Requests :
    \/ LookUpPayment(r) \/ SelectInvoice(r)
    \/ SelectLineItems(r) \/ SelectPayments(r)
    \/ FlushInsert(r) \/ FlushDelete(r) \/ Recompute(r) \/ CommitPayment(r)
    \/ CommitAddItem(r) \/ CommitDropItem(r) \/ CommitEdit(r)
    \/ CommitSend(r) \/ CommitOverdue(r) \/ CommitDelete(r)
    \/ Refuse(r) \/ Fail(r)

Spec == Init /\ [][Next]_vars

(***************************************************************************)
(* The server runs a handler it has started to its end.  A handler that    *)
(* waits for a row lock gets it in turn (PostgreSQL queues waiters), hence *)
(* strong fairness: others may take and drop the lock in between.          *)
(***************************************************************************)
FairSpec == Spec /\ \A r \in Requests : SF_vars(Step(r))

-----------------------------------------------------------------------------
(***************************************************************************)
(* Properties.                                                             *)
(***************************************************************************)
Ledger == INSTANCE InvoiceLedger WITH
    live <- live, status <- status, lineitems <- lineitems, payments <- payments

\* Line items and payments never outlive their invoice, and a payment that is
\* flushed but not committed keeps the invoice from being deleted under it:
\* delete_invoice (crud/invoices.py) racing the two child routers.
NoOrphans ==
    /\ ~ live => lineitems = {} /\ payments = {}
    /\ \A r \in Requests : pc[r] \in Flushed /\ op[r] = "pay" => live

\* What a request that no commit disturbed may do to the rows: exactly what
\* the one-step operation of InvoiceLedger does.
Promised(o) ==
    CASE o = "pay"      -> \E p \in Pays : Ledger!Pay(p)
      [] o = "refund"   -> \E p \in Pays : Ledger!Refund(p)
      [] o = "addItem"  -> \E i \in Items : Ledger!AddItem(i)
      [] o = "dropItem" -> \E i \in Items : Ledger!DropItem(i)
      [] o = "edit"     -> \E s \in Statuses : Ledger!SetStatus(s)
      [] o = "send"     -> Ledger!Send
      [] o = "overdue"  -> Ledger!MarkOverdue
      [] o = "delete"   -> Ledger!Erase

\* A request disturbed by no commit since its first SELECT leaves the invoice
\* untouched or does what its operation promises, however many statements it
\* took, whatever uncommitted work surrounded it and whatever else committed
\* meanwhile: update_invoice_status may be overtaken by no other payment, edit
\* or line item it has not loaded, /send and the job by no payment and no edit,
\* and the remaining handlers, which decide on nothing they loaded, by anything.
UndisturbedIsAtomic ==
    [][\A r \in clean : pc'[r] = "idle" => rows' = rows \/ Promised(op[r])]_vars

\* With one request at a time the sessions implement the ledger.
ImplementsLedger == Ledger!Spec

\* The payments whose INSERT is flushed and whose transaction is open.
Inserts(r) == op[r] = "pay" /\ pc[r] \in Flushed

Drawn == UNION {own[r] : r \in {q \in Requests : Inserts(q)}}

Book == INSTANCE InvoiceBook WITH drawn <- Drawn, used <- issued

\* With any overlap the sessions implement the book: create_payment inserts its
\* row once or not at all, nothing comes back after it was refunded, dropped or
\* erased, and delete_invoice takes every child with it and waits for the
\* payments on their way.  Only the status can go wrong.
ImplementsBook == Book!Spec

\* PAID is never claimed for an invoice whose payments do not cover it but for
\* half a cent, even with payments overlapping, as long as no operation takes
\* payments back, raises the total or sets the status by hand:
\* update_invoice_status may then miss a payment, but never counts one that is
\* not there, nor two for more than is stored.
PaidIsCovered ==
    live /\ status = "PAID" => 2 * Paid(payments) + Cent >= 2 * Total(lineitems)

\* A commit that adds or removes a payment leaves the status that the payments
\* then in the table call for, a new one as entered (update_invoice_status).
\* It holds one request at a time, whatever status, line items and edits came
\* before, and fails when two payments overlap: each misses the other's row.
StatusReflectsPayments ==
    [][LET paid == Counted(payments', payments' \ payments) IN
       payments' # payments /\ paid > 0 =>
          status' = IF paid < Total(lineitems') THEN "PARTIALLY_PAID" ELSE "PAID"]_vars

\* What a reader of the rows finds after that commit is right up to half a
\* cent: the value a handler decides on (schemas.py) is not the one that is
\* stored, but the two never drift apart with the number of payments.
StatusFitsRows ==
    [][payments' # payments /\ live' =>
          /\ status' = "PAID" => 2 * Paid(payments') + Cent >= 2 * Total(lineitems')
          /\ status' = "PARTIALLY_PAID" =>
                2 * Paid(payments') < 2 * Total(lineitems') + Cent]_vars

\* Every request that starts ends: waiting for the row locks of payments and
\* of the invoice never goes on for ever, and every exception is an end.
RequestsFinish == \A r \in Requests : pc[r] # "idle" ~> pc[r] = "idle"

=============================================================================
