---------------------------- MODULE InvoiceCache ----------------------------
(***************************************************************************)
(* The cache-aside protocol of GET /invoices/{id}: one Redis key in front  *)
(* of one invoice and its children (crud/invoices.py, get_invoice and every *)
(* redis.delete).  GET /clients/{id} runs the same protocol on a client,   *)
(* with the kinds "edit" and "erase" only (crud/clients.py).               *)
(*                                                                         *)
(* Contents are abstracted to version numbers: `row' counts the committed  *)
(* changes of the invoice row, `kids' those of its line items and payments *)
(* (the cached value holds totals computed from the children).             *)
(***************************************************************************)
EXTENDS Integers

CONSTANTS
    Readers,    \* GET handlers that may be in progress together
    Writers,    \* handlers and jobs that may be writing together
    Kinds,      \* the kinds of write enabled in this instance
    MaxVersion  \* bound on the number of changes of the row and of the children

AllKinds == {"edit", "send", "line", "erase", "pay", "job"}

ASSUME KindsAssumption == Kinds \subseteq AllKinds
ASSUME MaxVersionAssumption == MaxVersion \in Nat

VARIABLES
    live, row, kids,    \* the committed invoice
    cache,      \* the value under invoice:{id}, or Nothing
    rpc, hold,  \* each reader: how far it has come, and what it has selected
    wpc,        \* each writer: how far it has come
    raced,      \* history: readers that a commit overtook after a SELECT
    excused,    \* history: the cached value comes from such a reader, or from
                \* before a write whose redis.delete was lost
    late        \* history: a write that deletes no key after its commit has
                \* overtaken the cached value

db == <<live, row, kids>>
vars == <<live, row, kids, cache, rpc, hold, wpc, raced, excused, late>>

Values == [row : Nat, kids : Nat]
Nothing == [none |-> TRUE]
Zero == [row |-> 0, kids |-> 0]

\* a commit is done and its redis.delete is still to come
Pending == {"refreshing", "committed"}

TypeOK ==
    /\ live \in BOOLEAN /\ row \in Nat /\ kids \in Nat
    /\ cache \in Values \cup {Nothing}
    /\ rpc \in [Readers -> {"idle", "missed", "row", "selected"}]
    /\ hold \in [Readers -> Values]
    /\ wpc \in [Writers -> {"idle", "flushed", "dropped"} \cup Pending]
    /\ raced \in SUBSET Readers
    /\ excused \in BOOLEAN /\ late \in BOOLEAN

Init ==
    /\ live = TRUE /\ row = 0 /\ kids = 0
    /\ cache = Nothing
    /\ rpc = [r \in Readers |-> "idle"]
    /\ hold = [r \in Readers |-> Zero]
    /\ wpc = [w \in Writers |-> "idle"]
    /\ raced = {} /\ excused = FALSE /\ late = FALSE

-----------------------------------------------------------------------------
(***************************************************************************)
(* get_invoice.  A hit answers from the cache and changes nothing, so the  *)
(* handler is modelled from the miss on: one SELECT for the row, one for   *)
(* the children, then SET.  Nothing is cached for a missing invoice.       *)
(***************************************************************************)
ReaderAt(r, from, to) == rpc[r] = from /\ rpc' = [rpc EXCEPT ![r] = to]

Miss(r) ==
    /\ ReaderAt(r, "idle", "missed")
    /\ cache = Nothing
    /\ UNCHANGED <<db, cache, hold, wpc, raced, excused, late>>

SelectRow(r) ==
    /\ live
    /\ ReaderAt(r, "missed", "row")
    /\ hold' = [hold EXCEPT ![r] = [row |-> row, kids |-> 0]]
    /\ UNCHANGED <<db, cache, wpc, raced, excused, late>>

SelectChildren(r) ==
    /\ ReaderAt(r, "row", "selected")
    /\ hold' = [hold EXCEPT ![r] = [row |-> hold[r].row, kids |-> kids]]
    /\ UNCHANGED <<db, cache, wpc, raced, excused, late>>

Done(r) ==
    /\ rpc' = [rpc EXCEPT ![r] = "idle"]
    /\ hold' = [hold EXCEPT ![r] = Zero]
    /\ raced' = raced \ {r}

Serialized_RowOnly(r) == [row |-> hold[r].row]  \* mutant: no totals

Serialized(r) == hold[r]

Fill(r) ==
    /\ rpc[r] = "selected"
    /\ cache' = Serialized(r)
    /\ excused' = (r \in raced) /\ late' = FALSE
    /\ Done(r)
    /\ UNCHANGED <<db, wpc>>

\* 404, or the request fails
Abandon(r) ==
    /\ rpc[r] # "idle"
    /\ Done(r)
    /\ UNCHANGED <<db, cache, wpc, excused, late>>

Expire_Never == FALSE /\ UNCHANGED vars     \* mutant: SET without ex

\* ex=300
Expire ==
    /\ cache # Nothing
    /\ cache' = Nothing /\ excused' = FALSE /\ late' = FALSE
    /\ UNCHANGED <<db, rpc, hold, wpc, raced>>

-----------------------------------------------------------------------------
(***************************************************************************)
(* The writers, from the flush that ends their transaction on.             *)
(***************************************************************************)
WriterAt(w, from, to) == wpc[w] = from /\ wpc' = [wpc EXCEPT ![w] = to]

Changes(drow, dkids) ==
    /\ live /\ row + drow <= MaxVersion /\ kids + dkids <= MaxVersion
    /\ row' = row + drow /\ kids' = kids + dkids
    /\ raced' = raced \cup {r \in Readers : rpc[r] \in {"row", "selected"}}
    /\ UNCHANGED <<cache, rpc, hold, excused>>

\* a commit that no redis.delete follows
OvertakesCached == late' = (late \/ cache # Nothing)

\* update_invoice, patch_invoice: commit, then session.refresh
CommitEdit(w) ==
    /\ "edit" \in Kinds /\ WriterAt(w, "idle", "refreshing")
    /\ Changes(1, 0) /\ UNCHANGED <<live, late>>

Refresh(w) ==
    /\ WriterAt(w, "refreshing", "committed")
    /\ live
    /\ UNCHANGED <<db, cache, rpc, hold, raced, excused, late>>

\* InvalidRequestError: the row is gone, and redis.delete is not reached
RefreshRaises(w) ==
    /\ WriterAt(w, "refreshing", "idle")
    /\ ~ live
    /\ UNCHANGED <<db, cache, rpc, hold, raced, excused, late>>

CommitSend(w) ==
    /\ "send" \in Kinds /\ WriterAt(w, "idle", "committed")
    /\ Changes(1, 0) /\ UNCHANGED <<live, late>>

\* create_lineitem, delete_lineitem
CommitLine(w) ==
    /\ "line" \in Kinds /\ WriterAt(w, "idle", "committed")
    /\ Changes(0, 1) /\ UNCHANGED <<live, late>>

CommitErase(w) ==
    /\ "erase" \in Kinds /\ WriterAt(w, "idle", "committed")
    /\ Changes(0, 0) /\ live' = FALSE /\ UNCHANGED late

Drop_OtherKey(w) ==     \* mutant: redis.delete of another key
    /\ UNCHANGED <<db, cache, rpc, hold, raced, excused, late>>

Drop(w) ==
    /\ cache' = Nothing /\ excused' = FALSE /\ late' = FALSE
    /\ UNCHANGED <<db, rpc, hold, raced>>

DropAfter(w) == WriterAt(w, "committed", "idle") /\ Drop(w)

\* create_payment, delete_payment: update_invoice_status deletes the key while
\* the transaction is still open
FlushPayment(w) ==
    /\ "pay" \in Kinds /\ WriterAt(w, "idle", "flushed")
    /\ live
    /\ UNCHANGED <<db, cache, rpc, hold, raced, excused, late>>

DropBefore(w) == WriterAt(w, "flushed", "dropped") /\ Drop(w)

CommitPayment(w) ==
    /\ WriterAt(w, "dropped", "idle")
    /\ \E drow \in {0, 1} : Changes(drow, 1)  \* the status may stay as it is
    /\ OvertakesCached /\ UNCHANGED live

\* _update_overdue_invoices never touches the cache
CommitOverdue(w) ==
    /\ "job" \in Kinds /\ wpc[w] = "idle" /\ UNCHANGED wpc
    /\ Changes(1, 0)
    /\ OvertakesCached /\ UNCHANGED live

\* the request fails: an open transaction rolls back, a redis.delete is lost
FailWrite(w) ==
    /\ wpc[w] # "idle"
    /\ wpc' = [wpc EXCEPT ![w] = "idle"]
    /\ excused' = (excused \/ (wpc[w] \in Pending /\ cache # Nothing))
    /\ UNCHANGED <<db, cache, rpc, hold, raced, late>>

-----------------------------------------------------------------------------
Next ==
    \/ \E r \in Readers :
          \/ Miss(r) \/ SelectRow(r) \/ SelectChildren(r) \/ Fill(r) \/ Abandon(r)
    \/ Expire
    \/ \E w \in Writers :
          \/ CommitEdit(w) \/ Refresh(w) \/ RefreshRaises(w) \/ CommitSend(w)
          \/ CommitLine(w) \/ CommitErase(w) \/ DropAfter(w)
          \/ FlushPayment(w) \/ DropBefore(w) \/ CommitPayment(w)
          \/ CommitOverdue(w) \/ FailWrite(w)

Spec == Init /\ [][Next]_vars

\* Redis evicts every key whose TTL has run out
FairSpec == Spec /\ WF_vars(Expire)

-----------------------------------------------------------------------------
(***************************************************************************)
(* Properties.                                                             *)
(***************************************************************************)
IsCurrent == live /\ cache = [row |-> row, kids |-> kids]

\* A cached value that is not the committed one comes from a reader that was
\* overtaken between its SELECT and its SET, outlived a lost redis.delete, or
\* was overtaken by a payment or the job; or a writer is just about to delete
\* it.  The order "commit, then redis.delete" is what makes it true of update,
\* patch, send, line items and delete.
FreshUnlessRaced ==
    cache # Nothing /\ ~ excused /\ ~ late =>
        IsCurrent \/ \E w \in Writers : wpc[w] \in Pending

\* "cache-aside, invalidated on writes" (README.md:11): every write, payments
\* and the job included, deletes what it has made stale.  Only overtaken
\* readers and lost deletes are left out.  True of the kinds that commit first
\* (a theorem), and not of "pay" and "job".
InvalidatedOnWrites ==
    cache # Nothing /\ ~ excused =>
        IsCurrent \/ \E w \in Writers : wpc[w] \in Pending

\* Once the writes cease (MaxVersion ends them) the cache settles: a reader that
\* was overtaken may put a stale value back after an earlier one has expired, or
\* after the invoice is deleted, but not for ever, and ex=300 ends the last one.
CacheSettles == <>[](cache = Nothing \/ IsCurrent)

=============================================================================
