---------------------------- MODULE InvoiceDates ----------------------------
(***************************************************************************)
(* The dates of one invoice under overlapping PUT and PATCH requests       *)
(* (routers/invoices.py).  PUT validates the two dates of its body, PATCH  *)
(* those of its body completed with the loaded row; the UPDATE then writes *)
(* only the columns whose value differs from the loaded one.  Nothing in   *)
(* the table relates the columns, but every response is built by           *)
(* InvoiceRead, which validates them again.                                *)
(***************************************************************************)
EXTENDS Integers

CONSTANTS
    Requests,   \* slots for PUT and PATCH requests in progress together
    Dates,      \* points in time
    Absent      \* a field that the body of a PATCH leaves out

ASSUME DatesAssumption == Dates \subseteq Int /\ Absent \notin Dates

VARIABLES
    live, stored,   \* the committed row
    loaded,     \* each request: the row in its identity map, or None
    overtaken,  \* history: requests that a commit has overtaken since they loaded
    crossed     \* history: an overtaken request has changed the row, and none
                \* that was not overtaken has committed since

vars == <<live, stored, loaded, overtaken, crossed>>

Rows == [issue : Dates, due : Dates]
None == [none |-> TRUE]
Ordered(row) == row.issue < row.due

TypeOK ==
    /\ live \in BOOLEAN
    /\ stored \in Rows
    /\ loaded \in [Requests -> Rows \cup {None}]
    /\ overtaken \in SUBSET Requests
    /\ crossed \in BOOLEAN

\* InvoiceCreate is validated like a PUT
Init ==
    /\ live = TRUE
    /\ stored \in {row \in Rows : Ordered(row)}
    /\ loaded = [r \in Requests |-> None]
    /\ overtaken = {} /\ crossed = FALSE

-----------------------------------------------------------------------------
Load(r) ==
    /\ loaded[r] = None
    /\ live
    /\ loaded' = [loaded EXCEPT ![r] = stored]
    /\ UNCHANGED <<live, stored, overtaken, crossed>>

PutBodies == {body \in Rows : Ordered(body)}
PatchBodies == [issue : Dates \cup {Absent}, due : Dates \cup {Absent}]

\* payload.due_date or invoice.due_date
Effective(given, old) == IF given = Absent THEN old ELSE given

AcceptsPatch_BodyOnly(row, body) ==     \* mutant: only a full pair is checked
    IF Absent \in {body.issue, body.due} THEN TRUE ELSE body.issue < body.due

AcceptsPatch(row, body) ==
    Effective(body.issue, row.issue) < Effective(body.due, row.due)

Column_Unset(given, old, now) ==    \* mutant: model_dump without exclude_unset
    IF given = old THEN now ELSE given

\* a column is written when its new value differs from the loaded one
Column(given, old, now) == IF given \in {Absent, old} THEN now ELSE given

Written(row, body) ==
    [issue |-> Column(body.issue, row.issue, stored.issue),
     due |-> Column(body.due, row.due, stored.due)]

\* the session is closed; the other requests have been overtaken
Finish(r, others) ==
    /\ loaded' = [loaded EXCEPT ![r] = None]
    /\ overtaken' = (overtaken \cup {q \in others : loaded[q] # None}) \ {r}

\* the UPDATE of a row that is gone raises StaleDataError
CommitDates(r, body) ==
    /\ live
    /\ stored' = Written(loaded[r], body)
    /\ crossed' = (r \in overtaken /\ (crossed \/ stored' # stored))
    /\ Finish(r, IF stored' = stored THEN {} ELSE Requests)
    /\ UNCHANGED live

Put(r) == loaded[r] # None /\ \E body \in PutBodies : CommitDates(r, body)

Patch(r) ==
    /\ loaded[r] # None
    /\ \E body \in PatchBodies :
          AcceptsPatch(loaded[r], body) /\ CommitDates(r, body)

\* 403, 422, an explicit null date (NOT NULL), StaleDataError, or a fault
Refuse(r) ==
    /\ loaded[r] # None
    /\ Finish(r, {})
    /\ UNCHANGED <<live, stored, crossed>>

Delete ==
    /\ live /\ live' = FALSE
    /\ UNCHANGED <<stored, loaded, overtaken, crossed>>

Next ==
    \/ \E r \in Requests : Load(r) \/ Put(r) \/ Patch(r) \/ Refuse(r)
    \/ Delete

Spec == Init /\ [][Next]_vars

-----------------------------------------------------------------------------
(***************************************************************************)
(* Properties.                                                             *)
(***************************************************************************)

\* "due_date must be greater than issue_date" (schemas.py:92): a row that breaks
\* it cannot be answered: InvoiceRead raises, for this invoice and for every
\* page of GET /invoices that it is on.
Readable == live => Ordered(stored)

\* Only a request that another one has overtaken between its SELECT and its
\* commit can break the order, and the next request that none overtakes, whatever
\* it changes, leaves the dates in order again.
ReadableUnlessCrossed == live /\ ~ crossed => Ordered(stored)

=============================================================================
