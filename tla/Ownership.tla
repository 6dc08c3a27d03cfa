------------------------------ MODULE Ownership ------------------------------
(***************************************************************************)
(* Clients and invoices under their user: created, checked (404, 403) and  *)
(* deleted by requests that loaded their rows some awaits ago, against the *)
(* foreign keys of PostgreSQL and the cascades of SQLAlchemy (models.py):  *)
(*   - user.clients and user.invoices are loaded by session.delete and     *)
(*     deleted with the user, the loaded ones and no others;               *)
(*   - client.invoices has no cascade: deleting a client sets client_id    *)
(*     of its invoices to NULL, which the column does not take;            *)
(*   - a DELETE of a row that is gone is a warning, and answered with 204. *)
(* Line items and payments hang on an invoice: see InvoiceSessions.        *)
(***************************************************************************)
EXTENDS Accounts

CONSTANTS Clients, Invoices     \* primary keys

ASSUME KeysAssumption ==
    None \notin Clients /\ Clients \cap Invoices = {}

VARIABLES
    owner,      \* client.user_id, None where there is no row
    holder,     \* invoice.user_id
    billed,     \* invoice.client_id
    taken       \* keys of clients and invoices handed out

rows == <<owner, holder, billed, taken>>
vars == <<accounts, req, rows>>

Phases == {"idle", "verify", "user", "billing", "dropping", "erasing", "leaving"}

TypeOK ==
    /\ email \in [Users -> Emails \cup {None}]
    /\ used \in SUBSET Users
    /\ tokens \in SUBSET Tokens
    /\ owners \in [Emails -> SUBSET Users]
    /\ req \in [Requests ->
          [pc : Phases, user : Users \cup {None}, sub : Emails \cup {None},
           of : Users \cup {None}, rows : SUBSET (Clients \cup Invoices)]]
    /\ owner \in [Clients -> Users \cup {None}]
    /\ holder \in [Invoices -> Users \cup {None}]
    /\ billed \in [Invoices -> Clients \cup {None}]
    /\ taken \in SUBSET (Clients \cup Invoices)

Init ==
    /\ InitAccounts
    /\ owner = [c \in Clients |-> None]
    /\ holder = [n \in Invoices |-> None]
    /\ billed = [n \in Invoices |-> None]
    /\ taken = {}

-----------------------------------------------------------------------------
ClientsOf(u) == {c \in Clients : owner[c] = u}
InvoicesOf(u) == {n \in Invoices : holder[n] = u}
BilledTo(cs) == {n \in Invoices : billed[n] \in cs}

\* a foreign key, for an INSERT that refers to user u
UserRow_Unchecked(u) == TRUE    \* mutant: user_id without its ForeignKey
UserRow(u) == Live(u)

\* a handler goes on after its user was loaded
Continue(r, pc, keys) ==
    /\ req[r].pc = "user"
    /\ req' = [req EXCEPT ![r].pc = pc, ![r].rows = keys]
    /\ UNCHANGED <<accounts, rows>>

\* a handler commits and answers
Answer(r, pc) ==
    /\ req[r].pc = pc
    /\ req' = [req EXCEPT ![r] = Idle]
    /\ UNCHANGED accounts

\* mutant: the token's subject taken for the key of the user
CreateClient_Subject(r, c) ==
    /\ Answer(r, "user")
    /\ c \notin taken /\ taken' = taken \cup {c}
    /\ UserRow(req[r].user)
    /\ owner' = [owner EXCEPT ![c] = req[r].sub]
    /\ UNCHANGED <<holder, billed>>

\* POST /clients
CreateClient(r, c) ==
    /\ Answer(r, "user")
    /\ c \notin taken /\ taken' = taken \cup {c}
    /\ UserRow(req[r].user)
    /\ owner' = [owner EXCEPT ![c] = req[r].user]
    /\ UNCHANGED <<holder, billed>>

\* POST /invoices, the client loaded and found to be the user's ...
CheckClient(r, c) == owner[c] = req[r].user /\ Continue(r, "billing", {c})

\* ... and the invoice inserted, if both rows it refers to still exist
CreateInvoice(r, n) ==
    /\ Answer(r, "billing")
    /\ n \notin taken /\ taken' = taken \cup {n}
    /\ UserRow(req[r].user)
    /\ \E c \in req[r].rows :
          /\ owner[c] # None
          /\ billed' = [billed EXCEPT ![n] = c]
    /\ holder' = [holder EXCEPT ![n] = req[r].user]
    /\ UNCHANGED owner

\* the column after a DELETE of these keys
Without(column, keys) ==
    [k \in DOMAIN column |-> IF k \in keys THEN None ELSE column[k]]

\* DELETE /clients/{id}: load and check, then delete unless an invoice is left
LoadClient(r, c) == owner[c] = req[r].user /\ Continue(r, "dropping", {c})

\* mutant: client.invoices with cascade="all, delete-orphan"
DeleteClient_Cascading(r) ==
    /\ Answer(r, "dropping")
    /\ owner' = Without(owner, req[r].rows)
    /\ holder' = Without(holder, BilledTo(req[r].rows))
    /\ billed' = Without(billed, BilledTo(req[r].rows))
    /\ UNCHANGED taken

DeleteClient(r) ==
    /\ Answer(r, "dropping")
    /\ BilledTo(req[r].rows) = {}
    /\ owner' = Without(owner, req[r].rows)
    /\ UNCHANGED <<holder, billed, taken>>

\* DELETE /invoices/{id}
LoadInvoice(r, n) == holder[n] = req[r].user /\ Continue(r, "erasing", {n})

DeleteInvoice(r) ==
    /\ Answer(r, "erasing")
    /\ holder' = Without(holder, req[r].rows)
    /\ billed' = Without(billed, req[r].rows)
    /\ UNCHANGED <<owner, taken>>

(***************************************************************************)
(* DELETE /users: session.delete loads what the cascades reach, the flush  *)
(* deletes that.  A row inserted in between makes the foreign keys refuse  *)
(* the whole transaction.                                                  *)
(***************************************************************************)
Collect(r) ==
    LET u == req[r].user IN
    Continue(r, "leaving", ClientsOf(u) \cup InvoicesOf(u))

Covers(u, keys) ==
    /\ ClientsOf(u) \cup InvoicesOf(u) \subseteq keys
    /\ BilledTo(keys \cap Clients) \subseteq keys

DeleteUser(r) ==
    LET u == req[r].user  gone == req[r].rows IN
    /\ req[r].pc = "leaving"
    /\ Covers(u, gone)
    /\ email' = [email EXCEPT ![u] = None]
    /\ owner' = Without(owner, gone)
    /\ holder' = Without(holder, gone)
    /\ billed' = Without(billed, gone)
    /\ req' = [req EXCEPT ![r] = Idle]
    /\ UNCHANGED <<used, tokens, owners, taken>>

Next ==
    \/ AccountSteps /\ UNCHANGED rows
    \/ \E r \in Requests, c \in Clients :
          CreateClient(r, c) \/ CheckClient(r, c) \/ LoadClient(r, c)
    \/ \E r \in Requests, n \in Invoices : CreateInvoice(r, n) \/ LoadInvoice(r, n)
    \/ \E r \in Requests :
          DeleteClient(r) \/ DeleteInvoice(r) \/ Collect(r) \/ DeleteUser(r)

Spec == Init /\ [][Next]_vars

-----------------------------------------------------------------------------
\* Nobody's rows under another user: an invoice's client and user exist and
\* the client is that user's, though the check of POST /invoices, the deletion
\* of the client and the deletion of the account overlap in any order.
Rooted ==
    /\ \A c \in Clients : owner[c] # None => Live(owner[c])
    /\ \A n \in Invoices : holder[n] # None =>
          Live(holder[n]) /\ billed[n] \in ClientsOf(holder[n])

(***************************************************************************)
(* The abstract tree: an invoice knows its user by its client alone.       *)
(***************************************************************************)
Registered == {<<u, email[u]>> : u \in {v \in Users : Live(v)}}
Owned == {<<c, owner[c]>> : c \in {d \in Clients : owner[d] # None}}
Billed == {<<n, billed[n]>> : n \in {m \in Invoices : billed[m] # None}}

Tree == INSTANCE TenantTree WITH
    accounts <- Registered, clients <- Owned, invoices <- Billed

\* Overlapping sessions keep the promise of the tree: each commit is one
\* operation on it, for a user who exists at that moment, and an account takes
\* its whole subtree along or stays.
ImplementsTree == Tree!Spec

=============================================================================
