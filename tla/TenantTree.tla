----------------------------- MODULE TenantTree -----------------------------
(***************************************************************************)
(* What the rows of users, clients and invoices promise: a forest.  Every  *)
(* client is a user's, every invoice a client's, and what is removed goes  *)
(* with everything under it or not at all.  An operation takes one step    *)
(* and is made for a user who exists at that moment.  Ownership is the     *)
(* implementation: sessions, foreign keys and ORM cascades.                *)
(***************************************************************************)
CONSTANTS Users, Emails, Clients, Invoices

VARIABLES
    accounts,   \* <<user, email>>
    clients,    \* <<client, its user>>
    invoices    \* <<invoice, its client>>

tree == <<accounts, clients, invoices>>

HasAccount(u) == \E e \in Emails : <<u, e>> \in accounts
Vacant(e) == \A u \in Users : <<u, e>> \notin accounts

Init == accounts = {} /\ clients = {} /\ invoices = {}

Join(u, e) ==
    /\ ~ HasAccount(u) /\ Vacant(e)
    /\ accounts' = accounts \cup {<<u, e>>}
    /\ UNCHANGED <<clients, invoices>>

Move(u, e) ==
    /\ HasAccount(u) /\ Vacant(e)
    /\ accounts' = (accounts \ ({u} \X Emails)) \cup {<<u, e>>}
    /\ UNCHANGED <<clients, invoices>>

Leave(u) ==
    /\ HasAccount(u)
    /\ accounts' = accounts \ ({u} \X Emails)
    /\ clients' = clients \ (Clients \X {u})
    /\ invoices' = {n \in invoices : <<n[2], u>> \notin clients}

AddClient(u, c) ==
    /\ HasAccount(u) /\ clients \cap ({c} \X Users) = {}
    /\ clients' = clients \cup {<<c, u>>}
    /\ UNCHANGED <<accounts, invoices>>

DropClient(u, c) ==
    /\ <<c, u>> \in clients /\ invoices \cap (Invoices \X {c}) = {}
    /\ clients' = clients \ {<<c, u>>}
    /\ UNCHANGED <<accounts, invoices>>

Bill(u, c, n) ==
    /\ <<c, u>> \in clients /\ invoices \cap ({n} \X Clients) = {}
    /\ invoices' = invoices \cup {<<n, c>>}
    /\ UNCHANGED <<accounts, clients>>

Cancel(c, n) ==
    /\ <<n, c>> \in invoices
    /\ invoices' = invoices \ {<<n, c>>}
    /\ UNCHANGED <<accounts, clients>>

Next ==
    \/ \E u \in Users, e \in Emails : Join(u, e) \/ Move(u, e)
    \/ \E u \in Users : Leave(u)
    \/ \E u \in Users, c \in Clients : AddClient(u, c) \/ DropClient(u, c)
    \/ \E u \in Users, c \in Clients, n \in Invoices : Bill(u, c, n) \/ Cancel(c, n)

Spec == Init /\ [][Next]_tree

=============================================================================
