------------------------------ MODULE Accounts ------------------------------
(***************************************************************************)
(* Users, their unique email, and the tokens that name an email.           *)
(*                                                                         *)
(* A token is a signed claim `sub': the email its user had when the log-in *)
(* looked it up (routers/auth.py).  get_current_user (dependencies.py)     *)
(* resolves it again on every request, to whoever has that email then.     *)
(* Nothing is stored about a token, so changing the email or deleting the  *)
(* account revokes none.                                                   *)
(*                                                                         *)
(* This module has the steps that read or write accounts alone; Ownership  *)
(* EXTENDS it with what hangs on a user, and deletes users.                *)
(***************************************************************************)
CONSTANTS
    Users,      \* primary keys of users, never handed out twice
    Emails,
    Requests,   \* request slots: a slot serves one request after the other
    None        \* SQL's NULL, and an attribute that does not apply

ASSUME NoneAssumption == None \notin Users /\ None \notin Emails

VARIABLES
    email,      \* email column of a user, None where there is no row
    used,       \* keys of users handed out so far
    tokens,     \* tokens that have not expired: [sub, of]
    owners,     \* history: the users that have had an email
    req         \* what each slot is doing

accounts == <<email, used, tokens, owners>>

\* `of' is history: the user that logged in
Tokens == [sub : Emails, of : Users]

\* sub and of: the token's; rows: keys of the rows loaded besides the user's
Idle == [pc |-> "idle", user |-> None, sub |-> None, of |-> None, rows |-> {}]

Live(u) == email[u] # None

Holder_Any(e) == {u \in Users : Live(u)}    \* mutant: a SELECT without its WHERE

\* get_user_by_email
Holder(e) == {u \in Users : email[u] = e}

InitAccounts ==
    /\ email = [u \in Users |-> None]
    /\ used = {} /\ tokens = {}
    /\ owners = [e \in Emails |-> {}]
    /\ req = [r \in Requests |-> Idle]

-----------------------------------------------------------------------------
Free_Always(e, u) == TRUE   \* mutant: the column without UNIQUE

\* the unique index, as an INSERT or UPDATE of row u finds it
Free(e, u) == \A v \in Users \ {u} : email[v] # e

Assign(u, e) ==
    /\ email' = [email EXCEPT ![u] = e]
    /\ owners' = [owners EXCEPT ![e] = @ \cup {u}]

(***************************************************************************)
(* POST /users.  A taken email is answered with 409; the key is gone with  *)
(* the sequence.                                                           *)
(***************************************************************************)
Register(u, e) ==
    /\ u \notin used /\ used' = used \cup {u}
    /\ IF Free(e, u) THEN Assign(u, e) ELSE UNCHANGED <<email, owners>>
    /\ UNCHANGED <<tokens, req>>

\* POST /auth/token: the user is loaded, the password checked in a thread ...
LookUp(r, u) ==
    /\ req[r].pc = "idle" /\ Live(u)
    /\ req' = [req EXCEPT ![r] =
          [Idle EXCEPT !.pc = "verify", !.user = u, !.sub = email[u]]]
    /\ UNCHANGED accounts

\* ... and the token made from the loaded row, whatever the table has by now
Issue(r) ==
    /\ req[r].pc = "verify"
    /\ tokens' = tokens \cup {[sub |-> req[r].sub, of |-> req[r].user]}
    /\ req' = [req EXCEPT ![r] = Idle]
    /\ UNCHANGED <<email, used, owners>>

Expire(t) ==
    /\ t \in tokens /\ tokens' = tokens \ {t}
    /\ UNCHANGED <<email, used, owners, req>>

\* get_current_user; no holder is a 401
Authenticate(r, t, u) ==
    /\ req[r].pc = "idle" /\ t \in tokens /\ u \in Holder(t.sub)
    /\ req' = [req EXCEPT ![r] =
          [pc |-> "user", user |-> u, sub |-> t.sub, of |-> t.of, rows |-> {}]]
    /\ UNCHANGED accounts

(***************************************************************************)
(* PUT and PATCH /users.  The email is written if it differs from the      *)
(* loaded one, which is the token's.  A taken email and a row that is gone *)
(* (StaleDataError) end in Close, with a 500.                              *)
(***************************************************************************)
Rename(r, e) ==
    /\ req[r].pc = "user" /\ e # req[r].sub
    /\ Live(req[r].user) /\ Free(e, req[r].user)
    /\ Assign(req[r].user, e)
    /\ req' = [req EXCEPT ![r] = Idle]
    /\ UNCHANGED <<used, tokens>>

\* an answer that needed no write, an error, or a client that hung up
Close(r) ==
    /\ req[r].pc # "idle"
    /\ req' = [req EXCEPT ![r] = Idle]
    /\ UNCHANGED accounts

AccountSteps ==
    \/ \E u \in Users, e \in Emails : Register(u, e)
    \/ \E r \in Requests, u \in Users : LookUp(r, u)
    \/ \E t \in tokens : Expire(t)
    \/ \E r \in Requests, t \in tokens, u \in Users : Authenticate(r, t, u)
    \/ \E r \in Requests, e \in Emails : Rename(r, e)
    \/ \E r \in Requests : Issue(r) \/ Close(r)

-----------------------------------------------------------------------------
\* A request acts for the user its token was issued to, as long as the email
\* in the token has had no second owner: neither a change of email during the
\* log-in nor one while the request runs makes it act for anybody else.
ActsForHolder ==
    \A r \in Requests, v \in Users :
        (req[r].of # None /\ owners[req[r].sub] = {v})
            => req[r].user = v /\ req[r].of = v

=============================================================================
