--------------------------- MODULE OwnershipProofs ---------------------------
(***************************************************************************)
(* Accounts, clients and invoices for every number of users, emails, keys  *)
(* and overlapping requests.                                               *)
(***************************************************************************)
EXTENDS Ownership, TLAPS

(***************************************************************************)
(* Types.                                                                  *)
(***************************************************************************)
Slots ==
    [pc : Phases, user : Users \cup {None}, sub : Emails \cup {None},
     of : Users \cup {None}, rows : SUBSET (Clients \cup Invoices)]

\* a request past its first SELECT has a user
Engaged == \A r \in Requests : req[r].pc # "idle" => req[r].user \in Users
Subjects == \A r \in Requests : req[r].pc # "idle" => req[r].sub \in Emails

\* what is loaded to be billed or dropped is a client
Keyed ==
    \A r \in Requests :
        req[r].pc \in {"billing", "dropping"} => req[r].rows \subseteq Clients

Types == TypeOK /\ Engaged /\ Subjects /\ Keyed

LEMMA IdleType == Idle \in Slots
BY DEF Idle, Slots, Phases

LEMMA TypesStep == Types /\ [Next]_vars => Types'
<1> SUFFICES ASSUME Types, [Next]_vars PROVE Types'
  OBVIOUS
<1> USE IdleType DEF Types, Engaged, Subjects, Keyed, TypeOK
<1>1. CASE UNCHANGED vars
  BY <1>1 DEF vars, accounts, rows
<1>2. CASE AccountSteps /\ UNCHANGED rows
  <2>1. ASSUME NEW u \in Users, NEW e \in Emails, Register(u, e) PROVE Types'
    BY <1>2, <2>1 DEF Register, Assign, rows
  <2>2. ASSUME NEW r \in Requests, NEW u \in Users, LookUp(r, u) PROVE Types'
    <3>1. email[u] \in Emails
      BY <2>2 DEF LookUp, Live
    <3>2. [Idle EXCEPT !.pc = "verify", !.user = u, !.sub = email[u]] \in Slots
      BY <3>1 DEF Idle, Slots, Phases
    <3> QED
      BY <1>2, <2>2, <3>1, <3>2 DEF LookUp, accounts, rows, Slots, Idle
  <2>3. ASSUME NEW t \in tokens, Expire(t) PROVE Types'
    BY <1>2, <2>3 DEF Expire, rows
  <2>4. ASSUME NEW r \in Requests, NEW t \in tokens, NEW u \in Users,
               Authenticate(r, t, u)
        PROVE  Types'
    <3>1. t.sub \in Emails /\ t.of \in Users
      BY DEF Tokens
    <3>2. [pc |-> "user", user |-> u, sub |-> t.sub, of |-> t.of, rows |-> {}]
          \in Slots
      BY <3>1 DEF Slots, Phases
    <3> QED
      BY <1>2, <2>4, <3>1, <3>2 DEF Authenticate, accounts, rows, Slots
  <2>5. ASSUME NEW r \in Requests, NEW e \in Emails, Rename(r, e) PROVE Types'
    <3>1. req[r].user \in Users
      BY <2>5 DEF Rename
    <3> QED
      BY <1>2, <2>5, <3>1 DEF Rename, Assign, rows, Slots, Idle
  <2>6. ASSUME NEW r \in Requests, Issue(r) PROVE Types'
    <3>1. [sub |-> req[r].sub, of |-> req[r].user] \in Tokens
      BY <2>6 DEF Issue, Tokens
    <3> QED
      BY <1>2, <2>6, <3>1 DEF Issue, rows, Slots, Idle
  <2>7. ASSUME NEW r \in Requests, Close(r) PROVE Types'
    BY <1>2, <2>7 DEF Close, accounts, rows, Slots, Idle
  <2> QED
    BY <1>2, <2>1, <2>2, <2>3, <2>4, <2>5, <2>6, <2>7 DEF AccountSteps
<1>3. ASSUME NEW r \in Requests, NEW pc \in Phases \ {"idle"},
             NEW keys \in SUBSET (Clients \cup Invoices), Continue(r, pc, keys),
             pc \in {"billing", "dropping"} => keys \subseteq Clients
      PROVE  Types'
  <2>1. req[r].user \in Users /\ req[r].sub \in Emails
    BY <1>3 DEF Continue
  <2>2. req' = [req EXCEPT ![r] = [req[r] EXCEPT !.pc = pc, !.rows = keys]]
    BY <1>3 DEF Continue
  <2>3. [req[r] EXCEPT !.pc = pc, !.rows = keys] \in Slots
    BY <1>3 DEF Slots
  <2> QED
    BY <1>3, <2>1, <2>2, <2>3 DEF Continue, accounts, rows, Slots
<1>4. ASSUME NEW r \in Requests, NEW c \in Clients, CreateClient(r, c) PROVE Types'
  <2>1. req[r].user \in Users
    BY <1>4 DEF CreateClient, Answer
  <2> QED
    BY <1>4, <2>1 DEF CreateClient, Answer, accounts, Slots, Idle
<1>5. ASSUME NEW r \in Requests, NEW c \in Clients, CheckClient(r, c) \/ LoadClient(r, c)
      PROVE  Types'
  BY <1>3, <1>5 DEF CheckClient, LoadClient, Phases
<1>6. ASSUME NEW r \in Requests, NEW n \in Invoices, CreateInvoice(r, n) PROVE Types'
  <2>1. req[r].user \in Users /\ req[r].rows \subseteq Clients
    BY <1>6 DEF CreateInvoice, Answer
  <2>2. PICK c \in req[r].rows : owner[c] # None /\ billed' = [billed EXCEPT ![n] = c]
    BY <1>6 DEF CreateInvoice
  <2>3. req' \in [Requests -> Slots]
    BY <1>6 DEF CreateInvoice, Answer, Slots
  <2>4. /\ billed' \in [Invoices -> Clients \cup {None}]
        /\ holder' \in [Invoices -> Users \cup {None}]
        /\ taken' \in SUBSET (Clients \cup Invoices)
    BY <1>6, <2>1, <2>2 DEF CreateInvoice
  <2> QED
    BY <1>6, <2>1, <2>3, <2>4 DEF CreateInvoice, Answer, accounts, Slots, Idle
<1>7. ASSUME NEW r \in Requests, DeleteClient(r) PROVE Types'
  BY <1>7 DEF DeleteClient, Without, Answer, accounts, Slots, Idle
<1>8. ASSUME NEW r \in Requests, NEW n \in Invoices, LoadInvoice(r, n) PROVE Types'
  BY <1>3, <1>8 DEF LoadInvoice, Phases
<1>9. ASSUME NEW r \in Requests, DeleteInvoice(r) PROVE Types'
  BY <1>9 DEF DeleteInvoice, Without, Answer, accounts, Slots, Idle
<1>10. ASSUME NEW r \in Requests, Collect(r) PROVE Types'
  <2>1. ClientsOf(req[r].user) \cup InvoicesOf(req[r].user)
        \in SUBSET (Clients \cup Invoices)
    BY DEF ClientsOf, InvoicesOf
  <2> QED
    BY <1>3, <1>10, <2>1 DEF Collect, Phases
<1>11. ASSUME NEW r \in Requests, DeleteUser(r) PROVE Types'
  <2>1. email' \in [Users -> Emails \cup {None}]
    BY <1>11 DEF DeleteUser
  <2> QED
    BY <1>11, <2>1 DEF DeleteUser, Without, Slots, Idle
<1> QED
  BY <1>1, <1>2, <1>4, <1>5, <1>6, <1>7, <1>8, <1>9, <1>10, <1>11 DEF Next

\* Accounts, tokens, requests and rows are well-typed in every reachable state:
\* a row refers to a user by a key, and never by what a token says.
THEOREM OwnershipTypeCorrect == Spec => []TypeOK
<1>1. Init => Types
  <2> SUFFICES ASSUME Init PROVE Types
    OBVIOUS
  <2>1. req \in [Requests -> Slots]
    BY IdleType DEF Init, InitAccounts
  <2> QED
    BY <2>1 DEF Init, InitAccounts, Types, TypeOK, Engaged, Subjects, Keyed, Slots, Idle
<1>2. Types => TypeOK
  BY DEF Types
<1> QED
  BY <1>1, <1>2, TypesStep, PTL DEF Spec

-----------------------------------------------------------------------------
(***************************************************************************)
(* Tokens.  Whoever acts under an email, or is recorded in a token with    *)
(* it, has had that email: owners only grows.                              *)
(***************************************************************************)
Witnessed ==
    /\ \A u \in Users : Live(u) => u \in owners[email[u]]
    /\ \A t \in tokens : t.of \in owners[t.sub]
    /\ \A r \in Requests : req[r].pc # "idle" => req[r].user \in owners[req[r].sub]
    /\ \A r \in Requests :
          req[r].of # None => req[r].pc # "idle" /\ req[r].of \in owners[req[r].sub]

\* a step that gives nobody an email and makes no token
LEMMA WitnessedKept ==
    ASSUME Types, Witnessed, owners' = owners, tokens' \subseteq tokens,
           \A u \in Users : email'[u] \in {email[u], None},
           \A r \in Requests :
              \/ /\ req'[r].user = req[r].user /\ req'[r].sub = req[r].sub
                 /\ req'[r].of = req[r].of
                 /\ (req'[r].pc = "idle" <=> req[r].pc = "idle")
              \/ req'[r] = Idle
    PROVE  Witnessed'
BY NoneAssumption DEF Witnessed, Live, Idle

LEMMA WitnessedStep == Types /\ Witnessed /\ [Next]_vars => Witnessed'
<1> SUFFICES ASSUME Types, Witnessed, [Next]_vars PROVE Witnessed'
  OBVIOUS
<1>1. CASE UNCHANGED vars
  BY <1>1, WitnessedKept DEF vars, accounts
<1>2. ASSUME NEW u \in Users, NEW e \in Emails, Assign(u, e), tokens' = tokens,
             \A r \in Requests : req'[r] \in {req[r], Idle}
      PROVE  Witnessed'
  <2>1. \A f \in Emails : owners[f] \subseteq owners'[f]
    BY <1>2 DEF Assign, Types, TypeOK
  <2>2. u \in owners'[e] /\ email' = [email EXCEPT ![u] = e]
    BY <1>2 DEF Assign, Types, TypeOK
  <2>3. \A v \in Users : Live(v)' => v \in owners'[email'[v]]
    BY <2>1, <2>2 DEF Witnessed, Live, Types, TypeOK
  <2>4. \A t \in tokens' : t.of \in owners'[t.sub]
    BY <1>2, <2>1 DEF Witnessed, Types, TypeOK, Tokens
  <2>5. \A r \in Requests : req[r].pc # "idle" => req[r].sub \in Emails
    BY DEF Types, Subjects
  <2>6. \A r \in Requests :
          /\ req'[r].pc # "idle" => req'[r].user \in owners'[req'[r].sub]
          /\ req'[r].of # None =>
                req'[r].pc # "idle" /\ req'[r].of \in owners'[req'[r].sub]
    BY <1>2, <2>1, <2>5 DEF Witnessed, Idle
  <2> QED
    BY <2>3, <2>4, <2>6 DEF Witnessed
<1>3. CASE AccountSteps /\ UNCHANGED rows
  <2>1. ASSUME NEW u \in Users, NEW e \in Emails, Register(u, e) PROVE Witnessed'
    <3>1. CASE Free(e, u)
      BY <1>2, <2>1, <3>1 DEF Register
    <3>2. CASE ~ Free(e, u)
      BY <2>1, <3>2, WitnessedKept DEF Register
    <3> QED
      BY <3>1, <3>2
  <2>2. ASSUME NEW r \in Requests, NEW u \in Users, LookUp(r, u) PROVE Witnessed'
    <3>1. /\ req'[r] = [Idle EXCEPT !.pc = "verify", !.user = u, !.sub = email[u]]
          /\ \A q \in Requests \ {r} : req'[q] = req[q]
      BY <2>2 DEF LookUp, Types, TypeOK
    <3>2. /\ req'[r].user = u /\ req'[r].sub = email[u]
          /\ req'[r].of = None
      BY <3>1 DEF Idle
    <3>3. u \in owners[email[u]]
      BY <2>2 DEF LookUp, Witnessed
    <3> QED
      BY <2>2, <3>1, <3>2, <3>3 DEF Witnessed, LookUp, accounts, Live
  <2>3. ASSUME NEW t \in tokens, Expire(t) PROVE Witnessed'
    BY <2>3, WitnessedKept DEF Expire
  <2>4. ASSUME NEW r \in Requests, NEW t \in tokens, NEW u \in Users,
               Authenticate(r, t, u)
        PROVE  Witnessed'
    <3>1. /\ req'[r] = [pc |-> "user", user |-> u, sub |-> t.sub, of |-> t.of,
                        rows |-> {}]
          /\ \A q \in Requests \ {r} : req'[q] = req[q]
      BY <2>4 DEF Authenticate, Types, TypeOK
    <3>2. t.sub \in Emails /\ email[u] = t.sub
      BY <2>4 DEF Authenticate, Holder, Types, TypeOK, Tokens
    <3>3. u \in owners[t.sub] /\ t.of \in owners[t.sub]
      BY <3>2, NoneAssumption DEF Witnessed, Live
    <3> QED
      BY <2>4, <3>1, <3>3 DEF Witnessed, Authenticate, accounts, Live
  <2>5. ASSUME NEW r \in Requests, NEW e \in Emails, Rename(r, e) PROVE Witnessed'
    <3>1. req[r].user \in Users
      BY <2>5 DEF Rename, Types, Engaged
    <3>2. \A q \in Requests : req'[q] \in {req[q], Idle}
      BY <2>5 DEF Rename, Types, TypeOK
    <3> QED
      BY <1>2, <2>5, <3>1, <3>2 DEF Rename
  <2>6. ASSUME NEW r \in Requests, Issue(r) PROVE Witnessed'
    <3>1. req[r].user \in owners[req[r].sub]
      BY <2>6 DEF Issue, Witnessed
    <3>2. \A q \in Requests : req'[q] \in {req[q], Idle}
      BY <2>6 DEF Issue, Types, TypeOK
    <3>3. \A t \in tokens' : t.of \in owners'[t.sub]
      BY <2>6, <3>1 DEF Witnessed, Issue
    <3>4. \A q \in Requests :
            /\ req'[q].pc # "idle" => req'[q].user \in owners'[req'[q].sub]
            /\ req'[q].of # None =>
                  req'[q].pc # "idle" /\ req'[q].of \in owners'[req'[q].sub]
      BY <2>6, <3>2 DEF Witnessed, Issue, Idle
    <3> QED
      BY <2>6, <3>3, <3>4 DEF Witnessed, Issue, Live
  <2>7. ASSUME NEW r \in Requests, Close(r) PROVE Witnessed'
    <3>1. \A q \in Requests : req'[q] \in {req[q], Idle}
      BY <2>7 DEF Close, Types, TypeOK
    <3> QED
      BY <2>7, <3>1, WitnessedKept DEF Close, accounts
  <2> QED
    BY <1>3, <2>1, <2>2, <2>3, <2>4, <2>5, <2>6, <2>7 DEF AccountSteps
<1>4. ASSUME NEW r \in Requests, NEW pc \in Phases \ {"idle"}, NEW keys,
             Continue(r, pc, keys)
      PROVE  Witnessed'
  <2>1. \A q \in Requests :
          /\ req'[q].user = req[q].user /\ req'[q].sub = req[q].sub
          /\ req'[q].of = req[q].of /\ (req'[q].pc = "idle" <=> req[q].pc = "idle")
    <3>1. req'[r] = [req[r] EXCEPT !.pc = pc, !.rows = keys]
      BY <1>4 DEF Continue, Types, TypeOK
    <3>2. \A q \in Requests \ {r} : req'[q] = req[q]
      BY <1>4 DEF Continue, Types, TypeOK
    <3>3. req[r] \in Slots
      BY DEF Types, TypeOK, Slots
    <3>4. /\ req'[r].pc = pc /\ req'[r].user = req[r].user
          /\ req'[r].sub = req[r].sub /\ req'[r].of = req[r].of
      BY <3>1, <3>3 DEF Slots
    <3>5. req[r].pc # "idle" /\ req'[r].pc # "idle"
      BY <1>4, <3>4 DEF Continue
    <3> QED
      BY <3>2, <3>4, <3>5
  <2> QED
    BY <1>4, <2>1, WitnessedKept DEF Continue, accounts
<1>5. ASSUME NEW r \in Requests, NEW pc, Answer(r, pc) PROVE Witnessed'
  <2>1. \A q \in Requests : req'[q] \in {req[q], Idle}
    BY <1>5 DEF Answer, Types, TypeOK
  <2> QED
    BY <1>5, <2>1, WitnessedKept DEF Answer, accounts
<1>6. ASSUME NEW r \in Requests, DeleteUser(r) PROVE Witnessed'
  <2>1. \A q \in Requests : req'[q] \in {req[q], Idle}
    BY <1>6 DEF DeleteUser, Types, TypeOK
  <2>2. \A u \in Users : email'[u] \in {email[u], None}
    BY <1>6 DEF DeleteUser, Types, TypeOK
  <2> QED
    BY <1>6, <2>1, <2>2, WitnessedKept DEF DeleteUser
<1> QED
  BY <1>1, <1>3, <1>4, <1>5, <1>6
  DEF Next, CreateClient, CheckClient, CreateInvoice, LoadClient, DeleteClient,
      LoadInvoice, DeleteInvoice, Collect, Phases

\* A request acts for the user its token was issued to unless the email in the
\* token has had a second owner (dependencies.py:34), whatever happens to the
\* account between log-in, token and request.
THEOREM TokenActsForHolder == Spec => []ActsForHolder
<1>1. Init => Types /\ Witnessed
  <2> SUFFICES ASSUME Init PROVE Types /\ Witnessed
    OBVIOUS
  <2>1. req \in [Requests -> Slots]
    BY IdleType DEF Init, InitAccounts
  <2> QED
    BY <2>1 DEF Init, InitAccounts, Types, TypeOK, Engaged, Subjects, Keyed,
                Slots, Idle, Witnessed, Live
<1>2. Types /\ Witnessed => ActsForHolder
  BY DEF ActsForHolder, Witnessed
<1> QED
  BY <1>1, <1>2, TypesStep, WitnessedStep, PTL DEF Spec

-----------------------------------------------------------------------------
(***************************************************************************)
(* Rows.  A request decides on rows it loaded some awaits ago: what keeps  *)
(* that safe is that keys are never handed out twice and that a row never  *)
(* changes hands, so that a loaded row is still the user's, or is gone.    *)
(***************************************************************************)
Recorded ==
    /\ \A u \in Users : Live(u) => u \in used
    /\ \A c \in Clients : owner[c] # None => c \in taken
    /\ \A n \in Invoices : holder[n] # None => n \in taken
    /\ \A n \in Invoices : holder[n] = None <=> billed[n] = None

Loaded ==
    \A r \in Requests : \A k \in req[r].rows :
        /\ k \in taken
        /\ k \in Clients => owner[k] \in {req[r].user, None}
        /\ k \in Invoices => holder[k] \in {req[r].user, None}

\* what DELETE loaded is one row
Picked ==
    \A r \in Requests :
        /\ req[r].pc = "dropping" => \E c \in Clients : req[r].rows = {c}
        /\ req[r].pc = "erasing" => \E n \in Invoices : req[r].rows = {n}

Kinds == Recorded /\ Loaded /\ Picked /\ Rooted

\* a step that inserts no row
LEMMA LoadedKept ==
    ASSUME Types, Loaded, taken' = taken,
           \A c \in Clients : owner'[c] \in {owner[c], None},
           \A n \in Invoices : holder'[n] \in {holder[n], None},
           \A q \in Requests : req'[q] = req[q] \/ req'[q].rows = {}
    PROVE  Loaded'
BY DEF Loaded, Types, TypeOK

\* a handler that goes on with rows it found to be its user's
LEMMA LoadedContinue ==
    ASSUME Types, Loaded, Picked, NEW r \in Requests, NEW pc \in Phases \ {"idle"},
           NEW keys \in SUBSET (ClientsOf(req[r].user) \cup InvoicesOf(req[r].user)),
           Continue(r, pc, keys), Recorded,
           pc = "dropping" => \E c \in Clients : keys = {c},
           pc = "erasing" => \E n \in Invoices : keys = {n}
    PROVE  Loaded' /\ Picked'
<1>1. req' = [req EXCEPT ![r] = [req[r] EXCEPT !.pc = pc, !.rows = keys]]
  BY DEF Continue, Types, TypeOK
<1>2. req[r] \in Slots
  BY DEF Types, TypeOK, Slots
<1>3. /\ req'[r].pc = pc /\ req'[r].rows = keys /\ req'[r].user = req[r].user
      /\ \A q \in Requests \ {r} : req'[q] = req[q]
  BY <1>1, <1>2 DEF Slots, Types, TypeOK
<1>4. req[r].user \in Users
  BY DEF Continue, Types, Engaged
<1>5. /\ \A k \in keys : k \in taken
      /\ \A k \in keys : k \in Clients => owner[k] = req[r].user
      /\ \A k \in keys : k \in Invoices => holder[k] = req[r].user
  BY <1>4, NoneAssumption, KeysAssumption DEF Recorded, ClientsOf, InvoicesOf
<1>6. UNCHANGED <<owner, holder, taken>>
  BY DEF Continue, rows
<1>7. Loaded'
  BY <1>3, <1>5, <1>6 DEF Loaded
<1>8. Picked'
  BY <1>3 DEF Picked
<1> QED
  BY <1>7, <1>8

\* a step that leaves the rows of clients and invoices, and deletes no user
LEMMA RowsKept ==
    ASSUME Types, Kinds, UNCHANGED rows,
           \A u \in Users : Live(u) => Live(u)',
           \A u \in Users : Live(u)' => u \in used',
           \A q \in Requests :
              \/ req'[q] = req[q]
              \/ req'[q].rows = {} /\ req'[q].pc \notin {"dropping", "erasing"}
    PROVE  Kinds'
<1>1. Loaded'
  BY LoadedKept DEF Kinds, rows
<1>2. Picked'
  BY DEF Kinds, Picked
<1>3. Recorded'
  BY DEF Kinds, Recorded, rows
<1>4. Rooted'
  BY DEF Kinds, Rooted, ClientsOf, rows, Types, TypeOK
<1> QED
  BY <1>1, <1>2, <1>3, <1>4 DEF Kinds

\* a request that answers forgets its rows
LEMMA Answered ==
    ASSUME Types, Kinds, NEW r \in Requests, req' = [req EXCEPT ![r] = Idle]
    PROVE  /\ \A q \in Requests : req'[q] = req[q] \/ req'[q] = Idle
           /\ \A q \in Requests : req'[q] = req[q] \/ req'[q].rows = {}
           /\ Picked'
BY DEF Types, TypeOK, Kinds, Picked, Idle

LEMMA KindsAccounts ==
    ASSUME Types, Kinds, AccountSteps, UNCHANGED rows
    PROVE  Kinds'
<1>1. ASSUME NEW u \in Users, NEW e \in Emails, Register(u, e) PROVE Kinds'
  <2>1. \A v \in Users : Live(v) => Live(v)'
    BY <1>1, NoneAssumption DEF Register, Assign, Live, Types, TypeOK
  <2>2. \A v \in Users : Live(v)' => v \in used'
    BY <1>1 DEF Register, Assign, Live, Types, TypeOK, Kinds, Recorded
  <2> QED
    BY <1>1, <2>1, <2>2, RowsKept DEF Register
<1>2. ASSUME NEW r \in Requests, NEW u \in Users, LookUp(r, u) PROVE Kinds'
  <2>1. \A q \in Requests : req'[q] = req[q] \/
            (req'[q].rows = {} /\ req'[q].pc \notin {"dropping", "erasing"})
    BY <1>2 DEF LookUp, Idle, Types, TypeOK
  <2> QED
    BY <1>2, <2>1, RowsKept DEF LookUp, accounts, Live, Kinds, Recorded
<1>3. ASSUME NEW t \in tokens, Expire(t) PROVE Kinds'
  BY <1>3, RowsKept DEF Expire, Live, Kinds, Recorded
<1>4. ASSUME NEW r \in Requests, NEW t \in tokens, NEW u \in Users,
             Authenticate(r, t, u)
      PROVE  Kinds'
  <2>1. \A q \in Requests : req'[q] = req[q] \/
            (req'[q].rows = {} /\ req'[q].pc \notin {"dropping", "erasing"})
    BY <1>4 DEF Authenticate, Types, TypeOK
  <2> QED
    BY <1>4, <2>1, RowsKept DEF Authenticate, accounts, Live, Kinds, Recorded
<1>5. ASSUME NEW r \in Requests, NEW e \in Emails, Rename(r, e) PROVE Kinds'
  <2>1. \A q \in Requests : req'[q] = req[q] \/
            (req'[q].rows = {} /\ req'[q].pc \notin {"dropping", "erasing"})
    BY <1>5 DEF Rename, Idle, Types, TypeOK
  <2>2. \A v \in Users : Live(v) <=> Live(v)'
    BY <1>5, NoneAssumption DEF Rename, Assign, Live, Types, TypeOK
  <2> QED
    BY <1>5, <2>1, <2>2, RowsKept DEF Rename, Kinds, Recorded
<1>6. ASSUME NEW r \in Requests, Issue(r) \/ Close(r) PROVE Kinds'
  <2>1. \A q \in Requests : req'[q] = req[q] \/
            (req'[q].rows = {} /\ req'[q].pc \notin {"dropping", "erasing"})
    BY <1>6 DEF Issue, Close, Idle, Types, TypeOK
  <2> QED
    BY <1>6, <2>1, RowsKept DEF Issue, Close, accounts, Live, Kinds, Recorded
<1> QED
  BY <1>1, <1>2, <1>3, <1>4, <1>5, <1>6 DEF AccountSteps

LEMMA KindsContinue ==
    ASSUME Types, Kinds, NEW r \in Requests, NEW pc \in Phases \ {"idle"},
           NEW keys \in SUBSET (ClientsOf(req[r].user) \cup InvoicesOf(req[r].user)),
           Continue(r, pc, keys),
           pc = "dropping" => \E c \in Clients : keys = {c},
           pc = "erasing" => \E n \in Invoices : keys = {n}
    PROVE  Kinds'
<1>1. Loaded' /\ Picked'
  BY LoadedContinue DEF Kinds
<1>2. Recorded'
  BY DEF Continue, accounts, rows, Live, Kinds, Recorded
<1>3. Rooted'
  BY DEF Continue, accounts, rows, Live, Kinds, Rooted, ClientsOf
<1> QED
  BY <1>1, <1>2, <1>3 DEF Kinds

LEMMA KindsStep == Types /\ Kinds /\ [Next]_vars => Kinds'
<1> SUFFICES ASSUME Types, Kinds, [Next]_vars PROVE Kinds'
  OBVIOUS
<1>1. CASE UNCHANGED vars
  BY <1>1 DEF vars, accounts, rows, Kinds, Recorded, Loaded, Picked, Rooted,
              Live, ClientsOf
<1>2. CASE AccountSteps /\ UNCHANGED rows
  BY <1>2, KindsAccounts
<1>3. ASSUME NEW r \in Requests, NEW c \in Clients, CreateClient(r, c) PROVE Kinds'
  <2>1. /\ Live(req[r].user) /\ c \notin taken /\ taken' = taken \cup {c}
        /\ owner' = [owner EXCEPT ![c] = req[r].user]
        /\ req' = [req EXCEPT ![r] = Idle]
        /\ UNCHANGED <<email, used, holder, billed>>
    BY <1>3 DEF CreateClient, Answer, UserRow, accounts
  <2>2. owner[c] = None /\ req[r].user \in Users
    BY <1>3 DEF CreateClient, Answer, Types, Engaged, Kinds, Recorded
  <2>3. Recorded'
    BY <2>1, <2>2, KeysAssumption DEF Kinds, Recorded, Live, Types, TypeOK
  <2>4. Loaded'
    <3>1. \A q \in Requests : req'[q] = req[q] \/ req'[q].rows = {}
      BY <2>1, Answered
    <3>2. \A q \in Requests : c \notin req[q].rows
      BY <2>1 DEF Kinds, Loaded
    <3>3. \A k \in Clients \ {c} : owner'[k] = owner[k]
      BY <2>1 DEF Types, TypeOK
    <3> QED
      BY <2>1, <3>1, <3>2, <3>3, KeysAssumption DEF Kinds, Loaded
  <2>5. \A n \in Invoices : holder[n] # None => billed[n] # c
    BY <2>2, NoneAssumption DEF Kinds, Rooted, ClientsOf, Types, TypeOK
  <2>6. Rooted'
    BY <2>1, <2>2, <2>5 DEF Kinds, Rooted, ClientsOf, Live, Types, TypeOK
  <2> QED
    BY <2>1, <2>3, <2>4, <2>6, Answered DEF Kinds
<1>4. ASSUME NEW r \in Requests, NEW c \in Clients, CheckClient(r, c) \/ LoadClient(r, c)
      PROVE  Kinds'
  BY <1>4, KindsContinue DEF CheckClient, LoadClient, ClientsOf, Phases
<1>5. ASSUME NEW r \in Requests, NEW n \in Invoices, CreateInvoice(r, n) PROVE Kinds'
  <2>1. PICK c \in req[r].rows : owner[c] # None /\ billed' = [billed EXCEPT ![n] = c]
    BY <1>5 DEF CreateInvoice
  <2>2. /\ Live(req[r].user) /\ n \notin taken /\ taken' = taken \cup {n}
        /\ holder' = [holder EXCEPT ![n] = req[r].user]
        /\ req' = [req EXCEPT ![r] = Idle]
        /\ UNCHANGED <<email, used, owner>>
    BY <1>5 DEF CreateInvoice, Answer, UserRow, accounts
  <2>3. req[r].user \in Users /\ c \in Clients
    BY <1>5 DEF CreateInvoice, Answer, Types, Engaged, Keyed
  <2>4. owner[c] = req[r].user
    BY <2>1, <2>3 DEF Kinds, Loaded
  <2>5. Recorded'
    BY <2>1, <2>2, <2>3, NoneAssumption, KeysAssumption
    DEF Kinds, Recorded, Live, Types, TypeOK
  <2>6. Loaded'
    <3>1. \A q \in Requests : req'[q] = req[q] \/ req'[q].rows = {}
      BY <2>2, Answered
    <3>2. \A q \in Requests : n \notin req[q].rows
      BY <2>2 DEF Kinds, Loaded
    <3>3. \A k \in Invoices \ {n} : holder'[k] = holder[k]
      BY <2>2 DEF Types, TypeOK
    <3> QED
      BY <2>2, <3>1, <3>2, <3>3, KeysAssumption DEF Kinds, Loaded
  <2>7. Rooted'
    BY <2>1, <2>2, <2>3, <2>4 DEF Kinds, Rooted, ClientsOf, Live, Types, TypeOK
  <2> QED
    BY <2>2, <2>5, <2>6, <2>7, Answered DEF Kinds
<1>6. ASSUME NEW r \in Requests, DeleteClient(r) PROVE Kinds'
  <2>1. /\ req[r].pc = "dropping" /\ BilledTo(req[r].rows) = {}
        /\ owner' = Without(owner, req[r].rows)
        /\ req' = [req EXCEPT ![r] = Idle]
        /\ UNCHANGED <<email, used, holder, billed, taken>>
    BY <1>6 DEF DeleteClient, Answer, accounts
  <2>2. Recorded'
    BY <2>1 DEF Kinds, Recorded, Live, Without, Types, TypeOK
  <2>3. Loaded'
    BY <2>1, Answered, LoadedKept DEF Kinds, Without, Types, TypeOK
  <2>4. Rooted'
    BY <2>1 DEF Kinds, Rooted, ClientsOf, BilledTo, Live, Without, Types, TypeOK
  <2> QED
    BY <2>1, <2>2, <2>3, <2>4, Answered DEF Kinds
<1>7. ASSUME NEW r \in Requests, NEW n \in Invoices, LoadInvoice(r, n) PROVE Kinds'
  BY <1>7, KindsContinue DEF LoadInvoice, InvoicesOf, Phases
<1>8. ASSUME NEW r \in Requests, DeleteInvoice(r) PROVE Kinds'
  <2>1. /\ holder' = Without(holder, req[r].rows)
        /\ billed' = Without(billed, req[r].rows)
        /\ req' = [req EXCEPT ![r] = Idle]
        /\ UNCHANGED <<email, used, owner, taken>>
    BY <1>8 DEF DeleteInvoice, Answer, accounts
  <2>2. Recorded'
    BY <2>1 DEF Kinds, Recorded, Live, Without, Types, TypeOK
  <2>3. Loaded'
    BY <2>1, Answered, LoadedKept DEF Kinds, Without, Types, TypeOK
  <2>4. Rooted'
    BY <2>1 DEF Kinds, Rooted, ClientsOf, Live, Without, Types, TypeOK
  <2> QED
    BY <2>1, <2>2, <2>3, <2>4, Answered DEF Kinds
<1>9. ASSUME NEW r \in Requests, Collect(r) PROVE Kinds'
  BY <1>9, KindsContinue DEF Collect, Phases
<1>10. ASSUME NEW r \in Requests, DeleteUser(r) PROVE Kinds'
  <2> DEFINE u == req[r].user
             gone == req[r].rows
  <2>1. /\ Covers(u, gone)
        /\ email' = [email EXCEPT ![u] = None]
        /\ owner' = Without(owner, gone)
        /\ holder' = Without(holder, gone)
        /\ billed' = Without(billed, gone)
        /\ req' = [req EXCEPT ![r] = Idle]
        /\ UNCHANGED <<used, taken>>
    BY <1>10 DEF DeleteUser
  <2>2. Recorded'
    BY <2>1 DEF Kinds, Recorded, Live, Without, Types, TypeOK
  <2>3. Loaded'
    BY <2>1, Answered, LoadedKept DEF Kinds, Without, Types, TypeOK
  <2>4. ASSUME NEW c \in Clients, owner'[c] # None
        PROVE  email'[owner'[c]] # None
    <3>1. c \notin gone /\ owner'[c] = owner[c]
      BY <2>1, <2>4 DEF Without, Types, TypeOK
    <3>2. owner[c] # u /\ owner[c] \in Users /\ email[owner[c]] # None
      BY <2>1, <2>4, <3>1 DEF Covers, ClientsOf, Kinds, Rooted, Live, Types, TypeOK
    <3> QED
      BY <2>1, <3>1, <3>2 DEF Types, TypeOK
  <2>5. ASSUME NEW n \in Invoices, holder'[n] # None
        PROVE  /\ email'[holder'[n]] # None /\ billed'[n] \in Clients
               /\ owner'[billed'[n]] = holder'[n]
    <3>1. n \notin gone /\ holder'[n] = holder[n] /\ billed'[n] = billed[n]
      BY <2>1, <2>5 DEF Without, Types, TypeOK
    <3>2. holder[n] # u /\ Live(holder[n]) /\ billed[n] \in ClientsOf(holder[n])
      BY <2>1, <2>5, <3>1 DEF Covers, InvoicesOf, Kinds, Rooted
    <3>3. billed[n] \in Clients \ gone
      BY <2>1, <3>1, <3>2 DEF Covers, BilledTo, ClientsOf
    <3>4. owner'[billed[n]] = owner[billed[n]]
      BY <2>1, <3>3 DEF Without, Types, TypeOK
    <3>5. email'[holder[n]] # None
      BY <2>1, <2>5, <3>1, <3>2 DEF Live, Types, TypeOK
    <3> QED
      BY <3>1, <3>2, <3>3, <3>4, <3>5 DEF ClientsOf
  <2>6. Rooted'
    BY <2>4, <2>5 DEF Rooted, ClientsOf, Live
  <2> QED
    BY <2>1, <2>2, <2>3, <2>6, Answered DEF Kinds
<1> QED
  BY <1>1, <1>2, <1>3, <1>4, <1>5, <1>6, <1>7, <1>8, <1>9, <1>10 DEF Next

LEMMA KindsInit == Init => Types /\ Kinds
<1> SUFFICES ASSUME Init PROVE Types /\ Kinds
  OBVIOUS
<1>1. req \in [Requests -> Slots]
  BY IdleType DEF Init, InitAccounts
<1>2. Types
  BY <1>1 DEF Init, InitAccounts, Types, TypeOK, Engaged, Subjects, Keyed, Slots, Idle
<1>3. Kinds
  BY DEF Init, InitAccounts, Kinds, Recorded, Loaded, Picked, Rooted, Idle, Live
<1> QED
  BY <1>2, <1>3

\* Every client has a living user and every invoice a client of its user
\* (models.py:37-66), whatever checks, deletions and inserts overlap.
THEOREM RowsStayRooted == Spec => []Rooted
<1>1. Kinds => Rooted
  BY DEF Kinds
<1> QED
  BY <1>1, KindsInit, TypesStep, KindsStep, PTL DEF Spec

-----------------------------------------------------------------------------
(***************************************************************************)
(* The tree.  A column and the set of pairs the tree keeps say the same.   *)
(***************************************************************************)
LEMMA SamePairs ==
    ASSUME NEW A, NEW B, NEW S, NEW T, S \subseteq A \X B, T \subseteq A \X B,
           \A a \in A, b \in B : <<a, b>> \in S <=> <<a, b>> \in T
    PROVE  S = T
<1>1. \A p \in A \X B : \E a \in A, b \in B : p = <<a, b>>
  OBVIOUS
<1>2. \A p \in A \X B : p \in S <=> p \in T
  BY <1>1
<1> QED
  BY <1>2

LEMMA PairsOfRegistered ==
    ASSUME Types
    PROVE  /\ \A u \in Users, e \in Emails : <<u, e>> \in Registered <=> email[u] = e
           /\ Registered \subseteq Users \X Emails
BY NoneAssumption DEF Registered, Live, Types, TypeOK

LEMMA PairsOfOwned ==
    ASSUME Types
    PROVE  /\ \A c \in Clients, u \in Users : <<c, u>> \in Owned <=> owner[c] = u
           /\ Owned \subseteq Clients \X Users
BY NoneAssumption DEF Owned, Types, TypeOK

LEMMA PairsOfBilled ==
    ASSUME Types
    PROVE  /\ \A n \in Invoices, c \in Clients : <<n, c>> \in Billed <=> billed[n] = c
           /\ Billed \subseteq Invoices \X Clients
BY KeysAssumption DEF Billed, Types, TypeOK

\* the same in the next state
LEMMA PairsAfter ==
    ASSUME Types'
    PROVE  /\ \A u \in Users, e \in Emails : <<u, e>> \in Registered' <=> email'[u] = e
           /\ Registered' \subseteq Users \X Emails
           /\ \A c \in Clients, u \in Users : <<c, u>> \in Owned' <=> owner'[c] = u
           /\ Owned' \subseteq Clients \X Users
           /\ \A n \in Invoices, c \in Clients : <<n, c>> \in Billed' <=> billed'[n] = c
           /\ Billed' \subseteq Invoices \X Clients
<1>1. /\ email' \in [Users -> Emails \cup {None}]
      /\ owner' \in [Clients -> Users \cup {None}]
      /\ billed' \in [Invoices -> Clients \cup {None}]
  BY DEF Types, TypeOK
<1>2. /\ \A u \in Users, e \in Emails : <<u, e>> \in Registered' <=> email'[u] = e
      /\ Registered' \subseteq Users \X Emails
  BY <1>1, NoneAssumption DEF Registered, Live
<1>3. /\ \A c \in Clients, u \in Users : <<c, u>> \in Owned' <=> owner'[c] = u
      /\ Owned' \subseteq Clients \X Users
  BY <1>1, NoneAssumption DEF Owned
<1>4. /\ \A n \in Invoices, c \in Clients : <<n, c>> \in Billed' <=> billed'[n] = c
      /\ Billed' \subseteq Invoices \X Clients
  BY <1>1, KeysAssumption DEF Billed
<1> QED
  BY <1>2, <1>3, <1>4

LEMMA PairsOfSame ==
    /\ UNCHANGED email => UNCHANGED Registered
    /\ UNCHANGED owner => UNCHANGED Owned
    /\ UNCHANGED billed => UNCHANGED Billed
BY DEF Registered, Owned, Billed, Live

\* an account whose email becomes e, having had none or another
LEMMA TreeAssign ==
    ASSUME Types, Types', NEW u \in Users, NEW e \in Emails,
           Free(e, u), email[u] # e, email' = [email EXCEPT ![u] = e], UNCHANGED rows
    PROVE  Tree!Next
<1>1. UNCHANGED <<Owned, Billed>>
  BY PairsOfSame DEF rows
<1>2. Tree!Vacant(e)
  BY PairsOfRegistered DEF Tree!Vacant, Free
<1>3. Registered' = (Registered \ ({u} \X Emails)) \cup {<<u, e>>}
  <2>1. \A v \in Users, f \in Emails :
          <<v, f>> \in Registered' <=>
              <<v, f>> \in (Registered \ ({u} \X Emails)) \cup {<<u, e>>}
    <3> SUFFICES ASSUME NEW v \in Users, NEW f \in Emails
                 PROVE  <<v, f>> \in Registered' <=>
                     <<v, f>> \in (Registered \ ({u} \X Emails)) \cup {<<u, e>>}
      OBVIOUS
    <3>1. /\ <<v, f>> \in Registered' <=> email'[v] = f
          /\ <<v, f>> \in Registered <=> email[v] = f
      BY PairsOfRegistered, PairsAfter
    <3>2. email'[v] = IF v = u THEN e ELSE email[v]
      BY DEF Types, TypeOK
    <3>3. <<v, f>> \in {u} \X Emails <=> v = u
      OBVIOUS
    <3>4. <<v, f>> = <<u, e>> <=> v = u /\ f = e
      OBVIOUS
    <3> QED
      BY <3>1, <3>2, <3>3, <3>4
  <2>2. (Registered \ ({u} \X Emails)) \cup {<<u, e>>} \subseteq Users \X Emails
    BY PairsOfRegistered
  <2>3. Registered' \subseteq Users \X Emails
    BY PairsAfter
  <2> QED
    BY <2>1, <2>2, <2>3, SamePairs
<1>4. CASE Tree!HasAccount(u)
  BY <1>1, <1>2, <1>3, <1>4 DEF Tree!Next, Tree!Move
<1>5. CASE ~ Tree!HasAccount(u)
  <2>1. Registered \cap ({u} \X Emails) = {}
    BY <1>5 DEF Tree!HasAccount
  <2>2. Registered' = Registered \cup {<<u, e>>}
    BY <1>3, <2>1
  <2> QED
    BY <1>1, <1>2, <1>5, <2>2 DEF Tree!Next, Tree!Join
<1> QED
  BY <1>4, <1>5

LEMMA TreeAccounts ==
    ASSUME Types, Types', Kinds, AccountSteps, UNCHANGED rows
    PROVE  [Tree!Next]_(Tree!tree)
<1>1. UNCHANGED <<Owned, Billed>>
  BY PairsOfSame DEF rows
<1>2. ASSUME UNCHANGED email PROVE UNCHANGED Tree!tree
  BY <1>1, <1>2, PairsOfSame DEF Tree!tree
<1>3. ASSUME NEW u \in Users, NEW e \in Emails, Register(u, e)
      PROVE  [Tree!Next]_(Tree!tree)
  <2>1. CASE Free(e, u)
    <3>1. email[u] # e
      BY <1>3, NoneAssumption DEF Register, Kinds, Recorded, Live
    <3>2. email' = [email EXCEPT ![u] = e]
      BY <1>3, <2>1 DEF Register, Assign
    <3> QED
      BY <2>1, <3>1, <3>2, TreeAssign
  <2>2. CASE ~ Free(e, u)
    BY <1>2, <1>3, <2>2 DEF Register
  <2> QED
    BY <2>1, <2>2
<1>4. ASSUME NEW r \in Requests, NEW e \in Emails, Rename(r, e)
      PROVE  [Tree!Next]_(Tree!tree)
  <2>1. /\ req[r].user \in Users /\ Free(e, req[r].user)
        /\ email' = [email EXCEPT ![req[r].user] = e]
    BY <1>4 DEF Rename, Assign, Types, Engaged
  <2>2. CASE email[req[r].user] = e
    <3>1. email' = email
      BY <2>1, <2>2 DEF Types, TypeOK
    <3> QED
      BY <1>2, <3>1
  <2>3. CASE email[req[r].user] # e
    BY <2>1, <2>3, TreeAssign
  <2> QED
    BY <2>2, <2>3
<1> QED
  BY <1>2, <1>3, <1>4
  DEF AccountSteps, LookUp, Expire, Authenticate, Issue, Close, accounts

LEMMA TreeAddClient ==
    ASSUME Types, Types', NEW u \in Users, NEW c \in Clients, Live(u),
           owner[c] = None, owner' = [owner EXCEPT ![c] = u], UNCHANGED <<email, billed>>
    PROVE  Tree!Next
<1>1. UNCHANGED <<Registered, Billed>>
  BY PairsOfSame
<1>2. Tree!HasAccount(u)
  BY PairsOfRegistered DEF Tree!HasAccount, Live, Types, TypeOK
<1>3. Owned \cap ({c} \X Users) = {}
  BY PairsOfOwned, NoneAssumption
<1>4. Owned' = Owned \cup {<<c, u>>}
  <2>1. ASSUME NEW d \in Clients, NEW v \in Users
        PROVE  <<d, v>> \in Owned' <=> <<d, v>> \in Owned \cup {<<c, u>>}
    <3>1. /\ <<d, v>> \in Owned' <=> owner'[d] = v
          /\ <<d, v>> \in Owned <=> owner[d] = v
      BY PairsOfOwned, PairsAfter
    <3>2. owner'[d] = IF d = c THEN u ELSE owner[d]
      BY DEF Types, TypeOK
    <3> QED
      BY <3>1, <3>2, NoneAssumption
  <2>2. Owned \cup {<<c, u>>} \subseteq Clients \X Users
    BY PairsOfOwned
  <2>3. Owned' \subseteq Clients \X Users
    BY PairsAfter
  <2> QED
    BY <2>1, <2>2, <2>3, SamePairs
<1> QED
  BY <1>1, <1>2, <1>3, <1>4 DEF Tree!Next, Tree!AddClient

LEMMA TreeBill ==
    ASSUME Types, Types', NEW u \in Users, NEW c \in Clients, NEW n \in Invoices,
           owner[c] = u, billed[n] = None, billed' = [billed EXCEPT ![n] = c],
           UNCHANGED <<email, owner>>
    PROVE  Tree!Next
<1>1. UNCHANGED <<Registered, Owned>>
  BY PairsOfSame
<1>2. <<c, u>> \in Owned
  BY PairsOfOwned
<1>3. Billed \cap ({n} \X Clients) = {}
  BY PairsOfBilled, KeysAssumption
<1>4. Billed' = Billed \cup {<<n, c>>}
  <2>1. ASSUME NEW m \in Invoices, NEW d \in Clients
        PROVE  <<m, d>> \in Billed' <=> <<m, d>> \in Billed \cup {<<n, c>>}
    <3>1. /\ <<m, d>> \in Billed' <=> billed'[m] = d
          /\ <<m, d>> \in Billed <=> billed[m] = d
      BY PairsOfBilled, PairsAfter
    <3>2. billed'[m] = IF m = n THEN c ELSE billed[m]
      BY DEF Types, TypeOK
    <3> QED
      BY <3>1, <3>2, KeysAssumption
  <2>2. Billed \cup {<<n, c>>} \subseteq Invoices \X Clients
    BY PairsOfBilled
  <2>3. Billed' \subseteq Invoices \X Clients
    BY PairsAfter
  <2> QED
    BY <2>1, <2>2, <2>3, SamePairs
<1> QED
  BY <1>1, <1>2, <1>3, <1>4 DEF Tree!Next, Tree!Bill

LEMMA TreeDropClient ==
    ASSUME Types, Types', NEW c \in Clients, BilledTo({c}) = {},
           owner' = Without(owner, {c}), UNCHANGED <<email, billed>>
    PROVE  [Tree!Next]_(Tree!tree)
<1>1. UNCHANGED <<Registered, Billed>>
  BY PairsOfSame
<1>2. CASE owner[c] = None
  <2>1. owner' = owner
    BY <1>2 DEF Without, Types, TypeOK
  <2> QED
    BY <1>1, <2>1, PairsOfSame DEF Tree!tree
<1>3. CASE owner[c] # None
  <2> DEFINE u == owner[c]
  <2>1. u \in Users /\ <<c, u>> \in Owned
    BY <1>3, PairsOfOwned DEF Types, TypeOK
  <2>2. Billed \cap (Invoices \X {c}) = {}
    BY PairsOfBilled DEF BilledTo
  <2>3. Owned' = Owned \ {<<c, u>>}
    <3>1. ASSUME NEW d \in Clients, NEW v \in Users
          PROVE  <<d, v>> \in Owned' <=> <<d, v>> \in Owned \ {<<c, u>>}
      <4>1. /\ <<d, v>> \in Owned' <=> owner'[d] = v
            /\ <<d, v>> \in Owned <=> owner[d] = v
        BY PairsOfOwned, PairsAfter
      <4>2. owner'[d] = IF d = c THEN None ELSE owner[d]
        BY DEF Without, Types, TypeOK
      <4> QED
        BY <4>1, <4>2, NoneAssumption
    <3>2. Owned \ {<<c, u>>} \subseteq Clients \X Users
      BY PairsOfOwned
    <3>3. Owned' \subseteq Clients \X Users
      BY PairsAfter
    <3> QED
      BY <3>1, <3>2, <3>3, SamePairs
  <2> QED
    BY <1>1, <2>1, <2>2, <2>3 DEF Tree!Next, Tree!DropClient
<1> QED
  BY <1>2, <1>3

LEMMA TreeCancel ==
    ASSUME Types, Types', Kinds, NEW n \in Invoices,
           billed' = Without(billed, {n}), UNCHANGED <<email, owner>>
    PROVE  [Tree!Next]_(Tree!tree)
<1>1. UNCHANGED <<Registered, Owned>>
  BY PairsOfSame
<1>2. CASE billed[n] = None
  <2>1. billed' = billed
    BY <1>2 DEF Without, Types, TypeOK
  <2> QED
    BY <1>1, <2>1, PairsOfSame DEF Tree!tree
<1>3. CASE billed[n] # None
  <2> DEFINE c == billed[n]
  <2>1. c \in Clients /\ <<n, c>> \in Billed
    BY <1>3, PairsOfBilled DEF Types, TypeOK
  <2>2. Billed' = Billed \ {<<n, c>>}
    <3>1. ASSUME NEW m \in Invoices, NEW d \in Clients
          PROVE  <<m, d>> \in Billed' <=> <<m, d>> \in Billed \ {<<n, c>>}
      <4>1. /\ <<m, d>> \in Billed' <=> billed'[m] = d
            /\ <<m, d>> \in Billed <=> billed[m] = d
        BY PairsOfBilled, PairsAfter
      <4>2. billed'[m] = IF m = n THEN None ELSE billed[m]
        BY DEF Without, Types, TypeOK
      <4> QED
        BY <4>1, <4>2, KeysAssumption
    <3>2. Billed \ {<<n, c>>} \subseteq Invoices \X Clients
      BY PairsOfBilled
    <3>3. Billed' \subseteq Invoices \X Clients
      BY PairsAfter
    <3> QED
      BY <3>1, <3>2, <3>3, SamePairs
  <2>3. holder[n] # None
    BY <1>3 DEF Kinds, Recorded
  <2>4. \E u \in Users : TRUE
    BY <2>3 DEF Types, TypeOK
  <2> QED
    BY <1>1, <2>1, <2>2, <2>4 DEF Tree!Next, Tree!Cancel
<1> QED
  BY <1>2, <1>3

\* an account leaves with the rows DELETE loaded: these are its rows, and all
LEMMA TreeLeave ==
    ASSUME Types, Types', Kinds, NEW u \in Users, NEW gone, Covers(u, gone), Live(u),
           \A c \in gone \cap Clients : owner[c] \in {u, None},
           \A n \in gone \cap Invoices : holder[n] \in {u, None},
           email' = [email EXCEPT ![u] = None],
           owner' = Without(owner, gone), billed' = Without(billed, gone)
    PROVE  Tree!Next
<1>1. Tree!HasAccount(u)
  BY PairsOfRegistered DEF Tree!HasAccount, Live, Types, TypeOK
<1>2. Registered' = Registered \ ({u} \X Emails)
  <2>1. ASSUME NEW v \in Users, NEW e \in Emails
        PROVE  <<v, e>> \in Registered' <=> <<v, e>> \in Registered \ ({u} \X Emails)
    <3>1. /\ <<v, e>> \in Registered' <=> email'[v] = e
          /\ <<v, e>> \in Registered <=> email[v] = e
      BY PairsOfRegistered, PairsAfter
    <3>2. email'[v] = IF v = u THEN None ELSE email[v]
      BY DEF Types, TypeOK
    <3>3. <<v, e>> \in {u} \X Emails <=> v = u
      OBVIOUS
    <3> QED
      BY <3>1, <3>2, <3>3, NoneAssumption
  <2>2. Registered \ ({u} \X Emails) \subseteq Users \X Emails
    BY PairsOfRegistered
  <2>3. Registered' \subseteq Users \X Emails
    BY PairsAfter
  <2> QED
    BY <2>1, <2>2, <2>3, SamePairs
<1>3. Owned' = Owned \ (Clients \X {u})
  <2>1. ASSUME NEW c \in Clients, NEW v \in Users
        PROVE  <<c, v>> \in Owned' <=> <<c, v>> \in Owned \ (Clients \X {u})
    <3>1. /\ <<c, v>> \in Owned' <=> owner'[c] = v
          /\ <<c, v>> \in Owned <=> owner[c] = v
      BY PairsOfOwned, PairsAfter
    <3>2. owner'[c] = IF c \in gone THEN None ELSE owner[c]
      BY DEF Without, Types, TypeOK
    <3>3. c \notin gone => owner[c] # u
      BY DEF Covers, ClientsOf
    <3>4. <<c, v>> \in Clients \X {u} <=> v = u
      OBVIOUS
    <3> QED
      BY <3>1, <3>2, <3>3, <3>4, NoneAssumption
  <2>2. Owned \ (Clients \X {u}) \subseteq Clients \X Users
    BY PairsOfOwned
  <2>3. Owned' \subseteq Clients \X Users
    BY PairsAfter
  <2> QED
    BY <2>1, <2>2, <2>3, SamePairs
<1>4. Billed' = {p \in Billed : <<p[2], u>> \notin Owned}
  <2>1. ASSUME NEW n \in Invoices, NEW c \in Clients
        PROVE  <<n, c>> \in Billed' <=> <<n, c>> \in {p \in Billed : <<p[2], u>> \notin Owned}
    <3>1. /\ <<n, c>> \in Billed' <=> billed'[n] = c
          /\ <<n, c>> \in Billed <=> billed[n] = c
          /\ <<c, u>> \in Owned <=> owner[c] = u
      BY PairsOfBilled, PairsOfOwned, PairsAfter
    <3>2. billed'[n] = IF n \in gone THEN None ELSE billed[n]
      BY DEF Without, Types, TypeOK
    <3>3. billed[n] = c => holder[n] # None /\ owner[c] = holder[n]
      BY KeysAssumption DEF Kinds, Recorded, Rooted, ClientsOf
    <3>4. billed[n] = c => (n \in gone <=> owner[c] = u)
      BY <3>3 DEF Covers, InvoicesOf
    <3> QED
      BY <3>1, <3>2, <3>4, KeysAssumption
  <2>2. {p \in Billed : <<p[2], u>> \notin Owned} \subseteq Invoices \X Clients
    BY PairsOfBilled
  <2>3. Billed' \subseteq Invoices \X Clients
    BY PairsAfter
  <2> QED
    BY <2>1, <2>2, <2>3, SamePairs
<1> QED
  BY <1>1, <1>2, <1>3, <1>4 DEF Tree!Next, Tree!Leave

LEMMA TreeStep ==
    ASSUME Types, Types', Kinds, [Next]_vars
    PROVE  [Tree!Next]_(Tree!tree)
<1>1. ASSUME UNCHANGED <<email, owner, billed>> PROVE UNCHANGED Tree!tree
  BY <1>1, PairsOfSame DEF Tree!tree
<1>2. CASE UNCHANGED vars
  BY <1>1, <1>2 DEF vars, accounts, rows
<1>3. CASE AccountSteps /\ UNCHANGED rows
  BY <1>3, TreeAccounts
<1>4. ASSUME NEW r \in Requests, NEW c \in Clients, CreateClient(r, c)
      PROVE  Tree!Next
  <2>1. owner[c] = None /\ req[r].user \in Users
    BY <1>4 DEF CreateClient, Answer, Types, Engaged, Kinds, Recorded
  <2> QED
    BY <1>4, <2>1, TreeAddClient DEF CreateClient, Answer, UserRow, accounts
<1>5. ASSUME NEW r \in Requests, NEW n \in Invoices, CreateInvoice(r, n)
      PROVE  Tree!Next
  <2>1. PICK c \in req[r].rows : owner[c] # None /\ billed' = [billed EXCEPT ![n] = c]
    BY <1>5 DEF CreateInvoice
  <2>2. c \in Clients /\ req[r].user \in Users
    BY <1>5 DEF CreateInvoice, Answer, Types, Engaged, Keyed
  <2>3. owner[c] = req[r].user
    BY <2>1, <2>2 DEF Kinds, Loaded
  <2>4. billed[n] = None
    BY <1>5 DEF CreateInvoice, Kinds, Recorded
  <2> QED
    BY <1>5, <2>1, <2>2, <2>3, <2>4, TreeBill DEF CreateInvoice, Answer, accounts
<1>6. ASSUME NEW r \in Requests, DeleteClient(r) PROVE [Tree!Next]_(Tree!tree)
  <2>1. PICK c \in Clients : req[r].rows = {c}
    BY <1>6 DEF DeleteClient, Answer, Kinds, Picked
  <2> QED
    BY <1>6, <2>1, TreeDropClient DEF DeleteClient, Answer, accounts
<1>7. ASSUME NEW r \in Requests, DeleteInvoice(r) PROVE [Tree!Next]_(Tree!tree)
  <2>1. PICK n \in Invoices : req[r].rows = {n}
    BY <1>7 DEF DeleteInvoice, Answer, Kinds, Picked
  <2> QED
    BY <1>7, <2>1, TreeCancel DEF DeleteInvoice, Answer, accounts
<1>8. ASSUME NEW r \in Requests, DeleteUser(r) PROVE [Tree!Next]_(Tree!tree)
  <2> DEFINE u == req[r].user
             gone == req[r].rows
  <2>1. /\ Covers(u, gone)
        /\ email' = [email EXCEPT ![u] = None]
        /\ owner' = Without(owner, gone)
        /\ billed' = Without(billed, gone)
    BY <1>8 DEF DeleteUser
  <2>2. u \in Users
    BY <1>8 DEF DeleteUser, Types, Engaged
  <2>3. /\ \A c \in gone \cap Clients : owner[c] \in {u, None}
        /\ \A n \in gone \cap Invoices : holder[n] \in {u, None}
    BY DEF Kinds, Loaded
  <2>4. CASE Live(u)
    BY <2>1, <2>2, <2>3, <2>4, TreeLeave
  <2>5. CASE ~ Live(u)
    <3>1. email' = email
      BY <2>1, <2>2, <2>5 DEF Live, Types, TypeOK
    <3>2. \A c \in Clients : owner[c] # u
      BY <2>2, <2>5, NoneAssumption DEF Kinds, Rooted
    <3>3. \A n \in Invoices : holder[n] # u
      BY <2>2, <2>5, NoneAssumption DEF Kinds, Rooted
    <3>4. owner' = owner
      BY <2>1, <2>3, <3>2 DEF Without, Types, TypeOK
    <3>5. \A n \in gone \cap Invoices : billed[n] = None
      BY <2>3, <3>3 DEF Kinds, Recorded
    <3>6. billed' = billed
      BY <2>1, <3>5 DEF Without, Types, TypeOK
    <3> QED
      BY <1>1, <3>1, <3>4, <3>6
  <2> QED
    BY <2>4, <2>5
<1> QED
  BY <1>1, <1>2, <1>3, <1>4, <1>5, <1>6, <1>7, <1>8
  DEF Next, CheckClient, LoadClient, LoadInvoice, Collect, Continue, accounts, rows

\* Checks, inserts and deletions in sessions of their own, any number of them
\* and in any order, change the rows as the one-step operations of TenantTree
\* do: an account never leaves part of its clients and invoices behind.
THEOREM SessionsImplementTree == Spec => ImplementsTree
<1>1. Init => Tree!Init
  BY DEF Init, InitAccounts, Tree!Init, Registered, Owned, Billed, Live
<1> QED
  BY <1>1, KindsInit, TypesStep, KindsStep, TreeStep, PTL
  DEF Spec, ImplementsTree, Tree!Spec

=============================================================================
