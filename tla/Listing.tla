------------------------------ MODULE Listing ------------------------------
(***************************************************************************)
(* GET /clients and GET /invoices, page by page.  A page is one SELECT of  *)
(* the user's rows, ordered by id, with LIMIT and OFFSET; nothing is kept  *)
(* between two pages, and a caller counts its own offset.  Meanwhile rows  *)
(* are deleted, and rows appear: their ids come from a sequence when they  *)
(* are inserted, but they are seen only when their transaction commits.    *)
(*                                                                         *)
(* Every page passes the rate limiter first; a caller that is refused with *)
(* 429 asks again.                                                         *)
(***************************************************************************)
EXTENDS RateLimiter

CONSTANTS
    Callers,
    Subject,    \* Subject[w]: what the token of w names, always the same user
    MaxId,      \* bound on the ids the sequence hands out
    PageSize,   \* PaginationParams.limit
    MaxOthers   \* bound on other requests to the path

ASSUME ListAssumption ==
    /\ Subject \in [Callers -> Keys]
    /\ MaxId \in Nat /\ PageSize \in Nat \ {0} /\ MaxOthers \in Nat

Ids == 1 .. MaxId

VARIABLES
    rows,       \* committed rows of the user
    pending,    \* ids of inserted rows that have not committed
    nextId,     \* the sequence
    walk,       \* what each caller has collected
    others      \* other requests to the path so far, with a token of a subject

vars == <<buckets, rows, pending, nextId, walk, others>>

\* was, came, gone: history, the rows when the walk began, and those that have
\* appeared and disappeared while it goes on
Walks ==
    [pc : {"idle", "walking", "done"}, offset : Nat,
     got : SUBSET Ids, twice : SUBSET Ids,
     was : SUBSET Ids, came : SUBSET Ids, gone : SUBSET Ids]

TypeOK ==
    /\ BucketsOK
    /\ rows \in SUBSET Ids /\ pending \in SUBSET Ids
    /\ nextId \in 1 .. MaxId + 1
    /\ walk \in [Callers -> Walks]
    /\ others \in 0 .. MaxOthers

Init ==
    /\ InitBuckets
    /\ rows = {} /\ pending = {} /\ nextId = 1 /\ others = 0
    /\ walk = [w \in Callers |->
          [pc |-> "idle", offset |-> 0, got |-> {}, twice |-> {},
           was |-> {}, came |-> {}, gone |-> {}]]

-----------------------------------------------------------------------------
Walking(w) == walk[w].pc = "walking"

Insert ==
    /\ nextId \in Ids
    /\ pending' = pending \cup {nextId} /\ nextId' = nextId + 1
    /\ UNCHANGED <<buckets, rows, walk, others>>

CommitInsert(n) ==
    /\ n \in pending
    /\ pending' = pending \ {n} /\ rows' = rows \cup {n}
    /\ walk' = [w \in Callers |->
          IF Walking(w) THEN [walk[w] EXCEPT !.came = @ \cup {n}] ELSE walk[w]]
    /\ UNCHANGED <<buckets, nextId, others>>

\* a constraint, or a client that hung up: the id is lost
Rollback(n) ==
    /\ n \in pending /\ pending' = pending \ {n}
    /\ UNCHANGED <<buckets, rows, nextId, walk, others>>

Delete(n) ==
    /\ n \in rows /\ rows' = rows \ {n}
    /\ walk' = [w \in Callers |->
          IF Walking(w) THEN [walk[w] EXCEPT !.gone = @ \cup {n}] ELSE walk[w]]
    /\ UNCHANGED <<buckets, pending, nextId, others>>

Rank(n) == Cardinality({m \in rows : m < n})

\* mutant: offsets that start at one
Page_OneBased(offset) == {n \in rows : Rank(n) + 1 \in offset .. offset + PageSize - 1}

\* mutant: a page and the row after it
Page_Inclusive(offset) == {n \in rows : Rank(n) \in offset .. offset + PageSize}

\* ORDER BY id LIMIT PageSize OFFSET offset
Page(offset) == {n \in rows : Rank(n) \in offset .. offset + PageSize - 1}

Begin(w) ==
    /\ walk[w].pc = "idle"
    /\ walk' = [walk EXCEPT ![w].pc = "walking", ![w].was = rows]
    /\ UNCHANGED <<buckets, rows, pending, nextId, others>>

\* get_user_key: the subject of the token, which get_current_user has accepted
Key(w) == Subject[w]

\* a 429, or the next page; a short page is the last one
Ask(w) ==
    LET page == Page(walk[w].offset) IN
    /\ Walking(w) /\ Hit(Key(w))
    /\ walk' = IF ~ Admits(Key(w)) THEN walk ELSE [walk EXCEPT
          ![w].pc = IF Cardinality(page) < PageSize THEN "done" ELSE @,
          ![w].offset = @ + PageSize,
          ![w].got = @ \cup page,
          ![w].twice = @ \cup (walk[w].got \cap page)]
    /\ UNCHANGED <<rows, pending, nextId, others>>

\* another request with the same key: a POST, or one page in another tab
Other(k) ==
    /\ others < MaxOthers /\ others' = others + 1
    /\ Hit(k)
    /\ UNCHANGED <<rows, pending, nextId, walk>>

Elapse == Tick /\ UNCHANGED <<rows, pending, nextId, walk, others>>

Next ==
    \/ Insert
    \/ \E n \in Ids : CommitInsert(n) \/ Rollback(n) \/ Delete(n)
    \/ \E w \in Callers : Begin(w) \/ Ask(w)
    \/ \E k \in Keys : Other(k)
    \/ Elapse

Spec == Init /\ [][Next]_vars

\* time passes, and a caller that has begun asks on
FairSpec ==
    /\ Spec
    /\ WF_vars(Elapse)
    /\ \A w \in Callers : WF_vars(Ask(w))

-----------------------------------------------------------------------------
\* rows that were there all the time, and that a finished walk did not show
Missed(w) ==
    IF walk[w].pc = "done"
      THEN (walk[w].was \ walk[w].gone) \ walk[w].got ELSE {}

\* Without a snapshot a walk can miss a row that was there all the time, but
\* only behind a deleted one, and one for each deletion at most.
SkipsAreDeletions ==
    \A w \in Callers :
        /\ \A n \in Missed(w) : \E m \in walk[w].gone : m < n
        /\ Cardinality(Missed(w)) <= Cardinality(walk[w].gone)

\* rows that appeared during a walk, before one it had shown
Late(w) == {m \in walk[w].came : \E n \in walk[w].got : m < n}

\* It can show a row twice, but only behind one that was inserted earlier and
\* committed later, and one for each such commit at most.  New rows come last.
RepeatsAreLateCommits ==
    \A w \in Callers :
        /\ \A n \in walk[w].twice : \E m \in Late(w) : m < n
        /\ Cardinality(walk[w].twice) <= Cardinality(Late(w))

\* Every walk comes to an end, through all the refusals: those that the caller
\* brings on itself, and those that other requests with its key bring on it.
WalksEnd == \A w \in Callers : Walking(w) ~> walk[w].pc = "done"

=============================================================================
