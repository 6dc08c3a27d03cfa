------------------------- MODULE InvoiceCacheProofs -------------------------
(***************************************************************************)
(* The commit-then-delete order of the cache, for every number of readers  *)
(* and writers.                                                            *)
(***************************************************************************)
EXTENDS InvoiceCache, TLAPS

(***************************************************************************)
(* FreshUnlessRaced, with what makes it inductive: a reader that nothing   *)
(* overtook still holds the committed value, and when the invoice is gone  *)
(* the writer that will drop the key is past the refresh that could raise. *)
(***************************************************************************)
ReaderHoldsCurrent(r) ==
    /\ rpc[r] = "row" => live /\ hold[r] = [row |-> row, kids |-> 0]
    /\ rpc[r] = "selected" => live /\ hold[r] = [row |-> row, kids |-> kids]

CacheInv ==
    /\ FreshUnlessRaced
    /\ \A r \in Readers \ raced : ReaderHoldsCurrent(r)
    /\ cache # Nothing /\ ~ excused /\ ~ late /\ ~ live =>
          \E w \in Writers : wpc[w] = "committed"

LEMMA TypeStep == TypeOK /\ [Next]_vars => TypeOK'
<1> SUFFICES ASSUME TypeOK, [Next]_vars PROVE TypeOK'
  OBVIOUS
<1> USE DEF TypeOK, Pending
<1>1. CASE UNCHANGED vars
  BY <1>1 DEF vars
<1>2. ASSUME NEW r \in Readers,
             Miss(r) \/ SelectRow(r) \/ SelectChildren(r) \/ Abandon(r)
      PROVE  TypeOK'
  BY <1>2 DEF Miss, SelectRow, SelectChildren, Abandon, ReaderAt, Done, db,
              Values, Zero
<1>3. ASSUME NEW r \in Readers, Fill(r) PROVE TypeOK'
  <2>1. /\ rpc' \in [Readers -> {"idle", "missed", "row", "selected"}]
        /\ hold' \in [Readers -> Values] /\ cache' \in Values
        /\ raced' \in SUBSET Readers
    BY <1>3 DEF Fill, Done, Serialized, Values, Zero
  <2>2. excused' \in BOOLEAN /\ late' \in BOOLEAN
    <3>1. excused' = (r \in raced) /\ late' = FALSE
      BY <1>3 DEF Fill
    <3>2. (r \in raced) \in BOOLEAN
      OBVIOUS
    <3>3. excused' \in BOOLEAN
      BY <3>1, <3>2, Zenon
    <3>4. late' \in BOOLEAN
      BY <3>1
    <3> QED
      BY <3>3, <3>4
  <2>3. UNCHANGED <<live, row, kids, wpc>>
    BY <1>3 DEF Fill, db
  <2> QED
    BY <2>1, <2>2, <2>3
<1>4. CASE Expire
  BY <1>4 DEF Expire, db
<1>5. ASSUME NEW drow \in {0, 1}, NEW dkids \in {0, 1}, Changes(drow, dkids)
      PROVE  /\ row' \in Nat /\ kids' \in Nat /\ raced' \in SUBSET Readers
             /\ cache' \in Values \cup {Nothing} /\ excused' \in BOOLEAN
             /\ rpc' = rpc /\ hold' = hold
  BY <1>5 DEF Changes
<1>6. ASSUME NEW w \in Writers,
             CommitEdit(w) \/ CommitSend(w) \/ CommitLine(w) \/ CommitErase(w)
             \/ CommitPayment(w) \/ CommitOverdue(w)
      PROVE  TypeOK'
  BY <1>5, <1>6 DEF CommitEdit, CommitSend, CommitLine, CommitErase,
                    CommitPayment, CommitOverdue, OvertakesCached, WriterAt
<1>7. ASSUME NEW w \in Writers,
             Refresh(w) \/ RefreshRaises(w) \/ FlushPayment(w)
             \/ DropAfter(w) \/ DropBefore(w) \/ FailWrite(w)
      PROVE  TypeOK'
  BY <1>7 DEF Refresh, RefreshRaises, FlushPayment, DropAfter, DropBefore, Drop,
              FailWrite, WriterAt, db
<1> QED
  BY <1>1, <1>2, <1>3, <1>4, <1>6, <1>7 DEF Next

THEOREM CacheTypeCorrect == Spec => []TypeOK
<1>1. Init => TypeOK
  <2> SUFFICES ASSUME Init PROVE TypeOK
    OBVIOUS
  <2>1. Zero \in Values
    BY DEF Zero, Values
  <2>2. rpc \in [Readers -> {"idle", "missed", "row", "selected"}]
        /\ hold \in [Readers -> Values]
        /\ wpc \in [Writers -> {"idle", "flushed", "dropped"} \cup Pending]
    BY <2>1 DEF Init
  <2> QED
    BY <2>2 DEF Init, TypeOK
<1> QED
  BY <1>1, TypeStep, PTL DEF Spec

LEMMA CacheStep == TypeOK /\ CacheInv /\ [Next]_vars => CacheInv'
<1> SUFFICES ASSUME TypeOK, CacheInv, [Next]_vars PROVE CacheInv'
  OBVIOUS
<1> USE DEF Pending
<1>1. CASE UNCHANGED vars
  BY <1>1 DEF CacheInv, FreshUnlessRaced, IsCurrent, ReaderHoldsCurrent, vars
<1>2. ASSUME NEW r \in Readers,
             Miss(r) \/ SelectRow(r) \/ SelectChildren(r) \/ Abandon(r)
      PROVE  CacheInv'
  <2>1. UNCHANGED <<live, row, kids, cache, wpc, excused, late>>
    BY <1>2 DEF Miss, SelectRow, SelectChildren, Abandon, db
  <2>2. ASSUME NEW q \in Readers \ raced' PROVE ReaderHoldsCurrent(q)'
    BY <1>2, <2>1, <2>2
    DEF TypeOK, CacheInv, ReaderHoldsCurrent, Miss, SelectRow, SelectChildren,
        Abandon, ReaderAt, Done
  <2> QED
    BY <2>1, <2>2 DEF CacheInv, FreshUnlessRaced, IsCurrent
<1>3. ASSUME NEW r \in Readers, Fill(r) PROVE CacheInv'
  <2>1. UNCHANGED <<live, row, kids, wpc>> /\ cache' = hold[r]
        /\ excused' = (r \in raced) /\ ~ late'
    BY <1>3 DEF Fill, Serialized, db
  <2>2. ~ excused' => live /\ cache' = [row |-> row, kids |-> kids]
    BY <1>3, <2>1 DEF CacheInv, ReaderHoldsCurrent, Fill
  <2>3. ASSUME NEW q \in Readers \ raced' PROVE ReaderHoldsCurrent(q)'
    BY <1>3, <2>1, <2>3 DEF TypeOK, CacheInv, ReaderHoldsCurrent, Fill, Done
  <2> QED
    BY <2>1, <2>2, <2>3 DEF CacheInv, FreshUnlessRaced, IsCurrent
<1>4. CASE Expire
  BY <1>4 DEF CacheInv, FreshUnlessRaced, ReaderHoldsCurrent, Expire, db
<1>5. ASSUME NEW w \in Writers, NEW drow, NEW dkids, NEW to \in Pending,
             Changes(drow, dkids), WriterAt(w, "idle", to),
             live' = live \/ to = "committed", late' = late
      PROVE  CacheInv'
  <2>1. /\ wpc'[w] = to /\ UNCHANGED <<cache, rpc, hold, excused, late>>
        /\ \A v \in Writers \ {w} : wpc'[v] = wpc[v]
        /\ raced' = raced \cup {r \in Readers : rpc[r] \in {"row", "selected"}}
    BY <1>5 DEF TypeOK, Changes, WriterAt
  <2>2. ASSUME NEW q \in Readers \ raced' PROVE ReaderHoldsCurrent(q)'
    BY <2>1, <2>2 DEF ReaderHoldsCurrent
  <2>3. (cache # Nothing /\ ~ excused /\ ~ late /\ ~ live =>
            \E v \in Writers : wpc[v] = "committed")'
    BY <1>5, <2>1 DEF CacheInv, Changes
  <2> QED
    BY <2>1, <2>2, <2>3 DEF CacheInv, FreshUnlessRaced
<1>6. ASSUME NEW w \in Writers,
             CommitEdit(w) \/ CommitSend(w) \/ CommitLine(w) \/ CommitErase(w)
      PROVE  CacheInv'
  BY <1>5, <1>6 DEF CommitEdit, CommitSend, CommitLine, CommitErase
<1>7. ASSUME NEW w \in Writers, Refresh(w) PROVE CacheInv'
  <2>1. /\ wpc'[w] = "committed" /\ \A v \in Writers \ {w} : wpc'[v] = wpc[v]
        /\ UNCHANGED <<live, row, kids, cache, rpc, hold, raced, excused, late>>
    BY <1>7 DEF TypeOK, Refresh, WriterAt, db
  <2> QED
    BY <2>1 DEF CacheInv, FreshUnlessRaced, IsCurrent, ReaderHoldsCurrent
<1>8. ASSUME NEW w \in Writers, RefreshRaises(w) PROVE CacheInv'
  <2>1. /\ wpc[w] = "refreshing" /\ wpc'[w] = "idle" /\ ~ live
        /\ \A v \in Writers \ {w} : wpc'[v] = wpc[v]
        /\ UNCHANGED <<live, row, kids, cache, rpc, hold, raced, excused, late>>
    BY <1>8 DEF TypeOK, RefreshRaises, WriterAt, db
  <2> QED
    BY <2>1 DEF CacheInv, FreshUnlessRaced, IsCurrent, ReaderHoldsCurrent
<1>9. ASSUME NEW w \in Writers, DropAfter(w) \/ DropBefore(w) PROVE CacheInv'
  BY <1>9 DEF TypeOK, CacheInv, FreshUnlessRaced, ReaderHoldsCurrent, DropAfter,
              DropBefore, Drop, WriterAt, db
<1>10. ASSUME NEW w \in Writers, FailWrite(w) PROVE CacheInv'
  <2>1. /\ wpc'[w] = "idle" /\ \A v \in Writers \ {w} : wpc'[v] = wpc[v]
        /\ UNCHANGED <<live, row, kids, cache, rpc, hold, raced, late>>
        /\ excused' = (excused \/ (wpc[w] \in Pending /\ cache # Nothing))
    BY <1>10 DEF TypeOK, FailWrite, db
  <2> QED
    BY <2>1 DEF CacheInv, FreshUnlessRaced, IsCurrent, ReaderHoldsCurrent
<1>11. ASSUME NEW w \in Writers, FlushPayment(w) PROVE CacheInv'
  <2>1. /\ wpc[w] = "idle" /\ wpc'[w] = "flushed"
        /\ \A v \in Writers \ {w} : wpc'[v] = wpc[v]
        /\ UNCHANGED <<live, row, kids, cache, rpc, hold, raced, excused, late>>
    BY <1>11 DEF TypeOK, FlushPayment, WriterAt, db
  <2> QED
    BY <2>1 DEF CacheInv, FreshUnlessRaced, IsCurrent, ReaderHoldsCurrent
<1>12. ASSUME NEW w \in Writers, CommitPayment(w) \/ CommitOverdue(w)
       PROVE  CacheInv'
  <2>1. /\ UNCHANGED <<live, cache, rpc, hold>>
        /\ raced' = raced \cup {r \in Readers : rpc[r] \in {"row", "selected"}}
        /\ cache # Nothing => late'
    BY <1>12 DEF CommitPayment, CommitOverdue, Changes, OvertakesCached
  <2>2. ASSUME NEW q \in Readers \ raced' PROVE ReaderHoldsCurrent(q)'
    BY <2>1, <2>2 DEF ReaderHoldsCurrent
  <2> QED
    BY <2>1, <2>2 DEF CacheInv, FreshUnlessRaced
<1> QED
  BY <1>1, <1>2, <1>3, <1>4, <1>6, <1>7, <1>8, <1>9, <1>10, <1>11, <1>12 DEF Next

\* However many readers and writers overlap, fail and expire the key: a stale
\* value that stays was put there by a reader that a commit overtook, survived
\* a lost redis.delete, or was overtaken by a payment or the job.
THEOREM StaleOnlyIfRaced == Spec => []FreshUnlessRaced
<1>1. Init => CacheInv
  BY DEF Init, CacheInv, FreshUnlessRaced, ReaderHoldsCurrent
<1>2. TypeOK /\ CacheInv /\ [Next]_vars => CacheInv'
  BY CacheStep
<1>3. CacheInv => FreshUnlessRaced
  BY DEF CacheInv
<1> QED
  BY <1>1, <1>2, <1>3, CacheTypeCorrect, PTL DEF Spec

-----------------------------------------------------------------------------
(***************************************************************************)
(* Without payments and the job nothing overtakes a cached value for good. *)
(***************************************************************************)
InvalidateAfter == Kinds \cap {"pay", "job"} = {}

NeverLate ==
    /\ ~ late
    /\ \A w \in Writers : wpc[w] \notin {"flushed", "dropped"}

LEMMA NeverLateStep ==
    ASSUME InvalidateAfter
    PROVE  TypeOK /\ NeverLate /\ [Next]_vars => NeverLate'
<1> SUFFICES ASSUME TypeOK, NeverLate, [Next]_vars PROVE NeverLate'
  OBVIOUS
<1> USE DEF NeverLate
<1>1. CASE UNCHANGED vars
  BY <1>1 DEF vars
<1>2. ASSUME NEW r \in Readers,
             \/ Miss(r) \/ SelectRow(r) \/ SelectChildren(r) \/ Fill(r)
             \/ Abandon(r)
      PROVE  NeverLate'
  BY <1>2 DEF Miss, SelectRow, SelectChildren, Fill, Abandon
<1>3. CASE Expire
  BY <1>3 DEF Expire
<1>4. ASSUME NEW w \in Writers,
             \/ CommitEdit(w) \/ CommitSend(w) \/ CommitLine(w) \/ CommitErase(w)
             \/ Refresh(w) \/ RefreshRaises(w) \/ DropAfter(w) \/ FailWrite(w)
      PROVE  NeverLate'
  BY <1>4 DEF TypeOK, CommitEdit, CommitSend, CommitLine, CommitErase, Refresh,
              RefreshRaises, DropAfter, Drop, FailWrite, WriterAt
<1>5. ASSUME NEW w \in Writers,
             FlushPayment(w) \/ DropBefore(w) \/ CommitPayment(w)
             \/ CommitOverdue(w)
      PROVE  FALSE
  BY <1>5 DEF InvalidateAfter, FlushPayment, DropBefore, CommitPayment,
              CommitOverdue, WriterAt
<1> QED
  BY <1>1, <1>2, <1>3, <1>4, <1>5 DEF Next

\* The writes that commit before they delete the key keep the README's promise:
\* "invalidated on writes".
THEOREM CommitThenDeleteInvalidates ==
    ASSUME InvalidateAfter
    PROVE  Spec => []InvalidatedOnWrites
<1>1. Init => NeverLate
  BY DEF Init, NeverLate
<1>2. TypeOK /\ NeverLate /\ [Next]_vars => NeverLate'
  BY NeverLateStep
<1>3. FreshUnlessRaced /\ NeverLate => InvalidatedOnWrites
  BY DEF FreshUnlessRaced, NeverLate, InvalidatedOnWrites
<1> QED
  BY <1>1, <1>2, <1>3, CacheTypeCorrect, StaleOnlyIfRaced, PTL DEF Spec

=============================================================================
