-------------------------- MODULE InvoiceDatesProofs --------------------------
(***************************************************************************)
(* The dates of an invoice for any number of requests and any dates.       *)
(***************************************************************************)
EXTENDS InvoiceDates, TLAPS

LEMMA NoneIsNoRow == None \notin Rows
BY DEF None, Rows

LEMMA WrittenType ==
    ASSUME stored \in Rows, NEW row \in Rows, NEW body \in PatchBodies
    PROVE  Written(row, body) \in Rows
BY DEF Written, Column, Rows, PatchBodies

\* PUT and PATCH commit through the same action, with bodies of the same set
LEMMA PutIsPatch == PutBodies \subseteq PatchBodies
BY DEF PutBodies, PatchBodies, Rows

LEMMA TypeStep == TypeOK /\ [Next]_vars => TypeOK'
<1> SUFFICES ASSUME TypeOK, [Next]_vars PROVE TypeOK'
  OBVIOUS
<1>1. CASE UNCHANGED vars
  BY <1>1 DEF TypeOK, vars
<1>2. ASSUME NEW r \in Requests, Load(r) PROVE TypeOK'
  BY <1>2 DEF TypeOK, Load
<1>3. ASSUME NEW r \in Requests, NEW body \in PatchBodies, loaded[r] # None,
             CommitDates(r, body)
      PROVE  TypeOK'
  <2>1. stored' \in Rows
    BY <1>3, WrittenType DEF TypeOK, CommitDates
  <2> QED
    BY <1>3, <2>1 DEF TypeOK, CommitDates, Finish
<1>4. ASSUME NEW r \in Requests, Refuse(r) PROVE TypeOK'
  BY <1>4 DEF TypeOK, Refuse, Finish
<1>5. CASE Delete
  BY <1>5 DEF TypeOK, Delete
<1> QED
  BY <1>1, <1>2, <1>3, <1>4, <1>5, PutIsPatch DEF Next, Put, Patch

\* Every reachable state is well-typed.
THEOREM DatesTypeCorrect == Spec => []TypeOK
<1>1. Init => TypeOK
  BY DEF Init, TypeOK
<1> QED
  BY <1>1, TypeStep, PTL DEF Spec

-----------------------------------------------------------------------------
(***************************************************************************)
(* A request that none has overtaken holds the committed row; so the check *)
(* it made on its own copy is a check on what it writes.                   *)
(***************************************************************************)
Current ==
    \A r \in Requests \ overtaken : loaded[r] # None => loaded[r] = stored

DatesInv == Current /\ ReadableUnlessCrossed

\* what a request writes over the row it has loaded is its effective pair
LEMMA WrittenOverCurrent ==
    ASSUME NEW row \in Rows, stored = row, NEW body \in PatchBodies
    PROVE  /\ Written(row, body).issue = Effective(body.issue, row.issue)
           /\ Written(row, body).due = Effective(body.due, row.due)
BY DEF Written, Column, Effective

\* the validator of PUT and the check of PATCH ask the same of the pair
LEMMA PutIsChecked ==
    ASSUME NEW row \in Rows, NEW body \in PutBodies
    PROVE  AcceptsPatch(row, body)
<1>1. body.issue \in Dates /\ body.due \in Dates /\ body.issue < body.due
  BY DEF PutBodies, Rows, Ordered
<1>2. body.issue # Absent /\ body.due # Absent
  BY <1>1, DatesAssumption
<1> QED
  BY <1>1, <1>2 DEF AcceptsPatch, Effective

LEMMA CommitKeepsDates ==
    ASSUME TypeOK, DatesInv, NEW r \in Requests, NEW body \in PatchBodies,
           loaded[r] # None, AcceptsPatch(loaded[r], body), CommitDates(r, body)
    PROVE  DatesInv'
<1>1. loaded[r] \in Rows
  BY DEF TypeOK
<1>2. Current'
  <2>1. \A q \in Requests : loaded'[q] # None => q # r /\ loaded'[q] = loaded[q]
    BY DEF TypeOK, CommitDates, Finish
  <2>2. CASE stored' = stored
    BY <2>1, <2>2 DEF DatesInv, Current, CommitDates, Finish
  <2>3. CASE stored' # stored
    BY <2>1, <2>3 DEF CommitDates, Finish, Current
  <2> QED
    BY <2>2, <2>3
<1>3. CASE r \in overtaken
  <2>1. crossed' <=> crossed \/ stored' # stored
    BY <1>3 DEF CommitDates
  <2>2. live' = live
    BY DEF CommitDates
  <2> QED
    BY <1>2, <2>1, <2>2 DEF DatesInv, ReadableUnlessCrossed, Ordered
<1>4. CASE r \notin overtaken
  <2>1. loaded[r] = stored
    BY <1>4 DEF DatesInv, Current
  <2>2. /\ stored'.issue = Effective(body.issue, stored.issue)
        /\ stored'.due = Effective(body.due, stored.due)
    BY <1>1, <2>1, WrittenOverCurrent DEF CommitDates
  <2>3. Ordered(stored')
    BY <2>1, <2>2 DEF AcceptsPatch, Ordered
  <2> QED
    BY <1>2, <2>3 DEF DatesInv, ReadableUnlessCrossed
<1> QED
  BY <1>3, <1>4

LEMMA DatesStep == TypeOK /\ DatesInv /\ [Next]_vars => DatesInv'
<1> SUFFICES ASSUME TypeOK, DatesInv, [Next]_vars PROVE DatesInv'
  OBVIOUS
<1>1. CASE UNCHANGED vars
  BY <1>1 DEF DatesInv, Current, ReadableUnlessCrossed, Ordered, vars
<1>2. ASSUME NEW r \in Requests, Load(r) PROVE DatesInv'
  BY <1>2 DEF TypeOK, DatesInv, Current, ReadableUnlessCrossed, Ordered, Load
<1>3. ASSUME NEW r \in Requests, Put(r) PROVE DatesInv'
  <2>1. PICK body \in PutBodies : CommitDates(r, body)
    BY <1>3 DEF Put
  <2>2. loaded[r] # None /\ loaded[r] \in Rows
    BY <1>3 DEF Put, TypeOK
  <2> QED
    BY <2>1, <2>2, PutIsPatch, PutIsChecked, CommitKeepsDates
<1>4. ASSUME NEW r \in Requests, Patch(r) PROVE DatesInv'
  BY <1>4, CommitKeepsDates DEF Patch
<1>5. ASSUME NEW r \in Requests, Refuse(r) PROVE DatesInv'
  BY <1>5 DEF TypeOK, DatesInv, Current, ReadableUnlessCrossed, Ordered,
              Refuse, Finish
<1>6. CASE Delete
  BY <1>6 DEF DatesInv, Current, ReadableUnlessCrossed, Ordered, Delete
<1> QED
  BY <1>1, <1>2, <1>3, <1>4, <1>5, <1>6 DEF Next

\* For any number of requests and any dates: the due date lies after the issue
\* date unless the last change came from a request that was overtaken between
\* its SELECT and its UPDATE (routers/invoices.py:161-173).
THEOREM OrderLostOnlyIfCrossed == Spec => []ReadableUnlessCrossed
<1>1. Init => DatesInv
  BY DEF Init, DatesInv, Current, ReadableUnlessCrossed
<1>2. DatesInv => ReadableUnlessCrossed
  BY DEF DatesInv
<1> QED
  BY <1>1, <1>2, DatesStep, DatesTypeCorrect, PTL DEF Spec

\* One request at a time: nothing overtakes it, and every stored row is readable.
LEMMA AloneNeverCrossed ==
    ASSUME NEW one, Requests = {one}
    PROVE  (overtaken = {} /\ ~ crossed) /\ [Next]_vars
           => (overtaken = {} /\ ~ crossed)'
<1> SUFFICES ASSUME overtaken = {}, ~ crossed, [Next]_vars
             PROVE  overtaken' = {} /\ ~ crossed'
  OBVIOUS
<1>1. ASSUME NEW others \in SUBSET Requests, Finish(one, others)
      PROVE  overtaken' = {}
  BY <1>1 DEF Finish
<1>2. ASSUME NEW body, CommitDates(one, body)
      PROVE  overtaken' = {} /\ ~ crossed'
  <2>1. ~ crossed'
    BY <1>2 DEF CommitDates
  <2>2. overtaken' = {}
    <3>1. CASE stored' = stored
      BY <1>1, <1>2, <3>1 DEF CommitDates
    <3>2. CASE stored' # stored
      BY <1>1, <1>2, <3>2 DEF CommitDates
    <3> QED
      BY <3>1, <3>2
  <2> QED
    BY <2>1, <2>2
<1>3. CASE Refuse(one)
  BY <1>1, <1>3 DEF Refuse
<1>4. CASE UNCHANGED vars \/ Load(one) \/ Delete
  BY <1>4 DEF vars, Load, Delete
<1> QED
  BY <1>2, <1>3, <1>4 DEF Next, Put, Patch

THEOREM SerialRequestsKeepOrder ==
    ASSUME NEW one, Requests = {one}
    PROVE  Spec => []Readable
<1>1. Init => overtaken = {} /\ ~ crossed
  BY DEF Init
<1>2. ReadableUnlessCrossed /\ (overtaken = {} /\ ~ crossed) => Readable
  BY DEF ReadableUnlessCrossed, Readable
<1> QED
  BY <1>1, <1>2, AloneNeverCrossed, OrderLostOnlyIfCrossed, PTL DEF Spec

=============================================================================
