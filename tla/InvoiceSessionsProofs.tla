----------------------- MODULE InvoiceSessionsProofs -----------------------
(***************************************************************************)
(* What holds of InvoiceSessions for every number of requests, every set   *)
(* of enabled operations and all amounts.                                  *)
(***************************************************************************)
EXTENDS InvoiceSessions, FiniteSetTheorems, TLAPS

(***************************************************************************)
(* The arithmetic of an invoice.                                           *)
(***************************************************************************)
\* a finite number of rows holds a finite number of units
LEMMA UnitsFinite ==
    ASSUME NEW D, NEW amount \in [D -> Nat], NEW S \in SUBSET D, IsFiniteSet(S)
    PROVE  IsFiniteSet(Units(S, amount))
<1> DEFINE Of(row) == {row} \X (1..amount[row])
           Parts == {Of(row) : row \in S}
<1>1. \A row \in S : IsFiniteSet(Of(row))
  <2> SUFFICES ASSUME NEW row \in S PROVE IsFiniteSet(Of(row))
    OBVIOUS
  <2>1. amount[row] \in Nat
    OBVIOUS
  <2>2. IsFiniteSet(1..amount[row])
    BY <2>1, FS_Interval
  <2>3. IsFiniteSet({row})
    BY FS_Singleton
  <2> QED
    BY <2>2, <2>3, FS_Product
<1>2. IsFiniteSet(Parts)
  <2> DEFINE f == [row \in S |-> Of(row)]
  <2>1. f \in Surjection(S, Parts)
    BY DEF Surjection
  <2> QED
    BY <2>1, FS_Surjection
<1>3. IsFiniteSet(UNION Parts)
  BY <1>1, <1>2, FS_UNION
<1> QED
  BY <1>3 DEF Units

LEMMA UnitsGrow ==
    ASSUME NEW D, NEW amount \in [D -> Nat], NEW S \in SUBSET D, IsFiniteSet(S),
           NEW T \in SUBSET S
    PROVE  /\ Cardinality(Units(T, amount)) \in Nat
           /\ Cardinality(Units(S, amount)) \in Nat
           /\ Cardinality(Units(T, amount)) <= Cardinality(Units(S, amount))
<1>1. IsFiniteSet(Units(S, amount))
  BY UnitsFinite
<1>2. Units(T, amount) \subseteq Units(S, amount)
  BY DEF Units
<1> QED
  BY <1>1, <1>2, FS_Subset, FS_CardinalityType

\* More payments never come to less (calculate_total_paid).
THEOREM PaidGrows ==
    ASSUME NEW S \in SUBSET Pays, NEW T \in SUBSET S
    PROVE  Paid(T) \in Nat /\ Paid(S) \in Nat /\ Paid(T) <= Paid(S)
<1>1. IsFiniteSet(S)
  BY KeysAssumption, FS_Subset
<1> QED
  BY <1>1, UnitsGrow, AmountsAssumption DEF Paid

\* one row holds its amount
LEMMA UnitsOfOne ==
    ASSUME NEW D, NEW amount \in [D -> Nat], NEW p \in D
    PROVE  IsFiniteSet(Units({p}, amount)) /\ Cardinality(Units({p}, amount)) = amount[p]
<1> DEFINE n == amount[p]
<1>1. Units({p}, amount) = {p} \X (1..n)
  BY DEF Units
<1>2. n \in Nat
  OBVIOUS
<1>3. IsFiniteSet(1..n) /\ Cardinality(1..n) = n
  BY <1>2, FS_Interval
<1>4. IsFiniteSet({p}) /\ Cardinality({p}) = 1
  BY FS_Singleton
<1> HIDE DEF n
<1>5. /\ IsFiniteSet({p} \X (1..n))
      /\ Cardinality({p} \X (1..n)) = Cardinality({p}) * Cardinality(1..n)
  BY <1>3, <1>4, FS_Product
<1>6. Cardinality({p} \X (1..n)) = n
  BY <1>2, <1>3, <1>4, <1>5
<1> QED
  BY <1>1, <1>5, <1>6 DEF n

\* a payment adds its stored value
LEMMA PaidWithout ==
    ASSUME NEW S \in SUBSET Pays, NEW p \in S
    PROVE  Paid(S) = Paid(S \ {p}) + Value[p]
<1> DEFINE rest == Units(S \ {p}, Value)
           one == Units({p}, Value)
<1>1. IsFiniteSet(S \ {p}) /\ IsFiniteSet(S)
  BY KeysAssumption, FS_Subset
<1>2. IsFiniteSet(rest) /\ Cardinality(rest) \in Nat
  BY <1>1, UnitsFinite, AmountsAssumption, FS_CardinalityType
<1>3. IsFiniteSet(one) /\ Cardinality(one) = Value[p] /\ Value[p] \in Nat
  BY UnitsOfOne, AmountsAssumption
<1>4. Units(S, Value) = rest \cup one /\ rest \cap one = {}
  BY DEF Units
<1> HIDE DEF rest, one
<1>5. Cardinality(rest \cup one) =
          Cardinality(rest) + Cardinality(one) - Cardinality(rest \cap one)
  BY <1>2, <1>3, FS_Union
<1>6. Cardinality(rest \cap one) = 0
  BY <1>4, FS_EmptySet
<1> QED
  BY <1>2, <1>3, <1>4, <1>5, <1>6 DEF Paid, rest

LEMMA CountedOld ==
    ASSUME NEW S \in SUBSET Pays
    PROVE  Counted(S, {}) = Paid(S) /\ Paid(S) \in Nat
<1>1. Units({}, Entered) = {} /\ S \ {} = S
  BY DEF Units
<1>2. Cardinality(Units({}, Entered)) = 0
  BY <1>1, FS_EmptySet
<1>3. Paid(S) \in Nat
  BY PaidGrows
<1> QED
  BY <1>1, <1>2, <1>3 DEF Counted

LEMMA CountedNew ==
    ASSUME NEW S \in SUBSET Pays, NEW p \in S
    PROVE  /\ Counted(S, {p}) = Paid(S \ {p}) + Entered[p]
           /\ Paid(S \ {p}) \in Nat /\ Entered[p] \in Nat \ {0}
<1>1. Entered \in [Pays -> Nat]
  BY AmountsAssumption
<1>2. Cardinality(Units({p}, Entered)) = Entered[p]
  BY <1>1, UnitsOfOne
<1>3. Paid(S \ {p}) \in Nat
  BY PaidGrows
<1> QED
  BY <1>2, <1>3, AmountsAssumption DEF Counted

\* The sum update_invoice_status decides on (crud/invoices.py:85) is within
\* half a cent of the sum that is stored, however many payments there are.
THEOREM CountedIsClose ==
    ASSUME NEW S \in SUBSET Pays, NEW new \in SUBSET S,
           new = {} \/ \E p \in S : new = {p}
    PROVE  /\ Counted(S, new) \in Nat /\ Paid(S) \in Nat
           /\ 2 * Counted(S, new) <= 2 * Paid(S) + Cent
           /\ 2 * Paid(S) <= 2 * Counted(S, new) + Cent
<1>1. CASE new = {}
  BY <1>1, CountedOld, AmountsAssumption
<1>2. CASE \E p \in S : new = {p}
  <2>1. PICK p \in S : new = {p}
    BY <1>2
  <2>2. /\ Counted(S, {p}) = Paid(S \ {p}) + Entered[p]
        /\ Paid(S \ {p}) \in Nat /\ Entered[p] \in Nat
    BY CountedNew
  <2>3. Paid(S) = Paid(S \ {p}) + Value[p] /\ Value[p] \in Nat /\ Cent \in Nat
    BY PaidWithout, AmountsAssumption
  <2>4. 2 * Entered[p] <= 2 * Value[p] + Cent /\ 2 * Value[p] <= 2 * Entered[p] + Cent
    BY RoundingAssumption
  <2> QED
    BY <2>1, <2>2, <2>3, <2>4
<1> QED
  BY <1>1, <1>2

\* Fewer line items never come to more (calculate_total).
THEOREM TotalGrows ==
    ASSUME NEW S \in SUBSET Items, NEW T \in SUBSET S
    PROVE  Total(T) \in Nat /\ Total(S) \in Nat /\ Total(T) <= Total(S)
<1>1. IsFiniteSet(S)
  BY KeysAssumption, FS_Subset
<1> QED
  BY <1>1, UnitsGrow, AmountsAssumption DEF Total

\* update_invoice_status answers PAID only when the payments it was given
\* cover the total it was given.
LEMMA PaidOnlyIfCovered ==
    ASSUME NEW s, NEW paid \in Nat, NEW total \in Nat,
           StatusAfter(s, paid, total) = "PAID"
    PROVE  paid >= total /\ paid > 0
BY DEF StatusAfter

-----------------------------------------------------------------------------
(***************************************************************************)
(* The actions, one disjunct of Next each, in the order of the proofs.     *)
(***************************************************************************)
LEMMA StatusAfterType ==
    ASSUME NEW s \in Statuses, NEW paid, NEW total
    PROVE  StatusAfter(s, paid, total) \in Statuses
BY DEF StatusAfter, Statuses

LEMMA CloseType ==
    ASSUME TypeOK, NEW r \in Requests, Close(r)
    PROVE  /\ pc' \in [Requests -> {"idle", "found", "row", "items", "loaded"}
                                    \cup Flushed]
           /\ op' \in [Requests -> AllOps]
           /\ own' \in [Requests -> SUBSET Pays]
           /\ seen' \in [Requests -> Invoice]
           /\ next' \in [Requests -> Statuses]
BY DEF TypeOK, Close, Unloaded, Invoice, Statuses, AllOps

LEMMA CommitType ==
    ASSUME TypeOK, NEW r \in Requests, Commit(r),
           live' \in BOOLEAN, status' \in Statuses,
           lineitems' \in SUBSET Items, payments' \in SUBSET Pays,
           issued' \in SUBSET (Items \cup Pays)
    PROVE  TypeOK'
<1>1. clean' \in SUBSET Requests
  BY DEF Commit, TypeOK
<1>2. Close(r)
  BY DEF Commit
<1> QED
  BY <1>1, <1>2, CloseType DEF TypeOK

LEMMA RollbackType ==
    ASSUME TypeOK, NEW r \in Requests, Rollback(r)
    PROVE  TypeOK'
<1>1. clean' \in SUBSET Requests
  BY DEF Rollback, TypeOK
<1>2. Close(r) /\ UNCHANGED <<live, status, lineitems, payments, issued>>
  BY DEF Rollback, rows
<1> QED
  BY <1>1, <1>2, CloseType DEF TypeOK

LEMMA TypeStep == TypeOK /\ [Next]_vars => TypeOK'
<1> SUFFICES ASSUME TypeOK, [Next]_vars PROVE TypeOK'
  OBVIOUS
<1>1. CASE UNCHANGED vars
  BY <1>1 DEF TypeOK, vars
<1>2. ASSUME NEW r \in Requests, LookUpPayment(r) PROVE TypeOK'
  BY <1>2 DEF TypeOK, LookUpPayment, Advance, rows, AllOps
<1>3. ASSUME NEW r \in Requests, SelectInvoice(r) PROVE TypeOK'
  <2>1. seen' \in [Requests -> Invoice]
    BY <1>3 DEF TypeOK, SelectInvoice, Loads, Invoice
  <2>2. op' \in [Requests -> AllOps] /\ clean' \in SUBSET Requests
    BY <1>3, OpsAssumption DEF TypeOK, SelectInvoice
  <2>3. pc' \in [Requests -> {"idle", "found", "row", "items", "loaded"}
                              \cup Flushed]
    BY <1>3 DEF TypeOK, SelectInvoice, Advance
  <2> QED
    BY <1>3, <2>1, <2>2, <2>3 DEF TypeOK, SelectInvoice, rows
<1>4. ASSUME NEW r \in Requests, SelectLineItems(r) PROVE TypeOK'
  BY <1>4 DEF TypeOK, SelectLineItems, Advance, rows, Invoice, Loads
<1>5. ASSUME NEW r \in Requests, SelectPayments(r) PROVE TypeOK'
  BY <1>5 DEF TypeOK, SelectPayments, Advance, rows, Invoice, Loads
<1>6. ASSUME NEW r \in Requests, FlushInsert(r) PROVE TypeOK'
  BY <1>6 DEF TypeOK, FlushInsert, Advance, rows, Flushed
<1>7. ASSUME NEW r \in Requests, FlushDelete(r) PROVE TypeOK'
  BY <1>7 DEF TypeOK, FlushDelete, Advance, rows, Flushed
<1>8. ASSUME NEW r \in Requests, Recompute(r) PROVE TypeOK'
  <2>1. seen[r].status \in Statuses
    BY DEF TypeOK, Invoice
  <2>2. Recomputed(r) \in Statuses
    BY <2>1, StatusAfterType DEF Recomputed
  <2> QED
    BY <1>8, <2>2 DEF TypeOK, Recompute, Advance, rows, Flushed
<1>9. ASSUME NEW r \in Requests, CommitPayment(r) PROVE TypeOK'
  <2>1. Visible(r) \in SUBSET Pays
    BY DEF TypeOK, Visible
  <2>2. status' \in Statuses
    BY <1>9 DEF TypeOK, CommitPayment, WriteStatus
  <2> QED
    BY <1>9, <2>1, <2>2, CommitType DEF TypeOK, CommitPayment
<1>10. ASSUME NEW r \in Requests, CommitAddItem(r) PROVE TypeOK'
  <2>1. Commit(r) /\ UNCHANGED <<live, status, payments>>
    BY <1>10 DEF CommitAddItem
  <2>2. lineitems' \in SUBSET Items /\ issued' \in SUBSET (Items \cup Pays)
    BY <1>10 DEF TypeOK, CommitAddItem
  <2> QED
    BY <2>1, <2>2, CommitType DEF TypeOK
<1>11. ASSUME NEW r \in Requests, CommitDropItem(r) PROVE TypeOK'
  BY <1>11, CommitType DEF TypeOK, CommitDropItem
<1>12. ASSUME NEW r \in Requests, CommitEdit(r) PROVE TypeOK'
  BY <1>12, CommitType DEF TypeOK, CommitEdit, WriteStatus
<1>13. ASSUME NEW r \in Requests, CommitSend(r) PROVE TypeOK'
  BY <1>13, CommitType DEF TypeOK, CommitSend, WriteStatus, Statuses
<1>14. ASSUME NEW r \in Requests, CommitOverdue(r) PROVE TypeOK'
  BY <1>14, CommitType DEF TypeOK, CommitOverdue, WriteStatus, Statuses
<1>15. ASSUME NEW r \in Requests, CommitDelete(r) PROVE TypeOK'
  BY <1>15, CommitType DEF TypeOK, CommitDelete
<1>16. ASSUME NEW r \in Requests, Refuse(r) PROVE TypeOK'
  BY <1>16, RollbackType DEF Refuse
<1>17. ASSUME NEW r \in Requests, Fail(r) PROVE TypeOK'
  BY <1>17, RollbackType DEF Fail
<1> QED
  BY <1>1, <1>2, <1>3, <1>4, <1>5, <1>6, <1>7, <1>8, <1>9, <1>10, <1>11,
     <1>12, <1>13, <1>14, <1>15, <1>16, <1>17 DEF Next

\* Every reachable state is well-typed: the status column always holds a
\* member of the enum, whatever update_invoice_status computes.
THEOREM TypeCorrect == Spec => []TypeOK
<1>1. Init => TypeOK
  BY DEF Init, TypeOK, Invoice, Unloaded, Statuses, AllOps
<1> QED
  BY <1>1, TypeStep, PTL DEF Spec

-----------------------------------------------------------------------------
(***************************************************************************)
(* How the program counters of the other requests relate to a step of r.   *)
(***************************************************************************)
Others(r) == \A q \in Requests \ {r} :
    /\ pc'[q] = pc[q] /\ op'[q] = op[q] /\ own'[q] = own[q]
    /\ seen'[q] = seen[q] /\ next'[q] = next[q]

LEMMA CloseOthers ==
    ASSUME TypeOK, NEW r \in Requests, Close(r)
    PROVE  pc'[r] = "idle" /\ Others(r)
BY DEF TypeOK, Close, Others

\* an invoice that is there stays there, and no payment enters Flushed
LEMMA OrphansKept ==
    ASSUME TypeOK, NoOrphans, NEW r \in Requests, Close(r),
           UNCHANGED live, ~ live => lineitems' = {} /\ payments' = {}
    PROVE  NoOrphans'
BY CloseOthers DEF NoOrphans, Others, Flushed

LEMMA OrphansStep == TypeOK /\ NoOrphans /\ [Next]_vars => NoOrphans'
<1> SUFFICES ASSUME TypeOK, NoOrphans, [Next]_vars PROVE NoOrphans'
  OBVIOUS
<1> USE DEF Flushed
<1>1. CASE UNCHANGED vars
  BY <1>1 DEF NoOrphans, vars
<1>2. ASSUME NEW r \in Requests, LookUpPayment(r) PROVE NoOrphans'
  BY <1>2 DEF TypeOK, NoOrphans, LookUpPayment, Advance, rows
<1>3. ASSUME NEW r \in Requests, SelectInvoice(r) PROVE NoOrphans'
  <2>1. pc'[r] = "row" /\ \A q \in Requests \ {r} :
                            pc'[q] = pc[q] /\ op'[q] = op[q]
    BY <1>3 DEF TypeOK, SelectInvoice, Advance
  <2> QED
    BY <1>3, <2>1 DEF NoOrphans, SelectInvoice, rows
<1>4. ASSUME NEW r \in Requests, SelectLineItems(r) PROVE NoOrphans'
  BY <1>4 DEF TypeOK, NoOrphans, SelectLineItems, Advance, rows
<1>5. ASSUME NEW r \in Requests, SelectPayments(r) PROVE NoOrphans'
  BY <1>5 DEF TypeOK, NoOrphans, SelectPayments, Advance, rows
<1>6. ASSUME NEW r \in Requests, FlushInsert(r) PROVE NoOrphans'
  BY <1>6 DEF TypeOK, NoOrphans, FlushInsert, Advance, rows
<1>7. ASSUME NEW r \in Requests, FlushDelete(r) PROVE NoOrphans'
  BY <1>7 DEF TypeOK, NoOrphans, FlushDelete, Advance, rows
<1>8. ASSUME NEW r \in Requests, Recompute(r) PROVE NoOrphans'
  BY <1>8 DEF TypeOK, NoOrphans, Recompute, Advance, rows
<1>9. ASSUME NEW r \in Requests, CommitPayment(r) PROVE NoOrphans'
  <2>1. ~ live => Visible(r) = {}
    BY <1>9 DEF NoOrphans, CommitPayment, Visible
  <2> QED
    BY <1>9, <2>1, OrphansKept DEF NoOrphans, CommitPayment, Commit
<1>10. ASSUME NEW r \in Requests, CommitAddItem(r) PROVE NoOrphans'
  BY <1>10, OrphansKept DEF CommitAddItem, Commit
<1>11. ASSUME NEW r \in Requests, CommitDropItem(r) PROVE NoOrphans'
  BY <1>11, OrphansKept DEF NoOrphans, CommitDropItem, Commit
<1>12. ASSUME NEW r \in Requests, CommitEdit(r) PROVE NoOrphans'
  BY <1>12, OrphansKept DEF NoOrphans, CommitEdit, Commit
<1>13. ASSUME NEW r \in Requests, CommitSend(r) PROVE NoOrphans'
  BY <1>13, OrphansKept DEF NoOrphans, CommitSend, Commit
<1>14. ASSUME NEW r \in Requests, CommitOverdue(r) PROVE NoOrphans'
  BY <1>14, OrphansKept DEF NoOrphans, CommitOverdue, Commit
<1>15. ASSUME NEW r \in Requests, CommitDelete(r) PROVE NoOrphans'
  <2>1. \A q \in Requests : ~ (pc[q] \in Flushed /\ op[q] = "pay")
    BY <1>15 DEF CommitDelete, Locked
  <2>2. lineitems' = {} /\ payments' = {} /\ Close(r)
    BY <1>15 DEF CommitDelete, SeenAll, Commit
  <2> QED
    BY <2>1, <2>2, CloseOthers DEF NoOrphans, Others
<1>16. ASSUME NEW r \in Requests, Rollback(r) PROVE NoOrphans'
  BY <1>16, OrphansKept DEF NoOrphans, Rollback, rows
<1>17. ASSUME NEW r \in Requests, Refuse(r) \/ Fail(r) PROVE NoOrphans'
  BY <1>16, <1>17 DEF Refuse, Fail
<1> QED
  BY <1>1, <1>2, <1>3, <1>4, <1>5, <1>6, <1>7, <1>8, <1>9, <1>10, <1>11,
     <1>12, <1>13, <1>14, <1>15, <1>17 DEF Next

\* Children never outlive their invoice, and a flushed payment keeps it: the
\* key-share lock and the foreign keys cover every interleaving of
\* delete_invoice with the handlers of line items and payments.
THEOREM ChildrenHaveInvoice == Spec => []NoOrphans
<1>1. Init => NoOrphans
  BY DEF Init, NoOrphans, Flushed
<1> QED
  BY <1>1, TypeCorrect, OrphansStep, PTL DEF Spec

-----------------------------------------------------------------------------
(***************************************************************************)
(* Undisturbed requests.  A key in a table or a session has been issued,   *)
(* and only payments and refunds get past a flush.                         *)
(***************************************************************************)
Protocol ==
    /\ lineitems \subseteq issued /\ payments \subseteq issued
    /\ \A r \in Requests :
          /\ own[r] \subseteq issued
          /\ pc[r] \in Flushed => op[r] \in {"pay", "refund"}
          /\ pc[r] = "found" => op[r] = "refund"

Loaded(r, from) == pc[r] \in from \cup Flushed

(***************************************************************************)
(* What a request that no commit has disturbed knows while its invoice is  *)
(* there.  A payment or refund knows the status and the line items it has  *)
(* loaded, its payment is (or is not yet) in the table, and the status it  *)
(* has computed is the one the rule gives for the committed rows with its  *)
(* own change applied.  /send and the daily job know that what they will   *)
(* write is still due, or has been written by another.  The rest know      *)
(* nothing: what they loaded may be stale, and does not matter.            *)
(***************************************************************************)
Fresh(r) ==
    /\ pc[r] # "idle"
    /\ live /\ op[r] = "overdue" => status \in {"SENT", "PARTIALLY_PAID", "OVERDUE"}
    /\ live /\ op[r] = "send" /\ seen[r].status = "DRAFT" => status \in {"DRAFT", "SENT"}
    /\ live /\ op[r] = "refund" => \E p \in payments : own[r] = {p}
    /\ live /\ op[r] \in {"pay", "refund"} =>
          /\ Loaded(r, {"row", "items", "loaded"}) => seen[r].status = status
          /\ Loaded(r, {"items", "loaded"}) => seen[r].items = lineitems
    /\ op[r] = "pay" /\ pc[r] \in Flushed =>
          /\ live /\ status # "DRAFT"
          /\ \E p \in Pays \ payments : own[r] = {p}
    /\ pc[r] = "computed" =>
          /\ live
          /\ next[r] = StatusAfter(status, Counted(Visible(r), Visible(r) \ payments),
                                   Total(lineitems))

Undisturbed == \A r \in clean : Fresh(r)

LEMMA ProtocolStep == TypeOK /\ Protocol /\ [Next]_vars => Protocol'
<1> SUFFICES ASSUME TypeOK, Protocol, [Next]_vars PROVE Protocol'
  OBVIOUS
<1> USE DEF Flushed
<1>1. CASE UNCHANGED vars
  BY <1>1 DEF Protocol, vars
<1>2. ASSUME NEW r \in Requests, LookUpPayment(r) PROVE Protocol'
  BY <1>2 DEF TypeOK, Protocol, LookUpPayment, Advance, rows
<1>3. ASSUME NEW r \in Requests, SelectInvoice(r) PROVE Protocol'
  <2>1. pc'[r] = "row" /\ \A q \in Requests \ {r} :
                            pc'[q] = pc[q] /\ op'[q] = op[q]
    BY <1>3 DEF TypeOK, SelectInvoice, Advance
  <2> QED
    BY <1>3, <2>1 DEF Protocol, SelectInvoice, rows
<1>4. ASSUME NEW r \in Requests, SelectLineItems(r) PROVE Protocol'
  BY <1>4 DEF TypeOK, Protocol, SelectLineItems, Advance, rows
<1>5. ASSUME NEW r \in Requests, SelectPayments(r) PROVE Protocol'
  BY <1>5 DEF TypeOK, Protocol, SelectPayments, Advance, rows
<1>6. ASSUME NEW r \in Requests, FlushInsert(r) PROVE Protocol'
  BY <1>6 DEF TypeOK, Protocol, FlushInsert, Advance, rows
<1>7. ASSUME NEW r \in Requests, FlushDelete(r) PROVE Protocol'
  BY <1>7 DEF TypeOK, Protocol, FlushDelete, Advance, rows
<1>8. ASSUME NEW r \in Requests, Recompute(r) PROVE Protocol'
  BY <1>8 DEF TypeOK, Protocol, Recompute, Advance, rows
<1>9. ASSUME NEW r \in Requests, Close(r), issued \subseteq issued',
             lineitems' \subseteq issued', payments' \subseteq issued
      PROVE  Protocol'
  <2>1. own'[r] = {}
    BY <1>9 DEF TypeOK, Close
  <2> QED
    BY <1>9, <2>1, CloseOthers DEF Protocol, Others
<1>10. ASSUME NEW r \in Requests, CommitPayment(r) PROVE Protocol'
  <2>1. Visible(r) \subseteq issued
    BY DEF Protocol, Visible
  <2> QED
    BY <1>9, <1>10, <2>1 DEF Protocol, CommitPayment, Commit
<1>11. ASSUME NEW r \in Requests, CommitAddItem(r) PROVE Protocol'
  BY <1>9, <1>11 DEF Protocol, CommitAddItem, Commit
<1>12. ASSUME NEW r \in Requests, CommitDropItem(r) PROVE Protocol'
  BY <1>9, <1>12 DEF Protocol, CommitDropItem, Commit
<1>13. ASSUME NEW r \in Requests, CommitEdit(r) PROVE Protocol'
  BY <1>9, <1>13 DEF Protocol, CommitEdit, Commit
<1>14. ASSUME NEW r \in Requests, CommitSend(r) PROVE Protocol'
  BY <1>9, <1>14 DEF Protocol, CommitSend, Commit
<1>15. ASSUME NEW r \in Requests, CommitOverdue(r) PROVE Protocol'
  BY <1>9, <1>15 DEF Protocol, CommitOverdue, Commit
<1>16. ASSUME NEW r \in Requests, CommitDelete(r) PROVE Protocol'
  BY <1>9, <1>16 DEF Protocol, CommitDelete, Commit
<1>17. ASSUME NEW r \in Requests, Refuse(r) \/ Fail(r) PROVE Protocol'
  BY <1>9, <1>17 DEF Protocol, Refuse, Fail, Rollback, rows
<1> QED
  BY <1>1, <1>2, <1>3, <1>4, <1>5, <1>6, <1>7, <1>8, <1>10, <1>11, <1>12,
     <1>13, <1>14, <1>15, <1>16, <1>17 DEF Next

\* a step of r that changes no row leaves every other request fresh
LEMMA OthersStayFresh ==
    ASSUME TypeOK, Undisturbed, NEW r \in Requests, Others(r),
           UNCHANGED <<live, status, lineitems, payments>>
    PROVE  \A q \in clean \ {r} : Fresh(q)'
<1> SUFFICES ASSUME NEW q \in clean \ {r} PROVE Fresh(q)'
  OBVIOUS
<1>1. Fresh(q) /\ q \in Requests
  BY DEF Undisturbed, TypeOK
<1>2. /\ pc'[q] = pc[q] /\ op'[q] = op[q] /\ own'[q] = own[q]
      /\ seen'[q] = seen[q] /\ next'[q] = next[q]
  BY <1>1 DEF Others
<1>3. Visible(q)' = Visible(q)
  BY <1>2 DEF Visible
<1>4. (pc[q] = "computed" =>
          next[q] = StatusAfter(status, Counted(Visible(q), Visible(q) \ payments),
                                Total(lineitems)))'
  BY <1>1, <1>2, <1>3 DEF Fresh
<1> QED
  BY <1>1, <1>2, <1>4 DEF Fresh, Loaded

(***************************************************************************)
(* The table Disturbs, one kind of commit at a time: what the commit       *)
(* changes is nothing that a request it spares has to know.                *)
(***************************************************************************)
Same(q) ==
    /\ pc'[q] = pc[q] /\ op'[q] = op[q] /\ own'[q] = own[q]
    /\ seen'[q] = seen[q] /\ next'[q] = next[q]

\* only a payment or refund that has loaded something computes a status
LEMMA OnlyPaymentsCompute ==
    ASSUME TypeOK, Protocol, NEW q \in Requests, pc[q] \in Flushed
    PROVE  /\ op[q] \in {"pay", "refund"}
           /\ pc[q] \notin {"idle", "found", "row", "items", "loaded"}
BY DEF Protocol, Flushed

LEMMA SparedByLineItem ==
    ASSUME TypeOK, Protocol, NEW q \in Requests, Fresh(q), Same(q),
           ~ Disturbs("addItem", q), UNCHANGED <<live, status, payments>>
    PROVE  Fresh(q)'
<1>1. op[q] \in {"pay", "refund"} => pc[q] \in {"found", "row"}
  BY DEF Disturbs
<1>2. pc[q] \notin Flushed
  BY <1>1, OnlyPaymentsCompute
<1> QED
  BY <1>1, <1>2 DEF Fresh, Same, Loaded, Flushed

LEMMA SparedByStatus ==
    ASSUME TypeOK, Protocol, NEW q \in Requests, Fresh(q), Same(q),
           NEW o \in {"edit", "send", "overdue"}, ~ Disturbs(o, q),
           UNCHANGED <<live, lineitems, payments>>,
           o = "send" => status' \in {status, "SENT"},
           o = "overdue" => status' \in {status, "OVERDUE"}
    PROVE  Fresh(q)'
<1>1. op[q] \in {"pay", "refund"} => pc[q] = "found"
  BY DEF Disturbs
<1>2. pc[q] \notin Flushed
  BY <1>1, OnlyPaymentsCompute
<1>3. op[q] = "overdue" => o \in {"send", "overdue"}
  BY DEF Disturbs
<1>4. op[q] = "send" => o = "send"
  BY DEF Disturbs
<1> QED
  BY <1>1, <1>2, <1>3, <1>4 DEF Fresh, Same, Loaded, Flushed

LEMMA SparedByPayment ==
    ASSUME TypeOK, Protocol, NEW q \in Requests, Fresh(q), Same(q),
           NEW o \in {"pay", "refund"}, ~ Disturbs(o, q),
           UNCHANGED <<live, lineitems>>,
           o = "pay" => payments \subseteq payments'
    PROVE  Fresh(q)'
<1>1. op[q] \in {"pay", "refund"} => pc[q] = "found" /\ o = "pay"
  BY DEF Disturbs
<1>2. pc[q] \notin Flushed
  BY <1>1, OnlyPaymentsCompute
<1>3. op[q] \notin {"send", "overdue"}
  BY DEF Disturbs
<1> QED
  BY <1>1, <1>2, <1>3 DEF Fresh, Same, Loaded, Flushed

\* the locks keep the invoice of a request that has flushed
LEMMA SparedByDelete ==
    ASSUME TypeOK, Protocol, NEW q \in Requests, Fresh(q), Same(q),
           ~ Locked, ~ live'
    PROVE  Fresh(q)'
<1>1. ~ (op[q] = "pay" /\ pc[q] \in Flushed)
  BY DEF Locked
<1>2. pc[q] # "computed"
  <2> SUFFICES ASSUME pc[q] = "computed" PROVE FALSE
    OBVIOUS
  <2>1. op[q] = "refund" /\ live
    BY <1>1, OnlyPaymentsCompute DEF Flushed, Fresh
  <2>2. PICK p \in payments : own[q] = {p}
    BY <2>1 DEF Fresh
  <2> QED
    BY <2>1, <2>2 DEF Locked, DeletesPayment, Flushed
<1> QED
  BY <1>1, <1>2 DEF Fresh, Same, Flushed

\* r ends without changing a row, or sparing the requests that stay clean
LEMMA EndKeepsUndisturbed ==
    ASSUME TypeOK, Undisturbed, NEW r \in Requests, Close(r),
           clean' \subseteq clean \ {r},
           \/ rows' = rows
           \/ \A q \in clean' : Same(q) /\ Fresh(q) => Fresh(q)'
    PROVE  Undisturbed'
<1>1. CASE rows' = rows
  BY <1>1, CloseOthers, OthersStayFresh DEF Undisturbed, rows
<1>2. CASE \A q \in clean' : Same(q) /\ Fresh(q) => Fresh(q)'
  BY <1>2, CloseOthers DEF Undisturbed, Others, Same, TypeOK
<1> QED
  BY <1>1, <1>2

LEMMA UndisturbedStep ==
    TypeOK /\ Protocol /\ Undisturbed /\ [Next]_vars => Undisturbed'
<1> SUFFICES ASSUME TypeOK, Protocol, Undisturbed, [Next]_vars
             PROVE  Undisturbed'
  OBVIOUS
<1> USE DEF Flushed
<1>0. ASSUME NEW r \in Requests, Others(r), rows' = rows,
             clean' \subseteq clean \cup {r}, r \in clean' => Fresh(r)'
      PROVE  Undisturbed'
  BY <1>0, OthersStayFresh DEF Undisturbed, rows
<1>1. CASE UNCHANGED vars
  BY <1>1 DEF Undisturbed, Fresh, Loaded, Visible, vars
<1>2. ASSUME NEW r \in Requests, LookUpPayment(r) PROVE Undisturbed'
  <2>1. Others(r) /\ Fresh(r)'
    BY <1>2 DEF TypeOK, LookUpPayment, Advance, Others, Fresh, Loaded, rows
  <2> QED
    BY <1>0, <1>2, <2>1 DEF LookUpPayment
<1>3. ASSUME NEW r \in Requests, SelectInvoice(r) PROVE Undisturbed'
  <2>1. Others(r)
    BY <1>3 DEF TypeOK, SelectInvoice, Advance, Loads, Others
  <2>2. seen'[r].status = status /\ pc'[r] = "row" /\ own'[r] = own[r]
    BY <1>3 DEF TypeOK, SelectInvoice, Advance, Loads
  <2>3. CASE pc[r] = "idle"
    <3>1. PICK o \in Ops \ {"refund"} : Selects(o) /\ op'[r] = o
      BY <1>3, <2>3 DEF TypeOK, SelectInvoice, Advance
    <3>2. Fresh(r)'
      BY <1>3, <2>2, <3>1 DEF SelectInvoice, Selects, Fresh, Loaded, rows
    <3> QED
      BY <1>0, <1>3, <2>1, <2>3, <3>2 DEF SelectInvoice, Advance
  <2>4. CASE pc[r] = "found"
    <3>1. op'[r] = op[r] /\ op[r] = "refund" /\ live /\ clean' = clean
      BY <1>3, <2>4 DEF SelectInvoice, Advance, Protocol
    <3>2. r \in clean => Fresh(r)'
      BY <1>3, <2>2, <3>1 DEF SelectInvoice, Undisturbed, Fresh, Loaded, rows
    <3> QED
      BY <1>0, <1>3, <2>1, <3>1, <3>2 DEF SelectInvoice
  <2> QED
    BY <1>3, <2>3, <2>4 DEF SelectInvoice, Advance
<1>4. ASSUME NEW r \in Requests, SelectLineItems(r) PROVE Undisturbed'
  <2>1. Others(r)
    BY <1>4 DEF TypeOK, SelectLineItems, Advance, Loads, Others
  <2>2. /\ pc'[r] = "items" /\ pc[r] = "row"
        /\ seen'[r].status = seen[r].status /\ seen'[r].items = lineitems
    BY <1>4 DEF TypeOK, SelectLineItems, Advance, Loads
  <2>3. r \in clean => Fresh(r)'
    BY <1>4, <2>2 DEF SelectLineItems, Undisturbed, Fresh, Loaded, rows
  <2> QED
    BY <1>0, <1>4, <2>1, <2>3 DEF SelectLineItems
<1>5. ASSUME NEW r \in Requests, SelectPayments(r) PROVE Undisturbed'
  <2>1. Others(r)
    BY <1>5 DEF TypeOK, SelectPayments, Advance, Loads, Others
  <2>2. /\ pc'[r] = "loaded" /\ pc[r] = "items"
        /\ seen'[r].status = seen[r].status
        /\ seen'[r].items = seen[r].items
    BY <1>5 DEF TypeOK, SelectPayments, Advance, Loads
  <2>3. r \in clean => Fresh(r)'
    BY <1>5, <2>2 DEF SelectPayments, Undisturbed, Fresh, Loaded, rows
  <2> QED
    BY <1>0, <1>5, <2>1, <2>3 DEF SelectPayments
<1>6. ASSUME NEW r \in Requests, FlushInsert(r) PROVE Undisturbed'
  <2>1. Others(r)
    BY <1>6 DEF TypeOK, FlushInsert, Advance, Others
  <2>2. PICK p \in Pays \ issued : own'[r] = {p}
    BY <1>6 DEF TypeOK, FlushInsert
  <2>3. p \notin payments
    BY <2>2 DEF Protocol
  <2>4. r \in clean => Fresh(r)'
    BY <1>6, <2>2, <2>3
    DEF TypeOK, FlushInsert, Advance, MayPay, Undisturbed, Fresh, Loaded, rows
  <2> QED
    BY <1>0, <1>6, <2>1, <2>4 DEF FlushInsert
<1>7. ASSUME NEW r \in Requests, FlushDelete(r) PROVE Undisturbed'
  <2>1. Others(r)
    BY <1>7 DEF TypeOK, FlushDelete, Advance, Others
  <2>2. r \in clean => Fresh(r)'
    BY <1>7 DEF TypeOK, FlushDelete, Advance, Undisturbed, Fresh, Loaded, rows
  <2> QED
    BY <1>0, <1>7, <2>1, <2>2 DEF FlushDelete
<1>8. ASSUME NEW r \in Requests, Recompute(r) PROVE Undisturbed'
  <2>1. Others(r)
    BY <1>8 DEF TypeOK, Recompute, Advance, Others
  <2>2. /\ pc'[r] = "computed" /\ pc[r] = "flushed" /\ Visible(r)' = Visible(r)
        /\ next'[r] = Recomputed(r)
    BY <1>8 DEF TypeOK, Recompute, Advance, Visible, rows
  <2>3. r \in clean => Recomputed(r) =
            StatusAfter(status, Counted(Visible(r), Visible(r) \ payments),
                        Total(lineitems))
    <3> SUFFICES ASSUME r \in clean
                 PROVE  Recomputed(r) =
                     StatusAfter(status, Counted(Visible(r), Visible(r) \ payments),
                                 Total(lineitems))
      OBVIOUS
    <3>1. Visible(r) \cap own[r] = Visible(r) \ payments
      BY <2>2 DEF Visible, Undisturbed, Fresh, Flushed
    <3>2. Fresh(r) /\ live /\ op[r] \in {"pay", "refund"}
      BY <1>8, <2>2, OnlyPaymentsCompute DEF Recompute, Undisturbed
    <3>3. seen[r].status = status /\ seen[r].items = lineitems
      BY <2>2, <3>2 DEF Fresh, Loaded
    <3> QED
      BY <3>1, <3>3 DEF Recomputed
  <2>4. r \in clean => Fresh(r)'
    BY <1>8, <2>2, <2>3 DEF Recompute, Undisturbed, Fresh, Loaded, rows
  <2> QED
    BY <1>0, <1>8, <2>1, <2>4 DEF Recompute
<1>9. ASSUME NEW r \in Requests, Commit(r),
             \A q \in Requests : Same(q) /\ Fresh(q) /\ ~ Disturbs(op[r], q) => Fresh(q)'
      PROVE  Undisturbed'
  <2>1. Close(r) /\ clean' \subseteq clean \ {r}
    BY <1>9 DEF Commit
  <2>2. rows' = rows \/ \A q \in clean' : q \in Requests /\ ~ Disturbs(op[r], q)
    BY <1>9 DEF Commit, TypeOK
  <2> QED
    BY <1>9, <2>1, <2>2, EndKeepsUndisturbed
<1>10. ASSUME NEW r \in Requests, CommitPayment(r) PROVE Undisturbed'
  <2>1. /\ Commit(r) /\ op[r] \in {"pay", "refund"} /\ UNCHANGED <<live, lineitems>>
        /\ op[r] = "pay" => payments \subseteq payments'
    BY <1>10 DEF CommitPayment, Visible, Protocol
  <2> QED
    BY <1>9, <2>1, SparedByPayment
<1>11. ASSUME NEW r \in Requests, CommitAddItem(r) \/ CommitDropItem(r)
       PROVE  Undisturbed'
  <2>1. /\ Commit(r) /\ op[r] \in {"addItem", "dropItem"}
        /\ UNCHANGED <<live, status, payments>>
    BY <1>11 DEF CommitAddItem, CommitDropItem, Ready
  <2>2. ASSUME NEW q \in Requests, ~ Disturbs(op[r], q) PROVE ~ Disturbs("addItem", q)
    BY <2>1, <2>2 DEF Disturbs
  <2> QED
    BY <1>9, <2>1, <2>2, SparedByLineItem
<1>12. ASSUME NEW r \in Requests, CommitEdit(r) \/ CommitSend(r) \/ CommitOverdue(r)
       PROVE  Undisturbed'
  <2>1. /\ Commit(r) /\ op[r] \in {"edit", "send", "overdue"}
        /\ UNCHANGED <<live, lineitems, payments>>
        /\ op[r] = "send" => status' \in {status, "SENT"}
        /\ op[r] = "overdue" => status' \in {status, "OVERDUE"}
    BY <1>12 DEF CommitEdit, CommitSend, CommitOverdue, Ready, WriteStatus
  <2> QED
    BY <1>9, <2>1, SparedByStatus
<1>13. ASSUME NEW r \in Requests, CommitDelete(r) PROVE Undisturbed'
  <2>1. Commit(r) /\ ~ Locked /\ ~ live'
    BY <1>13 DEF CommitDelete
  <2> QED
    BY <1>9, <2>1, SparedByDelete
<1>14. ASSUME NEW r \in Requests, Refuse(r) \/ Fail(r) PROVE Undisturbed'
  <2>1. Close(r) /\ clean' \subseteq clean \ {r} /\ rows' = rows
    BY <1>14 DEF Refuse, Fail, Rollback
  <2> QED
    BY <2>1, EndKeepsUndisturbed
<1> QED
  BY <1>1, <1>2, <1>3, <1>4, <1>5, <1>6, <1>7, <1>8, <1>10, <1>11, <1>12,
     <1>13, <1>14 DEF Next

\* the ledger's arithmetic is that of the sessions
LEMMA SameRules ==
    /\ \A S : Ledger!Paid(S) = Paid(S) /\ Ledger!Total(S) = Total(S)
    /\ \A S, T : Ledger!Counted(S, T) = Counted(S, T)
    /\ \A s, paid, total :
          Ledger!StatusAfter(s, paid, total) = StatusAfter(s, paid, total)
    /\ Ledger!Statuses = Statuses
<1>1. \A S, amount : Ledger!Units(S, amount) = Units(S, amount)
  BY DEF Ledger!Units, Units
<1>2. \A S : Ledger!Paid(S) = Paid(S) /\ Ledger!Total(S) = Total(S)
  BY <1>1 DEF Ledger!Paid, Paid, Ledger!Total, Total,
               Ledger!Cardinality, Cardinality
<1>5. \A S, T : Ledger!Counted(S, T) = Counted(S, T)
  BY <1>1, <1>2 DEF Ledger!Counted, Counted, Ledger!Cardinality, Cardinality
<1>3. \A s, paid, total :
         Ledger!StatusAfter(s, paid, total) = StatusAfter(s, paid, total)
  BY DEF Ledger!StatusAfter, StatusAfter
<1>4. Ledger!Statuses = Statuses
  BY DEF Ledger!Statuses, Statuses
<1> QED
  BY <1>2, <1>3, <1>4, <1>5

LEMMA PaymentIsAtomic ==
    ASSUME TypeOK, Protocol, NEW r \in Requests, Fresh(r), CommitPayment(r)
    PROVE  Promised(op[r])
<1>1. pc[r] = "computed" /\ op[r] \in {"pay", "refund"} /\ Loaded(r, {"loaded"})
  BY DEF CommitPayment, Protocol, Loaded, Flushed
<1>2. next[r] = StatusAfter(status, Counted(Visible(r), Visible(r) \ payments),
                            Total(lineitems))
  BY <1>1 DEF Fresh
<1>3. status' = next[r] /\ live
  <2>1. live
    BY <1>1 DEF Fresh
  <2>2. seen[r].status = status
    BY <1>1, <2>1 DEF Fresh, Loaded, Flushed
  <2> QED
    BY <2>1, <2>2 DEF CommitPayment, WriteStatus
<1>4. Ledger!Settle(Visible(r))
  BY <1>2, <1>3, SameRules DEF CommitPayment, Ledger!Settle
<1>5. CASE op[r] = "pay"
  <2>1. PICK p \in Pays \ payments : own[r] = {p}
    BY <1>1, <1>5 DEF Fresh, Flushed
  <2>2. Visible(r) = payments \cup {p} /\ status # "DRAFT"
    BY <1>1, <1>5, <2>1 DEF Visible, Fresh, Flushed
  <2>3. Ledger!Pay(p)
    BY <1>3, <1>4, <2>1, <2>2 DEF Ledger!Pay
  <2> QED
    BY <1>5, <2>3 DEF Promised
<1>6. CASE op[r] = "refund"
  <2>1. PICK p \in payments : own[r] = {p}
    BY <1>3, <1>6 DEF Fresh
  <2>2. Visible(r) = payments \ {p}
    BY <1>6, <2>1 DEF Visible
  <2>3. Ledger!Refund(p) /\ p \in Pays
    BY <1>3, <1>4, <2>1, <2>2 DEF Ledger!Refund, TypeOK
  <2> QED
    BY <1>6, <2>3 DEF Promised
<1> QED
  BY <1>1, <1>5, <1>6

LEMMA AtomicStep ==
    ASSUME TypeOK, NoOrphans, Protocol, Undisturbed, [Next]_vars,
           NEW r \in clean, pc'[r] = "idle"
    PROVE  rows' = rows \/ Promised(op[r])
<1>1. r \in Requests /\ Fresh(r) /\ pc[r] # "idle"
  BY DEF TypeOK, Undisturbed, Fresh
<1>2. ASSUME NEW q \in Requests, Commit(q) PROVE q = r
  BY <1>1, <1>2, CloseOthers DEF Commit, Others
<1>4. ASSUME NEW q \in Requests, CommitPayment(q) PROVE Promised(op[r])
  BY <1>1, <1>2, <1>4, PaymentIsAtomic DEF CommitPayment
<1>5. ASSUME NEW q \in Requests, CommitAddItem(q) PROVE Promised(op[r])
  <2>1. q = r
    BY <1>2, <1>5 DEF CommitAddItem
  <2>2. PICK i \in Items \ issued : lineitems' = lineitems \cup {i}
    BY <1>5 DEF CommitAddItem
  <2>3. Ledger!AddItem(i)
    BY <1>5, <2>2 DEF CommitAddItem, Protocol, Ledger!AddItem
  <2> QED
    BY <1>5, <2>1, <2>3 DEF CommitAddItem, Ready, Promised
<1>6. ASSUME NEW q \in Requests, CommitDropItem(q)
      PROVE  rows' = rows \/ Promised(op[r])
  <2>1. q = r /\ op[r] = "dropItem"
    BY <1>2, <1>6 DEF CommitDropItem, Ready
  <2>2. PICK i \in seen[r].items \cup lineitems : lineitems' = lineitems \ {i}
    BY <1>6, <2>1 DEF CommitDropItem
  <2>3. CASE i \notin lineitems
    BY <1>6, <2>2, <2>3 DEF CommitDropItem, rows
  <2>4. CASE i \in lineitems
    <3>1. live
      BY <2>4 DEF NoOrphans
    <3>2. Ledger!DropItem(i) /\ i \in Items
      BY <1>6, <2>2, <2>4, <3>1 DEF CommitDropItem, Ledger!DropItem, TypeOK
    <3> QED
      BY <2>1, <3>2 DEF Promised
  <2> QED
    BY <2>3, <2>4
<1>7. ASSUME NEW q \in Requests, CommitEdit(q)
      PROVE  rows' = rows \/ Promised(op[r])
  <2>1. q = r /\ op[r] = "edit"
    BY <1>2, <1>7 DEF CommitEdit, Ready
  <2>2. PICK s \in Statuses : WriteStatus(r, s)
    BY <1>7, <2>1 DEF CommitEdit
  <2>3. UNCHANGED status \/ Ledger!SetStatus(s)
    BY <1>7, <2>2 DEF CommitEdit, WriteStatus, Ledger!SetStatus
  <2> QED
    BY <1>7, <2>1, <2>3 DEF CommitEdit, rows, Promised
<1>8. ASSUME NEW q \in Requests, CommitSend(q)
      PROVE  rows' = rows \/ Promised(op[r])
  <2>1. q = r /\ op[r] = "send" /\ seen[r].status = "DRAFT"
    BY <1>2, <1>8 DEF CommitSend, Ready
  <2>2. status' = "SENT" /\ live /\ status \in {"DRAFT", "SENT"}
    BY <1>1, <1>8, <2>1 DEF CommitSend, WriteStatus, Fresh
  <2>3. UNCHANGED status \/ Ledger!Send
    BY <1>8, <2>2 DEF CommitSend, Ledger!Send
  <2> QED
    BY <1>8, <2>1, <2>3 DEF CommitSend, rows, Promised
<1>9. ASSUME NEW q \in Requests, CommitOverdue(q)
      PROVE  rows' = rows \/ Promised(op[r])
  <2>1. q = r /\ op[r] = "overdue"
    BY <1>2, <1>9 DEF CommitOverdue, Ready
  <2>2. \/ UNCHANGED status
        \/ status' = "OVERDUE" /\ live /\ status \in {"SENT", "PARTIALLY_PAID"}
    BY <1>1, <1>9, <2>1 DEF CommitOverdue, WriteStatus, Fresh
  <2>3. UNCHANGED status \/ Ledger!MarkOverdue
    BY <1>9, <2>2 DEF CommitOverdue, Ledger!MarkOverdue
  <2> QED
    BY <1>9, <2>1, <2>3 DEF CommitOverdue, rows, Promised
<1>10. ASSUME NEW q \in Requests, CommitDelete(q)
       PROVE  rows' = rows \/ Promised(op[r])
  <2>1. q = r /\ op[r] = "delete"
    BY <1>2, <1>10 DEF CommitDelete, Ready
  <2>2. live' = FALSE /\ lineitems' = {} /\ payments' = {} /\ UNCHANGED status
    BY <1>10 DEF CommitDelete, SeenAll
  <2>3. CASE live
    <3>1. Ledger!Erase
      BY <2>2, <2>3 DEF Ledger!Erase
    <3> QED
      BY <2>1, <3>1 DEF Promised
  <2>4. CASE ~ live
    BY <2>2, <2>4 DEF NoOrphans, TypeOK, rows
  <2> QED
    BY <2>3, <2>4
<1>11. ASSUME NEW q \in Requests, Refuse(q) \/ Fail(q) PROVE rows' = rows
  BY <1>11 DEF Refuse, Fail, Rollback
<1>12. ASSUME NEW q \in Requests,
              \/ LookUpPayment(q) \/ SelectInvoice(q) \/ SelectLineItems(q)
              \/ SelectPayments(q) \/ FlushInsert(q) \/ FlushDelete(q)
              \/ Recompute(q)
       PROVE  rows' = rows
  BY <1>12 DEF LookUpPayment, SelectInvoice, SelectLineItems, SelectPayments,
               FlushInsert, FlushDelete, Recompute
<1>13. CASE UNCHANGED vars
  BY <1>13 DEF vars, rows
<1> QED
  BY <1>4, <1>5, <1>6, <1>7, <1>8, <1>9, <1>10, <1>11, <1>12, <1>13 DEF Next

\* Any number of requests may be in progress: one that no commit disturbs
\* does exactly what its operation promises in one step, or nothing.  The
\* proof is why Disturbs is the table it is: each commit it leaves out of a
\* row changes nothing that the request rests on.
THEOREM UndisturbedRequestsAreAtomic == Spec => UndisturbedIsAtomic
<1>1. Init => Protocol /\ Undisturbed
  BY DEF Init, Protocol, Undisturbed, Flushed
<1>2. TypeOK /\ NoOrphans /\ Protocol /\ Undisturbed /\ [Next]_vars =>
        [\A r \in clean : pc'[r] = "idle" => rows' = rows \/ Promised(op[r])]_vars
  BY AtomicStep
<1> QED
  BY <1>1, <1>2, TypeCorrect, ChildrenHaveInvoice, ProtocolStep,
     UndisturbedStep, PTL
  DEF Spec, UndisturbedIsAtomic

-----------------------------------------------------------------------------
(***************************************************************************)
(* The book of rows.  Each open INSERT has a key of its own, so a commit   *)
(* or a rollback takes exactly that key out of the drawn ones.             *)
(***************************************************************************)
OwnKeys ==
    /\ \A r \in Requests : Inserts(r) => \E p \in Pays \ payments : own[r] = {p}
    /\ \A r, q \in Requests : Inserts(r) /\ Inserts(q) /\ r # q => own[r] # own[q]
    /\ \A r \in Requests :
          pc[r] # "idle" /\ op[r] = "refund" => \E p \in Pays : own[r] = {p}

LEMMA InDrawn ==
    /\ \A p : p \in Drawn <=> \E r \in Requests : Inserts(r) /\ p \in own[r]
    /\ \A p : p \in Drawn' <=> \E r \in Requests : Inserts(r)' /\ p \in own'[r]
BY DEF Drawn

\* a step that opens and ends no INSERT
LEMMA DrawnKept ==
    ASSUME \A q \in Requests : /\ Inserts(q)' <=> Inserts(q)
                               /\ Inserts(q) => own'[q] = own[q]
    PROVE  Drawn' = Drawn
BY InDrawn

\* one that ends the INSERT of r
LEMMA DrawnEnds ==
    ASSUME TypeOK, OwnKeys, NEW r \in Requests, Close(r), Inserts(r),
           NEW p, own[r] = {p}
    PROVE  p \in Drawn /\ Drawn' = Drawn \ {p}
<1>1. /\ ~ Inserts(r)'
      /\ \A q \in Requests \ {r} : (Inserts(q)' <=> Inserts(q)) /\ own'[q] = own[q]
  BY CloseOthers DEF Inserts, Others, Flushed
<1>2. \A q \in Requests \ {r} : Inserts(q) => p \notin own[q]
  BY DEF OwnKeys
<1> QED
  BY <1>1, <1>2, InDrawn

\* one that ends a request without an INSERT
LEMMA DrawnLeft ==
    ASSUME TypeOK, NEW r \in Requests, Close(r), ~ Inserts(r)
    PROVE  Drawn' = Drawn
BY CloseOthers, DrawnKept DEF Inserts, Others, Flushed

LEMMA EndKeepsOwnKeys ==
    ASSUME TypeOK, OwnKeys, NEW r \in Requests, Close(r),
           payments' \subseteq payments
             \/ (payments' \subseteq payments \cup own[r] /\ Inserts(r))
    PROVE  OwnKeys'
<1>1. pc'[r] = "idle" /\ ~ Inserts(r)' /\ Others(r)
  BY CloseOthers DEF Inserts, Flushed
<1>2. \A q \in Requests \ {r} : Inserts(q)' <=> Inserts(q)
  BY <1>1 DEF Others, Inserts
<1>3. ASSUME NEW q \in Requests, Inserts(q)'
      PROVE  \E p \in Pays \ payments' : own'[q] = {p}
  <2>1. q # r /\ Inserts(q) /\ own'[q] = own[q]
    BY <1>1, <1>2, <1>3 DEF Others
  <2>2. PICK p \in Pays \ payments : own[q] = {p}
    BY <2>1 DEF OwnKeys
  <2>3. Inserts(r) => p \notin own[r]
    BY <2>1, <2>2 DEF OwnKeys
  <2> QED
    BY <2>1, <2>2, <2>3
<1>4. ASSUME NEW q \in Requests, NEW s \in Requests, Inserts(q)', Inserts(s)', q # s
      PROVE  own'[q] # own'[s]
  BY <1>1, <1>2, <1>4 DEF OwnKeys, Others
<1>5. ASSUME NEW q \in Requests, pc'[q] # "idle", op'[q] = "refund"
      PROVE  \E p \in Pays : own'[q] = {p}
  BY <1>1, <1>5 DEF OwnKeys, Others
<1> QED
  BY <1>3, <1>4, <1>5 DEF OwnKeys

LEMMA OwnKeysStep == TypeOK /\ Protocol /\ OwnKeys /\ [Next]_vars => OwnKeys'
<1> SUFFICES ASSUME TypeOK, Protocol, OwnKeys, [Next]_vars PROVE OwnKeys'
  OBVIOUS
<1>1. CASE UNCHANGED vars
  BY <1>1 DEF OwnKeys, Inserts, vars
<1>2. ASSUME NEW r \in Requests, LookUpPayment(r) PROVE OwnKeys'
  <2>1. PICK p \in payments : own' = [own EXCEPT ![r] = {p}]
    BY <1>2 DEF LookUpPayment
  <2>2. /\ pc' = [pc EXCEPT ![r] = "found"] /\ op' = [op EXCEPT ![r] = "refund"]
        /\ UNCHANGED payments
    BY <1>2 DEF LookUpPayment, Advance, rows
  <2> QED
    BY <2>1, <2>2 DEF TypeOK, OwnKeys, Inserts, Flushed
<1>3. ASSUME NEW r \in Requests, SelectInvoice(r) PROVE OwnKeys'
  <2>1. /\ pc' = [pc EXCEPT ![r] = "row"] /\ UNCHANGED <<own, payments>>
        /\ \A q \in Requests \ {r} : op'[q] = op[q]
        /\ op'[r] # "refund" \/ (op'[r] = op[r] /\ pc[r] = "found")
    BY <1>3 DEF TypeOK, SelectInvoice, Advance, rows
  <2> QED
    BY <2>1 DEF TypeOK, OwnKeys, Inserts, Flushed
<1>4. ASSUME NEW r \in Requests,
             SelectLineItems(r) \/ SelectPayments(r) \/ FlushDelete(r) \/ Recompute(r)
      PROVE  OwnKeys'
  <2>1. /\ UNCHANGED <<own, op, payments>>
        /\ \A q \in Requests : Inserts(q)' => Inserts(q)
        /\ \A q \in Requests : pc'[q] # "idle" => pc[q] # "idle"
    BY <1>4 DEF TypeOK, SelectLineItems, SelectPayments, FlushDelete, Recompute,
                Advance, Inserts, Flushed, rows
  <2> QED
    BY <2>1 DEF OwnKeys
<1>5. ASSUME NEW r \in Requests, FlushInsert(r) PROVE OwnKeys'
  <2>1. PICK p \in Pays \ issued : own' = [own EXCEPT ![r] = {p}]
    BY <1>5 DEF FlushInsert
  <2>2. /\ p \notin payments /\ \A q \in Requests : p \notin own[q]
        /\ UNCHANGED <<op, payments>> /\ op[r] = "pay"
        /\ \A q \in Requests \ {r} : pc'[q] = pc[q] /\ own'[q] = own[q]
        /\ own'[r] = {p}
    BY <1>5, <2>1 DEF TypeOK, Protocol, FlushInsert, Advance, rows
  <2>3. \A q \in Requests \ {r} : Inserts(q)' <=> Inserts(q)
    BY <2>2 DEF Inserts
  <2>4. \A q \in Requests : Inserts(q)' => \E k \in Pays \ payments' : own'[q] = {k}
    BY <2>2, <2>3 DEF OwnKeys
  <2>5. \A q, t \in Requests : Inserts(q)' /\ Inserts(t)' /\ q # t => own'[q] # own'[t]
    BY <2>2, <2>3 DEF OwnKeys
  <2> QED
    BY <2>2, <2>4, <2>5 DEF OwnKeys
<1>6. ASSUME NEW r \in Requests, CommitPayment(r) PROVE OwnKeys'
  <2>1. /\ Close(r) /\ payments' = Visible(r)
        /\ pc[r] = "computed" /\ op[r] \in {"pay", "refund"}
    BY <1>6 DEF CommitPayment, Commit, Protocol, Flushed
  <2>2. \/ payments' \subseteq payments
        \/ payments' \subseteq payments \cup own[r] /\ Inserts(r)
    BY <2>1 DEF Visible, Inserts, Flushed
  <2> QED
    BY <2>1, <2>2, EndKeepsOwnKeys
<1>7. ASSUME NEW r \in Requests,
             \/ CommitAddItem(r) \/ CommitDropItem(r) \/ CommitEdit(r)
             \/ CommitSend(r) \/ CommitOverdue(r) \/ CommitDelete(r)
             \/ Refuse(r) \/ Fail(r)
      PROVE  OwnKeys'
  <2>1. Close(r) /\ payments' \subseteq payments
    BY <1>7 DEF CommitAddItem, CommitDropItem, CommitEdit, CommitSend, CommitOverdue,
                CommitDelete, Refuse, Fail, Commit, Rollback, rows
  <2> QED
    BY <2>1, EndKeepsOwnKeys
<1> QED
  BY <1>1, <1>2, <1>3, <1>4, <1>5, <1>6, <1>7 DEF Next

\* one lemma for each kind of step that moves the book
LEMMA PaymentMovesBook ==
    ASSUME TypeOK, NoOrphans, Protocol, OwnKeys,
           NEW r \in Requests, CommitPayment(r)
    PROVE  [Book!Next]_(Book!book)
<1>1. /\ Close(r) /\ payments' = Visible(r) /\ UNCHANGED <<live, lineitems, issued>>
      /\ pc[r] = "computed" /\ op[r] \in {"pay", "refund"}
  BY DEF CommitPayment, Commit, Protocol, Flushed
<1>2. CASE op[r] = "pay"
  <2>1. Inserts(r) /\ live /\ payments' = payments \cup own[r]
    BY <1>1, <1>2 DEF Inserts, Flushed, NoOrphans, Visible
  <2>2. PICK p \in Pays \ payments : own[r] = {p}
    BY <2>1 DEF OwnKeys
  <2>3. p \in Drawn /\ Drawn' = Drawn \ {p}
    BY <1>1, <2>1, <2>2, DrawnEnds
  <2>4. Book!Keep(p)
    BY <1>1, <2>1, <2>2, <2>3 DEF Book!Keep
  <2> QED
    BY <2>4 DEF Book!Next
<1>3. CASE op[r] = "refund"
  <2>1. PICK p \in Pays : own[r] = {p}
    BY <1>1, <1>3 DEF OwnKeys
  <2>2. payments' = payments \ {p} /\ Drawn' = Drawn
    BY <1>1, <1>3, <2>1, DrawnLeft DEF Visible, Inserts
  <2>3. CASE p \in payments
    <3>1. Book!Refund(p)
      BY <1>1, <2>2, <2>3 DEF Book!Refund, NoOrphans
    <3> QED
      BY <3>1 DEF Book!Next
  <2>4. CASE p \notin payments
    BY <1>1, <2>2, <2>4 DEF Book!book
  <2> QED
    BY <2>3, <2>4
<1> QED
  BY <1>1, <1>2, <1>3

LEMMA BookStep ==
    TypeOK /\ NoOrphans /\ Protocol /\ OwnKeys /\ [Next]_vars
      => [Book!Next]_(Book!book)
<1> SUFFICES ASSUME TypeOK, NoOrphans, Protocol, OwnKeys, [Next]_vars
             PROVE  [Book!Next]_(Book!book)
  OBVIOUS
<1>1. CASE UNCHANGED vars
  BY <1>1, DrawnKept DEF vars, Inserts, Book!book
<1>2. ASSUME NEW r \in Requests,
             \/ LookUpPayment(r) \/ SelectInvoice(r) \/ SelectLineItems(r)
             \/ SelectPayments(r) \/ FlushDelete(r) \/ Recompute(r)
      PROVE  UNCHANGED Book!book
  <2>1. UNCHANGED <<live, lineitems, payments, issued>>
    BY <1>2 DEF LookUpPayment, SelectInvoice, SelectLineItems, SelectPayments,
                FlushDelete, Recompute, rows
  <2>2. \A q \in Requests : /\ Inserts(q)' <=> Inserts(q)
                            /\ Inserts(q) => own'[q] = own[q]
    BY <1>2 DEF TypeOK, LookUpPayment, SelectInvoice, SelectLineItems,
                SelectPayments, FlushDelete, Recompute, Advance, Inserts, Flushed
  <2> QED
    BY <2>1, <2>2, DrawnKept DEF Book!book
<1>3. ASSUME NEW r \in Requests, FlushInsert(r) PROVE Book!Next
  <2>1. PICK p \in Pays \ issued : /\ own' = [own EXCEPT ![r] = {p}]
                                   /\ issued' = issued \cup {p}
    BY <1>3 DEF FlushInsert
  <2>2. /\ live /\ UNCHANGED <<live, lineitems, payments>>
        /\ ~ Inserts(r) /\ Inserts(r)' /\ own'[r] = {p}
        /\ \A q \in Requests \ {r} : (Inserts(q)' <=> Inserts(q)) /\ own'[q] = own[q]
    BY <1>3, <2>1 DEF TypeOK, FlushInsert, Advance, Inserts, Flushed, rows
  <2>3. Drawn' = Drawn \cup {p}
    BY <2>2, InDrawn
  <2>4. Book!Draw(p)
    BY <2>1, <2>2, <2>3 DEF Book!Draw
  <2> QED
    BY <2>4 DEF Book!Next
<1>4. ASSUME NEW r \in Requests, CommitAddItem(r) PROVE Book!Next
  <2>1. PICK i \in Items \ issued : /\ lineitems' = lineitems \cup {i}
                                    /\ issued' = issued \cup {i}
    BY <1>4 DEF CommitAddItem
  <2>2. Drawn' = Drawn
    BY <1>4, DrawnLeft DEF CommitAddItem, Commit, Ready, Inserts, Flushed
  <2>3. Book!AddItem(i)
    BY <1>4, <2>1, <2>2 DEF CommitAddItem, Book!AddItem
  <2> QED
    BY <2>3 DEF Book!Next
<1>5. ASSUME NEW r \in Requests, CommitDropItem(r) PROVE [Book!Next]_(Book!book)
  <2>1. PICK i : lineitems' = lineitems \ {i}
    BY <1>5 DEF CommitDropItem
  <2>2. Drawn' = Drawn /\ UNCHANGED <<live, payments, issued>>
    BY <1>5, DrawnLeft DEF CommitDropItem, Commit, Ready, Inserts, Flushed
  <2>3. CASE i \in lineitems
    <3>1. Book!DropItem(i) /\ i \in Items
      BY <2>1, <2>2, <2>3 DEF Book!DropItem, NoOrphans, TypeOK
    <3> QED
      BY <3>1 DEF Book!Next
  <2>4. CASE i \notin lineitems
    BY <2>1, <2>2, <2>4 DEF Book!book
  <2> QED
    BY <2>3, <2>4
<1>6. ASSUME NEW r \in Requests, CommitEdit(r) \/ CommitSend(r) \/ CommitOverdue(r)
      PROVE  UNCHANGED Book!book
  <2>1. Close(r) /\ ~ Inserts(r) /\ UNCHANGED <<live, lineitems, payments, issued>>
    BY <1>6 DEF CommitEdit, CommitSend, CommitOverdue, Commit, Ready, Inserts, Flushed
  <2>2. Drawn' = Drawn
    BY <2>1, DrawnLeft
  <2> QED
    BY <2>1, <2>2 DEF Book!book
<1>7. ASSUME NEW r \in Requests, CommitDelete(r) PROVE [Book!Next]_(Book!book)
  <2>1. /\ live' = FALSE /\ lineitems' = {} /\ payments' = {} /\ UNCHANGED issued
        /\ Close(r) /\ ~ Inserts(r)
    BY <1>7 DEF CommitDelete, SeenAll, Commit, Ready, Inserts, Flushed
  <2>2. Drawn = {} /\ Drawn' = Drawn
    <3>1. \A q \in Requests : ~ Inserts(q)
      BY <1>7 DEF CommitDelete, Locked, Inserts
    <3> QED
      BY <2>1, <3>1, InDrawn, DrawnLeft
  <2>3. CASE live
    BY <2>1, <2>2, <2>3 DEF Book!Erase, Book!Next
  <2>4. CASE ~ live
    BY <2>1, <2>2, <2>4 DEF NoOrphans, TypeOK, Book!book
  <2> QED
    BY <2>3, <2>4
<1>8. ASSUME NEW r \in Requests, Refuse(r) \/ Fail(r)
      PROVE  [Book!Next]_(Book!book)
  <2>1. Close(r) /\ UNCHANGED <<live, lineitems, payments, issued>>
    BY <1>8 DEF Refuse, Fail, Rollback, rows
  <2>2. CASE Inserts(r)
    <3>1. PICK p \in Pays : own[r] = {p}
      BY <2>2 DEF OwnKeys
    <3>2. Book!Abandon(p)
      BY <2>1, <2>2, <3>1, DrawnEnds DEF Book!Abandon
    <3> QED
      BY <3>2 DEF Book!Next
  <2>3. CASE ~ Inserts(r)
    BY <2>1, <2>3, DrawnLeft DEF Book!book
  <2> QED
    BY <2>2, <2>3
<1> QED
  BY <1>1, <1>2, <1>3, <1>4, <1>5, <1>6, <1>7, <1>8, PaymentMovesBook DEF Next

\* However many requests of whatever kind overlap, no child row is lost, comes
\* twice, comes back or outlives the invoice: all of the API but the status is
\* as if each operation were atomic.
THEOREM SessionsImplementBook == Spec => ImplementsBook
<1>1. Init => Book!Init /\ Protocol /\ OwnKeys
  <2> SUFFICES ASSUME Init PROVE Book!Init /\ Protocol /\ OwnKeys
    OBVIOUS
  <2>1. \A q \in Requests : pc[q] = "idle" /\ own[q] = {}
    BY DEF Init
  <2>2. Protocol /\ OwnKeys
    BY <2>1 DEF Init, Protocol, OwnKeys, Inserts, Flushed
  <2>3. Drawn = {}
    BY <2>1, InDrawn
  <2> QED
    BY <2>2, <2>3 DEF Init, Book!Init
<1> QED
  BY <1>1, BookStep, OwnKeysStep, ProtocolStep, ChildrenHaveInvoice, TypeCorrect, PTL
  DEF Spec, ImplementsBook, Book!Spec

-----------------------------------------------------------------------------
(***************************************************************************)
(* PAID is covered, when no enabled operation takes payments back, raises  *)
(* the total or sets the status by hand.  A request may have missed        *)
(* payments, and may have counted line items that are gone since; both     *)
(* make it answer PAID less often, and the first can only grow, the second *)
(* only shrink, until it commits.  Only its own payment is counted for     *)
(* more than is stored, by half a cent.                                    *)
(***************************************************************************)
OnlyTowardsPaid == Ops \cap {"refund", "addItem", "edit"} = {}

Covering ==
    /\ PaidIsCovered
    /\ \A r \in Requests :
          /\ pc[r] # "idle" => op[r] \in Ops
          /\ pc[r] = "found" => op[r] = "refund"
          /\ pc[r] \in Flushed => op[r] = "pay"
          /\ Loaded(r, {"items", "loaded"}) => lineitems \subseteq seen[r].items
          /\ pc[r] \in Flushed => \E p \in Pays : own[r] = {p}
          /\ pc[r] = "computed" /\ next[r] = "PAID" /\ live =>
                2 * Paid(payments \cup own[r]) + Cent >= 2 * Total(seen[r].items)

\* a step that neither drops a payment nor adds a line item nor claims PAID
LEMMA CoverKept ==
    ASSUME TypeOK, TypeOK', PaidIsCovered,
           live' => /\ live /\ payments \subseteq payments'
                    /\ lineitems' \subseteq lineitems,
           status' = "PAID" => status = "PAID"
    PROVE  PaidIsCovered'
<1> SUFFICES ASSUME live', status' = "PAID"
             PROVE  2 * Paid(payments') + Cent >= 2 * Total(lineitems')
  BY DEF PaidIsCovered
<1>1. 2 * Paid(payments) + Cent >= 2 * Total(lineitems)
  BY DEF PaidIsCovered
<1>2. /\ Paid(payments) \in Nat /\ Paid(payments') \in Nat
      /\ Paid(payments) <= Paid(payments')
  BY PaidGrows DEF TypeOK
<1>3. /\ Total(lineitems) \in Nat /\ Total(lineitems') \in Nat
      /\ Total(lineitems') <= Total(lineitems)
  BY TotalGrows DEF TypeOK
<1> QED
  BY <1>1, <1>2, <1>3, AmountsAssumption

\* ... and leaves the requests that are still in progress covered
LEMMA EndKeepsCovering ==
    ASSUME TypeOK, TypeOK', Covering, PaidIsCovered', NEW r \in Requests, Close(r),
           live' => live /\ payments \subseteq payments',
           lineitems' \subseteq lineitems
    PROVE  Covering'
<1>1. ASSUME NEW q \in Requests, q # r,
             pc'[q] = "computed", next'[q] = "PAID", live'
      PROVE  2 * Paid((payments \cup own[q])') + Cent >= 2 * Total(seen'[q].items)
  <2>1. /\ pc[q] = "computed" /\ next[q] = "PAID" /\ live
        /\ own'[q] = own[q] /\ seen'[q] = seen[q]
    BY <1>1, CloseOthers DEF Others
  <2>2. 2 * Paid(payments \cup own[q]) + Cent >= 2 * Total(seen[q].items)
    BY <2>1 DEF Covering
  <2>3. payments \cup own[q] \subseteq payments' \cup own[q]
    BY <1>1
  <2>4. payments' \cup own[q] \in SUBSET Pays /\ seen[q].items \in SUBSET Items
    BY DEF TypeOK, Invoice
  <2>5. /\ Paid(payments \cup own[q]) \in Nat
        /\ Paid(payments' \cup own[q]) \in Nat
        /\ Paid(payments \cup own[q]) <= Paid(payments' \cup own[q])
    BY <2>3, <2>4, PaidGrows
  <2>6. Total(seen[q].items) \in Nat
    BY <2>4, TotalGrows
  <2> QED
    BY <2>1, <2>2, <2>5, <2>6, AmountsAssumption
<1>2. pc'[r] = "idle" /\ Others(r)
  BY CloseOthers
<1>3. ASSUME NEW q \in Requests
      PROVE  (/\ pc[q] # "idle" => op[q] \in Ops
              /\ pc[q] = "found" => op[q] = "refund"
              /\ pc[q] \in Flushed => op[q] = "pay"
              /\ pc[q] \in Flushed => \E p \in Pays : own[q] = {p}
              /\ Loaded(q, {"items", "loaded"}) =>
                    lineitems \subseteq seen[q].items)'
  BY <1>2 DEF Covering, Others, Loaded, Flushed
<1> QED
  BY <1>1, <1>2, <1>3 DEF Covering

LEMMA PaymentKeepsCovering ==
    ASSUME TypeOK, TypeOK', Covering, NEW r \in Requests, CommitPayment(r)
    PROVE  Covering'
<1>1. pc[r] = "computed" /\ op[r] = "pay" /\ Close(r) /\ UNCHANGED <<live, lineitems>>
  BY DEF CommitPayment, Commit, Covering, Flushed
<1>2. payments' = payments \cup own[r]
  BY <1>1 DEF CommitPayment, Visible
<1>3. PaidIsCovered'
  <2>1. CASE status' = status
    BY <1>1, <1>2, <2>1, CoverKept DEF Covering
  <2>2. CASE status' # status
    <3>1. status' = next[r]
      BY <2>2 DEF CommitPayment, WriteStatus
    <3> SUFFICES ASSUME live', status' = "PAID"
                 PROVE  2 * Paid(payments') + Cent >= 2 * Total(lineitems')
      BY DEF PaidIsCovered
    <3>2. 2 * Paid(payments') + Cent >= 2 * Total(seen[r].items)
      BY <1>1, <1>2, <3>1 DEF Covering
    <3>3. lineitems \subseteq seen[r].items /\ seen[r].items \in SUBSET Items
      BY <1>1 DEF Covering, Loaded, Flushed, TypeOK, Invoice
    <3>4. /\ Total(lineitems) \in Nat /\ Total(seen[r].items) \in Nat
          /\ Total(lineitems) <= Total(seen[r].items)
      BY <3>3, TotalGrows
    <3>5. Paid(payments') \in Nat
      BY PaidGrows DEF TypeOK
    <3> QED
      BY <1>1, <3>2, <3>4, <3>5, AmountsAssumption
  <2> QED
    BY <2>1, <2>2
<1> QED
  BY <1>1, <1>2, <1>3, EndKeepsCovering

LEMMA CoveringStep ==
    ASSUME OnlyTowardsPaid
    PROVE  TypeOK /\ TypeOK' /\ Covering /\ [Next]_vars => Covering'
<1> SUFFICES ASSUME TypeOK, TypeOK', Covering, [Next]_vars PROVE Covering'
  OBVIOUS
<1> USE DEF Flushed
<1>0. ASSUME NEW r \in Requests, Ready(r, "addItem") \/ Ready(r, "edit")
      PROVE  FALSE
  BY <1>0 DEF OnlyTowardsPaid, Covering, Ready
<1>1. CASE UNCHANGED vars
  BY <1>1 DEF Covering, PaidIsCovered, Loaded, vars
<1>2. ASSUME NEW r \in Requests, LookUpPayment(r) PROVE Covering'
  BY <1>2 DEF OnlyTowardsPaid, LookUpPayment
<1>3. ASSUME NEW r \in Requests, SelectInvoice(r) PROVE Covering'
  <2>1. pc[r] # "found"
    BY DEF OnlyTowardsPaid, Covering
  <2>2. PICK o \in Ops : op' = [op EXCEPT ![r] = o]
    BY <1>3, <2>1 DEF SelectInvoice, Advance
  <2> QED
    BY <1>3, <2>1, <2>2
    DEF TypeOK, Covering, PaidIsCovered, SelectInvoice, Advance, Loads, Loaded,
        rows
<1>4. ASSUME NEW r \in Requests, SelectLineItems(r) PROVE Covering'
  BY <1>4 DEF TypeOK, Covering, PaidIsCovered, SelectLineItems, Advance, Loads,
              Loaded, rows
<1>5. ASSUME NEW r \in Requests, SelectPayments(r) PROVE Covering'
  BY <1>5 DEF TypeOK, Covering, PaidIsCovered, SelectPayments, Advance, Loads,
              Loaded, rows
<1>6. ASSUME NEW r \in Requests, FlushInsert(r) PROVE Covering'
  <2>1. PICK p \in Pays : own' = [own EXCEPT ![r] = {p}]
    BY <1>6 DEF FlushInsert
  <2> QED
    BY <1>6, <2>1
    DEF TypeOK, Covering, PaidIsCovered, FlushInsert, Advance, Loaded, rows
<1>7. ASSUME NEW r \in Requests, FlushDelete(r) PROVE Covering'
  BY <1>7 DEF OnlyTowardsPaid, Covering, FlushDelete, Advance
<1>8. ASSUME NEW r \in Requests, Recompute(r) PROVE Covering'
  <2>1. pc[r] = "flushed" /\ op[r] = "pay" /\ next'[r] = Recomputed(r)
    BY <1>8 DEF Recompute, Advance, Covering, TypeOK
  <2>2. /\ Visible(r) = payments \cup own[r] /\ Visible(r) \in SUBSET Pays
        /\ Visible(r) \cap own[r] = own[r] /\ \E p \in Visible(r) : own[r] = {p}
    BY <2>1 DEF Visible, TypeOK, Covering
  <2>3. /\ Counted(Visible(r), own[r]) \in Nat /\ Paid(Visible(r)) \in Nat
        /\ 2 * Counted(Visible(r), own[r]) <= 2 * Paid(Visible(r)) + Cent
    BY <2>2, CountedIsClose
  <2>4. Total(seen[r].items) \in Nat
    BY TotalGrows DEF TypeOK, Invoice
  <2>5. next'[r] = "PAID" => Counted(Visible(r), own[r]) >= Total(seen[r].items)
    BY <2>1, <2>2, <2>3, <2>4, PaidOnlyIfCovered DEF Recomputed
  <2>6. next'[r] = "PAID" =>
            2 * Paid(payments \cup own[r]) + Cent >= 2 * Total(seen[r].items)
    BY <2>2, <2>3, <2>4, <2>5, AmountsAssumption
  <2> QED
    BY <1>8, <2>1, <2>6
    DEF TypeOK, Covering, PaidIsCovered, Recompute, Advance, Loaded, rows
<1>9. ASSUME NEW r \in Requests, CommitPayment(r) PROVE Covering'
  BY <1>9, PaymentKeepsCovering
<1>10. ASSUME NEW r \in Requests, CommitDropItem(r) PROVE Covering'
  BY <1>10, CoverKept, EndKeepsCovering DEF Covering, CommitDropItem, Commit
<1>11. ASSUME NEW r \in Requests, CommitSend(r) PROVE Covering'
  BY <1>11, CoverKept, EndKeepsCovering
  DEF Covering, CommitSend, WriteStatus, Commit
<1>12. ASSUME NEW r \in Requests, CommitOverdue(r) PROVE Covering'
  BY <1>12, CoverKept, EndKeepsCovering
  DEF Covering, CommitOverdue, WriteStatus, Commit
<1>13. ASSUME NEW r \in Requests, CommitDelete(r) PROVE Covering'
  BY <1>13, EndKeepsCovering DEF Covering, PaidIsCovered, CommitDelete, Commit
<1>14. ASSUME NEW r \in Requests, Refuse(r) \/ Fail(r) PROVE Covering'
  <2>1. Close(r) /\ UNCHANGED <<live, status, lineitems, payments>>
    BY <1>14 DEF Refuse, Fail, Rollback, rows
  <2>2. PaidIsCovered'
    BY <2>1 DEF Covering, PaidIsCovered
  <2> QED
    BY <2>1, <2>2, EndKeepsCovering
<1>15. ASSUME NEW r \in Requests, CommitAddItem(r) \/ CommitEdit(r)
       PROVE  Covering'
  BY <1>0, <1>15 DEF CommitAddItem, CommitEdit
<1> QED
  BY <1>1, <1>2, <1>3, <1>4, <1>5, <1>6, <1>7, <1>8, <1>9, <1>10, <1>11,
     <1>12, <1>13, <1>14, <1>15 DEF Next

\* However payments overlap, with each other and with line items being
\* removed, the daily job, sending and deletion, an invoice that says PAID is
\* covered by its payments up to half a cent: update_invoice_status errs on one
\* side only, and by the rounding of one payment.
THEOREM PaidMeansCovered ==
    ASSUME OnlyTowardsPaid
    PROVE  Spec => []PaidIsCovered
<1>1. Init => Covering
  BY DEF Init, Covering, PaidIsCovered, Loaded, Flushed
<1>2. Covering => PaidIsCovered
  BY DEF Covering
<1>3. TypeOK /\ TypeOK' /\ Covering /\ [Next]_vars => Covering'
  BY CoveringStep
<1> QED
  BY <1>1, <1>2, <1>3, TypeCorrect, PTL DEF Spec

-----------------------------------------------------------------------------
(***************************************************************************)
(* One request at a time: nothing overtakes it, so every commit is a step  *)
(* of the ledger and every other step stutters.                            *)
(***************************************************************************)
Alone == \A r \in Requests : pc[r] # "idle" => r \in clean

\* only the end of a request changes rows
LEMMA RowsChangeAtCommit ==
    ASSUME TypeOK, [Next]_vars, rows' # rows
    PROVE  \E q \in Requests : pc[q] # "idle" /\ Commit(q)
<1>1. PICK q \in Requests :
         \/ CommitPayment(q) \/ CommitAddItem(q) \/ CommitDropItem(q)
         \/ CommitEdit(q) \/ CommitSend(q) \/ CommitOverdue(q)
         \/ CommitDelete(q)
  BY DEF Next, vars, rows, LookUpPayment, SelectInvoice, SelectLineItems,
         SelectPayments, FlushInsert, FlushDelete, Recompute, Refuse, Fail,
         Rollback
<1> QED
  BY <1>1 DEF CommitPayment, CommitAddItem, CommitDropItem, CommitEdit,
              CommitSend, CommitOverdue, CommitDelete, Ready

LEMMA AloneStep ==
    ASSUME NEW one, Requests = {one}
    PROVE  TypeOK /\ Alone /\ [Next]_vars => Alone'
<1> SUFFICES ASSUME TypeOK, Alone, [Next]_vars, pc'[one] # "idle"
             PROVE  one \in clean'
  BY DEF Alone
<1>1. CASE UNCHANGED vars
  BY <1>1 DEF Alone, vars
<1>2. CASE LookUpPayment(one) \/ SelectInvoice(one)
  BY <1>2 DEF Alone, LookUpPayment, SelectInvoice, Advance
<1>3. CASE SelectLineItems(one) \/ SelectPayments(one) \/ FlushInsert(one)
           \/ FlushDelete(one) \/ Recompute(one)
  BY <1>3 DEF Alone, SelectLineItems, SelectPayments, FlushInsert, FlushDelete,
              Recompute, Advance
<1>4. ~ Close(one)
  BY CloseOthers
<1> QED
  BY <1>1, <1>2, <1>3, <1>4
  DEF Next, CommitPayment, CommitAddItem, CommitDropItem, CommitEdit,
      CommitSend, CommitOverdue, CommitDelete, Commit, Refuse, Fail, Rollback

LEMMA PromisedIsNext ==
    ASSUME NEW o \in AllOps, Promised(o)
    PROVE  Ledger!Next
BY SameRules DEF AllOps, Promised, Ledger!Next

\* With one request slot the sessions implement the ledger: each operation
\* takes effect in one step, at its commit.
THEOREM SerialImplementsLedger ==
    ASSUME NEW one, Requests = {one}
    PROVE  Spec => ImplementsLedger
<1>1. Init => Ledger!Init /\ Alone /\ Protocol /\ Undisturbed
  BY DEF Init, Ledger!Init, Alone, Protocol, Undisturbed, Flushed
<1>2. TypeOK /\ Alone /\ [Next]_vars => Alone'
  BY AloneStep
<1>3. TypeOK /\ NoOrphans /\ Alone /\ Protocol /\ Undisturbed /\ [Next]_vars
        => [Ledger!Next]_(Ledger!ledger)
  <2> SUFFICES ASSUME TypeOK, NoOrphans, Alone, Protocol, Undisturbed, [Next]_vars,
                      rows' # rows
               PROVE  Ledger!Next
    BY DEF rows, Ledger!ledger
  <2>1. PICK q \in Requests : pc[q] # "idle" /\ Commit(q)
    BY RowsChangeAtCommit
  <2>2. q \in clean /\ pc'[q] = "idle"
    BY <2>1, CloseOthers DEF Alone, Commit
  <2>3. Promised(op[q])
    BY <2>2, AtomicStep
  <2> QED
    BY <2>3, PromisedIsNext DEF TypeOK
<1> QED
  BY <1>1, <1>2, <1>3, TypeCorrect, ChildrenHaveInvoice, ProtocolStep,
     UndisturbedStep, PTL
  DEF Spec, ImplementsLedger, Ledger!Spec

\* a ledger step that changes the payments settles the status, or erases
LEMMA PromiseSettles ==
    ASSUME TypeOK, NEW o \in AllOps, Promised(o), payments' # payments
    PROVE  \/ ~ live' /\ payments' = {}
           \/ /\ status' = StatusAfter(status, Counted(payments', payments' \ payments),
                                       Total(lineitems'))
              /\ payments' \in SUBSET Pays
              /\ \/ payments' \ payments = {}
                 \/ \E p \in payments' : payments' \ payments = {p}
<1>1. ASSUME NEW pays, Ledger!Settle(pays)
      PROVE  status' = StatusAfter(status, Counted(payments', payments' \ payments),
                                   Total(lineitems'))
  BY <1>1, SameRules DEF Ledger!Settle
<1>2. CASE o = "pay"
  <2>1. PICK p \in Pays : Ledger!Pay(p)
    BY <1>2 DEF Promised
  <2>2. p \notin payments /\ payments' = payments \cup {p}
    BY <2>1 DEF Ledger!Pay, Ledger!Settle
  <2> QED
    BY <1>1, <2>1, <2>2 DEF Ledger!Pay, TypeOK
<1>3. CASE o = "refund"
  <2>1. PICK p \in Pays : Ledger!Refund(p)
    BY <1>3 DEF Promised
  <2>2. payments' = payments \ {p}
    BY <2>1 DEF Ledger!Refund, Ledger!Settle
  <2> QED
    BY <1>1, <2>1, <2>2 DEF Ledger!Refund, TypeOK
<1>4. CASE o \in {"addItem", "dropItem"}
  BY <1>4 DEF Promised, Ledger!AddItem, Ledger!DropItem
<1>5. CASE o \in {"edit", "send", "overdue"}
  BY <1>5 DEF Promised, Ledger!SetStatus, Ledger!Send, Ledger!MarkOverdue
<1>6. CASE o = "delete"
  BY <1>6 DEF Promised, Ledger!Erase
<1> QED
  BY <1>2, <1>3, <1>4, <1>5, <1>6 DEF AllOps

\* one request at a time: the payments change by a step of the ledger
LEMMA AloneSettles ==
    ASSUME TypeOK, NoOrphans, Alone, Protocol, Undisturbed, [Next]_vars, payments' # payments
    PROVE  \/ ~ live' /\ payments' = {}
           \/ /\ status' = StatusAfter(status, Counted(payments', payments' \ payments),
                                       Total(lineitems'))
              /\ payments' \in SUBSET Pays
              /\ \/ payments' \ payments = {}
                 \/ \E p \in payments' : payments' \ payments = {p}
<1>1. rows' # rows
  BY DEF rows
<1>2. PICK q \in Requests : pc[q] # "idle" /\ Commit(q)
  BY <1>1, RowsChangeAtCommit
<1>3. q \in clean /\ pc'[q] = "idle"
  BY <1>2, CloseOthers DEF Alone, Commit
<1>4. Promised(op[q])
  BY <1>1, <1>3, AtomicStep
<1> QED
  BY <1>4, PromiseSettles DEF TypeOK

LEMMA AloneInit == Init => Alone /\ Protocol /\ Undisturbed
BY DEF Init, Alone, Protocol, Undisturbed, Flushed

\* With one request slot, every payment and every refund that commits leaves
\* the status that the payments in the table call for, a new one as entered.
THEOREM SerialStatusIsRight ==
    ASSUME NEW one, Requests = {one}
    PROVE  Spec => StatusReflectsPayments
<1>1. TypeOK /\ Alone /\ [Next]_vars => Alone'
  BY AloneStep
<1>2. TypeOK /\ NoOrphans /\ Alone /\ Protocol /\ Undisturbed /\ [Next]_vars =>
        [LET paid == Counted(payments', payments' \ payments) IN
         payments' # payments /\ paid > 0 =>
            status' = IF paid < Total(lineitems') THEN "PARTIALLY_PAID" ELSE "PAID"]_vars
  <2> DEFINE paid == Counted(payments', payments' \ payments)
  <2> SUFFICES ASSUME TypeOK, NoOrphans, Alone, Protocol, Undisturbed, [Next]_vars,
                      payments' # payments, paid > 0
               PROVE  status' = IF paid < Total(lineitems')
                                  THEN "PARTIALLY_PAID" ELSE "PAID"
    OBVIOUS
  <2>1. CASE payments' = {}
    <3>1. paid = Paid({}) /\ Paid({}) = 0
      <4>1. Units({}, Value) = {} /\ Cardinality({}) = 0
        BY FS_EmptySet DEF Units
      <4> QED
        BY <2>1, <4>1, CountedOld DEF Paid
    <3> QED
      BY <3>1
  <2>2. CASE payments' # {}
    <3>1. status' = StatusAfter(status, paid, Total(lineitems'))
      BY <2>2, AloneSettles
    <3> HIDE DEF paid
    <3> QED
      BY <3>1 DEF StatusAfter
  <2> QED
    BY <2>1, <2>2
<1> QED
  BY <1>1, <1>2, AloneInit, TypeCorrect, ChildrenHaveInvoice, ProtocolStep,
     UndisturbedStep, PTL
  DEF Spec, StatusReflectsPayments

\* With one request slot, what a payment or refund leaves fits the stored rows
\* up to half a cent, after any number of rounded payments.
THEOREM SerialStatusFitsRows ==
    ASSUME NEW one, Requests = {one}
    PROVE  Spec => StatusFitsRows
<1>1. TypeOK /\ Alone /\ [Next]_vars => Alone'
  BY AloneStep
<1>2. TypeOK /\ TypeOK' /\ NoOrphans /\ Alone /\ Protocol /\ Undisturbed
      /\ [Next]_vars =>
        [payments' # payments /\ live' =>
          /\ status' = "PAID" => 2 * Paid(payments') + Cent >= 2 * Total(lineitems')
          /\ status' = "PARTIALLY_PAID" =>
                2 * Paid(payments') < 2 * Total(lineitems') + Cent]_vars
  <2> DEFINE paid == Counted(payments', payments' \ payments)
             total == Total(lineitems')
  <2> SUFFICES ASSUME TypeOK, TypeOK', NoOrphans, Alone, Protocol, Undisturbed,
                      [Next]_vars, payments' # payments, live'
               PROVE  /\ status' = "PAID" => 2 * Paid(payments') + Cent >= 2 * total
                      /\ status' = "PARTIALLY_PAID" =>
                            2 * Paid(payments') < 2 * total + Cent
    OBVIOUS
  <2>1. /\ status' = StatusAfter(status, paid, total)
        /\ payments' \in SUBSET Pays
        /\ payments' \ payments = {} \/ \E p \in payments' : payments' \ payments = {p}
    BY AloneSettles
  <2>2. /\ paid \in Nat /\ Paid(payments') \in Nat
        /\ 2 * paid <= 2 * Paid(payments') + Cent
        /\ 2 * Paid(payments') <= 2 * paid + Cent
    BY <2>1, CountedIsClose
  <2>3. total \in Nat
    BY TotalGrows DEF TypeOK
  <2> HIDE DEF paid, total
  <2>4. status' = "PAID" => paid >= total
    BY <2>1, <2>2, <2>3, PaidOnlyIfCovered
  <2>5. status' = "PARTIALLY_PAID" => paid > 0 /\ paid < total
    BY <2>1, <2>2, <2>3, TypeOK DEF StatusAfter, TypeOK, Statuses
  <2> QED
    BY <2>2, <2>3, <2>4, <2>5, AmountsAssumption
<1> QED
  BY <1>1, <1>2, AloneInit, TypeCorrect, ChildrenHaveInvoice, ProtocolStep,
     UndisturbedStep, PTL
  DEF Spec, StatusFitsRows

=============================================================================
