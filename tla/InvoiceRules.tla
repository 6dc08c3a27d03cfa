---------------------------- MODULE InvoiceRules ----------------------------
(***************************************************************************)
(* The arithmetic of one invoice: what its line items come to, what its    *)
(* payments come to, and the status that update_invoice_status derives     *)
(* from the two (crud/invoices.py).                                        *)
(*                                                                         *)
(* A line item or payment is identified by its primary key.  Its amount is *)
(* fixed when the row is inserted (the API has no operation that edits a   *)
(* line item or a payment), so amounts are functions of the key.           *)
(*                                                                         *)
(* A request may carry more digits than the columns, NUMERIC(15, 2), keep. *)
(* Amounts are counted in a unit fine enough for both, Cent of them to a   *)
(* cent.  A total is a product of two columns and need not be whole cents. *)
(***************************************************************************)
EXTENDS Integers, FiniteSets

CONSTANTS
    Items,      \* primary keys of line items
    Pays,       \* primary keys of payments
    Price,      \* Price[i]: quantity * unit_price of line item i
    Entered,    \* Entered[p]: value of payment p as the request gives it
    Value,      \* Value[p]: value of payment p as its column keeps it
    Cent        \* units to a cent

ASSUME KeysAssumption ==
    /\ IsFiniteSet(Items)
    /\ IsFiniteSet(Pays)

ASSUME AmountsAssumption ==
    /\ Price \in [Items -> Nat]
    /\ Entered \in [Pays -> Nat \ {0}]    \* value_must_be_positive
    /\ Value \in [Pays -> Nat]
    /\ Cent \in Nat \ {0}

\* a column rounds by half a cent at most
ASSUME RoundingAssumption ==
    \A p \in Pays : /\ 2 * Entered[p] <= 2 * Value[p] + Cent
                    /\ 2 * Value[p] <= 2 * Entered[p] + Cent

\* enums.InvoiceStatus
Statuses == {"DRAFT", "SENT", "PARTIALLY_PAID", "PAID", "OVERDUE"}

(***************************************************************************)
(* A sum over a set of rows is the number of currency units they hold,     *)
(* each unit tagged with its row so that equal amounts do not merge.       *)
(***************************************************************************)
Units(rows, amount) == UNION {{row} \X (1..amount[row]) : row \in rows}

\* calculate_total
Total(items) == Cardinality(Units(items, Price))

\* calculate_total_paid
Paid(pays) == Cardinality(Units(pays, Value))

\* the sum update_invoice_status computes itself: `new' are payments the
\* session has inserted, whose objects still have the value of the request
Counted(pays, new) == Paid(pays \ new) + Cardinality(Units(new, Entered))

(***************************************************************************)
(* update_invoice_status: the status it leaves on an invoice it loaded     *)
(* with `status', whose line items come to `total' and whose payments come *)
(* to `paid'.                                                              *)
(***************************************************************************)
StatusAfter_OffByOne(status, paid, total) ==    \* mutant: a cent short is paid
    IF paid = 0
      THEN IF status \in {"PAID", "PARTIALLY_PAID"} THEN "SENT" ELSE status
      ELSE IF paid + Cent < total THEN "PARTIALLY_PAID" ELSE "PAID"

StatusAfter_Overpaid(status, paid, total) ==    \* mutant: a status of its own
    IF paid = 0
      THEN IF status \in {"PAID", "PARTIALLY_PAID"} THEN "SENT" ELSE status
      ELSE IF paid < total THEN "PARTIALLY_PAID"
           ELSE IF paid = total THEN "PAID" ELSE "OVERPAID"

StatusAfter(status, paid, total) ==
    IF paid = 0
      THEN IF status \in {"PAID", "PARTIALLY_PAID"} THEN "SENT" ELSE status
      ELSE IF paid < total THEN "PARTIALLY_PAID" ELSE "PAID"

=============================================================================
