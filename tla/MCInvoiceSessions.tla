------------------------- MODULE MCInvoiceSessions -------------------------
(***************************************************************************)
(* Small instances of InvoiceSessions for TLC.  Amounts are chosen so that *)
(* one payment leaves the invoice a single unit short and two overlapping  *)
(* ones cover it.  In the instances of three payments a cent is four units *)
(* and NUMERIC(15, 2) rounds one payment up, one down and one to nothing.  *)
(***************************************************************************)
EXTENDS InvoiceSessions, TLC

CONSTANTS r1, r2, i1, i2, p1, p2, p3

OneItem == {i1}
TwoItems == {i1, i2}
TwoPays == {p1, p2}
ThreePays == {p1, p2, p3}

OneItemPrice == i1 :> 3
TwoItemPrice == i1 :> 7 @@ i2 :> 5

\* p1 is one unit short of i1 in OneItemPrice
TwoPayValue == p1 :> 2 @@ p2 :> 1

\* alone, p1 is short of i1 until it is stored, p2 covers i2 until it is stored
ThreePayEntered == p1 :> 6 @@ p2 :> 5 @@ p3 :> 1

\* PostgreSQL rounds a half up
Rounded(amount) == ((2 * amount + Cent) \div (2 * Cent)) * Cent
ThreePayValue == [p \in ThreePays |-> Rounded(ThreePayEntered[p])]

OneSlot == {r1}
TwoSlots == {r1, r2}

Slots == Permutations(Requests)

CoveringOps == {"pay", "dropItem", "send", "overdue", "delete"}
OverlappingPayments == {"pay"}
LockingOps == {"pay", "refund", "delete"}

=============================================================================
