---------------------------- MODULE MCInvoiceDates ----------------------------
(***************************************************************************)
(* A small instance of InvoiceDates for TLC: four points in time, so that  *)
(* two requests can each move one date past the other's.                   *)
(***************************************************************************)
EXTENDS InvoiceDates, TLC

MCDates == 0..3
Symmetric == Permutations(Requests)

=============================================================================
