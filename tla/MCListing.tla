----------------------------- MODULE MCListing -----------------------------
(***************************************************************************)
(* A small instance of Listing for TLC: one caller, whose requests share   *)
(* their key with a few of somebody else's.                                *)
(***************************************************************************)
EXTENDS Listing

CONSTANTS alice

OneKey == {alice}
SameSubject == [w \in Callers |-> alice]

=============================================================================
