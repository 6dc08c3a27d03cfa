---------------------------- MODULE MCOwnership ----------------------------
(***************************************************************************)
(* A small instance of Ownership for TLC.  Keys, emails and slots are      *)
(* interchangeable: nothing in the model orders them.                      *)
(***************************************************************************)
EXTENDS Ownership, TLC

Symmetric ==
    Permutations(Users) \cup Permutations(Emails) \cup Permutations(Clients)
        \cup Permutations(Invoices) \cup Permutations(Requests)

=============================================================================
