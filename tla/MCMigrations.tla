---------------------------- MODULE MCMigrations ----------------------------
(***************************************************************************)
(* A small instance of Migrations for TLC: two containers of the current   *)
(* image, as during a rolling deployment, and one of the image before.     *)
(***************************************************************************)
EXTENDS Migrations, TLC

CONSTANTS old, new1, new2

Three == {old, new1, new2}
Heads == old :> 2 @@ new1 :> 3 @@ new2 :> 3

=============================================================================
