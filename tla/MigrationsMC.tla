---------------------------- MODULE MigrationsMC ----------------------------
(***************************************************************************)
(* An instance of Migrations for TLC: one application instance with two    *)
(* workers.                                                                *)
(***************************************************************************)
EXTENDS Migrations, TLC

CONSTANTS w1, w2, i1, p1

MCHost == (w1 :> i1) @@ (w2 :> i1)
=============================================================================
