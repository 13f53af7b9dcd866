----------------------------- MODULE MCMigration -----------------------------
(***************************************************************************)
(* Model-checking instance of Migration: the constants are given in the    *)
(* .cfg files (one per question asked of run_migration).                   *)
(***************************************************************************)
EXTENDS Migration

=============================================================================
