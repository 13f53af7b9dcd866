------------------------------ MODULE MCSeedDB ------------------------------
(***************************************************************************)
(* Model-checking instance of SeedDB: the constants are given in the .cfg  *)
(* files (one per question asked of init_db_samples).                      *)
(***************************************************************************)
EXTENDS SeedDB

=============================================================================
