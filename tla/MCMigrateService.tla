--------------------------- MODULE MCMigrateService ---------------------------
(* An instance of MigrateService for TLC. *)
EXTENDS MigrateService

CONSTANTS u1, u2, w1, w2
=============================================================================
