---------------------------- MODULE MCMigrationLog ----------------------------
(* Model values for MigrationLog: file names, and the region ids of the  *)
(* origin worker.                                                          *)
EXTENDS MigrationLog

CONSTANTS n1, n2

MCNames == {n1, n2}
==============================================================================
