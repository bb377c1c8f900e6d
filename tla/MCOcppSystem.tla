---------------------------- MODULE MCOcppSystem ----------------------------
(* OcppSystem with the tables of CreateTables.sql.                          *)
EXTENDS OcppSystem

============================================================================
