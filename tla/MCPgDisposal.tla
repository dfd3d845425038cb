---------------------------- MODULE MCPgDisposal ----------------------------
(***************************************************************************)
(* Small instances of the disposal of the PostgreSQL store for TLC.        *)
(***************************************************************************)
EXTENDS PgDisposal

CONSTANTS w1, w2, w3
=============================================================================
