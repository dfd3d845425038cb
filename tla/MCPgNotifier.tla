---------------------------- MODULE MCPgNotifier ----------------------------
(***************************************************************************)
(* Small instances of the pg-notify notifier for TLC.                      *)
(***************************************************************************)
EXTENDS PgNotifier
=============================================================================
