------------------------- MODULE MCPollingNotifier -------------------------
(***************************************************************************)
(* Small instances of the polling notifier for TLC.                        *)
(***************************************************************************)
EXTENDS PollingNotifier
=============================================================================
