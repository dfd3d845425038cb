--------------------------- MODULE MCGapDetection ---------------------------
(***************************************************************************)
(* Small instances of gap detection for TLC.                               *)
(***************************************************************************)
EXTENDS GapDetection
CONSTANTS w1, w2, w3
=============================================================================
