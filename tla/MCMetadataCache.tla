--------------------------- MODULE MCMetadataCache ---------------------------
(***************************************************************************)
(* Small instances of the metadata cache for TLC.                          *)
(***************************************************************************)
EXTENDS MetadataCache
=============================================================================
