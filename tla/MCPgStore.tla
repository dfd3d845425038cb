------------------------------ MODULE MCPgStore ------------------------------
(***************************************************************************)
(* Small instances of the PostgreSQL store for TLC.                        *)
(***************************************************************************)
EXTENDS PgStoreProperties

CONSTANTS s1, a, b, d, e

AppendAt(expected, ids) == Request("append", s1, expected, ids, 0)
Metadata(expected, maxCount) == Request("metadata", s1, expected, <<NewId>>, maxCount)
Delete(ids) == Request("delete", s1, 0, ids, 0)
DeleteS1(expected) == Request("delete stream", s1, expected, << >>, 0)

\* Appends that race for a version; only those at a version repeat one another.
Appends ==
  {AppendAt(-2, <<NewId>>), AppendAt(-2, <<NewId, NewId>>), AppendAt(-1, <<NewId>>),
   AppendAt(0, <<b>>), AppendAt(0, <<b, d>>), AppendAt(0, <<d, b>>), AppendAt(1, <<d>>),
   Metadata(-2, 0)}
\* Appends that repeat one another, wholly or in part.
Replays ==
  {AppendAt(-2, <<a>>), AppendAt(-2, <<a, b>>), AppendAt(-2, <<b, a>>), AppendAt(-1, <<a>>),
   AppendAt(-1, <<b>>), AppendAt(0, <<b>>), AppendAt(0, <<b, d>>), AppendAt(0, <<d, b>>)}
\* Messages and the stream are deleted.
Deletions ==
  {AppendAt(-2, <<a>>), AppendAt(0, <<b>>), AppendAt(-1, <<a, b>>), AppendAt(-2, <<b, d>>),
   AppendAt(-1, << >>), Delete(<<a>>), DeleteS1(-2), DeleteS1(-1), DeleteS1(0)}
\* A limit is set while the stream is appended to.
Retention ==
  {AppendAt(-2, <<NewId>>), AppendAt(-1, <<a, b>>), Metadata(-2, 1)}

AllWorkloads == {Appends, Deletions, Retention}
OnlyReplays == {Replays}
MetadataChanges == {{AppendAt(-1, <<NewId>>), Metadata(-2, 1), Metadata(-1, 2), Metadata(0, 0)}}

\* What it takes to break each of the properties the code does not keep.
LostUpdate == {AppendAt(-1, <<a>>), AppendAt(-2, <<b>>)}
Holes == {AppendAt(-1, <<a, b>>), AppendAt(0, <<d>>), Delete(<<b>>)}
PartialReplays == {AppendAt(-1, <<a, b, d>>), AppendAt(1, <<d, e>>), Delete(<<b>>)}
Races == {AppendAt(-1, <<a>>), AppendAt(0, <<b>>), DeleteS1(0)}
FirstMetadata == {AppendAt(-1, <<a>>), Metadata(-1, 1)}
HeldBack == PartialReplays \cup {Metadata(-2, 1)}
Disputed == {LostUpdate, Holes, PartialReplays, Races, FirstMetadata, HeldBack}
=============================================================================
