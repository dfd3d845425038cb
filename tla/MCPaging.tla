------------------------------ MODULE MCPaging ------------------------------
(***************************************************************************)
(* Small instances of paging for TLC.                                      *)
(***************************************************************************)
EXTENDS Paging

ALog(store, kind, forward, deletions, continued) ==
  [store |-> store, kind |-> kind, forward |-> forward, deletions |-> deletions, continued |-> continued]

\* In memory nothing is deleted under a client that reads backwards, and nobody
\* goes on from the end of a listing or of a stream in PostgreSQL.
AllLogs ==
  {ALog("memory", kind, TRUE, TRUE, TRUE) : kind \in {"stream", "all"}}
    \cup {ALog("memory", kind, FALSE, FALSE, FALSE) : kind \in {"stream", "all"}}
    \cup {ALog("postgres", "stream", forward, TRUE, FALSE) : forward \in BOOLEAN}
    \cup {ALog("postgres", "all", TRUE, TRUE, TRUE), ALog("postgres", "all", FALSE, TRUE, FALSE)}
    \cup {ALog("memory", "listing", TRUE, FALSE, FALSE), ALog("postgres", "listing", TRUE, TRUE, FALSE)}

\* Messages are deleted under a client that reads backwards in memory.
Backwards == {ALog("memory", kind, FALSE, TRUE, FALSE) : kind \in {"stream", "all"}}
\* The client goes on with the cursor it stopped at.
Listed == {ALog(store, "listing", TRUE, FALSE, TRUE) : store \in {"memory", "postgres"}}
=============================================================================
