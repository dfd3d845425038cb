---------------------------- MODULE GapDetection ----------------------------
(***************************************************************************)
(* Reading the PostgreSQL all-stream forwards, page after page, while      *)
(* transactions write to it.  A transaction takes its positions from the   *)
(* sequence when it inserts and shows them when it commits, so a page may  *)
(* have gaps that are about to be filled: detectGapsAndReloadAll reads the *)
(* last page again after a delay.                                          *)
(*                                                                         *)
(* The delay is assumed to be long enough: whoever held a position when    *)
(* the page was read has committed or rolled back when it is reloaded.     *)
(* That is what the delay is for; without it nothing can be promised.      *)
(***************************************************************************)
EXTENDS Arrays

CONSTANTS
  Writers,      \* the connections that write
  Count,        \* the page size
  ReloadTimes,  \* gapReloadTimes, which is 1 where the configuration says 0
  MaxPosition   \* bound: the last position taken from the sequence

VARIABLES
  nextval,      \* the sequence: the next position
  reserved,     \* the positions each open transaction has taken
  visible,      \* the positions of the committed messages
  pc,           \* "reading", "head" or "gaps" (waiting to reload), "threw"
  from,         \* fromPositionInclusive: the cursor of whoever pages
  waited,       \* the positions that were taken when the page was last read
  reloadCount,
  result,       \* the positions of the messages last returned
  gaps          \* history: the positions taken in a gap of the last page to be checked

log == <<nextval, reserved, visible>>
reader == <<pc, from, waited, reloadCount, result, gaps>>
vars == <<log, reader>>

ASSUME GapAssumption ==
  /\ Count \in Nat \ {0}
  /\ ReloadTimes \in Nat \ {0}
  /\ MaxPosition \in Nat

Pending == UNION {reserved[w] : w \in Writers}

-----------------------------------------------------------------------------
(***************************************************************************)
(* Transactions                                                            *)
(***************************************************************************)
Init ==
  /\ nextval = 0 /\ reserved = [w \in Writers |-> {}] /\ visible = {}
  /\ pc = "reading" /\ from = 0 /\ waited = {} /\ reloadCount = 0
  /\ result = {} /\ gaps = {}

Reserve(w) ==
  /\ nextval <= MaxPosition
  /\ nextval' = nextval + 1
  /\ reserved' = [reserved EXCEPT ![w] = @ \cup {nextval}]
  /\ UNCHANGED <<visible, reader>>

Commit(w) ==
  /\ reserved[w] # {}
  /\ visible' = visible \cup reserved[w]
  /\ reserved' = [reserved EXCEPT ![w] = {}]
  /\ UNCHANGED <<nextval, reader>>

Rollback(w) ==
  /\ reserved[w] # {}
  /\ reserved' = [reserved EXCEPT ![w] = {}]
  /\ UNCHANGED <<nextval, visible, reader>>

Delete(p) ==
  /\ visible' = visible \ {p}
  /\ UNCHANGED <<nextval, reserved, reader>>

-----------------------------------------------------------------------------
(***************************************************************************)
(* Reading                                                                 *)
(***************************************************************************)

\* readAllInternal: the first Count messages from the cursor on, the end of the
\* log being known by one message more.
Behind == {p \in visible : p >= from}
Page == {p \in Behind : Cardinality({q \in Behind : q < p}) < Count}
IsEnd == Page = Behind

First(page) == Nth(page, 1)
NextPosition(page) == IF page = {} THEN from ELSE Greatest(page) + 1

\* Mutation of HasGap: the last message of the page is not compared with the one before it.
HasGapBeforeLast(page) ==
  \E p \in page : p # Greatest(page) /\ p # Greatest(page \ {Greatest(page)}) /\ p + 1 \notin page

\* Two neighbours of the page are not neighbours in the sequence.
HasGap(page) == \E p \in page : p # Greatest(page) /\ p + 1 \notin page

Return(page) ==
  /\ pc' = "reading"
  /\ from' = NextPosition(page)
  /\ result' = page
  /\ UNCHANGED <<waited, reloadCount>>

WaitToReload(where, n) ==
  /\ pc' = where
  /\ reloadCount' = n
  /\ waited' = Pending
  /\ UNCHANGED <<from, result>>

\* The do-while: a page with a gap is reloaded, at least once.
DetectGaps(page) ==
  \/ /\ HasGap(page)
     /\ WaitToReload("gaps", 1)
  \/ /\ ~ HasGap(page)
     /\ Return(page)

\* The while before it: the page should begin at the position asked for.
DetectFrom(page, n) ==
  \/ /\ page # {}
     /\ First(page) # from
     /\ n < ReloadTimes
     /\ WaitToReload("head", n + 1)
  \/ /\ page # {}
     /\ First(page) = from \/ n >= ReloadTimes
     /\ DetectGaps(page)
  \/ /\ page = {}   \* messages[0] is undefined
     /\ pc' = "threw"
     /\ UNCHANGED <<from, waited, reloadCount, result>>

\* Only a last page of two messages or more is checked.
Read ==
  /\ pc = "reading"
  /\ \/ /\ ~ IsEnd \/ Cardinality(Page) <= 1
        /\ gaps' = {}
        /\ Return(Page)
     \/ /\ IsEnd /\ Cardinality(Page) > 1
        /\ gaps' = {p \in Pending : from <= p /\ p < Greatest(Page)}
        /\ DetectFrom(Page, 0)
  /\ UNCHANGED log

\* The delay is over: what was pending has been committed or rolled back.
Delayed == waited \cap Pending = {}

ReloadHead ==
  /\ pc = "head"
  /\ Delayed
  /\ DetectFrom(Page, reloadCount)
  /\ UNCHANGED <<log, gaps>>

\* Mutation of ReloadGaps: the reloads are not counted.
ReloadGapsUncounted ==
  /\ pc = "gaps"
  /\ Delayed
  /\ \/ HasGap(Page) /\ WaitToReload("gaps", reloadCount)
     \/ ~ HasGap(Page) /\ Return(Page)
  /\ UNCHANGED <<log, gaps>>

\* After the last reload the page is returned as it is.
ReloadGaps ==
  /\ pc = "gaps"
  /\ Delayed
  /\ \/ /\ reloadCount < ReloadTimes
        /\ HasGap(Page)
        /\ WaitToReload("gaps", reloadCount + 1)
     \/ /\ reloadCount >= ReloadTimes \/ ~ HasGap(Page)
        /\ Return(Page)
  /\ UNCHANGED <<log, gaps>>

\* The caller reads again from the same position (the subscription's retry).
ReadAgain ==
  /\ pc = "threw"
  /\ pc' = "reading"
  /\ UNCHANGED <<log, from, waited, reloadCount, result, gaps>>

Reader == Read \/ ReloadHead \/ ReloadGaps \/ ReadAgain

Next ==
  \/ \E w \in Writers : Reserve(w) \/ Commit(w) \/ Rollback(w)
  \/ \E p \in visible : Delete(p)
  \/ Reader

Spec == Init /\ [][Next]_vars

\* Transactions end, and the reader goes on.
Fairness ==
  /\ \A w \in Writers : WF_vars(Commit(w) \/ Rollback(w))
  /\ WF_vars(Reader)

FairSpec == Spec /\ Fairness

-----------------------------------------------------------------------------
\* The type of every variable.
TypeOK ==
  /\ nextval \in Nat
  /\ reserved \in [Writers -> SUBSET (0 .. nextval - 1)]
  /\ visible \subseteq 0 .. nextval - 1
  /\ pc \in {"reading", "head", "gaps", "threw"}
  /\ from \in 0 .. nextval
  /\ waited \subseteq 0 .. nextval - 1
  /\ reloadCount \in 0 .. ReloadTimes
  /\ result \subseteq 0 .. nextval - 1
  /\ gaps \subseteq 0 .. nextval - 1

\* No gap of a page that is checked is passed as long as it may be filled: a position that
\* a transaction had taken there, before the page or in it, is behind the cursor only once
\* that transaction has committed or rolled back, and what it committed was returned, unless
\* it is deleted (README.md:534).  A gap that is not seen, a page that is returned as it
\* was before the reload, or a cursor past what was returned would each lose a message.
ReloadsFillTheGaps ==
  pc = "reading" =>
    \A p \in gaps : p < from => p \notin Pending /\ (p \in visible => p \in result)

\* Every read ends, however many gaps rollbacks and deletions leave behind.
ReadsEnd == pc \in {"head", "gaps"} ~> pc \in {"reading", "threw"}

\* README.md:534: the gaps are detected and the read issued again, "and if the
\* gaps are still present, then they are either due to transaction rollbacks or
\* deleted messages": a message is not committed behind the cursor.  (It is: a
\* last page of one message, and a page that is not the last, are not checked.)
NoCommitBehindTheCursor == \A p \in Pending : p >= from
=============================================================================
