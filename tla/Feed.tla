-------------------------------- MODULE Feed --------------------------------
(***************************************************************************)
(* The PROZORRO feed as src/tender_agent/prozorro/client.py uses it: a     *)
(* chronological log of tender modifications.  A tender that is modified   *)
(* again moves to the end: its earlier entry is superseded and no page     *)
(* lists it any more.                                                      *)
(***************************************************************************)
EXTENDS Domain, Sequences

VARIABLE log     \* log[i] is the i-th modification ever published

\* An entry says which tender changed and whether its status is actionable.
Entry == [tender: Tenders, open: BOOLEAN]

FeedTypeOK == log \in Seq(Entry) /\ Len(log) <= MaxFeed

FeedInit == log = << >>

\* PROZORRO publishes a modification of tender t.
Publish(t, open) ==
    /\ Len(log) < MaxFeed
    /\ log' = Append(log, [tender |-> t, open |-> open])

\* One of the entries i+1..n is a newer modification of entry i's tender.
SupersededBy(i, n) == \E j \in (i + 1) .. n : log[j].tender = log[i].tender

Superseded(i) == SupersededBy(i, Len(log))

\* The actionable entries of (from, upto] that a reader of the feed must not miss.
Current(from, upto) ==
    {i \in (from + 1) .. upto : log[i].open /\ ~Superseded(i)}

\* The actionable entries after `from` that some page may have listed since the
\* moment the log had `edge` entries.
Listable(from, edge) ==
    {i \in (from + 1) .. Len(log) : log[i].open /\ ~SupersededBy(i, edge)}

\* Deviation: a crawl may answer with an earlier cursor than it was given.
CrawlOutcomeRestart(from, edge, next, kept, missed) ==
    /\ next \in 0 .. Len(log)
    /\ kept \cup missed \subseteq Listable(from, edge)

\* What a finished crawl(offset) gives its caller: a cursor that does not lie
\* behind the one it started from, detailed tenders for listings it read, and
\* no actionable entry up to the cursor that is neither among them nor among
\* the listings whose detail request failed.
CrawlOutcome(from, edge, next, kept, missed) ==
    /\ next \in from .. Len(log)
    /\ kept \cup missed \subseteq Listable(from, edge)
    /\ Current(from, next) \subseteq kept \cup missed
=============================================================================
