------------------------------- MODULE Crawl --------------------------------
(***************************************************************************)
(* What a crawl of the feed promises its caller, in one step: a cursor and *)
(* the listings up to it, each delivered with its details or named missed. *)
(* Pipeline relies on this outcome; ProzorroClient implements it.          *)
(***************************************************************************)
EXTENDS Feed

VARIABLES
    phase,     \* "idle", "crawling", "done" or "raised"
    from,      \* the cursor the crawl started from
    edge,      \* how long the feed was at that moment
    next,      \* the cursor it answers with
    kept,      \* the listings it answers with
    missed     \* the listings whose details it could not get

crawlVars == <<log, phase, from, edge, next, kept, missed>>

Init ==
    /\ FeedInit
    /\ phase = "idle" /\ from = 0 /\ edge = 0 /\ next = 0 /\ kept = {} /\ missed = {}

PublishStep ==
    /\ \E t \in Tenders, open \in BOOLEAN : Publish(t, open)
    /\ UNCHANGED <<phase, from, edge, next, kept, missed>>

Begin ==
    /\ phase # "crawling"
    /\ phase' = "crawling"
    /\ from' \in 0 .. Len(log)
    /\ edge' = Len(log)
    /\ next' = 0 /\ kept' = {} /\ missed' = {}
    /\ UNCHANGED log

Answer ==
    /\ phase = "crawling"
    /\ phase' = "done"
    /\ CrawlOutcome(from, edge, next', kept', missed')
    /\ UNCHANGED <<log, from, edge>>

Raise ==
    /\ phase = "crawling"
    /\ phase' = "raised"
    /\ UNCHANGED <<log, from, edge, next, kept, missed>>

Next == PublishStep \/ Begin \/ Answer \/ Raise

Spec == Init /\ [][Next]_crawlVars
=============================================================================
