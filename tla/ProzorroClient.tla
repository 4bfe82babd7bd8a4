--------------------------- MODULE ProzorroClient ---------------------------
(***************************************************************************)
(* prozorro/client.py: crawl(offset) pages through the feed while PROZORRO *)
(* goes on publishing, then fetches the details of the actionable listings *)
(* concurrently, every request with bounded retries.                       *)
(***************************************************************************)
EXTENDS Feed

CONSTANTS
    PageSize,            \* how many entries PROZORRO puts on a page
    MaxFeedPages,        \* _MAX_FEED_PAGES
    MaxRetries,          \* settings.max_retries
    DetailConcurrency    \* _DETAIL_CONCURRENCY

ASSUME ClientAssumption ==
    {PageSize, MaxFeedPages, MaxRetries, DetailConcurrency} \subseteq Nat \ {0}

VARIABLES
    pc,        \* "idle", "paging", "details", "done" or "raised"
    start,     \* start_offset
    offset,    \* current_offset, which last_next_offset always equals
    pages,     \* pages_fetched
    tries,     \* failed attempts of the page request in progress
    detail,    \* what became of each listing
    failed,    \* failed attempts of each listing's detail request
    \* For the properties: how long the feed was when the crawl began and when
    \* the details of each listing arrived.
    edge, answered

clientVars == <<pc, start, offset, pages, tries, detail, failed, edge, answered>>
vars == <<log, clientVars>>

Listings == 1 .. MaxFeed

\* A listing is not there, waits for the semaphore, has its request on the
\* way, or ended: among the results, no longer actionable, or not obtained.
DetailStates == {"none", "waiting", "asked", "kept", "closed", "missed"}

In(state) == {i \in Listings : detail[i] = state}

TypeOK ==
    /\ FeedTypeOK
    /\ pc \in {"idle", "paging", "details", "done", "raised"}
    /\ {start, offset, edge} \subseteq Positions
    /\ pages \in 0 .. MaxFeedPages
    /\ tries \in 0 .. MaxRetries - 1
    /\ detail \in [Listings -> DetailStates]
    /\ failed \in [Listings -> 0 .. MaxRetries - 1]
    /\ answered \in [Listings -> Positions]

Init ==
    /\ FeedInit
    /\ pc = "idle"
    /\ start = 0 /\ offset = 0 /\ pages = 0 /\ tries = 0 /\ edge = 0
    /\ detail = [i \in Listings |-> "none"]
    /\ failed = [i \in Listings |-> 0]
    /\ answered = [i \in Listings |-> 0]

-----------------------------------------------------------------------------
(* PROZORRO *)

PublishStep ==
    /\ \E t \in Tenders, open \in BOOLEAN : Publish(t, open)
    /\ UNCHANGED clientVars

\* The page the feed serves at cursor c: the first entries after it.
Page(c) ==
    LET after == {i \in (c + 1) .. Len(log) : ~Superseded(i)}
    IN  {i \in after : Cardinality({j \in after : j < i}) < PageSize}

LastOf(page) == CHOOSE i \in page : \A j \in page : j <= i

\* The cursor that comes with a page, None when next_page or its offset is
\* missing; it may also be the one that was asked for.
NextOffsets(c, page) == {NoCursor, c, LastOf(page)}

\* A tender is in the status of its latest entry.
Actionable(t) ==
    \E i \in DOMAIN log : log[i].tender = t /\ log[i].open /\ ~Superseded(i)

-----------------------------------------------------------------------------
(* The scan of the feed *)

\* crawl(offset): from a saved cursor or, on the first run, from lookback_days ago.
CrawlStart ==
    /\ pc \in {"idle", "done", "raised"}
    /\ pc' = "paging"
    /\ \E from \in 0 .. Len(log) : start' = from /\ offset' = from
    /\ pages' = 0 /\ tries' = 0
    /\ edge' = Len(log)
    /\ detail' = [i \in Listings |-> "none"]
    /\ failed' = [i \in Listings |-> 0]
    /\ answered' = [i \in Listings |-> 0]
    /\ UNCHANGED log

\* The scan is over: on to the details.
EndScan ==
    /\ pc' = "details"
    /\ tries' = 0

\* The runaway-loop guard, looked at before every request.
AtPageCap == pages >= MaxFeedPages

PageCapReached ==
    /\ pc = "paging"
    /\ AtPageCap
    /\ EndScan
    /\ UNCHANGED <<log, start, offset, pages, detail, failed, edge, answered>>

EmptyPage ==
    /\ pc = "paging" /\ ~AtPageCap
    /\ Page(offset) = {}
    /\ pages' = pages + 1
    /\ EndScan
    /\ UNCHANGED <<log, start, offset, detail, failed, edge, answered>>

\* The entries of a page whose details will be asked for.
ActionableOn(page) == {i \in page : log[i].open}

\* Deviation: the ids of the page replace those of the pages before.
TakePageAnew(page) ==
    detail' = [i \in Listings |-> IF i \in ActionableOn(page) THEN "waiting" ELSE "none"]

TakePage(page) ==
    detail' = [i \in Listings |->
                 IF i \in ActionableOn(page) THEN "waiting" ELSE detail[i]]

\* Deviation: a page that comes without a cursor ends the scan at the live edge.
AdvanceToNow(page, next) ==
    IF next \in {NoCursor, offset}
      THEN EndScan /\ offset' = IF next = NoCursor THEN Len(log) ELSE offset
      ELSE offset' = next /\ tries' = 0 /\ UNCHANGED pc

\* Without a new cursor the scan has caught up with the live edge.
Advance(page, next) ==
    IF next \in {NoCursor, offset}
      THEN EndScan /\ UNCHANGED offset
      ELSE offset' = next /\ tries' = 0 /\ UNCHANGED pc

ReadPage ==
    /\ pc = "paging" /\ ~AtPageCap
    /\ LET page == Page(offset) IN
         /\ page # {}
         /\ \E next \in NextOffsets(offset, page) :
              TakePage(page) /\ Advance(page, next)
    /\ pages' = pages + 1
    /\ UNCHANGED <<log, start, failed, edge, answered>>

\* Deviation: max_retries counts the attempts after the first.
CanRetryOnceMore(n) == n < MaxRetries

\* stop_after_attempt(max_retries)
CanRetry(n) == n + 1 < MaxRetries

Retry(n) == n + 1

\* A transport error, a timeout, 429 or 5xx: the request is tried again.
PageRetry ==
    /\ pc = "paging" /\ ~AtPageCap
    /\ CanRetry(tries)
    /\ tries' = Retry(tries)
    /\ UNCHANGED <<log, pc, start, offset, pages, detail, failed, edge, answered>>

\* The last attempt failed, or the first one for good (another 4xx, a body
\* that is no feed page): the crawl raises and its cursor is lost.
PageFails ==
    /\ pc = "paging" /\ ~AtPageCap
    /\ pc' = "raised"
    /\ UNCHANGED <<log, start, offset, pages, tries, detail, failed, edge, answered>>

-----------------------------------------------------------------------------
(* The details *)

Settle(i, state) == detail' = [detail EXCEPT ![i] = state]

\* Deviation: a request that failed keeps its slot.
SlotFreeLeaks == Cardinality(In("asked") \cup In("missed")) < DetailConcurrency

SlotFree == Cardinality(In("asked")) < DetailConcurrency

AskDetail(i) ==
    /\ pc = "details"
    /\ detail[i] = "waiting"
    /\ SlotFree
    /\ Settle(i, "asked")
    /\ UNCHANGED <<log, pc, start, offset, pages, tries, failed, edge, answered>>

\* Deviation: the status of the details is not looked at again.
AfterAnswerUnchecked(i) == "kept"

\* The status is checked again: the tender may have left it since the scan.
AfterAnswer(i) == IF Actionable(log[i].tender) THEN "kept" ELSE "closed"

DetailAnswered(i) ==
    /\ pc = "details"
    /\ detail[i] = "asked"
    /\ Settle(i, AfterAnswer(i))
    /\ answered' = [answered EXCEPT ![i] = Len(log)]
    /\ UNCHANGED <<log, pc, start, offset, pages, tries, failed, edge>>

DetailRetry(i) ==
    /\ pc = "details"
    /\ detail[i] = "asked"
    /\ CanRetry(failed[i])
    /\ failed' = [failed EXCEPT ![i] = Retry(@)]
    /\ UNCHANGED <<log, pc, start, offset, pages, tries, detail, edge, answered>>

\* Deviation: a listing whose details could not be had goes back to the queue.
DetailRequeued(i) ==
    /\ pc = "details"
    /\ detail[i] = "asked"
    /\ Settle(i, "waiting")
    /\ UNCHANGED <<log, pc, start, offset, pages, tries, failed, edge, answered>>

\* 404, another 4xx, or the last attempt failed: a warning, and on.
DetailMissed(i) ==
    /\ pc = "details"
    /\ detail[i] = "asked"
    /\ Settle(i, "missed")
    /\ UNCHANGED <<log, pc, start, offset, pages, tries, failed, edge, answered>>

\* An answer that is no tender (or no JSON) is not a ProzorroError: the whole
\* crawl raises.
DetailMalformed(i) ==
    /\ pc = "details"
    /\ detail[i] = "asked"
    /\ pc' = "raised"
    /\ UNCHANGED <<log, start, offset, pages, tries, detail, failed, edge, answered>>

\* gather() has all its results.
CrawlDone ==
    /\ pc = "details"
    /\ In("waiting") = {} /\ In("asked") = {}
    /\ pc' = "done"
    /\ UNCHANGED <<log, start, offset, pages, tries, detail, failed, edge, answered>>

-----------------------------------------------------------------------------
ClientStep ==
    \/ CrawlStart \/ PageCapReached \/ EmptyPage \/ ReadPage \/ PageRetry \/ PageFails
    \/ \E i \in Listings : \/ AskDetail(i) \/ DetailAnswered(i) \/ DetailRetry(i)
                           \/ DetailMissed(i) \/ DetailMalformed(i)
    \/ CrawlDone

Next == PublishStep \/ ClientStep

Spec == Init /\ [][Next]_vars

\* asyncio runs the crawl, and every request ends: httpx has a timeout.
FairSpec == Spec /\ WF_vars(ClientStep)

-----------------------------------------------------------------------------
(* Properties *)

\* While it pages, the crawl has listed every actionable entry its cursor has
\* passed and that is still the latest of its tender, whatever was published in
\* between; at the end each of them has been asked for (client.py:129-174).
CursorBehindListings ==
    pc \in {"paging", "details", "done"} =>
        Current(start, offset) \subseteq {i \in Listings : detail[i] # "none"}

\* A tender that left the actionable status before its details arrived, during
\* the scan, in the queue, between two attempts or on the way, is not among the
\* results, whatever is published until the crawl is done (client.py:168-175).
StaleListingsDropped ==
    pc = "done" => \A i \in In("kept") :
        \E j \in 1 .. answered[i] : /\ log[j].tender = log[i].tender /\ log[j].open
                                    /\ ~SupersededBy(j, answered[i])

\* Every crawl ends, with an answer or an exception, whatever PROZORRO publishes
\* and however often its requests fail (client.py:130-136, 273-278).
CrawlEnds == (pc = "paging") ~> (pc \in {"done", "raised"})

\* The scan ends or counts up: a page more, or a failed attempt at it more.
ScanMovesOn ==
    \/ pc' \in {"details", "raised"}
    \/ pc' = "paging" /\ pages' > pages
    \/ pc' = "paging" /\ pages' = pages /\ tries' > tries

\* A listing is asked for, asked for once more, or settled.
ListingMovesOn(i) ==
    \/ detail[i] = "waiting" /\ detail'[i] = "asked" /\ failed'[i] = failed[i]
    \/ detail[i] = "asked" /\ detail'[i] = "asked" /\ failed'[i] > failed[i]
    \/ detail[i] = "asked" /\ detail'[i] \in {"kept", "closed", "missed"}

\* The details end, or one listing moves on and the others stay as they are.
DetailsMoveOn ==
    \/ pc' \in {"done", "raised"}
    \/ /\ pc' = "details"
       /\ \E i \in Listings :
            /\ ListingMovesOn(i)
            /\ \A j \in Listings \ {i} : detail'[j] = detail[j] /\ failed'[j] = failed[j]

\* Why it ends: no step of a crawl undoes the work of another, and what they
\* count up is bounded by _MAX_FEED_PAGES and max_retries (client.py:129-163,
\* 231-257, 273-278).
CrawlProgresses ==
    [][log' = log => /\ pc = "paging" => ScanMovesOn
                     /\ pc = "details" => DetailsMoveOn]_vars

\* The crawl keeps the promise the pipeline relies on: whatever pages, retries
\* and failures it goes through, it looks to its caller like one step of Crawl
\* (client.py:107-185).
Promise == INSTANCE Crawl WITH
    phase <- IF pc \in {"paging", "details"} THEN "crawling" ELSE pc,
    from <- start,
    next <- IF pc = "done" THEN offset ELSE 0,
    kept <- IF pc = "done" THEN In("kept") ELSE {},
    missed <- IF pc = "done" THEN In("missed") ELSE {}

ImplementsCrawl == Promise!Spec
=============================================================================
