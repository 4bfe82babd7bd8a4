---------------------------- MODULE ClientProofs ----------------------------
(***************************************************************************)
(* Proofs about ProzorroClient, for any feed, page size, bound on pages    *)
(* and attempts, and number of concurrent detail requests: what a crawl    *)
(* answers is what Crawl promises.                                         *)
(***************************************************************************)
EXTENDS ProzorroClient, FiniteSetTheorems, WellFoundedInduction, TLAPS

CrawlStates == {"idle", "paging", "details", "done", "raised"}

\* The scan moves forward from where it began.
ScanInv ==
    /\ start <= offset /\ offset <= Len(log)
    /\ edge <= Len(log)

\* A listing was on a page, with an actionable status, since the crawl began;
\* its details are asked for after the scan; and what was dropped as closed has
\* been superseded.
ListingInv(i) ==
    /\ detail[i] # "none" =>
         i > start /\ i <= Len(log) /\ log[i].open /\ ~SupersededBy(i, edge)
    /\ pc \in {"idle", "paging"} => detail[i] \in {"none", "waiting"}
    /\ detail[i] = "closed" => Superseded(i)

\* The tender of i was actionable when the details of i arrived.
OpenWhenAnswered(i) ==
    \E j \in 1 .. answered[i] : /\ log[j].tender = log[i].tender /\ log[j].open
                                /\ ~SupersededBy(j, answered[i])

KeptInv(i) ==
    /\ answered[i] <= Len(log)
    /\ detail[i] = "kept" => OpenWhenAnswered(i)

ClientInv ==
    /\ TypeOK
    /\ ScanInv
    /\ \A i \in Listings : ListingInv(i) /\ KeptInv(i)
    /\ CursorBehindListings

-----------------------------------------------------------------------------
(* The feed *)

\* Not a theorem of the library: every set of naturals has a least element.
LEMMA LeastElement ==
  ASSUME NEW T \in SUBSET Nat, T # {}
  PROVE  \E x \in T : \A y \in T : x <= y
<1> DEFINE R == OpToRel(<, Nat)
<1>1. IsWellFoundedOn(R, Nat)
  BY NatLessThanWellFounded
<1>2. \A x, y \in Nat : y < x => <<y, x>> \in R
  BY DEF OpToRel
<1> HIDE DEF R
<1>3. PICK x \in T : \A y \in T : <<y, x>> \notin R
  BY <1>1, WFMin
<1>4. x \in Nat /\ \A y \in T : y \in Nat
  OBVIOUS
<1>5. \A y \in T : ~(y < x)
  BY <1>2, <1>3, <1>4
<1> QED
  BY <1>4, <1>5

\* The last entry of a page.
LEMMA LastEntry ==
  ASSUME NEW n \in Nat, NEW page \in SUBSET (1 .. n), page # {}
  PROVE  LastOf(page) \in page /\ \A j \in page : j <= LastOf(page)
<1> DEFINE mirror == {k \in 0 .. n : n - k \in page}
<1>1. mirror \in SUBSET Nat /\ mirror # {}
  <2>1. PICK i \in page : TRUE
    OBVIOUS
  <2>2. n - i \in 0 .. n /\ n - (n - i) = i
    OBVIOUS
  <2>3. n - i \in mirror
    BY <2>2
  <2>4. mirror \subseteq Nat
    OBVIOUS
  <2> QED
    BY <2>3, <2>4
<1>2. PICK k \in mirror : \A m \in mirror : k <= m
  BY <1>1, LeastElement
<1>3. \A j \in page : n - j \in mirror
  OBVIOUS
<1>4. n - k \in page /\ \A j \in page : j <= n - k
  BY <1>2, <1>3
<1> QED
  BY <1>4 DEF LastOf

\* A page lists the entries after its cursor in order, without a gap.
LEMMA PageOfFeed ==
  ASSUME FeedTypeOK, NEW c \in Positions, Page(c) # {}
  PROVE  /\ Page(c) \subseteq (c + 1) .. Len(log)
         /\ LastOf(Page(c)) \in (c + 1) .. Len(log)
         /\ \A i \in Page(c) : ~Superseded(i)
         /\ \A i \in (c + 1) .. LastOf(Page(c)) : ~Superseded(i) => i \in Page(c)
<1> DEFINE page == Page(c)
           after == {i \in (c + 1) .. Len(log) : ~Superseded(i)}
           last == LastOf(page)
           before(i) == {j \in after : j < i}
<1>1. Len(log) \in Nat /\ c \in Nat
  BY DEF FeedTypeOK, Positions
<1>2. /\ page \subseteq after /\ after \subseteq 1 .. Len(log)
      /\ after \subseteq (c + 1) .. Len(log)
      /\ \A i \in after : ~Superseded(i)
      /\ \A i \in after : i \in page <=> Cardinality(before(i)) < PageSize
  BY <1>1 DEF Page
<1>3. last \in page /\ \A j \in page : j <= last
  BY <1>1, <1>2, LastEntry
<1>4. ASSUME NEW i \in (c + 1) .. last, ~Superseded(i) PROVE i \in page
  <2>1. i \in after /\ i <= last /\ last \in after
    BY <1>1, <1>2, <1>3, <1>4
  <2>2. before(i) \subseteq before(last)
    BY <1>1, <1>2, <2>1
  <2>3. IsFiniteSet(before(last))
    <3>1. IsFiniteSet(1 .. Len(log))
      BY <1>1, FS_Interval
    <3>2. before(last) \subseteq 1 .. Len(log)
      BY <1>2
    <3> QED
      BY <3>1, <3>2, FS_Subset
  <2>4. /\ Cardinality(before(i)) \in Nat /\ Cardinality(before(last)) \in Nat
        /\ Cardinality(before(i)) <= Cardinality(before(last))
    BY <2>2, <2>3, FS_Subset, FS_CardinalityType
  <2>5. Cardinality(before(last)) < PageSize
    BY <1>2, <1>3, <2>1
  <2> QED
    BY <1>2, <2>1, <2>4, <2>5, ClientAssumption
<1> QED
  BY <1>2, <1>3, <1>4

\* Entries stay as they are, and superseded ones stay superseded.
LEMMA FeedGrows ==
  ASSUME FeedTypeOK, NEW t \in Tenders, NEW open \in BOOLEAN, Publish(t, open)
  PROVE  /\ FeedTypeOK'
         /\ Len(log') = Len(log) + 1 /\ Len(log) \in Nat
         /\ \A i \in 1 .. Len(log) : log'[i] = log[i]
         /\ \A i \in 1 .. Len(log) : Superseded(i) => Superseded(i)'
         /\ \A i \in Nat, n \in 0 .. Len(log) :
              i >= 1 => (SupersededBy(i, n) <=> SupersededBy(i, n)')
<1>1. [tender |-> t, open |-> open] \in Entry
  BY DEF Entry
<1>2. /\ log \in Seq(Entry) /\ Len(log) < MaxFeed
      /\ log' = Append(log, [tender |-> t, open |-> open])
  BY DEF FeedTypeOK, Publish
<1>3. /\ log' \in Seq(Entry) /\ Len(log') = Len(log) + 1 /\ Len(log) \in Nat
      /\ \A i \in 1 .. Len(log) : log'[i] = log[i]
  BY <1>1, <1>2
<1>4. FeedTypeOK'
  BY <1>2, <1>3, FeedAssumption DEF FeedTypeOK
<1>5. ASSUME NEW i \in 1 .. Len(log), Superseded(i) PROVE Superseded(i)'
  BY <1>3, <1>5 DEF Superseded, SupersededBy
<1>6. ASSUME NEW i \in Nat, i >= 1, NEW n \in 0 .. Len(log)
      PROVE  SupersededBy(i, n) <=> SupersededBy(i, n)'
  <2>1. CASE i <= Len(log)
    BY <1>3, <1>6, <2>1 DEF SupersededBy
  <2>2. CASE i > Len(log)
    BY <1>3, <1>6, <2>2 DEF SupersededBy
  <2> QED
    BY <1>3, <1>6, <2>1, <2>2
<1> QED
  BY <1>3, <1>4, <1>5, <1>6

-----------------------------------------------------------------------------
(* The actions, one by one *)

LEMMA BoundsOf ==
  ASSUME ClientInv
  PROVE  /\ Len(log) \in Nat /\ Len(log) <= MaxFeed /\ MaxFeed \in Nat
         /\ {start, offset, edge, pages, tries} \subseteq Nat
         /\ \A i \in Listings : answered[i] \in Nat
         /\ 1 .. Len(log) \subseteq Listings
         /\ \A i \in 1 .. Len(log) : log[i] \in Entry
BY FeedAssumption, ClientAssumption DEF ClientInv, TypeOK, FeedTypeOK, Positions, Listings

LEMMA PublishKeeps ==
  ASSUME ClientInv, PublishStep
  PROVE  ClientInv'
<1>1. PICK t \in Tenders, open \in BOOLEAN : Publish(t, open)
  BY DEF PublishStep
<1>2. UNCHANGED clientVars
  BY DEF PublishStep
<1>3. /\ FeedTypeOK'
      /\ Len(log') = Len(log) + 1 /\ Len(log) \in Nat
      /\ \A i \in 1 .. Len(log) : log'[i] = log[i]
      /\ \A i \in 1 .. Len(log) : Superseded(i) => Superseded(i)'
      /\ \A i \in Nat, n \in 0 .. Len(log) :
           i >= 1 => (SupersededBy(i, n) <=> SupersededBy(i, n)')
  BY <1>1, FeedGrows DEF ClientInv, TypeOK
<1>4. TypeOK'
  BY <1>2, <1>3 DEF ClientInv, TypeOK, clientVars
<1>5. ScanInv'
  BY <1>2, <1>3, BoundsOf DEF ClientInv, ScanInv, clientVars
<1>6. ASSUME NEW i \in Listings PROVE ListingInv(i)' /\ KeptInv(i)'
  <2>1. ListingInv(i) /\ KeptInv(i) /\ i \in Nat /\ i >= 1
    BY FeedAssumption DEF ClientInv, Listings
  <2>2. CASE detail[i] = "none"
    BY <1>2, <1>3, <2>1, <2>2, BoundsOf DEF ListingInv, KeptInv, clientVars
  <2>3. CASE detail[i] # "none"
    <3>1. i \in 1 .. Len(log) /\ log'[i] = log[i]
      BY <1>3, <2>1, <2>3, BoundsOf DEF ListingInv
    <3>2. edge \in 0 .. Len(log) /\ answered[i] \in 0 .. Len(log)
      BY <2>1, BoundsOf DEF ClientInv, ScanInv, KeptInv
    <3>3. ListingInv(i)'
      <4>1. ~SupersededBy(i, edge) => ~SupersededBy(i, edge)'
        BY <1>2, <1>3, <2>1, <3>2 DEF SupersededBy, clientVars
      <4>2. edge' = edge /\ start' = start /\ pc' = pc /\ detail' = detail
        BY <1>2 DEF clientVars
      <4> QED
        BY <1>3, <2>1, <2>3, <3>1, <4>1, <4>2 DEF ListingInv
    <3>4. OpenWhenAnswered(i) => OpenWhenAnswered(i)'
      <4>1. answered'[i] = answered[i]
        BY <1>2 DEF clientVars
      <4>2. ASSUME NEW j \in 1 .. answered[i], ~SupersededBy(j, answered[i])
            PROVE  log'[j] = log[j] /\ ~SupersededBy(j, answered[i])'
        BY <1>2, <1>3, <3>2, <4>2 DEF SupersededBy, clientVars
      <4> QED
        BY <3>1, <4>1, <4>2 DEF OpenWhenAnswered
    <3> QED
      BY <1>2, <1>3, <2>1, <3>2, <3>3, <3>4 DEF KeptInv, clientVars
  <2> QED
    BY <2>2, <2>3
<1>7. CursorBehindListings'
  <2>1. Current(start, offset)' \subseteq Current(start, offset)
    <3>1. start' = start /\ offset' = offset
      BY <1>2 DEF clientVars
    <3>2. offset <= Len(log)
      BY DEF ClientInv, ScanInv
    <3>3. SUFFICES ASSUME NEW i \in (start + 1) .. offset, log'[i].open, ~Superseded(i)'
                   PROVE  log[i].open /\ ~Superseded(i)
      BY <3>1 DEF Current
    <3>4. i \in 1 .. Len(log)
      BY <3>2, BoundsOf
    <3> QED
      BY <1>3, <3>3, <3>4
  <2> QED
    BY <1>2, <2>1 DEF ClientInv, CursorBehindListings, clientVars
<1> QED
  BY <1>4, <1>5, <1>6, <1>7 DEF ClientInv

LEMMA CrawlStartKeeps ==
  ASSUME ClientInv, CrawlStart
  PROVE  ClientInv'
<1>1. PICK from \in 0 .. Len(log) : start' = from /\ offset' = from
  BY DEF CrawlStart
<1>2. /\ pc' = "paging" /\ edge' = Len(log) /\ pages' = 0 /\ tries' = 0
      /\ detail' = [i \in Listings |-> "none"]
      /\ failed' = [i \in Listings |-> 0]
      /\ answered' = [i \in Listings |-> 0]
      /\ UNCHANGED log
  BY DEF CrawlStart
<1>3. TypeOK'
  <2>1. FeedTypeOK' /\ {start', offset', edge'} \subseteq Positions
    BY <1>1, <1>2, BoundsOf DEF ClientInv, TypeOK, FeedTypeOK, Positions
  <2> QED
    BY <1>2, <2>1, ClientAssumption, FeedAssumption DEF TypeOK, DetailStates, Positions
<1>4. ScanInv'
  BY <1>1, <1>2, BoundsOf DEF ScanInv
<1>5. \A i \in Listings : ListingInv(i)' /\ KeptInv(i)'
  BY <1>2, BoundsOf DEF ListingInv, KeptInv
<1>6. CursorBehindListings'
  <2>1. Current(start, offset)' = {}
    BY <1>1 DEF Current
  <2> QED
    BY <2>1 DEF CursorBehindListings
<1> QED
  BY <1>3, <1>4, <1>5, <1>6 DEF ClientInv

\* A scan that is over has its listings, none of them detailed yet.
LEMMA ScanEndKeeps ==
  ASSUME ClientInv, pc = "paging", EndScan, pages' \in 0 .. MaxFeedPages,
         UNCHANGED <<log, start, offset, detail, failed, edge, answered>>
  PROVE  ClientInv'
<1>1. pc' = "details" /\ tries' = 0
  BY DEF EndScan
<1>2. TypeOK'
  BY <1>1, BoundsOf, ClientAssumption DEF ClientInv, TypeOK, FeedTypeOK, Positions
<1>3. ScanInv'
  BY <1>1, BoundsOf DEF ClientInv, ScanInv
<1>4. ASSUME NEW i \in Listings PROVE ListingInv(i)' /\ KeptInv(i)'
  BY <1>1 DEF ClientInv, ListingInv, KeptInv, SupersededBy
<1>5. CursorBehindListings'
  BY DEF ClientInv, CursorBehindListings, Current, Superseded, SupersededBy
<1> QED
  BY <1>2, <1>3, <1>4, <1>5 DEF ClientInv

\* The cursor moves to the end of a page only with all its listings.
LEMMA ReadPageKeeps ==
  ASSUME ClientInv, ReadPage
  PROVE  ClientInv'
<1> DEFINE page == Page(offset)
<1>1. /\ pc = "paging" /\ pages' \in 0 .. MaxFeedPages /\ page # {}
      /\ TakePage(page)
      /\ UNCHANGED <<log, start, failed, edge, answered>>
  BY BoundsOf, ClientAssumption DEF ReadPage, AtPageCap
<1>2. PICK next \in NextOffsets(offset, page) : Advance(page, next)
  BY DEF ReadPage
<1>3. /\ page \subseteq (offset + 1) .. Len(log)
      /\ LastOf(page) \in (offset + 1) .. Len(log)
      /\ \A i \in page : ~Superseded(i)
      /\ \A i \in (offset + 1) .. LastOf(page) : ~Superseded(i) => i \in page
  BY <1>1, PageOfFeed DEF ClientInv, TypeOK
<1> HIDE DEF page
<1>4. /\ offset' \in {offset, LastOf(page)}
      /\ pc' \in {"paging", "details"} /\ tries' = 0
  BY <1>1, <1>2 DEF Advance, EndScan, NextOffsets
<1>5. ASSUME NEW i \in Listings
      PROVE  /\ detail'[i] \in {"none", "waiting"}
             /\ detail'[i] = "waiting" => (i \in page /\ log[i].open) \/ detail[i] = "waiting"
             /\ (i \in page /\ log[i].open) \/ detail[i] # "none" => detail'[i] = "waiting"
  BY <1>1 DEF TakePage, ActionableOn, ClientInv, ListingInv
<1>6. TypeOK'
  <2>1. detail' \in [Listings -> DetailStates]
    BY <1>1, <1>5 DEF TakePage, DetailStates, ClientInv, TypeOK
  <2>2. {start', offset', edge'} \subseteq Positions
    BY <1>1, <1>3, <1>4, BoundsOf DEF ClientInv, TypeOK, Positions
  <2> QED
    BY <1>1, <1>4, <2>1, <2>2, ClientAssumption DEF ClientInv, TypeOK, FeedTypeOK
<1>7. ScanInv'
  BY <1>1, <1>3, <1>4, BoundsOf DEF ClientInv, ScanInv
<1>8. ASSUME NEW i \in Listings PROVE ListingInv(i)' /\ KeptInv(i)'
  <2>1. ListingInv(i) /\ detail'[i] \in {"none", "waiting"}
    BY <1>5 DEF ClientInv
  <2>2. ASSUME i \in page PROVE i > start /\ i <= Len(log) /\ ~SupersededBy(i, edge)
    <3>1. i \in (offset + 1) .. Len(log) /\ ~Superseded(i)
      BY <1>3, <2>2
    <3> QED
      BY <3>1, BoundsOf DEF ClientInv, ScanInv, Superseded, SupersededBy
  <2>3. detail'[i] # "none" =>
          i > start /\ i <= Len(log) /\ log[i].open /\ ~SupersededBy(i, edge)
    BY <1>5, <2>1, <2>2 DEF ListingInv
  <2>4. ListingInv(i)'
    BY <1>1, <2>1, <2>3 DEF ListingInv, SupersededBy
  <2>5. answered[i] <= Len(log)
    BY DEF ClientInv, KeptInv
  <2> QED
    BY <1>1, <2>1, <2>4, <2>5 DEF KeptInv
<1>9. CursorBehindListings'
  <2>1. SUFFICES ASSUME NEW i \in (start + 1) .. offset', log[i].open, ~Superseded(i)
                 PROVE  i \in Listings /\ detail'[i] # "none"
    BY <1>1 DEF CursorBehindListings, Current, Superseded, SupersededBy
  <2>2. i \in Listings
    BY <1>3, <1>4, <2>1, BoundsOf DEF ClientInv, ScanInv
  <2>3. CASE i <= offset
    <3>1. i \in Current(start, offset)
      BY <2>1, <2>3, BoundsOf DEF Current
    <3>2. detail[i] # "none"
      BY <1>1, <3>1 DEF ClientInv, CursorBehindListings
    <3> QED
      BY <1>5, <2>2, <3>2
  <2>4. CASE i > offset
    <3>1. i \in page
      BY <1>3, <1>4, <2>1, <2>4, BoundsOf
    <3> QED
      BY <1>5, <2>1, <2>2, <3>1
  <2> QED
    BY <2>1, <2>2, <2>3, <2>4, BoundsOf
<1> QED
  BY <1>6, <1>7, <1>8, <1>9 DEF ClientInv

\* A step that only counts attempts, or ends the crawl.
LEMMA CountingKeeps ==
  ASSUME ClientInv, pc \in {"paging", "details"}, pc' \in {pc, "done", "raised"},
         tries' \in 0 .. MaxRetries - 1, failed' \in [Listings -> 0 .. MaxRetries - 1],
         UNCHANGED <<log, start, offset, pages, detail, edge, answered>>
  PROVE  ClientInv'
<1>1. TypeOK'
  BY DEF ClientInv, TypeOK, FeedTypeOK
<1>2. ScanInv'
  BY DEF ClientInv, ScanInv
<1>3. ASSUME NEW i \in Listings PROVE ListingInv(i)' /\ KeptInv(i)'
  <2>1. ListingInv(i) /\ KeptInv(i)
    BY DEF ClientInv
  <2> QED
    BY <2>1 DEF ListingInv, KeptInv, OpenWhenAnswered, Superseded, SupersededBy
<1>4. CursorBehindListings'
  BY DEF ClientInv, CursorBehindListings, Current, Superseded, SupersededBy
<1> QED
  BY <1>1, <1>2, <1>3, <1>4 DEF ClientInv

\* Something became of the listing i.
LEMMA SettleKeeps ==
  ASSUME ClientInv, pc = "details", NEW i \in Listings, detail[i] # "none",
         NEW state \in DetailStates \ {"none"}, Settle(i, state),
         answered' \in [Listings -> Positions], answered'[i] <= Len(log),
         \A j \in Listings \ {i} : answered'[j] = answered[j],
         state = "kept" => OpenWhenAnswered(i)', state = "closed" => Superseded(i),
         UNCHANGED <<log, pc, start, offset, pages, tries, failed, edge>>
  PROVE  ClientInv'
<1>1. TypeOK'
  BY DEF ClientInv, TypeOK, FeedTypeOK, Settle
<1>2. ScanInv'
  BY DEF ClientInv, ScanInv
<1>3. /\ detail'[i] = state
      /\ \A j \in Listings \ {i} : detail'[j] = detail[j]
  BY DEF ClientInv, TypeOK, Settle
<1>4. ASSUME NEW j \in Listings PROVE ListingInv(j)' /\ KeptInv(j)'
  <2>1. ListingInv(j) /\ KeptInv(j)
    BY DEF ClientInv
  <2>2. CASE j = i
    <3>1. ListingInv(i)'
      BY <1>3, <2>1, <2>2 DEF ListingInv, Superseded, SupersededBy
    <3>2. KeptInv(i)'
      BY <1>3 DEF KeptInv
    <3> QED
      BY <2>2, <3>1, <3>2
  <2>3. CASE j # i
    BY <1>3, <2>1, <2>3 DEF ListingInv, KeptInv, OpenWhenAnswered, Superseded, SupersededBy
  <2> QED
    BY <2>2, <2>3
<1>5. CursorBehindListings'
  <2>1. \A j \in Listings : detail[j] # "none" => detail'[j] # "none"
    BY <1>3
  <2> QED
    BY <2>1 DEF ClientInv, CursorBehindListings, Current, Superseded, SupersededBy
<1> QED
  BY <1>1, <1>2, <1>4, <1>5 DEF ClientInv

\* A detail request is made or given up.
LEMMA RequestKeeps ==
  ASSUME ClientInv, NEW i \in Listings, AskDetail(i) \/ DetailMissed(i)
  PROVE  ClientInv'
<1>1. PICK state \in {"asked", "missed"} :
        /\ pc = "details" /\ detail[i] # "none" /\ Settle(i, state)
        /\ UNCHANGED <<log, pc, start, offset, pages, tries, failed, edge, answered>>
  BY DEF AskDetail, DetailMissed
<1>2. answered \in [Listings -> Positions] /\ answered[i] <= Len(log)
  BY DEF ClientInv, TypeOK, KeptInv
<1> QED
  BY <1>1, <1>2, SettleKeeps DEF DetailStates

\* The re-check of the status lets only open tenders through, and closes only
\* entries that are no longer the latest of their tender.
LEMMA AnsweredKeeps ==
  ASSUME ClientInv, NEW i \in Listings, DetailAnswered(i)
  PROVE  ClientInv'
<1>1. /\ pc = "details" /\ detail[i] = "asked" /\ Settle(i, AfterAnswer(i))
      /\ answered' = [answered EXCEPT ![i] = Len(log)]
      /\ UNCHANGED <<log, pc, start, offset, pages, tries, failed, edge>>
  BY DEF DetailAnswered
<1>2. i \in 1 .. Len(log) /\ log[i].open
  BY <1>1, BoundsOf DEF ClientInv, ListingInv, Listings
<1>3. /\ answered' \in [Listings -> Positions] /\ answered'[i] = Len(log) /\ Len(log) <= Len(log)
      /\ \A j \in Listings \ {i} : answered'[j] = answered[j]
  BY <1>1, BoundsOf DEF ClientInv, TypeOK, Positions
<1>4. CASE Actionable(log[i].tender)
  <2>1. PICK j \in DOMAIN log : log[j].tender = log[i].tender /\ log[j].open /\ ~Superseded(j)
    BY <1>4 DEF Actionable
  <2>2. OpenWhenAnswered(i)'
    BY <1>1, <1>3, <2>1 DEF OpenWhenAnswered, Superseded, SupersededBy, ClientInv, TypeOK, FeedTypeOK
  <2>3. AfterAnswer(i) = "kept"
    BY <1>4 DEF AfterAnswer
  <2> QED
    BY <1>1, <1>3, <2>2, <2>3, SettleKeeps DEF DetailStates
<1>5. CASE ~Actionable(log[i].tender)
  <2>1. i \in DOMAIN log
    BY <1>2 DEF ClientInv, TypeOK, FeedTypeOK
  <2>2. Superseded(i)
    BY <1>2, <1>5, <2>1 DEF Actionable
  <2>3. AfterAnswer(i) = "closed"
    BY <1>5 DEF AfterAnswer
  <2> QED
    BY <1>1, <1>3, <2>2, <2>3, SettleKeeps DEF DetailStates
<1> QED
  BY <1>4, <1>5

LEMMA ClientInitially ==
  ASSUME Init
  PROVE  ClientInv
<1>1. log = <<>> /\ Len(log) = 0
  BY DEF Init, FeedInit
<1>2. TypeOK
  BY <1>1, FeedAssumption, ClientAssumption
     DEF Init, TypeOK, FeedTypeOK, Positions, DetailStates
<1>3. ScanInv /\ CursorBehindListings
  BY <1>1 DEF Init, ScanInv, CursorBehindListings
<1>4. \A i \in Listings : ListingInv(i) /\ KeptInv(i)
  BY <1>1 DEF Init, ListingInv, KeptInv
<1> QED
  BY <1>2, <1>3, <1>4 DEF ClientInv

LEMMA ClientKeeps ==
  ASSUME ClientInv, [Next]_vars
  PROVE  ClientInv'
<1>0. /\ pages \in 0 .. MaxFeedPages /\ tries \in 0 .. MaxRetries - 1
      /\ failed \in [Listings -> 0 .. MaxRetries - 1]
      /\ MaxRetries \in Nat /\ MaxFeedPages \in Nat
  BY ClientAssumption DEF ClientInv, TypeOK
<1>1. CASE PublishStep
  BY <1>1, PublishKeeps
<1>2. CASE CrawlStart
  BY <1>2, CrawlStartKeeps
<1>3. CASE PageCapReached
  BY <1>0, <1>3, ScanEndKeeps DEF PageCapReached
<1>4. CASE EmptyPage
  BY <1>0, <1>4, ScanEndKeeps DEF EmptyPage, AtPageCap
<1>5. CASE ReadPage
  BY <1>5, ReadPageKeeps
<1>6. CASE PageRetry
  BY <1>0, <1>6, CountingKeeps DEF PageRetry, CanRetry, Retry
<1>7. CASE PageFails
  BY <1>0, <1>7, CountingKeeps DEF PageFails
<1>8. ASSUME NEW i \in Listings, AskDetail(i) PROVE ClientInv'
  BY <1>8, RequestKeeps
<1>9. ASSUME NEW i \in Listings, DetailAnswered(i) PROVE ClientInv'
  BY <1>9, AnsweredKeeps
<1>10. ASSUME NEW i \in Listings, DetailRetry(i) PROVE ClientInv'
  <2>1. failed' \in [Listings -> 0 .. MaxRetries - 1]
    BY <1>0, <1>10 DEF DetailRetry, CanRetry, Retry
  <2> QED
    BY <1>0, <1>10, <2>1, CountingKeeps DEF DetailRetry
<1>11. ASSUME NEW i \in Listings, DetailMissed(i) PROVE ClientInv'
  BY <1>11, RequestKeeps
<1>12. ASSUME NEW i \in Listings, DetailMalformed(i) PROVE ClientInv'
  BY <1>0, <1>12, CountingKeeps DEF DetailMalformed
<1>13. CASE CrawlDone
  BY <1>0, <1>13, CountingKeeps DEF CrawlDone
<1>14. CASE UNCHANGED vars
  <2>1. TypeOK' /\ ScanInv' /\ CursorBehindListings'
    BY <1>14 DEF vars, clientVars, ClientInv, TypeOK, FeedTypeOK, ScanInv, CursorBehindListings,
       Current, Superseded, SupersededBy
  <2>2. ASSUME NEW i \in Listings PROVE ListingInv(i)' /\ KeptInv(i)'
    <3>1. ListingInv(i) /\ KeptInv(i)
      BY DEF ClientInv
    <3> QED
      BY <1>14, <3>1 DEF vars, clientVars, ListingInv, KeptInv, OpenWhenAnswered, Superseded, SupersededBy
  <2> QED
    BY <2>1, <2>2 DEF ClientInv
<1> QED
  BY <1>1, <1>2, <1>3, <1>4, <1>5, <1>6, <1>7, <1>8, <1>9, <1>10, <1>11, <1>12, <1>13, <1>14
     DEF Next, ClientStep

-----------------------------------------------------------------------------
(* The promise *)

\* When all detail requests have ended, what is among the results or was missed
\* is all a caller of crawl() may not do without.
LEMMA DoneAnswers ==
  ASSUME ClientInv, CrawlDone
  PROVE  CrawlOutcome(start, edge, offset, In("kept"), In("missed"))
<1>1. offset \in start .. Len(log)
  BY BoundsOf DEF ClientInv, ScanInv
<1>2. In("kept") \cup In("missed") \subseteq Listable(start, edge)
  <2>1. SUFFICES ASSUME NEW i \in Listings, detail[i] # "none" PROVE i \in Listable(start, edge)
    BY DEF In
  <2>2. i > start /\ i <= Len(log) /\ log[i].open /\ ~SupersededBy(i, edge)
    BY <2>1 DEF ClientInv, ListingInv
  <2> QED
    BY <2>2, BoundsOf, FeedAssumption DEF Listable, Listings
<1>3. Current(start, offset) \subseteq In("kept") \cup In("missed")
  <2>1. SUFFICES ASSUME NEW i \in Current(start, offset)
                 PROVE  i \in Listings /\ detail[i] \in {"kept", "missed"}
    BY DEF In
  <2>2. /\ i \in Listings /\ detail[i] # "none" /\ ~Superseded(i)
        /\ detail[i] \notin {"waiting", "asked"}
    BY <2>1 DEF ClientInv, CursorBehindListings, CrawlDone, In, Current
  <2>3. detail[i] # "closed"
    BY <2>2 DEF ClientInv, ListingInv
  <2> QED
    BY <2>2, <2>3 DEF ClientInv, TypeOK, DetailStates
<1> QED
  BY <1>1, <1>2, <1>3 DEF CrawlOutcome

LEMMA StartImplements ==
  ASSUME Init
  PROVE  Promise!Init
BY DEF Init, FeedInit, Promise!Init, Promise!FeedInit

LEMMA CrawlStepImplements ==
  ASSUME ClientInv, [Next]_vars
  PROVE  [Promise!Next]_(Promise!crawlVars)
<1> USE DEF Promise!Next, Promise!crawlVars
<1>1. CASE PublishStep
  <2>1. \E t \in Tenders, open \in BOOLEAN : Publish(t, open)
    BY <1>1 DEF PublishStep
  <2>2. UNCHANGED <<pc, start, offset, edge, In("kept"), In("missed")>>
    BY <1>1 DEF PublishStep, clientVars, In
  <2>3. Promise!PublishStep
    BY <2>1, <2>2 DEF Promise!PublishStep, Promise!Publish, Publish
  <2> QED
    BY <2>3
<1>2. CASE CrawlStart
  <2>1. Promise!Begin
    BY <1>2 DEF CrawlStart, Promise!Begin
  <2> QED
    BY <2>1
<1>3. ASSUME pc \in {"paging", "details"}, pc' \in {"paging", "details"},
             UNCHANGED <<log, start, edge>>
      PROVE  UNCHANGED Promise!crawlVars
  BY <1>3
<1>4. ASSUME pc \in {"paging", "details"}, pc' = "raised", UNCHANGED <<log, start, edge>>
      PROVE  Promise!Raise
  BY <1>4 DEF Promise!Raise
<1>5. CASE PageCapReached \/ EmptyPage
  BY <1>3, <1>5 DEF PageCapReached, EmptyPage, EndScan
<1>6. CASE ReadPage
  <2>1. pc = "paging" /\ UNCHANGED <<log, start, edge>>
    BY <1>6 DEF ReadPage
  <2>2. pc' \in {"paging", "details"}
    BY <1>6 DEF ReadPage, Advance, EndScan
  <2> QED
    BY <1>3, <2>1, <2>2
<1>7. CASE PageRetry
  BY <1>3, <1>7 DEF PageRetry
<1>8. CASE PageFails
  BY <1>4, <1>8 DEF PageFails
<1>9. ASSUME NEW i \in Listings,
             AskDetail(i) \/ DetailAnswered(i) \/ DetailRetry(i) \/ DetailMissed(i)
      PROVE  UNCHANGED Promise!crawlVars
  BY <1>3, <1>9 DEF AskDetail, DetailAnswered, DetailRetry, DetailMissed
<1>10. ASSUME NEW i \in Listings, DetailMalformed(i) PROVE Promise!Raise
  BY <1>4, <1>10 DEF DetailMalformed
<1>11. CASE CrawlDone
  <2>1. /\ pc = "details" /\ pc' = "done"
        /\ UNCHANGED <<log, start, offset, edge, In("kept"), In("missed")>>
    BY <1>11 DEF CrawlDone, In
  <2>2. CrawlOutcome(start, edge, offset, In("kept"), In("missed"))
    BY <1>11, DoneAnswers
  <2>3. Promise!CrawlOutcome(start, edge, offset, In("kept"), In("missed"))
    BY <2>2 DEF CrawlOutcome, Listable, Current, Superseded, SupersededBy, Promise!CrawlOutcome,
       Promise!Listable, Promise!Current, Promise!Superseded, Promise!SupersededBy
  <2>4. Promise!Answer
    BY <2>1, <2>3 DEF Promise!Answer, Promise!CrawlOutcome
  <2> QED
    BY <2>4
<1>12. CASE UNCHANGED vars
  BY <1>12 DEF vars, clientVars, In
<1> QED
  BY <1>1, <1>2, <1>5, <1>6, <1>7, <1>8, <1>9, <1>10, <1>11, <1>12 DEF Next, ClientStep

-----------------------------------------------------------------------------
(* The specification *)

\* What ties the listings to the cursor holds at every step of every crawl.
THEOREM ClientInductive == Spec => []ClientInv
BY ClientInitially, ClientKeeps, PTL DEF Spec

\* Attempts and pages stay within max_retries and _MAX_FEED_PAGES, and every
\* variable of crawl() keeps its type.
THEOREM ClientTypeOK == Spec => []TypeOK
<1>1. ClientInv => TypeOK
  BY DEF ClientInv
<1> QED
  BY <1>1, ClientInductive, PTL

\* current_offset never passes an actionable entry crawl() has not listed.
THEOREM CursorCoversListings == Spec => []CursorBehindListings
<1>1. ClientInv => CursorBehindListings
  BY DEF ClientInv
<1> QED
  BY <1>1, ClientInductive, PTL

\* Every result of a crawl was actionable when its details arrived, for the
\* second look at the status drops the others (client.py:168-175).
THEOREM ClosedIsDropped == Spec => []StaleListingsDropped
<1>1. ClientInv => StaleListingsDropped
  BY DEF ClientInv, KeptInv, OpenWhenAnswered, StaleListingsDropped, In
<1> QED
  BY <1>1, ClientInductive, PTL

\* crawl() keeps the promise Pipeline's one-step crawl is made of.
THEOREM CrawlIsAsPromised == Spec => ImplementsCrawl
<1>1. Init => Promise!Init
  BY StartImplements
<1>2. ClientInv /\ [Next]_vars => [Promise!Next]_(Promise!crawlVars)
  BY CrawlStepImplements
<1> QED
  BY <1>1, <1>2, ClientInductive, PTL DEF Spec, ImplementsCrawl, Promise!Spec

-----------------------------------------------------------------------------
(* Progress *)

\* A step of the scan ends it or counts up.
LEMMA ScanStepProgresses ==
  ASSUME ClientInv, pc = "paging", ClientStep
  PROVE  ScanMovesOn
<1>1. pages \in Nat /\ tries \in Nat
  BY ClientAssumption DEF ClientInv, TypeOK
<1>2. CASE PageCapReached \/ EmptyPage
  BY <1>2 DEF PageCapReached, EmptyPage, EndScan, ScanMovesOn
<1>3. CASE ReadPage
  <2>1. pages' = pages + 1 /\ pc' \in {"paging", "details"}
    BY <1>3 DEF ReadPage, Advance, EndScan
  <2> QED
    BY <1>1, <2>1 DEF ScanMovesOn
<1>4. CASE PageRetry
  BY <1>1, <1>4 DEF PageRetry, Retry, ScanMovesOn
<1>5. CASE PageFails
  BY <1>5 DEF PageFails, ScanMovesOn
<1> QED
  BY <1>2, <1>3, <1>4, <1>5 DEF ClientStep, CrawlStart, CrawlDone, AskDetail, DetailAnswered,
     DetailRetry, DetailMissed, DetailMalformed

\* A step of the details ends them or moves one listing on.
LEMMA DetailStepProgresses ==
  ASSUME ClientInv, pc = "details", ClientStep
  PROVE  DetailsMoveOn
<1>1. /\ detail \in [Listings -> DetailStates]
      /\ failed \in [Listings -> 0 .. MaxRetries - 1]
      /\ MaxRetries \in Nat
  BY ClientAssumption DEF ClientInv, TypeOK
<1>2. ASSUME NEW i \in Listings, AskDetail(i) \/ DetailAnswered(i) \/ DetailMissed(i)
      PROVE  DetailsMoveOn
  <2>1. pc' = "details" /\ ListingMovesOn(i) /\ failed' = failed
    BY <1>1, <1>2 DEF AskDetail, DetailAnswered, DetailMissed, Settle, AfterAnswer, ListingMovesOn
  <2>2. \A j \in Listings \ {i} : detail'[j] = detail[j]
    BY <1>1, <1>2 DEF AskDetail, DetailAnswered, DetailMissed, Settle
  <2> QED
    BY <2>1, <2>2 DEF DetailsMoveOn
<1>3. ASSUME NEW i \in Listings, DetailRetry(i)
      PROVE  DetailsMoveOn
  <2>1. /\ pc' = "details" /\ detail' = detail /\ detail[i] = "asked"
        /\ failed' = [failed EXCEPT ![i] = failed[i] + 1]
    BY <1>3 DEF DetailRetry, Retry
  <2>2. failed'[i] > failed[i] /\ \A j \in Listings \ {i} : failed'[j] = failed[j]
    BY <1>1, <2>1
  <2> QED
    BY <2>1, <2>2 DEF ListingMovesOn, DetailsMoveOn
<1>4. ASSUME NEW i \in Listings, DetailMalformed(i)
      PROVE  DetailsMoveOn
  BY <1>4 DEF DetailMalformed, DetailsMoveOn
<1>5. CASE CrawlDone
  BY <1>5 DEF CrawlDone, DetailsMoveOn
<1> QED
  BY <1>2, <1>3, <1>4, <1>5 DEF ClientStep, CrawlStart, PageCapReached, EmptyPage, ReadPage,
     PageRetry, PageFails

\* Every step of a crawl brings it closer to its end, which is why it ends when
\* it is not kept from taking steps.
THEOREM CrawlComesCloser == Spec => CrawlProgresses
<1>1. ClientInv /\ [Next]_vars =>
        [log' = log => /\ pc = "paging" => ScanMovesOn
                       /\ pc = "details" => DetailsMoveOn]_vars
  <2> SUFFICES ASSUME ClientInv, Next, log' = log
               PROVE  /\ pc = "paging" => ScanMovesOn
                      /\ pc = "details" => DetailsMoveOn
    OBVIOUS
  <2>1. ~PublishStep
    <3> SUFFICES ASSUME NEW t \in Tenders, NEW open \in BOOLEAN, Publish(t, open) PROVE FALSE
      BY DEF PublishStep
    <3>1. Len(log') = Len(log) + 1 /\ Len(log) \in Nat
      BY DEF Publish, ClientInv, TypeOK, FeedTypeOK, Entry
    <3> QED
      BY <3>1
  <2> QED
    BY <2>1, ScanStepProgresses, DetailStepProgresses DEF Next
<1> QED
  BY <1>1, ClientInductive, PTL DEF Spec, CrawlProgresses
=============================================================================
