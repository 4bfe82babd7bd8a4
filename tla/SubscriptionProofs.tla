------------------------- MODULE SubscriptionProofs -------------------------
(***************************************************************************)
(* That the report cycles implement Subscription, for any number of        *)
(* processes, whatever crashes, and whatever the operator does meanwhile.  *)
(***************************************************************************)
EXTENDS CycleProofs

\* What a cycle holds is actionable, and it has sent nothing before notify.
Hand(c) ==
    /\ c.pc \in Working => \A i \in c.work : log[i].open
    /\ c.sent => c.pc \in {"persist", "save_cursor", "finish"}

HandInv == \A r \in Runs : Hand(run[r])

PromiseInv == MemoryInv /\ HonestInv /\ FreshInv /\ HandInv

\* What makes cycles orderly, if they are.
Serial(orderly) == orderly => NoOverlap /\ NoOverlap' /\ SoloInv

-----------------------------------------------------------------------------
(* What cycles hold *)

\* The nodes after the crawl take listings away and add none.
LEMMA WorkShrinks ==
  ASSUME TypeOK, NEW r \in Runs,
         \/ Prefilter(r) \/ Classify(r) \/ Dedupe(r) \/ DeadlineCheck(r) \/ Render(r)
         \/ SkipEmail(r) \/ Notify(r) \/ Persist(r) \/ SaveCursor(r)
  PROVE  /\ run[r].pc \in Working \cup {"save_cursor"}
         /\ run'[r].pc \in Working => run[r].pc \in Working
         /\ run'[r].work \subseteq run[r].work
         /\ run'[r].sent => run[r].sent \/ run'[r].pc = "persist"
         /\ run[r].sent => run'[r].sent
         /\ run[r].pc = "persist" => run'[r].pc \in {"save_cursor", "finish"}
         /\ run[r].pc = "save_cursor" => run'[r].pc = "finish"
<1>0. run[r] \in Cycle /\ run \in [Runs -> Cycle]
  BY DEF TypeOK
<1>1. CASE Prefilter(r)
  <2>1. PICK kept \in SUBSET run[r].work :
          HandOn(r, [run[r] EXCEPT !.pc = "classify", !.work = kept])
    BY <1>1 DEF Prefilter
  <2> QED
    BY <1>0, <1>1, <2>1 DEF Prefilter, At, Working, HandOn, Cycle
<1>2. CASE Classify(r)
  <2>1. PICK relevant \in SUBSET run[r].work, failures \in BOOLEAN :
          HandOn(r, [run[r] EXCEPT !.pc = "dedupe", !.work = relevant, !.failures = failures])
    BY <1>2 DEF Classify
  <2> QED
    BY <1>0, <1>2, <2>1 DEF Classify, At, Working, HandOn, Cycle
<1>3. CASE Dedupe(r)
  <2>1. PICK work \in SUBSET run[r].work :
          HandOn(r, [run[r] EXCEPT !.pc = "deadline_check", !.work = work])
    BY <1>3 DEF Dedupe
  <2> QED
    BY <1>0, <1>3, <2>1 DEF Dedupe, At, Working, HandOn, Cycle
<1>4. CASE DeadlineCheck(r)
  <2>1. PICK due : HandOn(r, [run[r] EXCEPT
                              !.pc = IF HasWork(run[r].work, due) THEN "render" ELSE "persist",
                              !.reminders = due])
    BY <1>4 DEF DeadlineCheck
  <2>2. /\ run'[r].pc \in {"render", "persist"} /\ run'[r].work = run[r].work
        /\ run'[r].sent = run[r].sent /\ run[r].pc = "deadline_check"
    BY <1>0, <1>4, <2>1 DEF HandOn, Cycle, DeadlineCheck, At
  <2> QED
    BY <2>2 DEF Working
<1>5. CASE Render(r)
  <2>1. PICK failures : HandOn(r, [run[r] EXCEPT !.pc = "notify", !.failures = failures])
    BY <1>5 DEF Render
  <2> QED
    BY <1>0, <1>5, <2>1 DEF Render, At, Working, HandOn, Cycle
<1>6. CASE SkipEmail(r)
  BY <1>0, <1>6 DEF SkipEmail, At, Working, HandOn, Cycle
<1>7. CASE Notify(r)
  <2>1. HandOn(r, [run[r] EXCEPT !.pc = "persist", !.sent = TRUE])
    BY <1>7 DEF Notify
  <2> QED
    BY <1>0, <1>7, <2>1 DEF Notify, At, Working, HandOn, Cycle
<1>8. CASE Persist(r) \/ SaveCursor(r)
  BY <1>0, <1>8 DEF Persist, SaveCursor, At, Working, HandOn, Cycle
<1> QED
  BY <1>1, <1>2, <1>3, <1>4, <1>5, <1>6, <1>7, <1>8

LEMMA HandMove ==
  ASSUME TypeOK, HandInv, NEW r \in Runs, CycleStep(r)
  PROVE  Hand(run[r])' /\ log' = log
<1>0. run[r] \in Cycle /\ run \in [Runs -> Cycle] /\ Hand(run[r])
  BY DEF TypeOK, HandInv
<1>1. log' = log
  BY DEF CycleStep, Start, CrawlBegin, CrawlEnd, Prefilter, Classify, Dedupe, DeadlineCheck,
     Render, SkipEmail, Notify, NotifyUnconfirmed, Persist, SaveCursor, Finish, Abort
<1>2. ASSUME NEW dry \in BOOLEAN, Start(r, dry) PROVE Hand(run'[r])
  <2>1. HandOn(r, [Idle EXCEPT !.pc = "crawl", !.dry = dry, !.db = path'])
    BY <1>2 DEF Start
  <2>2. run'[r].pc = "crawl" /\ ~run'[r].sent
    BY <1>0, <2>1 DEF HandOn, Idle
  <2> QED
    BY <2>2 DEF Hand, Working
<1>3. CASE CrawlBegin(r)
  <2>1. PICK from \in Positions :
          HandOn(r, [run[r] EXCEPT !.pc = "crawling", !.from = from, !.edge = Len(log)])
    BY <1>3 DEF CrawlBegin
  <2>2. run'[r].pc = "crawling" /\ run'[r].sent = run[r].sent /\ run[r].pc = "crawl"
    BY <1>0, <1>3, <2>1 DEF HandOn, Cycle, CrawlBegin, At
  <2> QED
    BY <1>0, <1>1, <2>2 DEF Hand, Working
<1>4. CASE CrawlEnd(r)
  <2>1. PICK next \in Positions, kept \in SUBSET Listable(run[r].from, run[r].edge) :
          HandOn(r, [run[r] EXCEPT !.pc = "prefilter", !.from = NoCursor, !.edge = 0,
                                   !.next = next, !.work = kept])
    BY <1>4 DEF CrawlEnd
  <2>2. /\ run'[r].pc = "prefilter" /\ run'[r].sent = run[r].sent /\ run[r].pc = "crawling"
        /\ run'[r].work = kept
    BY <1>0, <1>4, <2>1 DEF HandOn, Cycle, CrawlEnd, At
  <2>3. \A i \in kept : log[i].open
    BY DEF Listable
  <2> QED
    BY <1>0, <1>1, <2>2, <2>3 DEF Hand, Working
<1>5. CASE \/ Prefilter(r) \/ Classify(r) \/ Dedupe(r) \/ DeadlineCheck(r) \/ Render(r)
           \/ SkipEmail(r) \/ Notify(r) \/ Persist(r) \/ SaveCursor(r)
  BY <1>0, <1>1, <1>5, WorkShrinks DEF Hand, Working
<1>6. CASE NotifyUnconfirmed(r) \/ Finish(r) \/ Abort(r)
  <2>1. run'[r] = Idle
    BY <1>6, HandedOn DEF NotifyUnconfirmed, Finish, Abort
  <2> QED
    BY <1>1, <2>1 DEF Hand, Idle, Working
<1> QED
  BY <1>1, <1>2, <1>3, <1>4, <1>5, <1>6 DEF CycleStep, Hand

\* The feed grows and keeps the entries that cycles hold.
LEMMA HandStep ==
  ASSUME IInv, HandInv, [AdminNext]_vars
  PROVE  HandInv'
<1>0. TypeOK
  BY DEF IInv
<1>1. ASSUME NEW r \in Runs, CycleStep(r) PROVE HandInv'
  <2>1. \A q \in Runs : q # r => run'[q] = run[q]
    BY <1>0, <1>1, OneMoves
  <2>2. Hand(run[r])' /\ log' = log
    BY <1>0, <1>1, HandMove
  <2> QED
    BY <2>1, <2>2 DEF HandInv, Hand
<1>2. CASE PublishNext
  <2>1. PICK t \in Tenders, open \in BOOLEAN : Publish(t, open)
    BY <1>2 DEF PublishNext
  <2>2. run' = run /\ LogGrows
    BY <1>0, <1>2, <2>1 DEF PublishNext, Publish, TypeOK, FeedTypeOK, LogGrows
  <2>3. \A r \in Runs : run[r].pc \in Working => run[r].work \subseteq 1 .. Len(log)
    BY DEF IInv, CycleInv, WorkInv
  <2> QED
    BY <2>2, <2>3 DEF HandInv, Hand, LogGrows
<1>3. CASE Inspect \/ ResetSeen \/ ResetDb \/ UNCHANGED vars
  BY <1>3 DEF Inspect, ResetSeen, ResetDb, vars, HandInv, Hand
<1> QED
  BY <1>1, <1>2, <1>3 DEF AdminNext, Next

LEMMA PromiseInitially == Init => PromiseInv
<1>1. Init => HandInv
  BY DEF Init, HandInv, Hand, Idle, Working
<1> QED
  BY <1>1, MemoryInit, HonestInit, FreshInit DEF PromiseInv

LEMMA PromiseInductive == PromiseInv /\ [AdminNext]_vars => PromiseInv'
<1> SUFFICES ASSUME PromiseInv, [AdminNext]_vars PROVE PromiseInv'
  OBVIOUS
<1>1. IInv /\ TypeOK /\ MemoryInv' /\ TypeOK'
  BY MemoryStep DEF PromiseInv, MemoryInv, IInv
<1> QED
  BY <1>1, HonestStep, FreshStep, HandStep DEF PromiseInv

-----------------------------------------------------------------------------
(* Delivered and not recorded yet *)

Mine(r) == IF At(r, "persist") /\ run[r].sent THEN NewTenders(r) ELSE {}

\* Only the cycle that moves adds to or takes from what is in flight.
LEMMA FlightMoves ==
  ASSUME log' = log, NEW r \in Runs, \A q \in Runs : q # r => run'[q] = run[q]
  PROVE  /\ Mine(r) \subseteq InFlight /\ Mine(r)' \subseteq InFlight'
         /\ InFlight \subseteq InFlight' \cup Mine(r)
         /\ InFlight' \subseteq InFlight \cup Mine(r)'
<1>1. \A q \in Runs : q # r => Mine(q)' = Mine(q)
  BY DEF Mine, At, NewTenders, TendersOf
<1>2. InFlight = UNION {Mine(q) : q \in Runs}
  BY DEF InFlight, Mine
<1>3. InFlight' = UNION {Mine(q)' : q \in Runs}
  BY DEF InFlight, Mine
<1> QED
  BY <1>1, <1>2, <1>3

\* The feed grows behind the listings in flight.
LEMMA FlightStays ==
  ASSUME IInv, LogGrows, run' = run
  PROVE  InFlight' = InFlight
<1>1. ASSUME NEW q \in Runs, At(q, "persist") PROVE NewTenders(q)' = NewTenders(q)
  <2>1. run[q].work \subseteq 1 .. Len(log)
    BY <1>1 DEF IInv, CycleInv, At, Working, WorkInv
  <2> QED
    BY <2>1 DEF NewTenders, TendersOf, LogGrows
<1> QED
  BY <1>1 DEF InFlight, At

-----------------------------------------------------------------------------
(* The steps.  orderly says whether the cycles are known not to overlap.   *)

\* A step that moves nothing at db_path.
LEMMA SameAtPath ==
  ASSUME TypeOK, path' = path,
         path \in Files => /\ files'[path].seen = files[path].seen
                           /\ files'[path].offset = files[path].offset
  PROVE  SeenAtPath' = SeenAtPath /\ CursorAtPath' = CursorAtPath
<1>1. path \in Files \cup {0}
  BY FilesAssumption DEF TypeOK, StorageTypeOK, Files
<1> QED
  BY <1>1 DEF SeenAtPath, CursorAtPath

\* Whoever opens a database that was not there finds what there was: nothing.
LEMMA OpenShowsNothing ==
  ASSUME TypeOK, FreshInv, Open
  PROVE  SeenAtPath' = SeenAtPath /\ CursorAtPath' = CursorAtPath
<1>1. CASE path = 0
  <2>1. path' \in Files /\ path' # 0 /\ path' > created
    BY <1>1, FilesAssumption DEF TypeOK, StorageTypeOK, Open, Files
  <2>2. files'[path'] = EmptyDatabase
    BY <2>1 DEF FreshInv, Open
  <2> QED
    BY <1>1, <2>1, <2>2 DEF SeenAtPath, CursorAtPath, EmptyDatabase
<1>2. CASE path # 0
  BY <1>2, SameAtPath DEF Open
<1> QED
  BY <1>1, <1>2

\* The nodes that neither send, record nor let anything go.
LEMMA QuietImplements ==
  ASSUME PromiseInv, NEW r \in Runs,
         \/ \E dry \in BOOLEAN : Start(r, dry)
         \/ Dedupe(r) \/ DeadlineCheck(r) \/ Render(r) \/ SkipEmail(r) \/ Finish(r)
  PROVE  UNCHANGED Promise!subscriptionVars
<1>0. TypeOK /\ FreshInv /\ CycleStep(r) /\ IInv /\ Hand(run[r])
  BY DEF PromiseInv, MemoryInv, IInv, CycleStep, HandInv
<1>1. log' = log /\ UNCHANGED ghosts
  BY DEF Start, Dedupe, DeadlineCheck, Render, SkipEmail, Finish
<1>2. Mine(r) = {} /\ Mine(r)' = {}
  <2>1. ~run[r].sent \/ At(r, "finish")
    BY <1>0 DEF Hand, Start, Dedupe, DeadlineCheck, Render, SkipEmail, Finish, At
  <2>2. CASE \E dry \in BOOLEAN : Start(r, dry)
    BY <1>0, <2>2, StartOpens DEF Mine, At, Start
  <2>3. CASE Finish(r)
    BY <1>0, <2>3, HandedOn DEF Mine, At, Finish, Idle
  <2>4. CASE Dedupe(r) \/ DeadlineCheck(r) \/ Render(r)
    <3>1. ~run[r].sent
      BY <2>1, <2>4 DEF Dedupe, DeadlineCheck, Render, At
    <3>2. ~run'[r].sent
      <4>1. CASE Dedupe(r)
        <5>1. PICK work : HandOn(r, [run[r] EXCEPT !.pc = "deadline_check", !.work = work])
          BY <4>1 DEF Dedupe
        <5> QED
          BY <1>0, <3>1, <5>1 DEF HandOn, TypeOK, Cycle
      <4>2. CASE DeadlineCheck(r)
        BY <1>0, <3>1, <4>2 DEF DeadlineCheck, HandOn, TypeOK, Cycle
      <4>3. CASE Render(r)
        <5>1. PICK failures : HandOn(r, [run[r] EXCEPT !.pc = "notify", !.failures = failures])
          BY <4>3 DEF Render
        <5> QED
          BY <1>0, <3>1, <5>1 DEF HandOn, TypeOK, Cycle
      <4> QED
        BY <2>4, <4>1, <4>2, <4>3
    <3> QED
      BY <3>1, <3>2 DEF Mine
  <2>5. CASE SkipEmail(r)
    BY <1>0, <2>1, <2>5 DEF Mine, SkipEmail, HandOn, TypeOK, Cycle, At
  <2> QED
    BY <2>2, <2>3, <2>4, <2>5
<1>3. InFlight' = InFlight
  BY <1>0, <1>1, <1>2, OneMoves, FlightMoves
<1>4. SeenAtPath' = SeenAtPath /\ CursorAtPath' = CursorAtPath
  <2>1. CASE \E dry \in BOOLEAN : Start(r, dry)
    BY <1>0, <2>1, OpenShowsNothing DEF Start
  <2>2. CASE Render(r)
    <3>1. PICK called \in BOOLEAN : RecordUsage(run[r].db, called)
      BY <2>2 DEF Render
    <3>2. run[r].db \in Files /\ StorageTypeOK
      BY <1>0 DEF TypeOK, Cycle
    <3> QED
      BY <1>0, <2>2, <3>1, <3>2, UsageOnly, SameAtPath DEF Render
  <2>3. CASE Dedupe(r) \/ DeadlineCheck(r) \/ SkipEmail(r) \/ Finish(r)
    BY <1>0, <2>3, SameAtPath DEF Dedupe, DeadlineCheck, SkipEmail, Finish, storageVars
  <2> QED
    BY <2>1, <2>2, <2>3
<1> QED
  BY <1>1, <1>3, <1>4 DEF Promise!subscriptionVars, Promise!memory, ghosts

\* The nodes that let listings go.
LEMMA DropImplements ==
  ASSUME PromiseInv, NEW r \in Runs,
         CrawlBegin(r) \/ CrawlEnd(r) \/ Prefilter(r) \/ Classify(r)
  PROVE  Promise!LetGo
<1>0. TypeOK /\ CycleStep(r) /\ Hand(run[r]) /\ run[r] \in Cycle
  BY DEF PromiseInv, MemoryInv, IInv, CycleStep, HandInv, TypeOK
<1>1. UNCHANGED <<log, created, path, emailed, cleared, forgotten>> /\ \E entries : Drop(entries)
  BY DEF CrawlBegin, CrawlEnd, Prefilter, Classify, storageVars
<1>2. PICK entries : dropped' = dropped \cup (entries \cap Current(0, Len(log)))
  BY <1>1 DEF Drop
<1>3. Mine(r) = {} /\ Mine(r)' = {}
  <2>1. ~At(r, "persist")
    BY DEF CrawlBegin, CrawlEnd, Prefilter, Classify, At
  <2>2. ~At(r, "persist")'
    <3>1. CASE CrawlBegin(r)
      <4>1. PICK from \in Positions :
              HandOn(r, [run[r] EXCEPT !.pc = "crawling", !.from = from, !.edge = Len(log)])
        BY <3>1 DEF CrawlBegin
      <4> QED
        BY <1>0, <4>1 DEF HandOn, TypeOK, Cycle, At
    <3>2. CASE CrawlEnd(r)
      <4>1. PICK next \in Positions, kept \in SUBSET Listable(run[r].from, run[r].edge) :
              HandOn(r, [run[r] EXCEPT !.pc = "prefilter", !.from = NoCursor, !.edge = 0,
                                       !.next = next, !.work = kept])
        BY <3>2 DEF CrawlEnd
      <4> QED
        BY <1>0, <4>1 DEF HandOn, TypeOK, Cycle, At
    <3>3. CASE Prefilter(r)
      <4>1. PICK kept : HandOn(r, [run[r] EXCEPT !.pc = "classify", !.work = kept])
        BY <3>3 DEF Prefilter
      <4> QED
        BY <1>0, <4>1 DEF HandOn, TypeOK, Cycle, At
    <3>4. CASE Classify(r)
      <4>1. PICK work, failures :
              HandOn(r, [run[r] EXCEPT !.pc = "dedupe", !.work = work, !.failures = failures])
        BY <3>4 DEF Classify
      <4> QED
        BY <1>0, <4>1 DEF HandOn, TypeOK, Cycle, At
    <3> QED
      BY <3>1, <3>2, <3>3, <3>4
  <2> QED
    BY <2>1, <2>2 DEF Mine
<1>4. InFlight' = InFlight
  BY <1>0, <1>1, <1>3, OneMoves, FlightMoves
<1>5. SeenAtPath' = SeenAtPath /\ CursorAtPath' = CursorAtPath
  <2>1. CASE Classify(r)
    <3>1. PICK called \in BOOLEAN : RecordUsage(run[r].db, called)
      BY <2>1 DEF Classify
    <3>2. run[r].db \in Files /\ StorageTypeOK
      BY <1>0 DEF TypeOK, Cycle
    <3> QED
      BY <1>0, <1>1, <3>1, <3>2, UsageOnly, SameAtPath
  <2>2. CASE CrawlBegin(r) \/ CrawlEnd(r) \/ Prefilter(r)
    BY <1>0, <1>1, <2>2, SameAtPath DEF CrawlBegin, CrawlEnd, Prefilter, storageVars
  <2> QED
    BY <2>1, <2>2
<1> QED
  BY <1>1, <1>2, <1>4, <1>5 DEF Promise!LetGo, Promise!memory, Promise!Current,
     Promise!Superseded, Promise!SupersededBy, Current, Superseded, SupersededBy

\* What notify presents is actionable; and if cycles do not overlap nothing is
\* in flight, and it was never reported or has been forgotten.
LEMMA NotifyReportable ==
  ASSUME PromiseInv, NEW orderly \in BOOLEAN, Serial(orderly), NEW r \in Runs, At(r, "notify")
  PROVE  NewTenders(r) \in SUBSET Tenders /\ Promise!Reportable(orderly, NewTenders(r))
<1>1. run[r].work \subseteq 1 .. Len(log) /\ FeedTypeOK
  BY DEF PromiseInv, MemoryInv, IInv, TypeOK, CycleInv, At, Working, WorkInv
<1>2. \A i \in run[r].work : log[i].open
  BY DEF PromiseInv, HandInv, Hand, At, Working
<1>3. DOMAIN log = 1 .. Len(log)
  BY <1>1 DEF FeedTypeOK
<1>4. run[r].work \in SUBSET {i \in DOMAIN log : log[i].open}
  BY <1>1, <1>2, <1>3
<1>5. orderly => InFlight = {} /\ NewTenders(r) \cap emailed \subseteq forgotten
  BY NewIsLost DEF Serial, PromiseInv, MemoryInv
<1> QED
  BY <1>1, <1>4, <1>5, NewTendersType DEF Promise!Reportable, NewTenders, TendersOf

LEMMA NotifyImplements ==
  ASSUME PromiseInv, NEW orderly \in BOOLEAN, Serial(orderly), NEW r \in Runs, Notify(r)
  PROVE  Promise!Report(orderly)
<1>0. TypeOK /\ CycleStep(r) /\ At(r, "notify") /\ run[r] \in Cycle
  BY DEF PromiseInv, MemoryInv, IInv, TypeOK, CycleStep, Notify
<1>1. UNCHANGED <<log, files, created, path, dropped, cleared, forgotten>>
      /\ emailed' = emailed \cup NewTenders(r)
  BY DEF Notify, storageVars
<1>2. Mine(r) = {} /\ Mine(r)' = NewTenders(r)
  <2>1. HandOn(r, [run[r] EXCEPT !.pc = "persist", !.sent = TRUE])
    BY DEF Notify
  <2>2. run'[r].pc = "persist" /\ run'[r].sent /\ run'[r].work = run[r].work
    BY <1>0, <2>1 DEF HandOn, TypeOK, Cycle
  <2> QED
    BY <1>0, <1>1, <2>2 DEF Mine, At, NewTenders, TendersOf
<1>3. InFlight' = InFlight \cup NewTenders(r)
  BY <1>0, <1>1, <1>2, OneMoves, FlightMoves
<1>4. SeenAtPath' = SeenAtPath /\ CursorAtPath' = CursorAtPath
  BY <1>0, <1>1, SameAtPath
<1>5. NewTenders(r) \in SUBSET Tenders /\ Promise!Reportable(orderly, NewTenders(r))
  BY <1>0, NotifyReportable
<1> QED
  BY <1>1, <1>3, <1>4, <1>5 DEF Promise!Report

LEMMA NotifyUnconfirmedImplements ==
  ASSUME PromiseInv, NEW orderly \in BOOLEAN, Serial(orderly), NEW r \in Runs,
         NotifyUnconfirmed(r)
  PROVE  Promise!ReportUnconfirmed(orderly)
<1>0. TypeOK /\ CycleStep(r) /\ At(r, "notify")
  BY DEF PromiseInv, MemoryInv, IInv, CycleStep, NotifyUnconfirmed
<1>1. /\ UNCHANGED <<log, files, created, path, dropped, cleared>>
      /\ emailed' = emailed \cup NewTenders(r)
      /\ forgotten' = forgotten \cup (NewTenders(r) \ SeenAtPath)
  BY DEF NotifyUnconfirmed, storageVars, Unrecorded
<1>2. Mine(r) = {} /\ Mine(r)' = {}
  BY <1>0, HandedOn DEF NotifyUnconfirmed, Mine, At, Idle
<1>3. InFlight' = InFlight
  BY <1>0, <1>1, <1>2, OneMoves, FlightMoves
<1>4. SeenAtPath' = SeenAtPath /\ CursorAtPath' = CursorAtPath
  BY <1>0, <1>1, SameAtPath
<1>5. NewTenders(r) \in SUBSET Tenders /\ Promise!Reportable(orderly, NewTenders(r))
  BY <1>0, NotifyReportable
<1> QED
  BY <1>1, <1>3, <1>4, <1>5 DEF Promise!ReportUnconfirmed

\* What a cycle has in hand when it persists has been sent, or is nothing.
LEMMA DoneWith ==
  ASSUME PromiseInv, NEW orderly \in BOOLEAN, Serial(orderly), NEW r \in Runs,
         CycleStep(r), At(r, "persist"), ~At(r, "persist")', NEW tenders, tenders = Mine(r)
  PROVE  tenders \in SUBSET InFlight /\ Promise!Settle(orderly, tenders)
<1>1. log' = log /\ (\A q \in Runs : q # r => run'[q] = run[q]) /\ Mine(r)' = {}
  BY OneMoves, HandMove DEF PromiseInv, MemoryInv, IInv, Mine
<1>2. tenders \subseteq InFlight /\ InFlight \subseteq InFlight' \cup tenders
      /\ InFlight' \subseteq InFlight
  BY <1>1, FlightMoves
<1>3. ASSUME orderly PROVE tenders = InFlight /\ InFlight' = {}
  <2>1. OnlyMoves(r)
    BY <1>3, NobodyBeside DEF Serial, PromiseInv, MemoryInv, IInv
  <2>2. \A q \in Runs : q # r => Mine(q) = {} /\ Mine(q)' = {}
    BY <2>1 DEF OnlyMoves, Mine, At
  <2>3. InFlight = UNION {Mine(q) : q \in Runs} /\ InFlight' = UNION {Mine(q)' : q \in Runs}
    BY DEF InFlight, Mine
  <2> QED
    BY <1>1, <2>2, <2>3
<1> QED
  BY <1>2, <1>3 DEF Promise!Settle

\* The first commit remembers what was delivered, or, once reset-db has taken
\* the file away, loses it.
LEMMA PersistImplements ==
  ASSUME PromiseInv, NEW orderly \in BOOLEAN, Serial(orderly), NEW r \in Runs, Persist(r)
  PROVE  [Promise!Next(orderly)]_(Promise!subscriptionVars)
<1>0. /\ TypeOK /\ CycleStep(r) /\ At(r, "persist") /\ run[r] \in Cycle /\ run[r].db \in Files
      /\ StorageTypeOK
  BY DEF PromiseInv, MemoryInv, IInv, TypeOK, CycleStep, Persist, Cycle
<1>1. UNCHANGED <<log, created, path, emailed, dropped, cleared>> /\ ~At(r, "persist")'
  BY <1>0, HandedOn DEF Persist, At, Cycle
<1>2. path \in Files \cup {0}
  BY <1>0, FilesAssumption DEF StorageTypeOK, Files
<1>3. Mine(r) \in SUBSET InFlight /\ Promise!Settle(orderly, Mine(r))
  BY <1>0, <1>1, DoneWith
<1>4. CASE run[r].dry
  <2>1. UNCHANGED <<files, forgotten>>
    BY <1>4 DEF Persist
  <2>2. Mine(r) = {} /\ Mine(r)' = {}
    BY <1>1, <1>4 DEF Mine, PromiseInv, MemoryInv, DryUnsent
  <2>3. InFlight' = InFlight
    BY <1>0, <1>1, <2>2, OneMoves, FlightMoves
  <2> QED
    BY <1>0, <1>1, <2>1, <2>3, SameAtPath DEF Promise!subscriptionVars, Promise!memory
<1>5. CASE ~run[r].dry
  <2>1. Mine(r) = NewTenders(r)
    <3>1. run[r].sent \/ run[r].work = {}
      BY <1>0, <1>5 DEF PromiseInv, HonestInv, Honest, HasWork, At
    <3> QED
      BY <1>0, <3>1 DEF Mine, NewTenders, TendersOf
  <2>2. /\ MarkReported(run[r].db, NewTenders(r))
        /\ forgotten' = IF run[r].db = path THEN forgotten \ NewTenders(r)
                        ELSE forgotten \cup (NewTenders(r) \ SeenAtPath)
    BY <1>5 DEF Persist, Unrecorded
  <2>3. \A f \in Files : /\ files'[f].offset = files[f].offset
                         /\ files'[f].seen = IF f = run[r].db
                                               THEN files[f].seen \cup NewTenders(r)
                                               ELSE files[f].seen
    BY <1>0, <2>2 DEF MarkReported, StorageTypeOK, Database
  <2>4. CursorAtPath' = CursorAtPath
    BY <1>1, <1>2, <2>3 DEF CursorAtPath
  <2>5. CASE run[r].db = path
    <3>1. SeenAtPath' = SeenAtPath \cup NewTenders(r)
      <4>1. path # 0
        BY <1>0, <2>5, FilesAssumption DEF Files
      <4> QED
        BY <1>0, <1>1, <2>3, <2>5, <4>1 DEF SeenAtPath
    <3>2. Promise!Remember(orderly)
      BY <1>1, <1>3, <2>1, <2>2, <2>4, <2>5, <3>1 DEF Promise!Remember
    <3> QED
      BY <3>2 DEF Promise!Next
  <2>6. CASE run[r].db # path
    <3>1. SeenAtPath' = SeenAtPath
      BY <1>1, <1>2, <2>3, <2>6 DEF SeenAtPath
    <3>2. Promise!Lose(orderly)
      BY <1>1, <1>3, <2>1, <2>2, <2>4, <2>6, <3>1 DEF Promise!Lose
    <3> QED
      BY <3>2 DEF Promise!Next
  <2> QED
    BY <2>5, <2>6
<1> QED
  BY <1>4, <1>5

\* The second commit advances the cursor over entries that are accounted for.
LEMMA SaveCursorImplements ==
  ASSUME PromiseInv, NEW orderly \in BOOLEAN, Serial(orderly), NEW r \in Runs, SaveCursor(r)
  PROVE  [Promise!Next(orderly)]_(Promise!subscriptionVars)
<1>0. /\ TypeOK /\ CycleStep(r) /\ At(r, "save_cursor") /\ run[r] \in Cycle /\ run[r].db \in Files
      /\ StorageTypeOK
  BY DEF PromiseInv, MemoryInv, IInv, TypeOK, CycleStep, SaveCursor, Cycle
<1>1. UNCHANGED <<log, created, path, emailed, dropped, cleared, forgotten>>
  BY DEF SaveCursor, ghosts
<1>2. \A f \in Files : /\ files'[f].seen = files[f].seen
                       /\ files'[f].offset = IF f = run[r].db THEN run[r].next ELSE files[f].offset
  BY <1>0 DEF SaveCursor, SetOffset, StorageTypeOK, Database
<1>3. path \in Files \cup {0}
  BY <1>0, FilesAssumption DEF StorageTypeOK, Files
<1>4. SeenAtPath' = SeenAtPath
  BY <1>1, <1>2, <1>3 DEF SeenAtPath
<1>5. InFlight' = InFlight
  <2>1. Mine(r) = {} /\ Mine(r)' = {}
    BY <1>0, HandedOn DEF Mine, At, SaveCursor, Cycle
  <2> QED
    BY <1>0, <1>1, <2>1, OneMoves, FlightMoves
<1>6. CASE run[r].db # path
  <2>1. CursorAtPath' = CursorAtPath
    BY <1>1, <1>2, <1>3, <1>6 DEF CursorAtPath
  <2> QED
    BY <1>1, <1>4, <1>5, <2>1 DEF Promise!subscriptionVars, Promise!memory
<1>7. CASE run[r].db = path
  <2>1. path # 0
    BY <1>0, <1>7, FilesAssumption DEF Files
  <2>2. CursorAtPath' = run[r].next
    BY <1>0, <1>1, <1>2, <1>7, <2>1 DEF CursorAtPath
  <2>3. MarkedInv(r) /\ run[r].next \in Nat
    BY <1>0, FeedAssumption DEF PromiseInv, MemoryInv, IInv, CycleInv, Cycle, Positions
  <2>4. run[r].next \in 0 .. Len(log)
    BY <1>0, <2>3, LogType DEF MarkedInv, TypeOK
  <2>5. \A i \in 1 .. run[r].next : Promise!Accounted(i)
    BY <1>7, <2>1, <2>3 DEF MarkedInv, Recorded, Promise!Accounted, SeenAtPath, Superseded,
       SupersededBy, Promise!Superseded, Promise!SupersededBy
  <2>6. orderly => run[r].next >= CursorAtPath
    <3>1. files[run[r].db].offset \in Int
      BY <1>0, FeedAssumption DEF StorageTypeOK, Database, Cursors, Positions, NoCursor
    <3> QED
      BY <1>0, <1>7, <2>1, <2>3, <3>1 DEF Serial, SoloInv, UpToDate, At, CursorAtPath
  <2>7. Promise!Advance(orderly)
    BY <1>1, <1>4, <1>5, <2>2, <2>4, <2>5, <2>6 DEF Promise!Advance, Promise!memory
  <2> QED
    BY <2>7 DEF Promise!Next
<1> QED
  BY <1>6, <1>7

\* A cycle that dies loses what it delivered and did not record.
LEMMA AbortImplements ==
  ASSUME PromiseInv, NEW orderly \in BOOLEAN, Serial(orderly), NEW r \in Runs, Abort(r)
  PROVE  [Promise!Next(orderly)]_(Promise!subscriptionVars)
<1>0. TypeOK /\ CycleStep(r) /\ Mine(r)' = {} /\ ~At(r, "persist")'
  BY HandedOn DEF PromiseInv, MemoryInv, IInv, CycleStep, Abort, Mine, At, Idle
<1>1. UNCHANGED <<log, files, created, path, emailed, dropped, cleared>>
  BY DEF Abort, storageVars
<1>2. SeenAtPath' = SeenAtPath /\ CursorAtPath' = CursorAtPath
  BY <1>0, <1>1, SameAtPath
<1>3. CASE At(r, "persist") /\ run[r].sent
  <2>1. Mine(r) \in SUBSET InFlight /\ Promise!Settle(orderly, Mine(r))
    BY <1>0, <1>3, DoneWith
  <2>2. forgotten' = forgotten \cup (Mine(r) \ SeenAtPath)
    BY <1>3 DEF Abort, Unrecorded, Mine
  <2>3. Promise!Lose(orderly)
    BY <1>1, <1>2, <2>1, <2>2 DEF Promise!Lose
  <2> QED
    BY <2>3 DEF Promise!Next
<1>4. CASE ~(At(r, "persist") /\ run[r].sent)
  <2>1. forgotten' = forgotten /\ Mine(r) = {}
    BY <1>4 DEF Abort, Mine
  <2>2. InFlight' = InFlight
    BY <1>0, <1>1, <2>1, OneMoves, FlightMoves
  <2> QED
    BY <1>1, <1>2, <2>1, <2>2 DEF Promise!subscriptionVars, Promise!memory
<1> QED
  BY <1>3, <1>4

\* PROZORRO and the operator.
LEMMA WorldImplements ==
  ASSUME PromiseInv, NEW orderly \in BOOLEAN,
         PublishNext \/ Inspect \/ ResetSeen \/ ResetDb \/ UNCHANGED vars
  PROVE  [Promise!Next(orderly)]_(Promise!subscriptionVars)
<1>0. TypeOK /\ IInv /\ FreshInv /\ StorageTypeOK
  BY DEF PromiseInv, MemoryInv, IInv, TypeOK
<1>1. path \in Files \cup {0}
  BY <1>0, FilesAssumption DEF StorageTypeOK, Files
<1>2. ASSUME run' = run, log' = log PROVE InFlight' = InFlight
  BY <1>2 DEF InFlight, At, NewTenders, TendersOf
<1>3. CASE PublishNext
  <2>1. PICK t \in Tenders, open \in BOOLEAN : Publish(t, open)
    BY <1>3 DEF PublishNext
  <2>2. LogGrows /\ run' = run /\ UNCHANGED <<files, created, path, ghosts>>
    BY <1>0, <1>3, <2>1 DEF PublishNext, Publish, TypeOK, FeedTypeOK, LogGrows, storageVars
  <2>3. InFlight' = InFlight /\ SeenAtPath' = SeenAtPath /\ CursorAtPath' = CursorAtPath
    BY <1>0, <2>2, FlightStays, SameAtPath
  <2>4. Promise!Modify
    BY <2>1, <2>2, <2>3 DEF Promise!Modify, Promise!memory, Promise!Publish, Publish, ghosts
  <2> QED
    BY <2>4 DEF Promise!Next
<1>4. CASE Inspect
  <2>1. InFlight' = InFlight /\ SeenAtPath' = SeenAtPath /\ CursorAtPath' = CursorAtPath
    BY <1>0, <1>2, <1>4, OpenShowsNothing DEF Inspect
  <2> QED
    BY <1>4, <2>1 DEF Inspect, ghosts, Promise!subscriptionVars, Promise!memory
<1>5. CASE ResetSeen
  <2>1. \A f \in Files : files'[f].offset = files[f].offset
    BY <1>0, <1>5 DEF ResetSeen, ClearSeen, StorageTypeOK, Database
  <2>2. files'[path].seen = {} /\ path # 0 /\ path \in Files
    BY <1>0, <1>1, <1>5 DEF ResetSeen, ClearSeen, StorageTypeOK, Database
  <2>3. SeenAtPath = files[path].seen /\ SeenAtPath' = {} /\ CursorAtPath' = CursorAtPath
    BY <1>5, <2>1, <2>2 DEF ResetSeen, SeenAtPath, CursorAtPath
  <2>4. Promise!Forget
    BY <1>2, <1>5, <2>3 DEF ResetSeen, Promise!Forget
  <2> QED
    BY <2>4 DEF Promise!Next
<1>6. CASE ResetDb
  <2>1. SeenAtPath = files[path].seen /\ SeenAtPath' = {} /\ CursorAtPath' = NoCursor
    BY <1>6 DEF ResetDb, Unlink, SeenAtPath, CursorAtPath
  <2>2. Promise!StartOver
    BY <1>2, <1>6, <2>1 DEF ResetDb, Promise!StartOver, Promise!NoCursor, NoCursor
  <2> QED
    BY <2>2 DEF Promise!Next
<1>7. CASE UNCHANGED vars
  <2>1. InFlight' = InFlight /\ SeenAtPath' = SeenAtPath /\ CursorAtPath' = CursorAtPath
    BY <1>0, <1>2, <1>7, SameAtPath DEF vars
  <2> QED
    BY <1>7, <2>1 DEF vars, Promise!subscriptionVars, Promise!memory
<1> QED
  BY <1>3, <1>4, <1>5, <1>6, <1>7

-----------------------------------------------------------------------------
(* The theorems *)

LEMMA InitPromises == Init => Promise!Init
BY DEF Init, Promise!Init, FeedInit, Promise!FeedInit, StorageInit, InFlight, At, Idle,
   SeenAtPath, CursorAtPath, NoCursor, Promise!NoCursor

LEMMA StepPromises ==
  ASSUME PromiseInv, NEW orderly \in BOOLEAN, Serial(orderly), [AdminNext]_vars
  PROVE  [Promise!Next(orderly)]_(Promise!subscriptionVars)
<1>1. ASSUME NEW r \in Runs, CycleStep(r)
      PROVE  [Promise!Next(orderly)]_(Promise!subscriptionVars)
  <2>1. CASE \/ \E dry \in BOOLEAN : Start(r, dry)
             \/ Dedupe(r) \/ DeadlineCheck(r) \/ Render(r) \/ SkipEmail(r) \/ Finish(r)
    BY <2>1, QuietImplements
  <2>2. CASE CrawlBegin(r) \/ CrawlEnd(r) \/ Prefilter(r) \/ Classify(r)
    BY <2>2, DropImplements DEF Promise!Next
  <2>3. CASE Notify(r)
    BY <2>3, NotifyImplements DEF Promise!Next
  <2>4. CASE NotifyUnconfirmed(r)
    BY <2>4, NotifyUnconfirmedImplements DEF Promise!Next
  <2>5. CASE Persist(r)
    BY <2>5, PersistImplements
  <2>6. CASE SaveCursor(r)
    BY <2>6, SaveCursorImplements
  <2>7. CASE Abort(r)
    BY <2>7, AbortImplements
  <2> QED
    BY <1>1, <2>1, <2>2, <2>3, <2>4, <2>5, <2>6, <2>7 DEF CycleStep
<1> QED
  BY <1>1, WorldImplements DEF AdminNext, Next

\* The report cycles keep the agent's promise: whatever overlaps, crashes, or is
\* reset, a tender is reported, then remembered or lost in a known way, and
\* the cursor passes only what is accounted for.
THEOREM CyclesKeepThePromise == AdminSpec => ImplementsSubscription
<1>1. PromiseInv /\ [AdminNext]_vars => [Promise!Next(FALSE)]_(Promise!subscriptionVars)
  BY StepPromises DEF Serial
<1> QED
  BY <1>1, InitPromises, PromiseInitially, PromiseInductive, PTL
     DEF AdminSpec, ImplementsSubscription, Promise!Spec

\* Cycles that do not overlap keep it in order: no report presents what the
\* agent remembers, and the cursor never goes back.
THEOREM OrderlyCycles == AdminSpec /\ []NoOverlap => ImplementsOrderly
<1>1. PromiseInv /\ NoOverlap /\ NoOverlap' /\ SoloInv /\ [AdminNext]_vars
        => [Promise!Next(TRUE)]_(Promise!subscriptionVars)
  BY StepPromises DEF Serial
<1> QED
  BY <1>1, InitPromises, PromiseInitially, PromiseInductive, SoloCycles, PTL
     DEF AdminSpec, ImplementsOrderly, Promise!OrderlySpec

-----------------------------------------------------------------------------
(* What the promise comes to, whoever keeps it *)

\* No step of a subscription lets a reported tender slip from its memory.
LEMMA KnownStays ==
  ASSUME Promise!Known, NEW orderly \in BOOLEAN,
         [Promise!Next(orderly)]_(Promise!subscriptionVars)
  PROVE  Promise!Known'
<1> USE DEF Promise!Known
<1>1. CASE Promise!Modify \/ Promise!LetGo \/ Promise!Advance(orderly)
           \/ UNCHANGED Promise!subscriptionVars
  BY <1>1 DEF Promise!Modify, Promise!LetGo, Promise!Advance, Promise!memory,
              Promise!subscriptionVars
<1>2. CASE Promise!Report(orderly)
  BY <1>2 DEF Promise!Report
<1>3. CASE Promise!ReportUnconfirmed(orderly)
  BY <1>3 DEF Promise!ReportUnconfirmed
<1>4. CASE Promise!Remember(orderly)
  BY <1>4 DEF Promise!Remember, Promise!Settle
<1>5. CASE Promise!Lose(orderly)
  BY <1>5 DEF Promise!Lose, Promise!Settle
<1>6. CASE Promise!Forget \/ Promise!StartOver
  BY <1>6 DEF Promise!Forget, Promise!StartOver
<1> QED
  BY <1>1, <1>2, <1>3, <1>4, <1>5, <1>6 DEF Promise!Next

\* The feed only grows.
LEMMA PromisedFeed ==
  ASSUME FeedTypeOK, NEW orderly \in BOOLEAN,
         [Promise!Next(orderly)]_(Promise!subscriptionVars)
  PROVE  FeedTypeOK' /\ LogGrows
<1>1. CASE Promise!Modify
  <2>1. PICK t \in Tenders, open \in BOOLEAN : Publish(t, open)
    BY <1>1 DEF Promise!Modify, Promise!Publish, Publish
  <2>2. [tender |-> t, open |-> open] \in Entry
    BY DEF Entry
  <2>3. FeedTypeOK'
    <3>1. /\ log' = Append(log, [tender |-> t, open |-> open])
          /\ log \in Seq(Entry) /\ Len(log) < MaxFeed /\ Len(log) \in Nat /\ MaxFeed \in Nat
      BY <2>1, FeedAssumption DEF Publish, FeedTypeOK
    <3>2. log' \in Seq(Entry) /\ Len(log') = Len(log) + 1
      BY <2>2, <3>1
    <3> QED
      BY <3>1, <3>2 DEF FeedTypeOK
  <2>4. LogGrows
    BY <2>1, <2>2 DEF Publish, FeedTypeOK, LogGrows
  <2> QED
    BY <2>3, <2>4
<1>2. CASE log' = log
  BY <1>2, LogType DEF FeedTypeOK, LogGrows
<1> QED
  BY <1>1, <1>2 DEF Promise!Next, Promise!Report, Promise!ReportUnconfirmed, Promise!Remember,
     Promise!Lose, Promise!LetGo, Promise!Advance, Promise!Forget, Promise!StartOver,
     Promise!subscriptionVars

\* Nor does one uncover an entry the cursor has passed: what is accounted for
\* stays so, and erasing the history moves its tenders to the erased ones.
LEMMA CoveredStays ==
  ASSUME FeedTypeOK, Promise!Covered, NEW orderly \in BOOLEAN,
         [Promise!Next(orderly)]_(Promise!subscriptionVars)
  PROVE  Promise!Covered'
<1>1. FeedTypeOK' /\ LogGrows /\ Len(log) \in Nat /\ Len(log') \in Nat
      /\ CursorAtPath \in NoCursor .. Len(log)
      /\ \A i \in 1 .. CursorAtPath : Promise!Accounted(i)
  BY PromisedFeed, LogType DEF Promise!Covered, Promise!NoCursor, NoCursor, FeedTypeOK
<1>2. /\ dropped \subseteq dropped'
      /\ SeenAtPath \cup cleared \subseteq (SeenAtPath \cup cleared)'
  BY DEF Promise!Next, Promise!Modify, Promise!Report, Promise!ReportUnconfirmed,
     Promise!Remember, Promise!Lose, Promise!LetGo, Promise!Advance, Promise!Forget,
     Promise!StartOver, Promise!memory, Promise!subscriptionVars
<1>3. ASSUME NEW i \in 1 .. Len(log), Promise!Accounted(i) PROVE Promise!Accounted(i)'
  <2>1. log'[i] = log[i] /\ \A j \in (i + 1) .. Len(log) : log'[j] = log[j]
    BY <1>1 DEF LogGrows
  <2>2. Promise!Superseded(i) => Promise!Superseded(i)'
    BY <1>1, <2>1 DEF Promise!Superseded, Promise!SupersededBy, LogGrows
  <2> QED
    BY <1>2, <1>3, <2>1, <2>2 DEF Promise!Accounted
<1>4. CASE Promise!Advance(orderly)
  <2>1. /\ CursorAtPath' \in 0 .. Len(log) /\ log' = log
        /\ \A i \in 1 .. CursorAtPath' : Promise!Accounted(i)
    BY <1>4 DEF Promise!Advance
  <2> QED
    BY <1>1, <1>3, <2>1 DEF Promise!Covered, Promise!NoCursor
<1>5. CASE CursorAtPath' \in {CursorAtPath, NoCursor}
  BY <1>1, <1>3, <1>5 DEF Promise!Covered, Promise!NoCursor, NoCursor, LogGrows
<1> QED
  BY <1>4, <1>5 DEF Promise!Next, Promise!Modify, Promise!Report, Promise!ReportUnconfirmed,
     Promise!Remember, Promise!Lose, Promise!LetGo, Promise!Forget, Promise!StartOver,
     Promise!subscriptionVars, Promise!NoCursor, NoCursor

\* The promise is strong enough to be worth keeping: whoever implements
\* Subscription, in whatever steps, knows what became of everything it
\* reported and passes no entry in silence.
THEOREM WhatIsPromised == ImplementsSubscription => [](Promise!Known /\ Promise!Covered)
<1>1. Promise!Init => FeedTypeOK /\ Promise!Known /\ Promise!Covered
  BY FeedAssumption DEF Promise!Init, Promise!FeedInit, FeedTypeOK, Promise!Known,
     Promise!Covered, Promise!NoCursor
<1>2. FeedTypeOK /\ Promise!Known /\ Promise!Covered
        /\ [Promise!Next(FALSE)]_(Promise!subscriptionVars)
        => (FeedTypeOK /\ Promise!Known /\ Promise!Covered)'
  BY KnownStays, PromisedFeed, CoveredStays
<1> QED
  BY <1>1, <1>2, PTL DEF ImplementsSubscription, Promise!Spec
=============================================================================
