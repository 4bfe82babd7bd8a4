--------------------------- MODULE PipelineProofs ---------------------------
(***************************************************************************)
(* Proofs about Pipeline, for every set of tenders, any number of          *)
(* processes, and feeds and histories of any bounded length.               *)
(***************************************************************************)
EXTENDS PipelineProperties, TLAPS

-----------------------------------------------------------------------------
(* Types *)

\* The feed log is a sequence of entries whose positions are all in range.
LEMMA LogType ==
  ASSUME FeedTypeOK
  PROVE  /\ Len(log) \in Nat /\ Len(log) <= MaxFeed
         /\ \A i \in 1 .. Len(log) : log[i] \in Entry
         /\ Len(log) \in Positions /\ 1 .. Len(log) \subseteq Positions
<1>1. Len(log) \in Nat /\ Len(log) <= MaxFeed /\ \A i \in 1 .. Len(log) : log[i] \in Entry
  BY FeedAssumption DEF FeedTypeOK
<1> QED
  BY <1>1, FeedAssumption DEF Positions

\* A process that executes no cycle is well typed.
LEMMA IdleType == Idle \in Cycle
  BY FeedAssumption, FilesAssumption DEF Idle, Cycle, Nodes, Cursors, Positions, NoCursor, Files

\* The tenders of a cycle's listings are tenders.
LEMMA NewTendersType ==
  ASSUME FeedTypeOK, NEW r \in Runs, run[r].work \subseteq 1 .. Len(log)
  PROVE  NewTenders(r) \subseteq Tenders
  BY LogType DEF Entry, NewTenders, TendersOf

\* What a cycle lets go are feed positions.
LEMMA DropType ==
  ASSUME dropped \subseteq Positions, FeedTypeOK, NEW entries, Drop(entries)
  PROVE  dropped' \subseteq Positions
<1>1. Current(0, Len(log)) \subseteq 1 .. Len(log)
  BY LogType DEF Current
<1> QED
  BY <1>1, LogType DEF Drop

\* Opening the database keeps the files well typed and leaves one at db_path.
LEMMA OpenType ==
  ASSUME StorageTypeOK, Open
  PROVE  StorageTypeOK' /\ path' \in Files
  BY FilesAssumption DEF StorageTypeOK, Open, Files

-----------------------------------------------------------------------------
(* What no step takes back: feed entries, dropped entries, deliveries, and  *)
(* that a tender is in the history of a file or was cleared from it.        *)

LogGrows ==
    /\ Len(log) <= Len(log)'
    /\ \A i \in 1 .. Len(log) : log'[i] = log[i]

Grows ==
    /\ LogGrows
    /\ dropped \subseteq dropped'
    /\ emailed \subseteq emailed'
    /\ \A f \in Files : files[f].seen \cup cleared \subseteq files'[f].seen \cup cleared'

\* An entry that is accounted for in a file stays so: no step loses what the
\* cursor relies on (storage.py only adds rows, reset-seen is remembered).
LEMMA RecordedPersists ==
  ASSUME FeedTypeOK, FeedTypeOK', Grows,
         NEW f \in Files, NEW i \in 1 .. Len(log), Recorded(f, i)
  PROVE  Recorded(f, i)'
<1>1. Superseded(i) => Superseded(i)'
  BY LogType DEF Superseded, SupersededBy, Grows, LogGrows, FeedTypeOK
<1>2. log'[i] = log[i]
  BY DEF Grows, LogGrows
<1> QED
  BY <1>1, <1>2 DEF Recorded, Grows

\* The invariant of a cursor that is not written survives every such step.
LEMMA CursorStays ==
  ASSUME FeedTypeOK, FeedTypeOK', StorageTypeOK, Grows,
         NEW f \in Files, CursorInv(f), files'[f].offset = files[f].offset
  PROVE  CursorInv(f)'
<1>1. files[f].offset \in Cursors
  BY DEF StorageTypeOK, Database
<1>2. \A i \in 1 .. files[f].offset : i \in 1 .. Len(log)
  BY <1>1, LogType DEF CursorInv, Cursors, Positions, NoCursor
<1>3. \A i \in 1 .. files[f].offset : Recorded(f, i)'
  BY <1>2, RecordedPersists DEF CursorInv
<1>4. Len(log)' \in Nat
  BY DEF FeedTypeOK
<1> QED
  BY <1>1, <1>3, <1>4, LogType DEF CursorInv, Grows, LogGrows, Cursors, Positions, NoCursor

\* So does the invariant of a cycle that does not move.
LEMMA CycleStays ==
  ASSUME TypeOK, FeedTypeOK', Grows,
         NEW r \in Runs, CycleInv(r), run'[r] = run[r]
  PROVE  CycleInv(r)'
<1> DEFINE c == run[r]
<1>1. c \in Cycle
  BY DEF TypeOK
<1>2. Len(log) \in Nat /\ Len(log)' \in Nat /\ Len(log) <= Len(log)'
  BY LogType DEF TypeOK, FeedTypeOK, Grows, LogGrows
<1>3. \A i \in 1 .. Len(log) : Recorded(c.db, i) => Recorded(c.db, i)'
  BY <1>1, RecordedPersists DEF TypeOK, Cycle
<1>4. At(r, "crawling")' => StartInv(r)'
  BY <1>1, <1>2, <1>3 DEF CycleInv, StartInv, At, Cycle, Recorded
<1>5. (run[r].pc \in Working)' => WorkInv(r)'
  BY <1>1, <1>2, <1>3 DEF CycleInv, WorkInv, Cycle, Positions, Recorded
<1>6. (At(r, "persist") /\ ~run[r].dry)' => (NewTenders(r) \subseteq emailed)'
  <2> SUFFICES ASSUME At(r, "persist"), ~run[r].dry
               PROVE  NewTenders(r)' \subseteq emailed'
    BY DEF At
  <2>1. run[r].work \subseteq 1 .. Len(log)
    BY DEF CycleInv, At, Working, WorkInv
  <2>2. NewTenders(r)' = NewTenders(r)
    BY <2>1 DEF NewTenders, TendersOf, Grows, LogGrows
  <2> QED
    BY <2>2 DEF CycleInv, Grows
<1>7. At(r, "save_cursor")' => MarkedInv(r)'
  BY <1>1, <1>2, <1>3 DEF CycleInv, MarkedInv, At, Cycle, Positions, Recorded
<1> QED
  BY <1>4, <1>5, <1>6, <1>7 DEF CycleInv

\* One cycle moves: the others keep their invariant, and so do the files whose
\* cursor it does not write.
LEMMA CycleMoves ==
  ASSUME IInv, TypeOK', Grows,
         NEW r \in Runs, NEW c, HandOn(r, c), CycleInv(r)',
         \A f \in Files : files'[f].offset = files[f].offset \/ CursorInv(f)',
         HistoryIsDelivered', (cleared \subseteq emailed)'
  PROVE  IInv'
<1>1. \A q \in Runs : CycleInv(q)'
  <2> TAKE q \in Runs
  <2>1. CASE q = r
    BY <2>1
  <2>2. CASE q # r
    <3>1. run'[q] = run[q]
      BY <2>2 DEF HandOn, IInv, TypeOK
    <3> QED
      BY <3>1, CycleStays DEF IInv, TypeOK
  <2> QED
    BY <2>1, <2>2
<1>2. \A f \in Files : CursorInv(f)'
  BY CursorStays DEF IInv, TypeOK
<1> QED
  BY <1>1, <1>2 DEF IInv

-----------------------------------------------------------------------------
(* The initial states and the steps *)

\* The invariant holds before any command was run.
LEMMA InitSafe == Init => IInv
<1> SUFFICES ASSUME Init PROVE IInv
  OBVIOUS
<1>1. TypeOK
  BY IdleType, FeedAssumption, FilesAssumption
  DEF Init, TypeOK, FeedInit, FeedTypeOK, StorageInit, StorageTypeOK, EmptyDatabase,
      Database, Cursors, NoCursor, Entry
<1>2. \A f \in Files : CursorInv(f)
  BY DEF Init, FeedInit, StorageInit, CursorInv, EmptyDatabase, NoCursor
<1>3. \A r \in Runs : CycleInv(r)
  BY DEF Init, CycleInv, At, Idle, Working
<1> QED
  BY <1>1, <1>2, <1>3 DEF IInv, Init, HistoryIsDelivered, StorageInit, EmptyDatabase

\* _run_once opens the database: the invariant is kept.
LEMMA StartSafe ==
  ASSUME IInv, NEW r \in Runs, NEW dry \in BOOLEAN, Start(r, dry)
  PROVE  IInv'
<1> DEFINE c == [Idle EXCEPT !.pc = "crawl", !.dry = dry, !.db = path']
<1>1. StorageTypeOK' /\ path' \in Files /\ files' = files
  BY OpenType DEF IInv, TypeOK, Start, Open
<1>2. c \in Cycle
  BY <1>1, IdleType DEF Cycle, Nodes
<1>3. TypeOK' /\ HandOn(r, c)
  BY <1>1, <1>2 DEF IInv, TypeOK, Start, HandOn, ghosts, FeedTypeOK
<1>4. Grows
  BY <1>1 DEF Start, ghosts, Grows, LogGrows, IInv, TypeOK, FeedTypeOK
<1>5. CycleInv(r)'
  BY <1>3 DEF HandOn, CycleInv, At, Working, Idle, IInv, TypeOK
<1>6. HistoryIsDelivered' /\ (cleared \subseteq emailed)'
  BY <1>1 DEF IInv, HistoryIsDelivered, Start, ghosts
<1> QED
  BY <1>1, <1>3, <1>4, <1>5, <1>6, CycleMoves

\* _crawl takes the saved cursor, which covers recorded entries only, or on the
\* first run gives up what is older than the lookback window.
LEMMA CrawlBeginSafe ==
  ASSUME IInv, NEW r \in Runs, CrawlBegin(r)
  PROVE  IInv'
<1>0. PICK d \in Files : d = run[r].db
  BY DEF IInv, TypeOK, Cycle
<1>1. PICK from \in Positions :
        /\ LookbackOffset(r, from)
        /\ HandOn(r, [run[r] EXCEPT !.pc = "crawling", !.from = from, !.edge = Len(log)])
        /\ Drop(IF files[d].offset = NoCursor THEN 1 .. from ELSE {})
  BY <1>0 DEF CrawlBegin
<1> DEFINE c == [run[r] EXCEPT !.pc = "crawling", !.from = from, !.edge = Len(log)]
<1>2. run[r] \in Cycle
  BY DEF IInv, TypeOK, Cycle
<1>3. UNCHANGED <<log, storageVars, emailed, cleared, forgotten>>
  BY DEF CrawlBegin
<1>4. c \in Cycle
  BY <1>2, LogType DEF Cycle, Nodes, Cursors, IInv, TypeOK, Positions
<1>5. TypeOK'
  BY <1>1, <1>3, <1>4, DropType
  DEF IInv, TypeOK, HandOn, FeedTypeOK, StorageTypeOK, storageVars
<1>6. Grows
  BY <1>1, <1>3 DEF Drop, Grows, LogGrows, IInv, TypeOK, FeedTypeOK, storageVars
<1>7. from \in 0 .. Len(log)
  BY <1>0, <1>1, LogType DEF LookbackOffset, IInv, TypeOK, CursorInv, Positions
<1>8. \A i \in 1 .. from : Recorded(d, i)'
  <2> TAKE i \in 1 .. from
  <2>1. i \in 1 .. Len(log)
    BY <1>7, LogType DEF IInv, TypeOK
  <2>2. CASE files[d].offset = NoCursor
    <3>1. i \in Current(0, Len(log)) => i \in dropped'
      BY <1>1, <2>2 DEF Drop
    <3>2. i \notin Current(0, Len(log)) => Superseded(i) \/ ~log[i].open
      BY <2>1 DEF Current
    <3> QED
      BY <1>3, <3>1, <3>2 DEF Recorded, Superseded, SupersededBy
  <2>3. CASE files[d].offset # NoCursor
    <3>1. Recorded(d, i)
      BY <1>0, <1>1, <2>3 DEF LookbackOffset, IInv, CursorInv
    <3> QED
      BY <1>5, <1>6, <2>1, <3>1, RecordedPersists DEF IInv, TypeOK
  <2> QED
    BY <2>2, <2>3
<1>9. run'[r] = c
  BY <1>1 DEF HandOn, IInv, TypeOK
<1>10. CycleInv(r)'
  BY <1>0, <1>2, <1>3, <1>7, <1>8, <1>9 DEF CycleInv, At, Working, StartInv, Cycle
<1>11. HistoryIsDelivered' /\ (cleared \subseteq emailed)'
  BY <1>3 DEF IInv, HistoryIsDelivered, storageVars
<1>12. \A f \in Files : files'[f].offset = files[f].offset
  BY <1>3 DEF storageVars
<1> QED
  BY <1>1, <1>5, <1>6, <1>10, <1>11, <1>12, CycleMoves

\* The answered cursor covers only entries that the answer lists or that were
\* let go: the promise of Crawl is all the proof needs of the client.
LEMMA CrawlEndSafe ==
  ASSUME IInv, NEW r \in Runs, CrawlEnd(r)
  PROVE  IInv'
<1>0. PICK d \in Files : d = run[r].db
  BY DEF IInv, TypeOK, Cycle
<1> DEFINE from == run[r].from
<1>1. PICK next \in Positions, kept \in SUBSET Listable(from, run[r].edge) :
        /\ next \in from .. Len(log)
        /\ HandOn(r, [run[r] EXCEPT !.pc = "prefilter", !.from = NoCursor, !.edge = 0,
                                    !.next = next, !.work = kept])
        /\ Drop(Current(from, next) \ kept)
  BY DEF CrawlEnd, CrawlOutcome
<1> DEFINE c == [run[r] EXCEPT !.pc = "prefilter", !.from = NoCursor, !.edge = 0,
                               !.next = next, !.work = kept]
<1>2. run[r] \in Cycle /\ from \in 0 .. Len(log) /\ Len(log) \in Nat
  BY LogType DEF IInv, TypeOK, CrawlEnd, CycleInv, StartInv
<1>3. UNCHANGED <<log, storageVars, emailed, cleared, forgotten>>
  BY DEF CrawlEnd
<1>4. kept \subseteq 1 .. Len(log)
  BY <1>1, <1>2 DEF Listable
<1>5. c \in Cycle
  <2>1. kept \in SUBSET Positions
    BY <1>4, LogType DEF IInv, TypeOK
  <2>2. NoCursor \in Cursors /\ 0 \in Positions
    BY FeedAssumption DEF Cursors, Positions
  <2> QED
    BY <1>2, <2>1, <2>2 DEF Cycle, Nodes
<1>6. TypeOK'
  BY <1>1, <1>3, <1>5, DropType
  DEF IInv, TypeOK, HandOn, FeedTypeOK, StorageTypeOK, storageVars
<1>7. Grows
  BY <1>1, <1>3 DEF Drop, Grows, LogGrows, IInv, TypeOK, FeedTypeOK, storageVars
<1>8. run'[r] = c
  BY <1>1 DEF HandOn, IInv, TypeOK
<1>9. \A i \in 1 .. next : i \in kept \/ Recorded(d, i)'
  <2> TAKE i \in 1 .. next
  <2>1. i \in 1 .. Len(log)
    BY <1>1, <1>2
  <2>2. CASE i \in 1 .. from
    <3>1. Recorded(d, i)
      BY <1>0, <2>2 DEF IInv, CrawlEnd, CycleInv, StartInv
    <3> QED
      BY <1>6, <1>7, <2>1, <3>1, RecordedPersists DEF IInv, TypeOK
  <2>3. CASE i \notin 1 .. from
    <3>1. i \in Current(from, next) \/ Superseded(i) \/ ~log[i].open
      BY <1>1, <1>2, <2>3 DEF Current
    <3>2. Superseded(i) \/ ~log[i].open => Recorded(d, i)'
      BY <1>3 DEF Recorded, Superseded, SupersededBy
    <3>3. i \in Current(from, next) \ kept => i \in dropped'
      BY <1>1, <1>2, <2>1 DEF Drop, Current
    <3> QED
      BY <3>1, <3>2, <3>3 DEF Recorded
  <2> QED
    BY <2>2, <2>3
<1>10. CycleInv(r)'
  BY <1>0, <1>1, <1>2, <1>3, <1>4, <1>8, <1>9 DEF CycleInv, At, Working, WorkInv, Cycle
<1>11. HistoryIsDelivered' /\ (cleared \subseteq emailed)'
  BY <1>3 DEF IInv, HistoryIsDelivered, storageVars
<1>12. \A f \in Files : files'[f].offset = files[f].offset
  BY <1>3 DEF storageVars
<1> QED
  BY <1>1, <1>6, <1>7, <1>10, <1>11, <1>12, CycleMoves

\* A node between the crawl and the second commit may only put down listings
\* that are recorded, and reaches persist with its report delivered.
LEMMA WorkGoesOn ==
  ASSUME IInv, TypeOK', Grows, log' = log,
         NEW r \in Runs, run[r].pc \in Working, run'[r].pc \in Working,
         NEW d \in Files, run[r].db = d, run'[r].db = d,
         run'[r].next = run[r].next, run'[r].work \subseteq run[r].work,
         \A i \in run[r].work \ run'[r].work : Recorded(d, i)',
         (At(r, "persist") /\ ~run[r].dry => NewTenders(r) \subseteq emailed)'
  PROVE  CycleInv(r)'
<1>1. WorkInv(r) /\ run[r].next \in Nat /\ Len(log) \in Nat
  BY LogType DEF IInv, CycleInv, TypeOK, Cycle, Positions
<1>2. \A i \in 1 .. run[r].next : Recorded(d, i) => Recorded(d, i)'
  BY <1>1, RecordedPersists DEF WorkInv, IInv, TypeOK
<1>3. WorkInv(r)'
  BY <1>1, <1>2 DEF WorkInv
<1> QED
  BY <1>3 DEF CycleInv, At, Working

\* An entry of the work in hand that is let go is recorded from then on.
LEMMA DroppedIsRecorded ==
  ASSUME log' = log, NEW d \in Files, NEW entries, Drop(entries),
         NEW i \in entries \cap (1 .. Len(log))
  PROVE  Recorded(d, i)'
<1>1. i \in Current(0, Len(log)) \/ Superseded(i) \/ ~log[i].open
  BY DEF Current
<1> QED
  BY <1>1 DEF Drop, Recorded, Superseded, SupersededBy

\* _prefilter records what it lets go.
LEMMA PrefilterSafe ==
  ASSUME IInv, NEW r \in Runs, Prefilter(r)
  PROVE  IInv'
<1>0. PICK d \in Files : d = run[r].db
  BY DEF IInv, TypeOK, Cycle
<1>1. PICK kept \in SUBSET run[r].work :
        /\ HandOn(r, [run[r] EXCEPT !.pc = "classify", !.work = kept])
        /\ Drop(run[r].work \ kept)
  BY DEF Prefilter
<1> DEFINE c == [run[r] EXCEPT !.pc = "classify", !.work = kept]
<1>2. run[r] \in Cycle /\ run[r].work \subseteq 1 .. Len(log)
  BY DEF IInv, TypeOK, Prefilter, At, CycleInv, Working, WorkInv
<1>3. UNCHANGED <<log, storageVars, emailed, cleared, forgotten>>
  BY DEF Prefilter
<1>4. c \in Cycle
  BY <1>2 DEF Cycle, Nodes
<1>5. run'[r] = c
  BY <1>1 DEF HandOn, IInv, TypeOK
<1>6. TypeOK'
  BY <1>1, <1>3, <1>4, DropType
  DEF IInv, TypeOK, HandOn, FeedTypeOK, StorageTypeOK, storageVars
<1>7. Grows
  BY <1>1, <1>3 DEF Drop, Grows, LogGrows, IInv, TypeOK, FeedTypeOK, storageVars
<1>8. \A i \in run[r].work \ kept : Recorded(d, i)'
  BY <1>1, <1>2, <1>3, DroppedIsRecorded
<1>9. CycleInv(r)'
  BY <1>0, <1>2, <1>3, <1>5, <1>6, <1>7, <1>8, WorkGoesOn
  DEF Prefilter, At, Working, Cycle
<1>10. HistoryIsDelivered' /\ (cleared \subseteq emailed)'
  BY <1>3 DEF IInv, HistoryIsDelivered, storageVars
<1>11. \A f \in Files : files'[f].offset = files[f].offset
  BY <1>3 DEF storageVars
<1> QED
  BY <1>1, <1>6, <1>7, <1>9, <1>10, <1>11, CycleMoves

\* Recording usage leaves cursors and histories alone.
LEMMA UsageOnly ==
  ASSUME StorageTypeOK, NEW d \in Files, NEW called \in BOOLEAN, RecordUsage(d, called),
         UNCHANGED <<created, path>>
  PROVE  /\ StorageTypeOK'
         /\ \A f \in Files : /\ files'[f].offset = files[f].offset
                             /\ files'[f].seen = files[f].seen
  BY DEF StorageTypeOK, RecordUsage, Database

\* _classify records what it lets go and writes usage rows only.
LEMMA ClassifySafe ==
  ASSUME IInv, NEW r \in Runs, Classify(r)
  PROVE  IInv'
<1>0. PICK d \in Files : d = run[r].db
  BY DEF IInv, TypeOK, Cycle
<1>1. PICK relevant \in SUBSET run[r].work, failures \in BOOLEAN, answered \in BOOLEAN :
        /\ HandOn(r, [run[r] EXCEPT !.pc = "dedupe", !.work = relevant, !.failures = failures])
        /\ Drop(run[r].work \ relevant)
        /\ RecordUsage(d, answered)
  BY <1>0 DEF Classify
<1> DEFINE c == [run[r] EXCEPT !.pc = "dedupe", !.work = relevant, !.failures = failures]
<1>2. run[r] \in Cycle /\ run[r].work \subseteq 1 .. Len(log)
  BY DEF IInv, TypeOK, Classify, At, CycleInv, Working, WorkInv
<1>3. UNCHANGED <<log, created, path, emailed, cleared, forgotten>>
  BY DEF Classify
<1>4. /\ StorageTypeOK'
      /\ \A f \in Files : files'[f].offset = files[f].offset /\ files'[f].seen = files[f].seen
  BY <1>1, <1>3, UsageOnly DEF IInv, TypeOK
<1>5. run'[r] = c /\ c \in Cycle
  BY <1>1, <1>2 DEF HandOn, IInv, TypeOK, Cycle, Nodes
<1>6. TypeOK'
  BY <1>1, <1>3, <1>4, <1>5, DropType DEF IInv, TypeOK, HandOn, FeedTypeOK
<1>7. Grows
  BY <1>1, <1>3, <1>4 DEF Drop, Grows, LogGrows, IInv, TypeOK, FeedTypeOK
<1>8. \A i \in run[r].work \ relevant : Recorded(d, i)'
  BY <1>1, <1>2, <1>3, DroppedIsRecorded
<1>9. CycleInv(r)'
  BY <1>0, <1>2, <1>3, <1>5, <1>6, <1>7, <1>8, WorkGoesOn
  DEF Classify, At, Working, Cycle
<1>10. HistoryIsDelivered' /\ (cleared \subseteq emailed)'
  BY <1>3, <1>4 DEF IInv, HistoryIsDelivered
<1> QED
  BY <1>1, <1>4, <1>6, <1>7, <1>9, <1>10, CycleMoves

\* The steps that touch neither the log nor the files nor a ghost.
LEMMA QuietSafe ==
  ASSUME IInv, NEW r \in Runs, NEW c \in Cycle, HandOn(r, c),
         UNCHANGED <<log, storageVars, emailed, dropped, cleared>>,
         forgotten' \subseteq Tenders, CycleInv(r)'
  PROVE  IInv'
<1>1. TypeOK'
  BY DEF IInv, TypeOK, HandOn, FeedTypeOK, StorageTypeOK, storageVars
<1>2. Grows
  BY DEF Grows, LogGrows, IInv, TypeOK, FeedTypeOK, storageVars
<1>3. HistoryIsDelivered' /\ (cleared \subseteq emailed)'
  BY DEF IInv, HistoryIsDelivered, storageVars
<1>4. \A f \in Files : files'[f].offset = files[f].offset
  BY DEF storageVars
<1> QED
  BY <1>1, <1>2, <1>3, <1>4, CycleMoves

\* _dedupe puts down tenders that are in the history of its own file.
LEMMA DedupeSafe ==
  ASSUME IInv, NEW r \in Runs, Dedupe(r)
  PROVE  IInv'
<1>0. PICK d \in Files : d = run[r].db
  BY DEF IInv, TypeOK, Cycle
<1> DEFINE new == {i \in run[r].work : log[i].tender \in FilterUnseen(d, NewTenders(r))}
           c == [run[r] EXCEPT !.pc = "deadline_check", !.work = new]
<1>1. run[r] \in Cycle /\ run[r].work \subseteq 1 .. Len(log)
  BY DEF IInv, TypeOK, Dedupe, At, CycleInv, Working, WorkInv
<1>2. c \in Cycle /\ HandOn(r, c) /\ run'[r] = c
  BY <1>0, <1>1 DEF Dedupe, HandOn, Cycle, Nodes, IInv, TypeOK
<1>3. UNCHANGED <<log, storageVars, ghosts>>
  BY DEF Dedupe
<1>4. TypeOK' /\ Grows
  BY <1>2, <1>3 DEF IInv, TypeOK, HandOn, FeedTypeOK, StorageTypeOK, storageVars, ghosts,
                    Grows, LogGrows
<1>5. \A i \in run[r].work \ new : Recorded(d, i)'
  <2> TAKE i \in run[r].work \ new
  <2>1. log[i].tender \in files[d].seen
    BY DEF FilterUnseen, NewTenders, TendersOf
  <2> QED
    BY <1>3, <2>1 DEF Recorded, storageVars
<1>6. CycleInv(r)'
  <2>1. /\ run[r].pc = "dedupe" /\ run'[r].pc = "deadline_check"
        /\ run'[r].db = d /\ run'[r].next = run[r].next /\ run'[r].work = new
    BY <1>0, <1>1, <1>2 DEF Dedupe, At, Cycle
  <2>2. log' = log /\ new \subseteq run[r].work
    BY <1>3
  <2> QED
    BY <1>0, <1>4, <1>5, <2>1, <2>2, WorkGoesOn DEF At, Working
<1> QED
  BY <1>2, <1>3, <1>6, QuietSafe DEF ghosts, IInv, TypeOK

\* A report in the making hands its listings on as they are.
LEMMA ReportGoesOn ==
  ASSUME IInv, TypeOK', Grows, log' = log, NEW r \in Runs,
         run[r].pc \in {"deadline_check", "render", "notify"},
         run'[r].pc \in {"render", "notify", "persist"},
         run'[r].db = run[r].db, run'[r].next = run[r].next,
         run'[r].work = run[r].work, run'[r].dry = run[r].dry,
         run'[r].pc = "persist" /\ ~run[r].dry => NewTenders(r) \subseteq emailed'
  PROVE  CycleInv(r)'
<1>0. PICK d \in Files : d = run[r].db
  BY DEF IInv, TypeOK, Cycle
<1>1. (At(r, "persist") /\ ~run[r].dry => NewTenders(r) \subseteq emailed)'
  BY DEF At, NewTenders, TendersOf
<1> QED
  BY <1>0, <1>1, WorkGoesOn DEF Working

\* _deadline_check leaves the listings alone, and reaches persist without a
\* report only when there are none.
LEMMA DeadlineCheckSafe ==
  ASSUME IInv, NEW r \in Runs, DeadlineCheck(r)
  PROVE  IInv'
<1>1. run[r] \in Cycle /\ run[r].db \in Files
  BY DEF IInv, TypeOK, Cycle
<1>2. PICK due \in DeadlineReminders(run[r].db) :
        HandOn(r, [run[r] EXCEPT
                     !.pc = IF HasWork(run[r].work, due) THEN "render" ELSE "persist",
                     !.reminders = due])
  BY DEF DeadlineCheck
<1> DEFINE c == [run[r] EXCEPT
                   !.pc = IF HasWork(run[r].work, due) THEN "render" ELSE "persist",
                   !.reminders = due]
<1>3. due \in SUBSET Tenders
  BY <1>1, <1>2 DEF DeadlineReminders, IInv, TypeOK, StorageTypeOK, Database
<1>4. c \in Cycle /\ run'[r] = c
  BY <1>1, <1>2, <1>3 DEF Cycle, Nodes, HandOn, IInv, TypeOK
<1>5. UNCHANGED <<log, storageVars, ghosts>>
  BY DEF DeadlineCheck
<1>6. TypeOK' /\ Grows
  BY <1>2, <1>4, <1>5 DEF IInv, TypeOK, HandOn, FeedTypeOK, StorageTypeOK, storageVars,
                          ghosts, Grows, LogGrows
<1>7. run'[r].pc = "persist" => NewTenders(r) = {}
  <2>1. c.pc = IF HasWork(run[r].work, due) THEN "render" ELSE "persist"
    BY <1>1 DEF Cycle
  <2>2. run'[r].pc = "persist" => run[r].work = {}
    BY <1>4, <2>1 DEF HasWork
  <2>3. run[r].work = {} => NewTenders(r) = {}
    BY DEF NewTenders, TendersOf
  <2> QED
    BY <2>2, <2>3
<1>8. CycleInv(r)'
  <2>1. /\ run[r].pc = "deadline_check" /\ run'[r].pc \in {"render", "persist"}
        /\ run'[r].db = run[r].db /\ run'[r].next = run[r].next
        /\ run'[r].work = run[r].work /\ run'[r].dry = run[r].dry
    BY <1>1, <1>4 DEF DeadlineCheck, At, Cycle
  <2> QED
    BY <1>5, <1>6, <1>7, <2>1, ReportGoesOn
<1> QED
  BY <1>2, <1>4, <1>5, <1>8, QuietSafe DEF ghosts, IInv, TypeOK

\* _render writes usage rows only.
LEMMA RenderSafe ==
  ASSUME IInv, NEW r \in Runs, Render(r)
  PROVE  IInv'
<1>1. run[r] \in Cycle /\ run[r].db \in Files
  BY DEF IInv, TypeOK, Cycle
<1>2. PICK failed \in BOOLEAN, answered \in BOOLEAN :
        /\ HandOn(r, [run[r] EXCEPT !.pc = "notify", !.failures = @ \/ failed])
        /\ RecordUsage(run[r].db, answered)
  BY DEF Render
<1> DEFINE c == [run[r] EXCEPT !.pc = "notify", !.failures = @ \/ failed]
<1>3. c \in Cycle /\ run'[r] = c
  BY <1>1, <1>2 DEF Cycle, Nodes, HandOn, IInv, TypeOK
<1>4. UNCHANGED <<log, created, path, ghosts>>
  BY DEF Render
<1>5. /\ StorageTypeOK'
      /\ \A f \in Files : files'[f].offset = files[f].offset /\ files'[f].seen = files[f].seen
  BY <1>1, <1>2, <1>4, UsageOnly DEF IInv, TypeOK
<1>6. TypeOK' /\ Grows
  BY <1>2, <1>3, <1>4, <1>5 DEF IInv, TypeOK, HandOn, FeedTypeOK, ghosts, Grows, LogGrows
<1>7. CycleInv(r)'
  <2>1. /\ run[r].pc = "render" /\ run'[r].pc = "notify"
        /\ run'[r].db = run[r].db /\ run'[r].next = run[r].next
        /\ run'[r].work = run[r].work /\ run'[r].dry = run[r].dry
    BY <1>1, <1>3 DEF Render, At, Cycle
  <2> QED
    BY <1>4, <1>6, <2>1, ReportGoesOn
<1>8. HistoryIsDelivered' /\ (cleared \subseteq emailed)'
  BY <1>4, <1>5 DEF IInv, HistoryIsDelivered, ghosts
<1> QED
  BY <1>2, <1>3, <1>5, <1>6, <1>7, <1>8, CycleMoves

\* A dry run goes on to persist without a delivery.
LEMMA SkipEmailSafe ==
  ASSUME IInv, NEW r \in Runs, SkipEmail(r)
  PROVE  IInv'
<1> DEFINE c == [run[r] EXCEPT !.pc = "persist"]
<1>1. run[r] \in Cycle
  BY DEF IInv, TypeOK
<1>2. c \in Cycle /\ HandOn(r, c) /\ run'[r] = c
  BY <1>1 DEF SkipEmail, Cycle, Nodes, HandOn, IInv, TypeOK
<1>3. UNCHANGED <<log, storageVars, ghosts>>
  BY DEF SkipEmail
<1>4. TypeOK' /\ Grows
  BY <1>2, <1>3 DEF IInv, TypeOK, HandOn, FeedTypeOK, StorageTypeOK, storageVars, ghosts,
                    Grows, LogGrows
<1>5. CycleInv(r)'
  <2>1. /\ run[r].pc = "notify" /\ run'[r].pc = "persist" /\ run[r].dry
        /\ run'[r].db = run[r].db /\ run'[r].next = run[r].next
        /\ run'[r].work = run[r].work /\ run'[r].dry = run[r].dry
    BY <1>1, <1>2 DEF SkipEmail, At, Cycle
  <2> QED
    BY <1>3, <1>4, <2>1, ReportGoesOn
<1> QED
  BY <1>2, <1>3, <1>5, QuietSafe DEF ghosts, IInv, TypeOK

\* Going idle leaves nothing to keep.
LEMMA IdleInv ==
  ASSUME NEW r \in Runs, run'[r] = Idle
  PROVE  CycleInv(r)'
  BY DEF CycleInv, At, Working, Idle

\* The delivered tenders of a cycle are tenders.
LEMMA DeliveryType ==
  ASSUME IInv, NEW r \in Runs, run[r].pc \in Working
  PROVE  NewTenders(r) \subseteq Tenders /\ run[r].work \subseteq 1 .. Len(log)
  BY NewTendersType DEF IInv, TypeOK, CycleInv, WorkInv

\* _notify delivers the report that persist will record.
LEMMA NotifySafe ==
  ASSUME IInv, NEW r \in Runs, Notify(r)
  PROVE  IInv'
<1> DEFINE c == [run[r] EXCEPT !.pc = "persist", !.sent = TRUE]
<1>1. run[r] \in Cycle
  BY DEF IInv, TypeOK
<1>2. c \in Cycle /\ HandOn(r, c) /\ run'[r] = c
  BY <1>1 DEF Notify, Cycle, Nodes, HandOn, IInv, TypeOK
<1>3. UNCHANGED <<log, storageVars, dropped, cleared, forgotten>>
  BY DEF Notify
<1>4. NewTenders(r) \subseteq Tenders /\ emailed' = emailed \cup NewTenders(r)
  BY DeliveryType DEF Notify, At, Working
<1>5. TypeOK' /\ Grows
  BY <1>2, <1>3, <1>4 DEF IInv, TypeOK, HandOn, FeedTypeOK, StorageTypeOK, storageVars,
                          Grows, LogGrows
<1>6. CycleInv(r)'
  <2>1. /\ run[r].pc = "notify" /\ run'[r].pc = "persist"
        /\ run'[r].db = run[r].db /\ run'[r].next = run[r].next
        /\ run'[r].work = run[r].work /\ run'[r].dry = run[r].dry
    BY <1>1, <1>2 DEF Notify, At, Cycle
  <2> QED
    BY <1>3, <1>4, <1>5, <2>1, ReportGoesOn
<1>7. HistoryIsDelivered' /\ (cleared \subseteq emailed)'
  BY <1>3, <1>4 DEF IInv, HistoryIsDelivered, storageVars
<1>8. \A f \in Files : files'[f].offset = files[f].offset
  BY <1>3 DEF storageVars
<1> QED
  BY <1>2, <1>5, <1>6, <1>7, <1>8, CycleMoves

\* A delivery that is not confirmed ends the cycle: nothing is recorded.
LEMMA NotifyUnconfirmedSafe ==
  ASSUME IInv, NEW r \in Runs, NotifyUnconfirmed(r)
  PROVE  IInv'
<1>1. HandOn(r, Idle) /\ run'[r] = Idle
  BY DEF NotifyUnconfirmed, HandOn, IInv, TypeOK
<1>2. UNCHANGED <<log, storageVars, dropped, cleared>>
  BY DEF NotifyUnconfirmed
<1>3. /\ NewTenders(r) \subseteq Tenders /\ emailed' = emailed \cup NewTenders(r)
      /\ forgotten' \subseteq forgotten \cup NewTenders(r)
  BY DeliveryType DEF NotifyUnconfirmed, At, Working, Unrecorded
<1>4. TypeOK' /\ Grows
  BY <1>1, <1>2, <1>3, IdleType
  DEF IInv, TypeOK, HandOn, FeedTypeOK, StorageTypeOK, storageVars, Grows, LogGrows
<1>5. HistoryIsDelivered' /\ (cleared \subseteq emailed)'
  BY <1>2, <1>3 DEF IInv, HistoryIsDelivered, storageVars
<1>6. \A f \in Files : files'[f].offset = files[f].offset
  BY <1>2 DEF storageVars
<1> QED
  BY <1>1, <1>4, <1>5, <1>6, IdleInv, CycleMoves

\* The first commit: what is in hand was delivered, and is recorded now.
LEMMA PersistSafe ==
  ASSUME IInv, NEW r \in Runs, Persist(r)
  PROVE  IInv'
<1>0. PICK d \in Files : d = run[r].db
  BY DEF IInv, TypeOK, Cycle
<1>1. run[r] \in Cycle /\ run[r].pc = "persist"
  BY DEF IInv, TypeOK, Persist, At
<1>2. UNCHANGED <<log, created, path, emailed, dropped, cleared>>
  BY DEF Persist
<1>3. CASE run[r].dry
  <2> DEFINE c == [run[r] EXCEPT !.pc = "finish"]
  <2>1. c \in Cycle /\ HandOn(r, c) /\ run'[r] = c /\ UNCHANGED <<files, forgotten>>
    BY <1>1, <1>3 DEF Persist, Cycle, Nodes, HandOn, IInv, TypeOK
  <2>2. CycleInv(r)'
    BY <1>1, <2>1 DEF CycleInv, At, Working, Cycle
  <2> QED
    BY <1>2, <2>1, <2>2, QuietSafe DEF storageVars, IInv, TypeOK
<1>4. CASE ~run[r].dry
  <2> DEFINE c == [run[r] EXCEPT !.pc = "save_cursor"]
  <2>1. c \in Cycle /\ HandOn(r, c) /\ run'[r] = c
    BY <1>1, <1>4 DEF Persist, Cycle, Nodes, HandOn, IInv, TypeOK
  <2>2. MarkReported(d, NewTenders(r)) /\ forgotten' \subseteq forgotten \cup NewTenders(r)
    BY <1>0, <1>4 DEF Persist, Unrecorded
  <2>3. /\ NewTenders(r) \subseteq Tenders /\ run[r].work \subseteq 1 .. Len(log)
        /\ NewTenders(r) \subseteq emailed
    BY <1>1, <1>4, DeliveryType DEF Working, IInv, CycleInv, At
  <2>4. /\ \A f \in Files : files'[f].offset = files[f].offset
        /\ \A f \in Files : files'[f].seen =
               IF f = d THEN files[f].seen \cup NewTenders(r) ELSE files[f].seen
    BY <2>2 DEF MarkReported, IInv, TypeOK, StorageTypeOK, Database
  <2>5. StorageTypeOK'
    BY <1>2, <2>2, <2>3 DEF MarkReported, IInv, TypeOK, StorageTypeOK, Database
  <2>6. TypeOK' /\ Grows
    <3>1. TypeOK'
      BY <1>2, <2>1, <2>2, <2>3, <2>5 DEF IInv, TypeOK, HandOn, FeedTypeOK
    <3>2. LogGrows
      BY <1>2 DEF LogGrows, IInv, TypeOK, FeedTypeOK
    <3>3. Grows
      BY <1>2, <2>4, <3>2 DEF Grows
    <3> QED
      BY <3>1, <3>3
  <2>7. WorkInv(r) /\ run[r].next \in Nat /\ Len(log) \in Nat
    BY <1>1, LogType DEF IInv, TypeOK, CycleInv, Working, Cycle, Positions
  <2>8. \A i \in 1 .. run[r].next : Recorded(d, i)'
    <3> TAKE i \in 1 .. run[r].next
    <3>1. CASE i \in run[r].work
      <4>1. log[i].tender \in NewTenders(r)
        BY <3>1 DEF NewTenders, TendersOf
      <4> QED
        BY <1>2, <2>4, <4>1 DEF Recorded
    <3>2. CASE Recorded(d, i)
      BY <2>6, <2>7, <3>2, RecordedPersists DEF IInv, TypeOK, WorkInv
    <3> QED
      BY <1>0, <2>7, <3>1, <3>2 DEF WorkInv
  <2>9. CycleInv(r)'
    <3>1. run'[r].pc = "save_cursor" /\ run'[r].next = run[r].next /\ run'[r].db = d
      BY <1>0, <1>1, <2>1 DEF Cycle
    <3> QED
      BY <1>2, <2>7, <2>8, <3>1 DEF CycleInv, At, Working, MarkedInv, WorkInv
  <2>10. HistoryIsDelivered' /\ (cleared \subseteq emailed)'
    BY <1>2, <2>3, <2>4 DEF IInv, HistoryIsDelivered
  <2> QED
    BY <2>1, <2>4, <2>6, <2>9, <2>10, CycleMoves
<1> QED
  BY <1>3, <1>4

\* The second commit.
LEMMA SaveCursorSafe ==
  ASSUME IInv, NEW r \in Runs, SaveCursor(r)
  PROVE  IInv'
<1>0. PICK d \in Files : d = run[r].db
  BY DEF IInv, TypeOK, Cycle
<1> DEFINE c == [run[r] EXCEPT !.pc = "finish"]
<1>1. run[r] \in Cycle /\ run[r].next \in Positions /\ MarkedInv(r)
  BY DEF IInv, TypeOK, SaveCursor, At, CycleInv, Cycle
<1>2. c \in Cycle /\ HandOn(r, c) /\ run'[r] = c
  BY <1>1 DEF SaveCursor, Cycle, Nodes, HandOn, IInv, TypeOK
<1>3. UNCHANGED <<log, created, path, ghosts>> /\ SetOffset(d, run[r].next)
  BY <1>0 DEF SaveCursor
<1>4. /\ \A f \in Files : files'[f].seen = files[f].seen
      /\ \A f \in Files \ {d} : files'[f].offset = files[f].offset
      /\ files'[d].offset = run[r].next
  BY <1>3 DEF SetOffset, IInv, TypeOK, StorageTypeOK, Database
<1>5. StorageTypeOK'
  BY <1>1, <1>3 DEF SetOffset, IInv, TypeOK, StorageTypeOK, Database, Cursors
<1>6. TypeOK'
  BY <1>2, <1>3, <1>5 DEF IInv, TypeOK, HandOn, FeedTypeOK, ghosts
<1>7. Grows
  BY <1>3, <1>4 DEF Grows, LogGrows, IInv, TypeOK, FeedTypeOK, ghosts
<1>8. CursorInv(d)'
  <2>1. \A i \in 1 .. run[r].next : i \in 1 .. Len(log) /\ Recorded(d, i)
    BY <1>0, <1>1, LogType DEF MarkedInv, IInv, TypeOK, Positions
  <2>2. \A i \in 1 .. run[r].next : Recorded(d, i)'
    BY <1>6, <1>7, <2>1, RecordedPersists DEF IInv, TypeOK
  <2> QED
    BY <1>1, <1>3, <1>4, <2>2 DEF CursorInv, MarkedInv
<1>9. CycleInv(r)'
  BY <1>1, <1>2 DEF CycleInv, At, Working, Cycle
<1>10. HistoryIsDelivered' /\ (cleared \subseteq emailed)'
  BY <1>3, <1>4 DEF IInv, HistoryIsDelivered, ghosts
<1> QED
  BY <1>2, <1>4, <1>6, <1>7, <1>8, <1>9, <1>10, CycleMoves

\* A finished cycle leaves everything as it is.
LEMMA FinishSafe ==
  ASSUME IInv, NEW r \in Runs, Finish(r)
  PROVE  IInv'
<1>1. HandOn(r, Idle) /\ run'[r] = Idle /\ UNCHANGED <<log, storageVars, ghosts>>
  BY DEF Finish, HandOn, IInv, TypeOK
<1> QED
  BY <1>1, IdleType, IdleInv, QuietSafe DEF ghosts, IInv, TypeOK

\* So does one that raises or is killed, at whatever node.
LEMMA AbortSafe ==
  ASSUME IInv, NEW r \in Runs, Abort(r)
  PROVE  IInv'
<1>1. /\ HandOn(r, Idle) /\ run'[r] = Idle
      /\ UNCHANGED <<log, storageVars, emailed, dropped, cleared>>
  BY DEF Abort, HandOn, IInv, TypeOK
<1>2. forgotten' \subseteq Tenders
  <2>1. At(r, "persist") => NewTenders(r) \subseteq Tenders
    BY DeliveryType DEF At, Working
  <2> QED
    BY <2>1 DEF Abort, Unrecorded, IInv, TypeOK
<1> QED
  BY <1>1, <1>2, IdleType, IdleInv, QuietSafe

\* The steps of the feed and of the operator move no cycle and no cursor.
LEMMA WorldMoves ==
  ASSUME IInv, TypeOK', Grows, run' = run,
         \A f \in Files : files'[f].offset = files[f].offset,
         HistoryIsDelivered', (cleared \subseteq emailed)'
  PROVE  IInv'
<1>1. \A r \in Runs : CycleInv(r)'
  BY CycleStays DEF IInv, TypeOK
<1>2. \A f \in Files : CursorInv(f)'
  BY CursorStays DEF IInv, TypeOK
<1> QED
  BY <1>1, <1>2 DEF IInv

\* A modification published by PROZORRO moves no cursor.
LEMMA PublishSafe ==
  ASSUME IInv, PublishNext
  PROVE  IInv'
<1>1. PICK t \in Tenders, open \in BOOLEAN : Publish(t, open)
  BY DEF PublishNext
<1>2. UNCHANGED <<files, created, path, run, emailed, dropped, cleared, forgotten>>
  BY DEF PublishNext, storageVars, ghosts
<1>3. FeedTypeOK' /\ LogGrows
  BY <1>1, FeedAssumption DEF Publish, Entry, IInv, TypeOK, FeedTypeOK, LogGrows
<1>4. TypeOK' /\ Grows
  BY <1>2, <1>3 DEF IInv, TypeOK, StorageTypeOK, Grows
<1>5. HistoryIsDelivered' /\ (cleared \subseteq emailed)'
  BY <1>2 DEF IInv, HistoryIsDelivered
<1> QED
  BY <1>2, <1>4, <1>5, WorldMoves

\* healthcheck and stats may create an empty database.
LEMMA InspectSafe ==
  ASSUME IInv, Inspect
  PROVE  IInv'
<1>1. StorageTypeOK' /\ files' = files
  BY OpenType DEF IInv, TypeOK, Inspect, Open
<1>2. UNCHANGED <<log, run, emailed, dropped, cleared, forgotten>>
  BY DEF Inspect, ghosts
<1>3. TypeOK' /\ Grows
  BY <1>1, <1>2 DEF IInv, TypeOK, FeedTypeOK, Grows, LogGrows
<1>4. HistoryIsDelivered' /\ (cleared \subseteq emailed)'
  BY <1>1, <1>2 DEF IInv, HistoryIsDelivered
<1> QED
  BY <1>1, <1>2, <1>3, <1>4, WorldMoves

\* reset-seen takes delivered tenders out of the history and remembers them as
\* cleared.
LEMMA ResetSeenSafe ==
  ASSUME IInv, ResetSeen
  PROVE  IInv'
<1>1. /\ UNCHANGED <<log, created, path, run, emailed, dropped>>
      /\ path \in Files /\ ClearSeen(path)
      /\ cleared' = cleared \cup files[path].seen
      /\ forgotten' = forgotten \cup files[path].seen
  BY FilesAssumption DEF ResetSeen, IInv, TypeOK, StorageTypeOK, Files
<1>2. /\ \A f \in Files : files'[f].offset = files[f].offset
      /\ \A f \in Files : files'[f].seen = IF f = path THEN {} ELSE files[f].seen
      /\ files[path].seen \subseteq Tenders
  BY <1>1 DEF ClearSeen, IInv, TypeOK, StorageTypeOK, Database
<1>3. StorageTypeOK'
  BY <1>1 DEF ClearSeen, IInv, TypeOK, StorageTypeOK, Database
<1>4. TypeOK'
  BY <1>1, <1>2, <1>3 DEF IInv, TypeOK, FeedTypeOK
<1>5. Grows
  BY <1>1, <1>2 DEF Grows, LogGrows, IInv, TypeOK, FeedTypeOK
<1>6. HistoryIsDelivered' /\ (cleared \subseteq emailed)'
  BY <1>1, <1>2 DEF IInv, HistoryIsDelivered
<1> QED
  BY <1>1, <1>2, <1>4, <1>5, <1>6, WorldMoves

\* reset-db takes the file away under the cycles that hold it.
LEMMA ResetDbSafe ==
  ASSUME IInv, ResetDb
  PROVE  IInv'
<1>1. /\ UNCHANGED <<log, files, created, run, emailed, dropped>>
      /\ path \in Files /\ path' = 0
      /\ cleared' = cleared \cup files[path].seen
      /\ forgotten' = forgotten \cup files[path].seen
  BY FilesAssumption DEF ResetDb, Unlink, IInv, TypeOK, StorageTypeOK, Files
<1>2. files[path].seen \subseteq Tenders
  BY <1>1 DEF IInv, TypeOK, StorageTypeOK, Database
<1>3. TypeOK' /\ Grows
  BY <1>1, <1>2 DEF IInv, TypeOK, FeedTypeOK, StorageTypeOK, Grows, LogGrows
<1>4. HistoryIsDelivered' /\ (cleared \subseteq emailed)'
  BY <1>1 DEF IInv, HistoryIsDelivered
<1> QED
  BY <1>1, <1>3, <1>4, WorldMoves

\* Every step of a cycle, of PROZORRO or of the operator keeps the invariant.
LEMMA StepSafe == IInv /\ [AdminNext]_vars => IInv'
<1> SUFFICES ASSUME IInv, [AdminNext]_vars PROVE IInv'
  OBVIOUS
<1>1. CASE PublishNext
  BY <1>1, PublishSafe
<1>2. ASSUME NEW r \in Runs, CycleStep(r) PROVE IInv'
  BY <1>2, StartSafe, CrawlBeginSafe, CrawlEndSafe, PrefilterSafe, ClassifySafe, DedupeSafe,
     DeadlineCheckSafe, RenderSafe, SkipEmailSafe, NotifySafe, NotifyUnconfirmedSafe,
     PersistSafe, SaveCursorSafe, FinishSafe, AbortSafe DEF CycleStep
<1>3. CASE Inspect
  BY <1>3, InspectSafe
<1>4. CASE ResetSeen
  BY <1>4, ResetSeenSafe
<1>5. CASE ResetDb
  BY <1>5, ResetDbSafe
<1>6. CASE UNCHANGED vars
  <2>1. UNCHANGED <<log, storageVars, run, ghosts>>
    BY <1>6 DEF vars, storageVars, ghosts
  <2>2. TypeOK' /\ Grows
    BY <2>1 DEF IInv, TypeOK, FeedTypeOK, StorageTypeOK, storageVars, ghosts, Grows, LogGrows
  <2>3. HistoryIsDelivered' /\ (cleared \subseteq emailed)'
    BY <2>1 DEF IInv, HistoryIsDelivered, storageVars, ghosts
  <2> QED
    BY <2>1, <2>2, <2>3, WorldMoves DEF storageVars
<1> QED
  BY <1>1, <1>2, <1>3, <1>4, <1>5, <1>6 DEF AdminNext, Next

-----------------------------------------------------------------------------
(* The theorems *)

\* The inductive invariant holds whatever the operator does, ...
THEOREM Inductive == AdminSpec => []IInv
  BY InitSafe, StepSafe, PTL DEF AdminSpec

\* ... and so a fortiori when only the feed and the cycles move.
LEMMA SpecIsAdminSpec == Spec => AdminSpec
<1>1. [Next]_vars => [AdminNext]_vars
  BY DEF AdminNext
<1> QED
  BY <1>1, PTL DEF Spec, AdminSpec

\* Every variable keeps its type.
THEOREM TypeCorrect == AdminSpec => []TypeOK
<1>1. IInv => TypeOK
  BY DEF IInv
<1> QED
  BY <1>1, Inductive, PTL

\* Only delivered tenders are in the history.
THEOREM DeliveredHistory == AdminSpec => []HistoryIsDelivered
<1>1. IInv => HistoryIsDelivered
  BY DEF IInv
<1> QED
  BY <1>1, Inductive, PTL

\* The saved cursor never covers a reported tender that its file does not hold.
THEOREM CursorSafe == AdminSpec => []CursorBehindHistory
<1>1. IInv => CursorBehindHistory
  BY DEF IInv, CursorInv, CursorBehindHistory
<1> QED
  BY <1>1, Inductive, PTL

\* No entry the cursor covers was lost without a word.
THEOREM NothingLost == AdminSpec => []NoSilentLoss
<1>1. IInv => NoSilentLoss
  <2> SUFFICES ASSUME IInv, NEW f \in Files, NEW i \in 1 .. files[f].offset
               PROVE  Settled(i)
    BY DEF NoSilentLoss
  <2>1. Recorded(f, i)
    BY DEF IInv, CursorInv
  <2> QED
    BY <2>1 DEF Recorded, Settled, IInv, HistoryIsDelivered
<1> QED
  BY <1>1, Inductive, PTL

\* The same for the cycles alone, the specification the runs with several
\* processes check.
THEOREM NothingLostByCycles == Spec => [](NoSilentLoss /\ CursorBehindHistory)
  BY NothingLost, CursorSafe, SpecIsAdminSpec, PTL
=============================================================================
