----------------------------- MODULE CycleProofs ----------------------------
(***************************************************************************)
(* Proofs about the cycles of Pipeline: what the operator is told and what *)
(* a dry run leaves alone, for any number of processes; and what needs the *)
(* cycles not to overlap.                                                  *)
(***************************************************************************)
EXTENDS MemoryProofs

\* A cycle gets to persist with nothing to send, after sending, or dry; and a
\* dry one never gets past its first commit.
Honest(c) ==
    /\ c.pc \in {"persist", "save_cursor", "finish"} =>
         c.dry \/ c.sent \/ ~HasWork(c.work, c.reminders)
    /\ c.dry => c.pc # "save_cursor"

HonestInv == \A r \in Runs : Honest(run[r])

LEMMA HandedOn ==
  ASSUME TypeOK, NEW r \in Runs, NEW c, HandOn(r, c)
  PROVE  /\ run'[r] = c
         /\ \A q \in Runs : q # r => run'[q] = run[q]
BY DEF TypeOK, HandOn

\* A step of one cycle leaves the others where they are.
LEMMA OneMoves ==
  ASSUME TypeOK, NEW r \in Runs, CycleStep(r)
  PROVE  \A q \in Runs : q # r => run'[q] = run[q]
<1>1. \E c : HandOn(r, c)
  BY DEF CycleStep, Start, CrawlBegin, CrawlEnd, Prefilter, Classify, Dedupe, DeadlineCheck, Render,
     SkipEmail, Notify, NotifyUnconfirmed, Persist, SaveCursor, Finish, Abort
<1> QED
  BY <1>1, HandedOn

LEMMA HonestIdle == Honest(Idle)
BY DEF Honest, Idle

LEMMA HonestMove ==
  ASSUME TypeOK, NEW r \in Runs, Honest(run[r]), CycleStep(r)
  PROVE  Honest(run'[r])
<1>0. run[r] \in Cycle /\ run \in [Runs -> Cycle]
  BY DEF TypeOK
<1>1. ASSUME NEW dry \in BOOLEAN, Start(r, dry) PROVE run'[r].pc = "crawl"
  <2>1. HandOn(r, [Idle EXCEPT !.pc = "crawl", !.dry = dry, !.db = path'])
    BY <1>1 DEF Start
  <2> QED
    BY <1>0, <2>1 DEF HandOn, Idle
<1>2. CASE CrawlBegin(r) \/ CrawlEnd(r)
  <2>1. run'[r].pc \in {"crawling", "prefilter"}
    <3>1. CASE CrawlBegin(r)
      <4>1. PICK from \in Positions :
              HandOn(r, [run[r] EXCEPT !.pc = "crawling", !.from = from, !.edge = Len(log)])
        BY <3>1 DEF CrawlBegin
      <4> QED
        BY <1>0, <4>1 DEF HandOn, Cycle
    <3>2. CASE CrawlEnd(r)
      <4>1. PICK next \in Positions, kept \in SUBSET Listable(run[r].from, run[r].edge) :
              HandOn(r, [run[r] EXCEPT !.pc = "prefilter", !.from = NoCursor, !.edge = 0,
                                       !.next = next, !.work = kept])
        BY <3>2 DEF CrawlEnd
      <4> QED
        BY <1>0, <4>1 DEF HandOn, Cycle
    <3> QED
      BY <1>2, <3>1, <3>2
  <2> QED
    BY <2>1 DEF Honest
<1>3. CASE Prefilter(r) \/ Classify(r) \/ Dedupe(r) \/ Render(r)
  <2>1. run'[r].pc \in {"classify", "dedupe", "deadline_check", "notify"}
    <3>1. CASE Prefilter(r)
      <4>1. PICK kept \in SUBSET run[r].work :
              HandOn(r, [run[r] EXCEPT !.pc = "classify", !.work = kept])
        BY <3>1 DEF Prefilter
      <4> QED
        BY <1>0, <4>1 DEF HandOn, Cycle
    <3>2. CASE Classify(r)
      <4>1. PICK relevant \in SUBSET run[r].work, failures \in BOOLEAN :
              HandOn(r, [run[r] EXCEPT !.pc = "dedupe", !.work = relevant, !.failures = failures])
        BY <3>2 DEF Classify
      <4> QED
        BY <1>0, <4>1 DEF HandOn, Cycle
    <3>3. CASE Dedupe(r)
      <4>1. PICK work : HandOn(r, [run[r] EXCEPT !.pc = "deadline_check", !.work = work])
        BY <3>3 DEF Dedupe
      <4> QED
        BY <1>0, <4>1 DEF HandOn, Cycle
    <3>4. CASE Render(r)
      <4>1. PICK failures : HandOn(r, [run[r] EXCEPT !.pc = "notify", !.failures = failures])
        BY <3>4 DEF Render
      <4> QED
        BY <1>0, <4>1 DEF HandOn, Cycle
    <3> QED
      BY <1>3, <3>1, <3>2, <3>3, <3>4
  <2> QED
    BY <2>1 DEF Honest
<1>4. CASE DeadlineCheck(r)
  <2>1. /\ run'[r].work = run[r].work
        /\ run'[r].pc = IF HasWork(run[r].work, run'[r].reminders) THEN "render" ELSE "persist"
    BY <1>0, <1>4 DEF DeadlineCheck, HandOn, Cycle
  <2> QED
    BY <2>1 DEF Honest
<1>5. CASE SkipEmail(r) \/ Notify(r)
  <2>1. run'[r].pc = "persist" /\ (run'[r].dry \/ run'[r].sent)
    <3>1. CASE SkipEmail(r)
      BY <1>0, <3>1 DEF SkipEmail, HandOn, Cycle
    <3>2. CASE Notify(r)
      <4>1. HandOn(r, [run[r] EXCEPT !.pc = "persist", !.sent = TRUE])
        BY <3>2 DEF Notify
      <4> QED
        BY <1>0, <4>1 DEF HandOn, Cycle
    <3> QED
      BY <1>5, <3>1, <3>2
  <2> QED
    BY <2>1 DEF Honest
<1>6. CASE Persist(r) \/ SaveCursor(r)
  <2>1. /\ run'[r].pc \in {"save_cursor", "finish"}
        /\ run[r].pc \in {"persist", "save_cursor"}
        /\ run'[r].dry => run'[r].pc = "finish"
        /\ run'[r].dry = run[r].dry /\ run'[r].sent = run[r].sent
        /\ run'[r].work = run[r].work /\ run'[r].reminders = run[r].reminders
    <3>1. CASE Persist(r)
      BY <1>0, <3>1 DEF Persist, HandOn, Cycle, At
    <3>2. CASE SaveCursor(r)
      BY <1>0, <3>2 DEF SaveCursor, HandOn, Cycle, At, Honest
    <3> QED
      BY <1>6, <3>1, <3>2
  <2> QED
    BY <2>1 DEF Honest
<1>7. CASE NotifyUnconfirmed(r) \/ Finish(r) \/ Abort(r)
  <2>1. run'[r] = Idle
    BY <1>7, HandedOn DEF NotifyUnconfirmed, Finish, Abort
  <2> QED
    BY <2>1, HonestIdle
<1> QED
  BY <1>1, <1>2, <1>3, <1>4, <1>5, <1>6, <1>7 DEF CycleStep, Honest

LEMMA HonestStep ==
  ASSUME TypeOK, HonestInv, [AdminNext]_vars
  PROVE  HonestInv'
<1>1. ASSUME NEW r \in Runs, CycleStep(r) PROVE \A q \in Runs : Honest(run'[q])
  BY <1>1, OneMoves, HonestMove DEF HonestInv
<1>2. CASE PublishNext \/ Inspect \/ ResetSeen \/ ResetDb \/ UNCHANGED vars
  BY <1>2 DEF PublishNext, Inspect, ResetSeen, ResetDb, vars, HonestInv
<1>3. \A q \in Runs : Honest(run'[q])
  BY <1>1, <1>2 DEF AdminNext, Next, HonestInv
<1> QED
  BY <1>3 DEF HonestInv, Honest, HasWork

LEMMA HonestInit == Init => HonestInv
BY HonestIdle DEF Init, HonestInv

THEOREM HonestCycles == AdminSpec => []HonestInv
<1>1. HonestInv /\ TypeOK /\ [AdminNext]_vars => HonestInv'
  BY HonestStep
<1> QED
  BY <1>1, HonestInit, TypeCorrect, PTL DEF AdminSpec

\* The status _run_once logs is true, whatever crashed or ran beside the cycle
\* and whatever the operator did.
THEOREM StatusIsTrue == AdminSpec => []StatusHonest
<1>1. HonestInv => StatusHonest
  BY DEF HonestInv, Honest, StatusHonest, Status, At, HasWork
<1> QED
  BY <1>1, HonestCycles, PTL

\* No step of a dry run sends, marks or moves a cursor.
THEOREM DryRunsAreInert == AdminSpec => DryRunInert
<1> DEFINE Inert == \A r \in Runs : run[r].dry /\ run'[r] # run[r] =>
          /\ emailed' = emailed
          /\ \A f \in Files : /\ files'[f].offset = files[f].offset
                              /\ files'[f].seen = files[f].seen
<1>1. ASSUME TypeOK, HonestInv, [AdminNext]_vars PROVE [Inert]_vars
  <2>1. SUFFICES ASSUME NEW r \in Runs, run[r].dry, run'[r] # run[r]
                 PROVE  /\ emailed' = emailed
                        /\ \A f \in Files : /\ files'[f].offset = files[f].offset
                                            /\ files'[f].seen = files[f].seen
    OBVIOUS
  <2>2. CycleStep(r)
    <3>1. ASSUME NEW q \in Runs, CycleStep(q), q # r PROVE FALSE
      BY <1>1, <2>1, <3>1, OneMoves
    <3>2. CASE PublishNext \/ Inspect \/ ResetSeen \/ ResetDb \/ UNCHANGED vars
      BY <2>1, <3>2 DEF PublishNext, Inspect, ResetSeen, ResetDb, vars
    <3> QED
      BY <1>1, <3>1, <3>2 DEF AdminNext, Next
  <2>3. StorageTypeOK /\ run[r].db \in Files
    BY <1>1 DEF TypeOK, Cycle
  <2>4. CASE UNCHANGED <<files, emailed>>
    BY <2>4
  <2>5. CASE Classify(r) \/ Render(r)
    <3>1. PICK called \in BOOLEAN : RecordUsage(run[r].db, called)
      BY <2>5 DEF Classify, Render
    <3> QED
      BY <2>3, <2>5, <3>1, UsageOnly DEF Classify, Render, ghosts
  <2>6. ~SaveCursor(r) /\ ~Notify(r) /\ ~NotifyUnconfirmed(r)
    BY <1>1, <2>1 DEF HonestInv, Honest, SaveCursor, Notify, NotifyUnconfirmed, At
  <2>7. CASE Persist(r)
    BY <2>1, <2>4, <2>7 DEF Persist
  <2> QED
    BY <2>2, <2>4, <2>5, <2>6, <2>7 DEF CycleStep, Start, Open, CrawlBegin, CrawlEnd, Prefilter,
       Dedupe, DeadlineCheck, SkipEmail, Finish, Abort, storageVars, ghosts
<1>2. TypeOK /\ HonestInv /\ [AdminNext]_vars => [Inert]_vars
  BY <1>1
<1> QED
  BY <1>2, HonestCycles, TypeCorrect, PTL DEF AdminSpec, DryRunInert
-----------------------------------------------------------------------------
(* Files.  reset-db makes cycles lose the file at db_path, and the next     *)
(* command creates a new one: whoever opens that finds it empty.           *)

\* A cycle under way keeps its file, and writes no other.
LEMMA OwnFileOnly ==
  ASSUME TypeOK, NEW r \in Runs, CycleStep(r), ~ \E dry \in BOOLEAN : Start(r, dry)
  PROVE  /\ ~At(r, "idle") /\ UNCHANGED <<created, path>>
         /\ run'[r].pc # "idle" => run'[r].db = run[r].db
         /\ \A f \in Files : f # run[r].db => files'[f] = files[f]
<1>0. run[r] \in Cycle /\ run[r].db \in Files /\ files \in [Files -> Database]
  BY DEF TypeOK, Cycle, StorageTypeOK
<1>1. CASE CrawlBegin(r)
  <2>1. PICK from \in Positions :
          HandOn(r, [run[r] EXCEPT !.pc = "crawling", !.from = from, !.edge = Len(log)])
    BY <1>1 DEF CrawlBegin
  <2> QED
    BY <1>0, <1>1, <2>1 DEF CrawlBegin, HandOn, TypeOK, Cycle, At, storageVars
<1>2. CASE CrawlEnd(r)
  <2>1. PICK next \in Positions, kept \in SUBSET Listable(run[r].from, run[r].edge) :
          HandOn(r, [run[r] EXCEPT !.pc = "prefilter", !.from = NoCursor, !.edge = 0,
                                   !.next = next, !.work = kept])
    BY <1>2 DEF CrawlEnd
  <2> QED
    BY <1>0, <1>2, <2>1 DEF CrawlEnd, HandOn, TypeOK, Cycle, At, storageVars
<1>3. CASE Prefilter(r) \/ Dedupe(r) \/ DeadlineCheck(r) \/ SkipEmail(r) \/ Notify(r)
  <2>1. run'[r].db = run[r].db
    <3>1. CASE Prefilter(r)
      <4>1. PICK kept : HandOn(r, [run[r] EXCEPT !.pc = "classify", !.work = kept])
        BY <3>1 DEF Prefilter
      <4> QED
        BY <1>0, <4>1 DEF HandOn, TypeOK, Cycle
    <3>2. CASE Dedupe(r)
      <4>1. PICK work : HandOn(r, [run[r] EXCEPT !.pc = "deadline_check", !.work = work])
        BY <3>2 DEF Dedupe
      <4> QED
        BY <1>0, <4>1 DEF HandOn, TypeOK, Cycle
    <3>3. CASE DeadlineCheck(r)
      BY <1>0, <3>3 DEF DeadlineCheck, HandOn, TypeOK, Cycle
    <3>4. CASE SkipEmail(r)
      BY <1>0, <3>4 DEF SkipEmail, HandOn, TypeOK, Cycle
    <3>5. CASE Notify(r)
      <4>1. HandOn(r, [run[r] EXCEPT !.pc = "persist", !.sent = TRUE])
        BY <3>5 DEF Notify
      <4> QED
        BY <1>0, <4>1 DEF HandOn, TypeOK, Cycle
    <3> QED
      BY <1>3, <3>1, <3>2, <3>3, <3>4, <3>5
  <2> QED
    BY <1>3, <2>1 DEF Prefilter, Dedupe, DeadlineCheck, SkipEmail, Notify, At, storageVars
<1>4. CASE Classify(r) \/ Render(r)
  <2>1. PICK called \in BOOLEAN : RecordUsage(run[r].db, called)
    BY <1>4 DEF Classify, Render
  <2>2. run'[r].db = run[r].db
    <3>1. CASE Classify(r)
      <4>1. PICK work, failures :
              HandOn(r, [run[r] EXCEPT !.pc = "dedupe", !.work = work, !.failures = failures])
        BY <3>1 DEF Classify
      <4> QED
        BY <1>0, <4>1 DEF HandOn, TypeOK, Cycle
    <3>2. CASE Render(r)
      <4>1. PICK failures : HandOn(r, [run[r] EXCEPT !.pc = "notify", !.failures = failures])
        BY <3>2 DEF Render
      <4> QED
        BY <1>0, <4>1 DEF HandOn, TypeOK, Cycle
    <3> QED
      BY <1>4, <3>1, <3>2
  <2> QED
    BY <1>0, <1>4, <2>1, <2>2 DEF Classify, Render, At, RecordUsage
<1>5. CASE Persist(r) \/ SaveCursor(r)
  BY <1>0, <1>5 DEF Persist, SaveCursor, HandOn, TypeOK, Cycle, At, MarkReported, SetOffset
<1>6. CASE NotifyUnconfirmed(r) \/ Finish(r) \/ Abort(r)
  <2>1. run'[r].pc = "idle"
    BY <1>6, HandedOn DEF NotifyUnconfirmed, Finish, Abort, Idle
  <2> QED
    BY <1>6, <2>1 DEF NotifyUnconfirmed, Finish, Abort, At, storageVars
<1> QED
  BY <1>1, <1>2, <1>3, <1>4, <1>5, <1>6 DEF CycleStep

\* A cycle starts on the file at db_path, which is there from then on.
LEMMA StartOpens ==
  ASSUME TypeOK, NEW r \in Runs, NEW dry \in BOOLEAN, Start(r, dry)
  PROVE  /\ run'[r].pc = "crawl" /\ run'[r].db = path' /\ path' \in Files
         /\ files' = files /\ created \in Nat /\ created' \in Nat /\ created <= created'
         /\ path' <= created' /\ path' \in {path, created + 1}
<1>1. HandOn(r, [Idle EXCEPT !.pc = "crawl", !.dry = dry, !.db = path'])
  BY DEF Start
<1>2. run'[r].pc = "crawl" /\ run'[r].db = path'
  BY <1>1 DEF HandOn, Idle, TypeOK
<1> QED
  BY <1>2, FilesAssumption DEF TypeOK, StorageTypeOK, Start, Open, Files

LEMMA FreshInit == Init => FreshInv
BY DEF Init, FreshInv, StorageInit, At, Idle

LEMMA FreshStep ==
  ASSUME TypeOK, TypeOK', FreshInv, [AdminNext]_vars
  PROVE  FreshInv'
<1>0. /\ created \in Nat /\ path \in Nat /\ path <= created
      /\ \A r \in Runs : run[r].db \in Nat /\ run[r].db \in Files
      /\ \A f \in Files : f \in Nat
  BY FilesAssumption DEF TypeOK, StorageTypeOK, Cycle, Files
<1>1. ASSUME NEW r \in Runs, CycleStep(r) PROVE FreshInv'
  <2>1. \A q \in Runs : q # r => run'[q] = run[q]
    BY <1>1, OneMoves
  <2>2. CASE \E dry \in BOOLEAN : Start(r, dry)
    <3>1. PICK dry \in BOOLEAN : Start(r, dry)
      BY <2>2
    <3> QED
      BY <1>0, <2>1, <3>1, StartOpens DEF FreshInv, At
  <2>3. CASE ~ \E dry \in BOOLEAN : Start(r, dry)
    BY <1>0, <1>1, <2>1, <2>3, OwnFileOnly DEF FreshInv, At
  <2> QED
    BY <2>2, <2>3
<1>2. CASE Inspect
  BY <1>0, <1>2 DEF Inspect, Open, FreshInv, At
<1>3. CASE ResetSeen
  BY <1>0, <1>3 DEF ResetSeen, ClearSeen, FreshInv, At
<1>4. CASE PublishNext \/ ResetDb \/ UNCHANGED vars
  BY <1>4 DEF PublishNext, ResetDb, Unlink, vars, storageVars, FreshInv, At
<1> QED
  BY <1>1, <1>2, <1>3, <1>4 DEF AdminNext, Next

\* After reset-db, and before the first command, there is nothing to find at
\* db_path: the next cycle looks back a few days and has reported nothing.
THEOREM FreshFiles == AdminSpec => []FreshInv
<1>1. TypeOK /\ TypeOK' /\ FreshInv /\ [AdminNext]_vars => FreshInv'
  BY FreshStep
<1> QED
  BY <1>1, FreshInit, TypeCorrect, PTL DEF AdminSpec
-----------------------------------------------------------------------------
(* One cycle at a time.  A cycle reads the cursor and the history of its    *)
(* file and uses them several awaits later: with nobody else to write that *)
(* file, what it read stays true until it writes itself.                   *)

\* What cycle c, with tenders `new` in hand, read of its file still holds there.
\* A file that appeared at db_path after it opened its own has no history.
UpToDate(c, new) ==
    /\ c.pc # "idle" => (path \notin {0, c.db} => files[path].seen = {})
    /\ c.pc = "crawling" => files[c.db].offset <= c.from
    /\ c.pc \in Working \cup {"save_cursor"} => files[c.db].offset <= c.next
    /\ c.pc \in {"deadline_check", "render", "notify"} => new \cap files[c.db].seen = {}
    /\ c.pc \in {"render", "notify"} => new \cap c.reminders = {}

SoloInv == \A r \in Runs : UpToDate(run[r], NewTenders(r))

\* Nobody executes a cycle beside r.
OnlyMoves(r) == \A q \in Runs : q # r => run[q].pc = "idle" /\ run'[q].pc = "idle"

LEMMA NobodyBeside ==
  ASSUME TypeOK, NoOverlap, NoOverlap', NEW r \in Runs, CycleStep(r)
  PROVE  OnlyMoves(r)
<1>1. \A q \in Runs : q # r => run'[q] = run[q]
  BY OneMoves
<1>2. ~At(r, "idle") \/ ~At(r, "idle")'
  BY OwnFileOnly, StartOpens DEF At
<1> QED
  BY <1>1, <1>2 DEF NoOverlap, OnlyMoves, At

LEMMA IdleUpToDate == \A c, new : c.pc = "idle" => UpToDate(c, new)
BY DEF UpToDate, Working

\* A step that leaves every history and cursor alone.
LEMMA StillUpToDate ==
  ASSUME TypeOK, TypeOK', NEW r \in Runs, OnlyMoves(r), UNCHANGED <<created, path>>,
         \A f \in Files : files'[f].offset = files[f].offset /\ files'[f].seen = files[f].seen,
         UpToDate(run'[r], NewTenders(r)')
  PROVE  SoloInv'
<1>1. run'[r].db \in Files
  BY DEF TypeOK, Cycle
<1>2. path = 0 \/ path \in Files
  BY FilesAssumption DEF TypeOK, StorageTypeOK, Files
<1>3. UpToDate(run[r], NewTenders(r))'
  BY <1>1, <1>2 DEF UpToDate
<1> QED
  BY <1>3 DEF SoloInv, OnlyMoves, UpToDate, Working

\* The steps up to dedupe: the crawl takes over the cursor it read.
LEMMA CrawlUpToDate ==
  ASSUME TypeOK, TypeOK', SoloInv, NEW r \in Runs, OnlyMoves(r),
         CrawlBegin(r) \/ CrawlEnd(r) \/ Prefilter(r) \/ Classify(r)
  PROVE  SoloInv'
<1>0. run[r] \in Cycle /\ run[r].db \in Files /\ StorageTypeOK
  BY DEF TypeOK, Cycle
<1>1. UpToDate(run[r], NewTenders(r))
  BY DEF SoloInv
<1>2. CASE CrawlBegin(r)
  <2>1. PICK from \in Positions :
          /\ LookbackOffset(r, from)
          /\ HandOn(r, [run[r] EXCEPT !.pc = "crawling", !.from = from, !.edge = Len(log)])
    BY <1>2 DEF CrawlBegin
  <2>2. run'[r] = [run[r] EXCEPT !.pc = "crawling", !.from = from, !.edge = Len(log)]
    BY <2>1, HandedOn
  <2>3. files[run[r].db].offset <= from
    BY <1>0, <2>1, LogType DEF LookbackOffset, NoCursor, Positions, StorageTypeOK, Database, Cursors
  <2>4. At(r, "crawl") /\ UNCHANGED <<files, created, path>>
    BY <1>2 DEF CrawlBegin, storageVars
  <2>5. UpToDate(run'[r], NewTenders(r)')
    BY <1>0, <1>1, <2>2, <2>3, <2>4 DEF UpToDate, At, Working, Cycle
  <2> QED
    BY <2>4, <2>5, StillUpToDate
<1>3. CASE CrawlEnd(r)
  <2>1. PICK next \in Positions, kept \in SUBSET Listable(run[r].from, run[r].edge) :
          /\ CrawlOutcome(run[r].from, run[r].edge, next, kept, Current(run[r].from, next) \ kept)
          /\ HandOn(r, [run[r] EXCEPT !.pc = "prefilter", !.from = NoCursor, !.edge = 0,
                                      !.next = next, !.work = kept])
    BY <1>3 DEF CrawlEnd
  <2>2. run'[r] = [run[r] EXCEPT !.pc = "prefilter", !.from = NoCursor, !.edge = 0,
                                 !.next = next, !.work = kept]
    BY <2>1, HandedOn
  <2>3. At(r, "crawling") /\ UNCHANGED <<files, created, path>>
    BY <1>3 DEF CrawlEnd, storageVars
  <2>4. run[r].from <= next
    BY <2>1 DEF CrawlOutcome
  <2>5. files[run[r].db].offset <= next
    BY <1>0, <1>1, <2>3, <2>4, FeedAssumption
       DEF UpToDate, At, StorageTypeOK, Database, Cursors, Positions, NoCursor, Cycle
  <2>6. UpToDate(run'[r], NewTenders(r)')
    BY <1>0, <1>1, <2>2, <2>3, <2>5 DEF UpToDate, At, Working, Cycle
  <2> QED
    BY <2>3, <2>6, StillUpToDate
<1>4. CASE Prefilter(r)
  <2>1. PICK kept \in SUBSET run[r].work :
          HandOn(r, [run[r] EXCEPT !.pc = "classify", !.work = kept])
    BY <1>4 DEF Prefilter
  <2>2. run'[r] = [run[r] EXCEPT !.pc = "classify", !.work = kept]
    BY <2>1, HandedOn
  <2>3. At(r, "prefilter") /\ UNCHANGED <<files, created, path>>
    BY <1>4 DEF Prefilter, storageVars
  <2>4. UpToDate(run'[r], NewTenders(r)')
    BY <1>0, <1>1, <2>2, <2>3 DEF UpToDate, At, Working, Cycle
  <2> QED
    BY <2>3, <2>4, StillUpToDate
<1>5. CASE Classify(r)
  <2>1. PICK relevant \in SUBSET run[r].work, failures \in BOOLEAN :
          HandOn(r, [run[r] EXCEPT !.pc = "dedupe", !.work = relevant, !.failures = failures])
    BY <1>5 DEF Classify
  <2>2. run'[r] = [run[r] EXCEPT !.pc = "dedupe", !.work = relevant, !.failures = failures]
    BY <2>1, HandedOn
  <2>3. PICK answered \in BOOLEAN : RecordUsage(run[r].db, answered)
    BY <1>5 DEF Classify
  <2>4. At(r, "classify") /\ UNCHANGED <<created, path>>
    BY <1>5 DEF Classify
  <2>5. UpToDate(run'[r], NewTenders(r)')
    BY <1>0, <1>1, <2>2, <2>4 DEF UpToDate, At, Working, Cycle
  <2> QED
    BY <1>0, <2>3, <2>4, <2>5, UsageOnly, StillUpToDate
<1> QED
  BY <1>2, <1>3, <1>4, <1>5

\* From dedupe to delivery: what was not in the history is not in it now.
LEMMA ReportUpToDate ==
  ASSUME TypeOK, TypeOK', SoloInv, NEW r \in Runs, OnlyMoves(r),
         Dedupe(r) \/ DeadlineCheck(r) \/ Render(r) \/ SkipEmail(r) \/ Notify(r)
  PROVE  SoloInv'
<1>0. run[r] \in Cycle /\ run[r].db \in Files /\ StorageTypeOK /\ run \in [Runs -> Cycle]
  BY DEF TypeOK, Cycle
<1>1. UpToDate(run[r], NewTenders(r)) /\ log' = log
  BY DEF SoloInv, Dedupe, DeadlineCheck, Render, SkipEmail, Notify
<1>2. CASE Dedupe(r)
  <2> DEFINE work == {i \in run[r].work : log[i].tender \in FilterUnseen(run[r].db, NewTenders(r))}
  <2>1. HandOn(r, [run[r] EXCEPT !.pc = "deadline_check", !.work = work])
    BY <1>2 DEF Dedupe
  <2>2. run'[r] = [run[r] EXCEPT !.pc = "deadline_check", !.work = work]
    BY <2>1, HandedOn
  <2>3. At(r, "dedupe") /\ UNCHANGED <<files, created, path>>
    BY <1>2 DEF Dedupe, storageVars
  <2>4. NewTenders(r)' = TendersOf(work)
    BY <1>0, <1>1, <2>2 DEF NewTenders, TendersOf, Cycle
  <2>5. TendersOf(work) \cap files[run[r].db].seen = {}
    BY DEF TendersOf, FilterUnseen
  <2>6. UpToDate(run'[r], NewTenders(r)')
    <3> HIDE DEF work
    <3> QED
      BY <1>0, <1>1, <2>2, <2>3, <2>4, <2>5 DEF UpToDate, At, Working, Cycle
  <2> QED
    BY <2>3, <2>6, StillUpToDate
<1>3. CASE DeadlineCheck(r)
  <2>1. PICK due \in DeadlineReminders(run[r].db) :
          HandOn(r, [run[r] EXCEPT
                       !.pc = IF HasWork(run[r].work, due) THEN "render" ELSE "persist",
                       !.reminders = due])
    BY <1>3 DEF DeadlineCheck
  <2>2. /\ run'[r].pc \in {"render", "persist"} /\ run'[r].reminders = due
        /\ run'[r].db = run[r].db /\ run'[r].next = run[r].next /\ run'[r].work = run[r].work
    BY <1>0, <2>1 DEF HandOn, Cycle
  <2>3. At(r, "deadline_check") /\ UNCHANGED <<files, created, path>>
    BY <1>3 DEF DeadlineCheck, storageVars
  <2>4. due \subseteq files[run[r].db].seen
    BY <2>1 DEF DeadlineReminders
  <2>5. NewTenders(r)' = NewTenders(r)
    BY <1>1, <2>2 DEF NewTenders, TendersOf
  <2>6. UpToDate(run'[r], NewTenders(r)')
    BY <1>1, <2>2, <2>3, <2>4, <2>5 DEF UpToDate, At, Working
  <2> QED
    BY <2>3, <2>6, StillUpToDate
<1>4. CASE Render(r)
  <2>1. PICK failures : HandOn(r, [run[r] EXCEPT !.pc = "notify", !.failures = failures])
    BY <1>4 DEF Render
  <2>2. /\ run'[r].pc = "notify" /\ run'[r].reminders = run[r].reminders
        /\ run'[r].db = run[r].db /\ run'[r].next = run[r].next /\ run'[r].work = run[r].work
    BY <1>0, <2>1 DEF HandOn, Cycle
  <2>3. PICK answered \in BOOLEAN : RecordUsage(run[r].db, answered)
    BY <1>4 DEF Render
  <2>4. At(r, "render") /\ UNCHANGED <<created, path>>
    BY <1>4 DEF Render
  <2>5. NewTenders(r)' = NewTenders(r)
    BY <1>1, <2>2 DEF NewTenders, TendersOf
  <2>6. UpToDate(run'[r], NewTenders(r)')
    BY <1>1, <2>2, <2>4, <2>5 DEF UpToDate, At, Working
  <2> QED
    BY <1>0, <2>3, <2>4, <2>6, UsageOnly, StillUpToDate
<1>5. CASE SkipEmail(r) \/ Notify(r)
  <2>1. PICK sent : HandOn(r, [run[r] EXCEPT !.pc = "persist", !.sent = sent])
    <3>1. CASE SkipEmail(r)
      <4>1. [run[r] EXCEPT !.pc = "persist"] = [run[r] EXCEPT !.pc = "persist", !.sent = run[r].sent]
        BY <1>0 DEF Cycle
      <4> QED
        BY <3>1, <4>1 DEF SkipEmail
    <3>2. CASE Notify(r)
      BY <3>2 DEF Notify
    <3> QED
      BY <1>5, <3>1, <3>2
  <2>2. /\ run'[r].pc = "persist" /\ run'[r].db = run[r].db /\ run'[r].next = run[r].next
    BY <1>0, <2>1 DEF HandOn, Cycle
  <2>3. At(r, "notify") /\ UNCHANGED <<files, created, path>>
    BY <1>5 DEF SkipEmail, Notify, storageVars
  <2>4. UpToDate(run'[r], NewTenders(r)')
    BY <1>1, <2>2, <2>3 DEF UpToDate, At, Working
  <2> QED
    BY <2>3, <2>4, StillUpToDate
<1> QED
  BY <1>2, <1>3, <1>4, <1>5

\* The ends of a cycle.
LEMMA EndUpToDate ==
  ASSUME TypeOK, NEW r \in Runs, OnlyMoves(r),
         NotifyUnconfirmed(r) \/ Finish(r) \/ Abort(r)
  PROVE  SoloInv'
<1>1. run'[r].pc = "idle"
  BY HandedOn DEF NotifyUnconfirmed, Finish, Abort, Idle
<1> QED
  BY <1>1 DEF SoloInv, OnlyMoves, UpToDate, Working

\* A cycle starts on the file at db_path, or on a fresh one.
LEMMA StartUpToDate ==
  ASSUME TypeOK, NEW r \in Runs, OnlyMoves(r), NEW dry \in BOOLEAN, Start(r, dry)
  PROVE  SoloInv'
<1>1. run'[r].pc = "crawl" /\ run'[r].db = path'
  BY StartOpens
<1>2. UpToDate(run[r], NewTenders(r))'
  BY <1>1 DEF UpToDate, Working
<1> QED
  BY <1>2 DEF SoloInv, OnlyMoves, UpToDate, Working

\* The first commit writes the history of the cycle's own file, the second its
\* cursor, which had not moved since the crawl.
LEMMA CommitUpToDate ==
  ASSUME TypeOK, TypeOK', SoloInv, NEW r \in Runs, OnlyMoves(r), Persist(r) \/ SaveCursor(r)
  PROVE  SoloInv'
<1>0. run[r] \in Cycle /\ run[r].db \in Files /\ StorageTypeOK /\ run \in [Runs -> Cycle]
  BY DEF TypeOK, Cycle
<1>1. UpToDate(run[r], NewTenders(r)) /\ run[r].pc \in {"persist", "save_cursor"}
      /\ UNCHANGED <<created, path>>
  BY DEF SoloInv, Persist, SaveCursor, At
<1>3. /\ run'[r].pc \in {"save_cursor", "finish"}
      /\ run'[r].pc = "save_cursor" => At(r, "persist")
      /\ run'[r].db = run[r].db /\ run'[r].next = run[r].next
  <2>1. CASE Persist(r)
    BY <1>0, <2>1 DEF Persist, HandOn, Cycle, At
  <2>2. CASE SaveCursor(r)
    <3>1. HandOn(r, [run[r] EXCEPT !.pc = "finish"])
      BY <2>2 DEF SaveCursor
    <3> QED
      BY <1>0, <3>1 DEF HandOn, Cycle
  <2> QED
    BY <2>1, <2>2
<1>4. /\ \A f \in Files : f # run[r].db => files'[f].seen = files[f].seen
      /\ At(r, "persist") => files'[run[r].db].offset = files[run[r].db].offset
  <2>1. CASE Persist(r)
    <3>1. CASE run[r].dry
      BY <2>1, <3>1 DEF Persist
    <3>2. CASE ~run[r].dry
      <4>1. MarkReported(run[r].db, NewTenders(r))
        BY <2>1, <3>2 DEF Persist
      <4> QED
        BY <1>0, <4>1 DEF MarkReported, StorageTypeOK, Database
    <3> QED
      BY <3>1, <3>2
  <2>2. CASE SaveCursor(r)
    BY <1>0, <2>2 DEF SaveCursor, SetOffset, StorageTypeOK, Database, At
  <2> QED
    BY <2>1, <2>2
<1>5. path = 0 \/ path \in Files
  BY <1>0, FilesAssumption DEF StorageTypeOK, Files
<1>6. UpToDate(run[r], NewTenders(r))'
  <2>1. (path \notin {0, run[r].db} => files[path].seen = {})'
    BY <1>1, <1>3, <1>4, <1>5 DEF UpToDate
  <2>2. run'[r].pc = "save_cursor" => files'[run[r].db].offset <= run[r].next
    BY <1>1, <1>3, <1>4 DEF UpToDate, At, Working
  <2> QED
    BY <1>3, <2>1, <2>2 DEF UpToDate, Working
<1> QED
  BY <1>6 DEF SoloInv, OnlyMoves, UpToDate, Working

\* The feed grows and the operator inspects or resets: no cursor moves and no
\* history gains a tender.
LEMMA WorldUpToDate ==
  ASSUME IInv, TypeOK', FreshInv, SoloInv,
         PublishNext \/ Inspect \/ ResetSeen \/ ResetDb \/ UNCHANGED vars
  PROVE  SoloInv'
<1>0. TypeOK /\ StorageTypeOK /\ StorageTypeOK' /\ FeedTypeOK
  BY DEF IInv, TypeOK
<1>1. run' = run /\ LogGrows
  <2>1. CASE PublishNext
    <3>1. PICK t \in Tenders, open \in BOOLEAN : Publish(t, open)
      BY <2>1 DEF PublishNext
    <3> QED
      BY <1>0, <2>1, <3>1 DEF PublishNext, Publish, FeedTypeOK, LogGrows
  <2>2. CASE Inspect \/ ResetSeen \/ ResetDb \/ UNCHANGED vars
    BY <1>0, <2>2, LogType DEF Inspect, ResetSeen, ResetDb, vars, LogGrows
  <2> QED
    BY <2>1, <2>2
<1>2. \A f \in Files : files'[f].offset = files[f].offset /\ files'[f].seen \subseteq files[f].seen
  BY <1>0 DEF PublishNext, Inspect, ResetSeen, ResetDb, vars, storageVars, Open, Unlink,
     ClearSeen, StorageTypeOK, Database
<1>3. created \in Nat /\ (path' \in {0, path} \/ path' > created)
  BY <1>0, FilesAssumption DEF PublishNext, Inspect, ResetSeen, ResetDb, vars, storageVars,
     Open, Unlink, ClearSeen, StorageTypeOK
<1>4. path' = 0 \/ path' \in Files
  BY <1>0, FilesAssumption DEF StorageTypeOK, Files
<1>5. ASSUME NEW r \in Runs PROVE UpToDate(run[r], NewTenders(r))'
  <2>1. run[r] \in Cycle /\ run[r].db \in Files
    BY <1>0 DEF TypeOK, Cycle
  <2>2. UpToDate(run[r], NewTenders(r))
    BY DEF SoloInv
  <2>3. run[r].pc \in Working => NewTenders(r)' = NewTenders(r)
    <3>1. run[r].pc \in Working => run[r].work \subseteq 1 .. Len(log)
      BY DEF IInv, CycleInv, WorkInv
    <3> QED
      BY <1>1, <3>1 DEF NewTenders, TendersOf, LogGrows
  <2>4. run[r].pc # "idle" => (path \notin {0, run[r].db} => files[path].seen = {})'
    BY <1>1, <1>2, <1>3, <1>4, <2>2 DEF UpToDate, FreshInv, EmptyDatabase
  <2> QED
    BY <1>1, <1>2, <2>1, <2>2, <2>3, <2>4 DEF UpToDate, Working
<1> QED
  BY <1>5 DEF SoloInv

LEMMA SoloStep ==
  NoOverlap /\ NoOverlap' /\ IInv /\ FreshInv /\ SoloInv /\ [AdminNext]_vars => SoloInv'
<1> SUFFICES ASSUME NoOverlap, NoOverlap', IInv, FreshInv, SoloInv, [AdminNext]_vars
             PROVE  SoloInv'
  OBVIOUS
<1>1. TypeOK /\ TypeOK'
  BY StepSafe DEF IInv
<1>2. ASSUME NEW r \in Runs, CycleStep(r) PROVE SoloInv'
  <2>1. OnlyMoves(r)
    BY <1>1, <1>2, NobodyBeside
  <2> QED
    BY <1>1, <1>2, <2>1, StartUpToDate, CrawlUpToDate, ReportUpToDate, EndUpToDate,
       CommitUpToDate DEF CycleStep
<1> QED
  BY <1>1, <1>2, WorldUpToDate DEF AdminNext, Next

LEMMA SoloInit == Init => SoloInv
BY DEF Init, SoloInv, UpToDate, Idle, Working

THEOREM SoloCycles == AdminSpec /\ []NoOverlap => []SoloInv
<1>1. NoOverlap /\ NoOverlap' /\ IInv /\ FreshInv /\ SoloInv /\ [AdminNext]_vars => SoloInv'
  BY SoloStep
<1> QED
  BY <1>1, SoloInit, Inductive, FreshFiles, PTL DEF AdminSpec

\* A report of a cycle that nothing overlaps never shows a tender both as new and as a
\* reminder, whatever reset-seen removes meanwhile.
THEOREM NewAndRemindedApart == AdminSpec /\ []NoOverlap => []NewIsNotReminded
<1>1. SoloInv => NewIsNotReminded
  BY DEF SoloInv, UpToDate, NewIsNotReminded, At
<1> QED
  BY <1>1, SoloCycles, PTL

LEMMA NewIsLost ==
  ASSUME NoOverlap, SoloInv, EmailedIsRemembered, NEW r \in Runs, At(r, "notify")
  PROVE  InFlight = {} /\ NewTenders(r) \cap emailed \subseteq forgotten
<1>1. UpToDate(run[r], NewTenders(r)) /\ run[r].pc = "notify"
  BY DEF SoloInv, At
<1>2. NewTenders(r) \cap SeenAtPath = {}
  BY <1>1 DEF UpToDate, SeenAtPath
<1>3. InFlight = {}
  BY <1>1 DEF InFlight, At, NoOverlap
<1> QED
  BY <1>2, <1>3 DEF EmailedIsRemembered

\* What such a cycle is about to present as new was delivered before only if
\* that was forgotten.
THEOREM OnlyForgottenIsNewAgain == AdminSpec /\ []NoOverlap => []NewIsUnreported
<1>1. NoOverlap /\ SoloInv /\ EmailedIsRemembered => NewIsUnreported
  BY NewIsLost DEF NewIsUnreported
<1> QED
  BY <1>1, SoloCycles, Remembered, PTL

\* The cursor of a file never moves back while no cycles overlap.
THEOREM OnlyOverlapTakesBack == AdminSpec /\ []NoOverlap => CursorAdvances
<1> DEFINE Advances == \A f \in Files : files'[f].offset >= files[f].offset
<1>1. ASSUME IInv, SoloInv, [AdminNext]_vars PROVE [Advances]_vars
  <2>0. StorageTypeOK /\ \A f \in Files : files[f].offset \in Int
    BY <1>1, FeedAssumption DEF IInv, TypeOK, StorageTypeOK, Database, Cursors, Positions, NoCursor
  <2>1. ASSUME NEW r \in Runs, CycleStep(r) PROVE Advances
    <3>0. run[r].db \in Files /\ UpToDate(run[r], NewTenders(r))
      BY <1>1 DEF IInv, TypeOK, Cycle, SoloInv
    <3>1. CASE files' = files
      BY <2>0, <3>1
    <3>2. CASE Classify(r) \/ Render(r)
      <4>1. PICK called \in BOOLEAN : RecordUsage(run[r].db, called)
        BY <3>2 DEF Classify, Render
      <4>2. \A f \in Files : files'[f].offset = files[f].offset
        BY <2>0, <3>0, <4>1 DEF RecordUsage, StorageTypeOK, Database
      <4> QED
        BY <2>0, <4>2
    <3>3. CASE Persist(r) /\ ~run[r].dry
      <4>1. MarkReported(run[r].db, NewTenders(r))
        BY <3>3 DEF Persist
      <4> QED
        BY <2>0, <3>0, <4>1 DEF MarkReported, StorageTypeOK, Database
    <3>4. CASE SaveCursor(r)
      <4>1. files[run[r].db].offset <= run[r].next
        BY <3>0, <3>4 DEF SaveCursor, UpToDate, At
      <4>2. SetOffset(run[r].db, run[r].next)
        BY <3>4 DEF SaveCursor
      <4> QED
        BY <2>0, <3>0, <4>1, <4>2 DEF SetOffset, StorageTypeOK, Database
    <3> QED
      BY <2>1, <3>1, <3>2, <3>3, <3>4 DEF CycleStep, Start, Open, CrawlBegin, CrawlEnd, Prefilter,
         Dedupe, DeadlineCheck, SkipEmail, Notify, NotifyUnconfirmed, Persist, Finish, Abort,
         storageVars
  <2>2. CASE PublishNext \/ Inspect \/ ResetSeen \/ ResetDb \/ UNCHANGED vars
    BY <2>0, <2>2 DEF PublishNext, Inspect, ResetSeen, ResetDb, vars, storageVars, Open, Unlink,
       ClearSeen, StorageTypeOK, Database
  <2> QED
    BY <1>1, <2>1, <2>2 DEF AdminNext, Next
<1>2. IInv /\ SoloInv /\ [AdminNext]_vars => [Advances]_vars
  BY <1>1
<1> QED
  BY <1>2, SoloCycles, Inductive, PTL DEF AdminSpec, CursorAdvances
=============================================================================
