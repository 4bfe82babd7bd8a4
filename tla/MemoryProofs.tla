---------------------------- MODULE MemoryProofs ----------------------------
(***************************************************************************)
(* That a delivered tender is forgotten in the four known ways only, for    *)
(* any number of processes, whatever the operator does meanwhile.        *)
(***************************************************************************)
EXTENDS PipelineProofs

\* A dry run never counts as sent, so only delivered reports are in flight.
DryUnsent == \A r \in Runs : run[r].dry => ~run[r].sent

MemoryInv == IInv /\ DryUnsent /\ EmailedIsRemembered

-----------------------------------------------------------------------------
(* What a step of one cycle leaves alone *)

\* The report of a cycle that did not move is in flight as before.
LEMMA OthersStayInFlight ==
  ASSUME IInv, log' = log, NEW r \in Runs, NEW c, HandOn(r, c)
  PROVE  InFlight \subseteq
           InFlight' \cup (IF At(r, "persist") /\ run[r].sent THEN NewTenders(r) ELSE {})
<1> SUFFICES ASSUME NEW q \in Runs, At(q, "persist"), run[q].sent, q # r
             PROVE  NewTenders(q) \subseteq InFlight'
  BY DEF InFlight
<1>1. run'[q] = run[q]
  BY DEF HandOn, IInv, TypeOK
<1>2. NewTenders(q)' = NewTenders(q)
  BY <1>1 DEF NewTenders, TendersOf
<1>3. At(q, "persist")' /\ run'[q].sent
  BY <1>1 DEF At
<1> QED
  BY <1>2, <1>3 DEF InFlight

\* A step that delivers nothing, and that puts what the cycle had in flight and
\* what was forgotten somewhere, keeps everything remembered.
LEMMA StillRemembered ==
  ASSUME MemoryInv, log' = log, emailed' = emailed, NEW r \in Runs, NEW c, HandOn(r, c),
         SeenAtPath \subseteq SeenAtPath',
         forgotten \subseteq forgotten' \cup SeenAtPath',
         At(r, "persist") /\ run[r].sent => NewTenders(r) \subseteq SeenAtPath' \cup forgotten'
  PROVE  EmailedIsRemembered'
<1>1. IInv
  BY DEF MemoryInv
<1>2. InFlight \subseteq InFlight' \cup SeenAtPath' \cup forgotten'
  BY <1>1, OthersStayInFlight
<1> QED
  BY <1>2 DEF MemoryInv, EmailedIsRemembered

\* Cycles that do not move stay as they are, whatever PROZORRO publishes.
LEMMA AllStayInFlight ==
  ASSUME IInv, LogGrows, run' = run
  PROVE  InFlight \subseteq InFlight'
<1> SUFFICES ASSUME NEW q \in Runs, At(q, "persist"), run[q].sent
             PROVE  NewTenders(q) \subseteq InFlight'
  BY DEF InFlight
<1>1. run[q].work \subseteq 1 .. Len(log)
  BY DEF IInv, CycleInv, At, Working, WorkInv
<1>2. NewTenders(q)' = NewTenders(q)
  BY <1>1 DEF NewTenders, TendersOf, LogGrows
<1>3. At(q, "persist")' /\ run'[q].sent
  BY DEF At
<1> QED
  BY <1>2, <1>3 DEF InFlight

\* DryUnsent of a cycle that moved, and of the others.
LEMMA StillUnsent ==
  ASSUME MemoryInv, NEW r \in Runs, NEW c, HandOn(r, c), c.dry => ~c.sent
  PROVE  DryUnsent'
<1>1. run' \in [Runs -> {run'[q] : q \in Runs}] /\ run'[r] = c
  BY DEF MemoryInv, IInv, TypeOK, HandOn
<1>2. \A q \in Runs : q # r => run'[q] = run[q]
  BY DEF MemoryInv, IInv, TypeOK, HandOn
<1> QED
  BY <1>1, <1>2 DEF MemoryInv, DryUnsent

\* Opening the database shows no history that was not there before.
LEMMA OpenKeepsHistory ==
  ASSUME IInv, Open
  PROVE  SeenAtPath \subseteq SeenAtPath'
  BY DEF Open, SeenAtPath, IInv, TypeOK, StorageTypeOK

\* Usage rows leave the history at db_path alone.
LEMMA UsageKeepsHistory ==
  ASSUME IInv, NEW r \in Runs, NEW called \in BOOLEAN, RecordUsage(run[r].db, called),
         UNCHANGED <<created, path>>
  PROVE  SeenAtPath' = SeenAtPath
<1>1. run[r].db \in Files /\ StorageTypeOK
  BY DEF IInv, TypeOK, Cycle
<1>2. \A f \in Files : files'[f].seen = files[f].seen
  BY <1>1, UsageOnly
<1>3. path \in Files \cup {0}
  BY <1>1, FilesAssumption DEF StorageTypeOK, Files
<1> QED
  BY <1>2, <1>3 DEF SeenAtPath

-----------------------------------------------------------------------------
(* The steps *)

\* The nodes that only hand on listings, and a commit that writes the cursor.
LEMMA NodeRemembers ==
  ASSUME MemoryInv, NEW r \in Runs,
         \/ CrawlBegin(r) \/ CrawlEnd(r) \/ Prefilter(r) \/ Dedupe(r) \/ DeadlineCheck(r)
         \/ SkipEmail(r) \/ SaveCursor(r) \/ Finish(r)
  PROVE  DryUnsent' /\ EmailedIsRemembered'
<1>0. run[r] \in Cycle /\ (run[r].dry => ~run[r].sent)
  BY DEF MemoryInv, IInv, TypeOK, DryUnsent
<1>1. \E c : HandOn(r, c) /\ (c.dry => ~c.sent)
  <2>1. CASE CrawlBegin(r)
    <3>1. PICK from \in Positions :
            HandOn(r, [run[r] EXCEPT !.pc = "crawling", !.from = from, !.edge = Len(log)])
      BY <2>1 DEF CrawlBegin
    <3> DEFINE c == [run[r] EXCEPT !.pc = "crawling", !.from = from, !.edge = Len(log)]
    <3>2. c.dry => ~c.sent
      BY <1>0 DEF Cycle
    <3> QED
      BY <3>1, <3>2
  <2>2. CASE CrawlEnd(r)
    <3>1. PICK next \in Positions, kept \in SUBSET Listable(run[r].from, run[r].edge) :
            HandOn(r, [run[r] EXCEPT !.pc = "prefilter", !.from = NoCursor, !.edge = 0,
                                     !.next = next, !.work = kept])
      BY <2>2 DEF CrawlEnd
    <3> DEFINE c == [run[r] EXCEPT !.pc = "prefilter", !.from = NoCursor, !.edge = 0,
                                   !.next = next, !.work = kept]
    <3>2. c.dry => ~c.sent
      BY <1>0 DEF Cycle
    <3> QED
      BY <3>1, <3>2
  <2>3. CASE Prefilter(r)
    <3>1. PICK kept \in SUBSET run[r].work :
            HandOn(r, [run[r] EXCEPT !.pc = "classify", !.work = kept])
      BY <2>3 DEF Prefilter
    <3> DEFINE c == [run[r] EXCEPT !.pc = "classify", !.work = kept]
    <3>2. c.dry => ~c.sent
      BY <1>0 DEF Cycle
    <3> QED
      BY <3>1, <3>2
  <2>4. CASE Dedupe(r)
    <3> DEFINE unseen == FilterUnseen(run[r].db, NewTenders(r))
               c == [run[r] EXCEPT !.pc = "deadline_check",
                                   !.work = {i \in @ : log[i].tender \in unseen}]
    <3>1. HandOn(r, c)
      BY <2>4 DEF Dedupe
    <3>2. c.dry => ~c.sent
      BY <1>0 DEF Cycle
    <3> QED
      BY <3>1, <3>2
  <2>5. CASE DeadlineCheck(r)
    <3>1. PICK due \in DeadlineReminders(run[r].db) :
            HandOn(r, [run[r] EXCEPT
                         !.pc = IF HasWork(run[r].work, due) THEN "render" ELSE "persist",
                         !.reminders = due])
      BY <2>5 DEF DeadlineCheck
    <3> DEFINE c == [run[r] EXCEPT
                       !.pc = IF HasWork(run[r].work, due) THEN "render" ELSE "persist",
                       !.reminders = due]
    <3>2. c.dry => ~c.sent
      BY <1>0 DEF Cycle
    <3> QED
      BY <3>1, <3>2
  <2>6. CASE SkipEmail(r)
    BY <1>0, <2>6 DEF SkipEmail, Cycle
  <2>7. CASE SaveCursor(r)
    BY <1>0, <2>7 DEF SaveCursor, Cycle
  <2>8. CASE Finish(r)
    BY <2>8 DEF Finish, Idle
  <2> QED
    BY <2>1, <2>2, <2>3, <2>4, <2>5, <2>6, <2>7, <2>8
<1>2. PICK c : HandOn(r, c) /\ (c.dry => ~c.sent)
  BY <1>1
<1>3. DryUnsent'
  BY <1>2, StillUnsent
<1>4. /\ log' = log /\ emailed' = emailed /\ path' = path /\ forgotten' = forgotten
      /\ ~At(r, "persist")
  BY DEF CrawlBegin, CrawlEnd, Prefilter, Dedupe, DeadlineCheck, SkipEmail, SaveCursor,
         Finish, At, storageVars, ghosts
<1>5. SeenAtPath' = SeenAtPath
  <2>1. CASE SaveCursor(r)
    <3>1. \A f \in Files : files'[f].seen = files[f].seen
      BY <2>1 DEF SaveCursor, SetOffset, MemoryInv, IInv, TypeOK, StorageTypeOK, Database
    <3>2. path \in Files \cup {0}
      BY FilesAssumption DEF MemoryInv, IInv, TypeOK, StorageTypeOK, Files
    <3> QED
      BY <1>4, <3>1, <3>2 DEF SeenAtPath
  <2>2. CASE ~SaveCursor(r)
    <3>1. files' = files
      BY <2>2 DEF CrawlBegin, CrawlEnd, Prefilter, Dedupe, DeadlineCheck, SkipEmail,
                  Finish, storageVars
    <3> QED
      BY <1>4, <3>1 DEF SeenAtPath
  <2> QED
    BY <2>1, <2>2
<1>6. EmailedIsRemembered'
  BY <1>2, <1>4, <1>5, StillRemembered
<1> QED
  BY <1>3, <1>6

\* _run_once opens the database, which may create it.
LEMMA StartRemembers ==
  ASSUME MemoryInv, NEW r \in Runs, NEW dry \in BOOLEAN, Start(r, dry)
  PROVE  DryUnsent' /\ EmailedIsRemembered'
<1> DEFINE c == [Idle EXCEPT !.pc = "crawl", !.dry = dry, !.db = path']
<1>1. HandOn(r, c) /\ ~c.sent
  BY DEF Start, Idle
<1>2. DryUnsent'
  BY <1>1, StillUnsent
<1>3. SeenAtPath \subseteq SeenAtPath'
  BY OpenKeepsHistory DEF Start, MemoryInv
<1>4. log' = log /\ emailed' = emailed /\ forgotten' = forgotten /\ ~At(r, "persist")
  BY DEF Start, ghosts, At
<1>5. EmailedIsRemembered'
  BY <1>1, <1>3, <1>4, StillRemembered
<1> QED
  BY <1>2, <1>5

\* The LLM nodes add usage rows.
LEMMA LLMRemembers ==
  ASSUME MemoryInv, NEW r \in Runs, Classify(r) \/ Render(r)
  PROVE  DryUnsent' /\ EmailedIsRemembered'
<1>0. run[r] \in Cycle /\ (run[r].dry => ~run[r].sent)
  BY DEF MemoryInv, IInv, TypeOK, DryUnsent
<1>1. PICK c : HandOn(r, c) /\ (c.dry => ~c.sent)
  <2>1. CASE Classify(r)
    <3>1. PICK relevant \in SUBSET run[r].work, failures \in BOOLEAN :
            HandOn(r, [run[r] EXCEPT !.pc = "dedupe", !.work = relevant, !.failures = failures])
      BY <2>1 DEF Classify
    <3> DEFINE d == [run[r] EXCEPT !.pc = "dedupe", !.work = relevant, !.failures = failures]
    <3>2. d.dry => ~d.sent
      BY <1>0 DEF Cycle
    <3> QED
      BY <3>1, <3>2
  <2>2. CASE Render(r)
    <3>1. PICK failed \in BOOLEAN :
            HandOn(r, [run[r] EXCEPT !.pc = "notify", !.failures = @ \/ failed])
      BY <2>2 DEF Render
    <3> DEFINE d == [run[r] EXCEPT !.pc = "notify", !.failures = @ \/ failed]
    <3>2. d.dry => ~d.sent
      BY <1>0 DEF Cycle
    <3> QED
      BY <3>1, <3>2
  <2> QED
    BY <2>1, <2>2
<1>2. DryUnsent'
  BY <1>1, StillUnsent
<1>3. PICK answered \in BOOLEAN : RecordUsage(run[r].db, answered)
  BY DEF Classify, Render
<1>4. /\ log' = log /\ emailed' = emailed /\ forgotten' = forgotten
      /\ UNCHANGED <<created, path>> /\ ~At(r, "persist")
  BY DEF Classify, Render, ghosts, At
<1>5. SeenAtPath' = SeenAtPath
  BY <1>3, <1>4, UsageKeepsHistory DEF MemoryInv
<1>6. EmailedIsRemembered'
  BY <1>1, <1>4, <1>5, StillRemembered
<1> QED
  BY <1>2, <1>6

\* A delivery is in flight from then on.
LEMMA NotifyRemembers ==
  ASSUME MemoryInv, NEW r \in Runs, Notify(r)
  PROVE  DryUnsent' /\ EmailedIsRemembered'
<1> DEFINE c == [run[r] EXCEPT !.pc = "persist", !.sent = TRUE]
<1>1. HandOn(r, c) /\ run[r] \in Cycle /\ ~run[r].dry /\ run'[r] = c
  BY DEF Notify, MemoryInv, IInv, TypeOK, HandOn
<1>2. DryUnsent'
  BY <1>1, StillUnsent DEF Cycle
<1>3. /\ log' = log /\ forgotten' = forgotten /\ SeenAtPath' = SeenAtPath
      /\ emailed' = emailed \cup NewTenders(r) /\ ~At(r, "persist")
  BY DEF Notify, storageVars, SeenAtPath, At
<1>4. InFlight \subseteq InFlight'
  BY <1>1, <1>3, OthersStayInFlight DEF MemoryInv
<1>5. NewTenders(r) \subseteq InFlight'
  <2>1. run'[r].work = run[r].work /\ run'[r].sent /\ run'[r].pc = "persist"
    BY <1>1 DEF Cycle
  <2>2. NewTenders(r)' = NewTenders(r)
    BY <1>3, <2>1 DEF NewTenders, TendersOf
  <2> QED
    BY <2>1, <2>2 DEF InFlight, At
<1>6. EmailedIsRemembered'
  BY <1>3, <1>4, <1>5 DEF MemoryInv, EmailedIsRemembered
<1> QED
  BY <1>2, <1>6

\* A delivery whose cycle ends at once is forgotten where it was not recorded.
LEMMA NotifyUnconfirmedRemembers ==
  ASSUME MemoryInv, NEW r \in Runs, NotifyUnconfirmed(r)
  PROVE  DryUnsent' /\ EmailedIsRemembered'
<1>1. HandOn(r, Idle) /\ ~Idle.dry
  BY DEF NotifyUnconfirmed, Idle
<1>2. DryUnsent'
  BY <1>1, StillUnsent
<1>3. /\ log' = log /\ SeenAtPath' = SeenAtPath /\ ~At(r, "persist")
      /\ emailed' = emailed \cup NewTenders(r)
      /\ forgotten' = forgotten \cup (NewTenders(r) \ SeenAtPath)
  BY DEF NotifyUnconfirmed, storageVars, SeenAtPath, Unrecorded, At
<1>4. InFlight \subseteq InFlight'
  BY <1>1, <1>3, OthersStayInFlight DEF MemoryInv
<1>5. EmailedIsRemembered'
  BY <1>3, <1>4 DEF MemoryInv, EmailedIsRemembered
<1> QED
  BY <1>2, <1>5

\* The first commit of persist records the report where the cycle's file is
\* still the one at db_path, and forgets it where reset-db took the file away.
LEMMA PersistRemembers ==
  ASSUME MemoryInv, NEW r \in Runs, Persist(r)
  PROVE  DryUnsent' /\ EmailedIsRemembered'
<1>0. /\ run[r] \in Cycle /\ (run[r].dry => ~run[r].sent) /\ At(r, "persist")
      /\ StorageTypeOK
  BY DEF MemoryInv, IInv, TypeOK, DryUnsent, Persist
<1>1. PICK c : HandOn(r, c) /\ (c.dry => ~c.sent)
  BY <1>0 DEF Persist, Cycle
<1>2. DryUnsent'
  BY <1>1, StillUnsent
<1>3. log' = log /\ emailed' = emailed /\ path' = path
  BY DEF Persist
<1>4. path \in Files \cup {0} /\ run[r].db \in Files
  BY <1>0, FilesAssumption DEF StorageTypeOK, Files, Cycle
<1>5. /\ SeenAtPath \subseteq SeenAtPath'
      /\ forgotten \subseteq forgotten' \cup SeenAtPath'
      /\ run[r].sent => NewTenders(r) \subseteq SeenAtPath' \cup forgotten'
  <2>1. CASE run[r].dry
    <3>1. SeenAtPath' = SeenAtPath /\ forgotten' = forgotten
      BY <1>3, <2>1 DEF Persist, SeenAtPath
    <3> QED
      BY <1>0, <2>1, <3>1
  <2>2. CASE ~run[r].dry
    <3>1. /\ MarkReported(run[r].db, NewTenders(r))
          /\ forgotten' = IF run[r].db = path THEN forgotten \ NewTenders(r)
                          ELSE forgotten \cup Unrecorded(NewTenders(r))
      BY <2>2 DEF Persist
    <3>2. \A f \in Files : files'[f].seen = IF f = run[r].db
                                              THEN files[f].seen \cup NewTenders(r)
                                              ELSE files[f].seen
      BY <1>0, <3>1 DEF MarkReported, StorageTypeOK, Database
    <3>3. CASE run[r].db = path
      <4>1. SeenAtPath' = SeenAtPath \cup NewTenders(r)
        <5>1. path \in Files /\ path # 0
          BY <1>4, <3>3, FilesAssumption DEF Files
        <5>2. files'[path].seen = files[path].seen \cup NewTenders(r)
          BY <3>2, <3>3, <5>1
        <5> QED
          BY <1>3, <5>1, <5>2 DEF SeenAtPath
      <4> QED
        BY <3>1, <3>3, <4>1
    <3>4. CASE run[r].db # path
      <4>1. SeenAtPath' = SeenAtPath
        BY <1>3, <1>4, <3>2, <3>4 DEF SeenAtPath
      <4> QED
        BY <3>1, <3>4, <4>1 DEF Unrecorded
    <3> QED
      BY <3>3, <3>4
  <2> QED
    BY <2>1, <2>2
<1>6. EmailedIsRemembered'
  BY <1>1, <1>3, <1>5, StillRemembered
<1> QED
  BY <1>2, <1>6

\* A cycle that dies takes its delivered report with it.
LEMMA AbortRemembers ==
  ASSUME MemoryInv, NEW r \in Runs, Abort(r)
  PROVE  DryUnsent' /\ EmailedIsRemembered'
<1>1. HandOn(r, Idle) /\ ~Idle.dry
  BY DEF Abort, Idle
<1>2. DryUnsent'
  BY <1>1, StillUnsent
<1>3. /\ log' = log /\ emailed' = emailed /\ SeenAtPath' = SeenAtPath
      /\ forgotten \subseteq forgotten'
      /\ At(r, "persist") /\ run[r].sent => NewTenders(r) \subseteq SeenAtPath' \cup forgotten'
  BY DEF Abort, storageVars, SeenAtPath, Unrecorded
<1>4. EmailedIsRemembered'
  BY <1>1, <1>3, StillRemembered
<1> QED
  BY <1>2, <1>4

\* The feed and the operator's commands, none of which moves a cycle: what they
\* take out of the history is forgotten.
LEMMA WorldRemembers ==
  ASSUME MemoryInv, PublishNext \/ Inspect \/ ResetSeen \/ ResetDb \/ UNCHANGED vars
  PROVE  DryUnsent' /\ EmailedIsRemembered'
<1>1. run' = run /\ emailed' = emailed /\ LogGrows
  <2>1. CASE PublishNext
    <3>1. PICK t \in Tenders, open \in BOOLEAN : Publish(t, open)
      BY <2>1 DEF PublishNext
    <3>2. LogGrows
      BY <3>1 DEF Publish, MemoryInv, IInv, TypeOK, FeedTypeOK, LogGrows
    <3> QED
      BY <2>1, <3>2 DEF PublishNext, ghosts
  <2>2. CASE ~PublishNext
    <3>1. log' = log /\ run' = run /\ emailed' = emailed
      BY <2>2 DEF Inspect, ResetSeen, ResetDb, vars, ghosts
    <3> QED
      BY <3>1 DEF LogGrows, MemoryInv, IInv, TypeOK, FeedTypeOK
  <2> QED
    BY <2>1, <2>2
<1>2. DryUnsent'
  BY <1>1 DEF MemoryInv, DryUnsent
<1>3. InFlight \subseteq InFlight'
  BY <1>1, AllStayInFlight DEF MemoryInv
<1>4. SeenAtPath \cup forgotten \subseteq SeenAtPath' \cup forgotten'
  <2>1. CASE PublishNext \/ UNCHANGED vars
    BY <2>1 DEF PublishNext, vars, storageVars, ghosts, SeenAtPath
  <2>2. CASE Inspect
    BY <2>2, OpenKeepsHistory DEF Inspect, ghosts, MemoryInv
  <2>3. CASE ResetSeen
    BY <2>3 DEF ResetSeen, SeenAtPath
  <2>4. CASE ResetDb
    BY <2>4 DEF ResetDb, Unlink, SeenAtPath
  <2> QED
    BY <2>1, <2>2, <2>3, <2>4
<1>5. EmailedIsRemembered'
  BY <1>1, <1>3, <1>4 DEF MemoryInv, EmailedIsRemembered
<1> QED
  BY <1>2, <1>5

-----------------------------------------------------------------------------
(* The theorem *)

\* Nothing was delivered before the first command.
LEMMA MemoryInit == Init => MemoryInv
<1>1. Init => DryUnsent /\ EmailedIsRemembered
  BY DEF Init, DryUnsent, Idle, EmailedIsRemembered
<1> QED
  BY <1>1, InitSafe DEF MemoryInv

\* Every step keeps a delivered tender remembered.
LEMMA MemoryStep == MemoryInv /\ [AdminNext]_vars => MemoryInv'
<1> SUFFICES ASSUME MemoryInv, [AdminNext]_vars PROVE MemoryInv'
  OBVIOUS
<1>1. IInv'
  BY StepSafe DEF MemoryInv
<1>2. ASSUME NEW r \in Runs, CycleStep(r) PROVE DryUnsent' /\ EmailedIsRemembered'
  BY <1>2, StartRemembers, NodeRemembers, LLMRemembers, NotifyRemembers,
     NotifyUnconfirmedRemembers, PersistRemembers, AbortRemembers DEF CycleStep
<1>3. DryUnsent' /\ EmailedIsRemembered'
  BY <1>2, WorldRemembers DEF AdminNext, Next
<1> QED
  BY <1>1, <1>3 DEF MemoryInv

\* A delivered tender is in the history at db_path, in a report whose cycle has
\* not recorded it yet, or was forgotten: by reset-seen, by reset-db, by a cycle
\* that died with it, or by one that recorded it in a file reset-db removed.
THEOREM Remembered == AdminSpec => []EmailedIsRemembered
<1>1. MemoryInv => EmailedIsRemembered
  BY DEF MemoryInv
<1> QED
  BY <1>1, MemoryInit, MemoryStep, PTL DEF AdminSpec
=============================================================================
