------------------------------ MODULE Pipeline ------------------------------
(***************************************************************************)
(* pipeline.py and the commands of main.py around it: report cycles, each  *)
(* its own process, over one SQLite file and one PROZORRO feed.  A cycle   *)
(* goes crawl -> prefilter -> classify -> dedupe -> deadline_check ->      *)
(* (render -> notify) -> persist; it may raise or be killed between any    *)
(* two nodes, and between the two commits of persist.                      *)
(***************************************************************************)
EXTENDS Feed, Storage, Verdicts

CONSTANTS
    Runs,            \* processes that execute report cycles
    DryRunners,      \* those of them that may be started with --dry-run
    SendWhenEmpty    \* settings.send_when_empty

ASSUME RunsAssumption ==
    /\ DryRunners \subseteq Runs
    /\ SendWhenEmpty \in BOOLEAN

VARIABLES
    run,         \* run[r] is the cycle process r executes
    \* What happened, for the properties; no code reads these.
    emailed,     \* tenders some delivered report presented as new
    dropped,     \* feed entries a cycle let go: too old, no details, not relevant
    cleared,     \* tenders removed from the history by reset-seen or reset-db
    forgotten    \* emailed tenders that the file at db_path lost or never got

ghosts == <<emailed, dropped, cleared, forgotten>>
vars == <<log, files, created, path, run, emailed, dropped, cleared, forgotten>>

Nodes == {"crawl", "crawling", "prefilter", "classify", "dedupe",
          "deadline_check", "render", "notify", "persist", "save_cursor", "finish"}

\* PipelineState and PipelineContext.  The listings handed from node to node
\* (tenders, prefiltered, classified, new_tenders) are named by the feed
\* entries they were read from: one tender may be listed twice.
Cycle == [pc: Nodes \cup {"idle"}, dry: BOOLEAN, db: Files, from: Cursors,
          edge: Positions, next: Positions, work: SUBSET Positions,
          reminders: SUBSET Tenders, failures: BOOLEAN, sent: BOOLEAN]

Idle == [pc |-> "idle", dry |-> FALSE, db |-> 1, from |-> NoCursor, edge |-> 0,
         next |-> 0, work |-> {}, reminders |-> {}, failures |-> FALSE, sent |-> FALSE]

TendersOf(entries) == {log[i].tender : i \in entries}

NewTenders(r) == TendersOf(run[r].work)

TypeOK ==
    /\ FeedTypeOK
    /\ StorageTypeOK
    /\ run \in [Runs -> Cycle]
    /\ emailed \subseteq Tenders
    /\ dropped \subseteq Positions
    /\ cleared \subseteq Tenders
    /\ forgotten \subseteq Tenders

Init ==
    /\ FeedInit
    /\ StorageInit
    /\ run = [r \in Runs |-> Idle]
    /\ emailed = {} /\ dropped = {} /\ cleared = {} /\ forgotten = {}

\* Entries a cycle lets go although they were waiting for a report.
Drop(entries) == dropped' = dropped \cup (entries \cap Current(0, Len(log)))

\* Node `node` of cycle r ends and hands on to the next one.
At(r, node) == run[r].pc = node

HandOn(r, updated) == run' = [run EXCEPT ![r] = updated]

-----------------------------------------------------------------------------
(* The cycle *)

\* _run_once: open the database and enter the graph.
Start(r, dry) ==
    /\ At(r, "idle")
    /\ dry => r \in DryRunners
    /\ Open
    /\ HandOn(r, [Idle EXCEPT !.pc = "crawl", !.dry = dry, !.db = path'])
    /\ UNCHANGED <<log, ghosts>>

\* Deviation: the crawl starts one entry late.
LookbackOffsetLate(r, from) ==
    IF files[run[r].db].offset = NoCursor
      THEN from \in 0 .. Len(log)
      ELSE from \in {files[run[r].db].offset, files[run[r].db].offset + 1} \cap 0 .. Len(log)

\* Without a cursor the crawl starts at the entries of the last
\* crawl_lookback_days; what is older is given up.
LookbackOffset(r, from) ==
    IF files[run[r].db].offset = NoCursor
      THEN from \in 0 .. Len(log)
      ELSE from = files[run[r].db].offset

\* _crawl reads the cursor, then awaits the client.
CrawlBegin(r) ==
    /\ At(r, "crawl")
    /\ \E from \in Positions :
         /\ LookbackOffset(r, from)
         /\ HandOn(r, [run[r] EXCEPT !.pc = "crawling", !.from = from, !.edge = Len(log)])
         /\ Drop(IF files[run[r].db].offset = NoCursor THEN 1 .. from ELSE {})
    /\ UNCHANGED <<log, storageVars, emailed, cleared, forgotten>>

\* Deviation: the cursor is saved as soon as the crawl is over.
CrawlEndSavesCursor(r) ==
    /\ At(r, "crawling")
    /\ \E next \in Positions, kept \in SUBSET Listable(run[r].from, run[r].edge) :
         /\ CrawlOutcome(run[r].from, run[r].edge, next, kept,
                         Current(run[r].from, next) \ kept)
         /\ HandOn(r, [run[r] EXCEPT !.pc = "prefilter", !.from = NoCursor, !.edge = 0,
                                     !.next = next, !.work = kept])
         /\ Drop(Current(run[r].from, next) \ kept)
         /\ SetOffset(run[r].db, next)
    /\ UNCHANGED <<log, created, path, emailed, cleared, forgotten>>

\* The client answers.  A listing whose details could not be fetched is left
\* out with a warning, the cursor passes over it all the same.
CrawlEnd(r) ==
    /\ At(r, "crawling")
    /\ \E next \in Positions, kept \in SUBSET Listable(run[r].from, run[r].edge) :
         /\ CrawlOutcome(run[r].from, run[r].edge, next, kept,
                         Current(run[r].from, next) \ kept)
         /\ HandOn(r, [run[r] EXCEPT !.pc = "prefilter", !.from = NoCursor, !.edge = 0,
                                     !.next = next, !.work = kept])
         /\ Drop(Current(run[r].from, next) \ kept)
    /\ UNCHANGED <<log, storageVars, emailed, cleared, forgotten>>

\* filters.matches() decides on the content of each tender, which the model
\* leaves out: it may keep any of them.
Prefilter(r) ==
    /\ At(r, "prefilter")
    /\ \E kept \in SUBSET run[r].work :
         /\ HandOn(r, [run[r] EXCEPT !.pc = "classify", !.work = kept])
         /\ Drop(run[r].work \ kept)
    /\ UNCHANGED <<log, storageVars, emailed, cleared, forgotten>>

\* The LLM's verdict on every listing; a listing both models failed on gets
\* the default verdict, not relevant.  Every answer is recorded at once, in a
\* dry run as well.
Classify(r) ==
    /\ At(r, "classify")
    /\ \E relevant \in SUBSET run[r].work, failures, answered \in BOOLEAN :
         /\ ClassifyOutcome(run[r].work, relevant, failures, answered)
         /\ HandOn(r, [run[r] EXCEPT !.pc = "dedupe", !.work = relevant, !.failures = failures])
         /\ Drop(run[r].work \ relevant)
         /\ RecordUsage(run[r].db, answered)
    /\ UNCHANGED <<log, created, path, emailed, cleared, forgotten>>

\* Deviation: a report goes out whole as soon as one of its tenders is new.
DedupeWholesale(r) ==
    /\ At(r, "dedupe")
    /\ LET unseen == FilterUnseen(run[r].db, NewTenders(r)) IN
         HandOn(r, [run[r] EXCEPT !.pc = "deadline_check",
                                  !.work = IF unseen = {} THEN {} ELSE @])
    /\ UNCHANGED <<log, storageVars, ghosts>>

\* Deviation: dedupe claims the tenders it lets through at once.
DedupeClaims(r) ==
    /\ At(r, "dedupe")
    /\ LET unseen == FilterUnseen(run[r].db, NewTenders(r)) IN
         /\ HandOn(r, [run[r] EXCEPT !.pc = "deadline_check",
                                     !.work = {i \in @ : log[i].tender \in unseen}])
         /\ MarkReported(run[r].db, unseen)
    /\ UNCHANGED <<log, created, path, ghosts>>

\* Drops what was reported before; two listings of one new tender both stay.
Dedupe(r) ==
    /\ At(r, "dedupe")
    /\ LET unseen == FilterUnseen(run[r].db, NewTenders(r)) IN
         HandOn(r, [run[r] EXCEPT !.pc = "deadline_check",
                                  !.work = {i \in @ : log[i].tender \in unseen}])
    /\ UNCHANGED <<log, storageVars, ghosts>>

\* Deviation: only new tenders count.
HasWorkNewOnly(work, reminders) == work # {}

\* route_after_deadline_check
HasWork(work, reminders) == work # {} \/ reminders # {} \/ SendWhenEmpty

DeadlineCheck(r) ==
    /\ At(r, "deadline_check")
    /\ \E due \in DeadlineReminders(run[r].db) :
         HandOn(r, [run[r] EXCEPT
                      !.pc = IF HasWork(run[r].work, due) THEN "render" ELSE "persist",
                      !.reminders = due])
    /\ UNCHANGED <<log, storageVars, ghosts>>

\* Summaries (an empty one when both models fail), the report and its audit copy.
Render(r) ==
    /\ At(r, "render")
    /\ \E failed, answered \in BOOLEAN :
         /\ SummariesOutcome(run[r].work, failed, answered)
         /\ HandOn(r, [run[r] EXCEPT !.pc = "notify", !.failures = @ \/ failed])
         /\ RecordUsage(run[r].db, answered)
    /\ UNCHANGED <<log, created, path, ghosts>>

\* Deviation: a send that fails is treated like one that was not wanted.
SkipFailedEmail(r) ==
    /\ At(r, "notify")
    /\ HandOn(r, [run[r] EXCEPT !.pc = "persist"])
    /\ UNCHANGED <<log, storageVars, ghosts>>

\* _notify in a dry run.
SkipEmail(r) ==
    /\ At(r, "notify")
    /\ run[r].dry
    /\ HandOn(r, [run[r] EXCEPT !.pc = "persist"])
    /\ UNCHANGED <<log, storageVars, ghosts>>

\* _notify: the SMTP server took the message and the session ended well.
Notify(r) ==
    /\ At(r, "notify")
    /\ ~run[r].dry
    /\ HandOn(r, [run[r] EXCEPT !.pc = "persist", !.sent = TRUE])
    /\ emailed' = emailed \cup NewTenders(r)
    /\ UNCHANGED <<log, storageVars, dropped, cleared, forgotten>>

\* The tenders of a delivered report that the file at db_path does not hold.
SeenAtPath == IF path = 0 THEN {} ELSE files[path].seen

Unrecorded(tenders) == tenders \ SeenAtPath

\* _notify: the server took the message, then the process was killed or the
\* session's QUIT failed, which send() reports as a failure.
NotifyUnconfirmed(r) ==
    /\ At(r, "notify")
    /\ ~run[r].dry
    /\ HandOn(r, Idle)
    /\ emailed' = emailed \cup NewTenders(r)
    /\ forgotten' = forgotten \cup Unrecorded(NewTenders(r))
    /\ UNCHANGED <<log, storageVars, dropped, cleared>>

\* Deviation: a dry run persists as well.
PersistDryRun(r) ==
    /\ At(r, "persist")
    /\ HandOn(r, [run[r] EXCEPT !.pc = "save_cursor"])
    /\ MarkReported(run[r].db, NewTenders(r))
    /\ UNCHANGED <<log, created, path, ghosts>>

\* Deviation: the cursor is committed before the tenders are marked.
PersistCursorFirst(r) ==
    /\ At(r, "persist")
    /\ IF files[run[r].db].offset # run[r].next
         THEN /\ SetOffset(run[r].db, run[r].next)
              /\ UNCHANGED run
         ELSE /\ MarkReported(run[r].db, NewTenders(r))
              /\ HandOn(r, [run[r] EXCEPT !.pc = "save_cursor"])
    /\ UNCHANGED <<log, created, path, ghosts>>

\* _persist, first commit: storage.mark_reported(records).
Persist(r) ==
    /\ At(r, "persist")
    /\ IF run[r].dry
         THEN /\ HandOn(r, [run[r] EXCEPT !.pc = "finish"])
              /\ UNCHANGED <<files, forgotten>>
         ELSE /\ HandOn(r, [run[r] EXCEPT !.pc = "save_cursor"])
              /\ MarkReported(run[r].db, NewTenders(r))
              /\ forgotten' = IF run[r].db = path
                                THEN forgotten \ NewTenders(r)
                                ELSE forgotten \cup Unrecorded(NewTenders(r))
    /\ UNCHANGED <<log, created, path, emailed, dropped, cleared>>

\* Deviation: a cycle with nothing to report leaves the cursor where it was.
SaveCursorOfReport(r) ==
    /\ At(r, "save_cursor")
    /\ HandOn(r, [run[r] EXCEPT !.pc = "finish"])
    /\ SetOffset(run[r].db, IF run[r].work = {} THEN files[run[r].db].offset ELSE run[r].next)
    /\ UNCHANGED <<log, created, path, ghosts>>

\* _persist, second commit: storage.set_offset(offset).
SaveCursor(r) ==
    /\ At(r, "save_cursor")
    /\ HandOn(r, [run[r] EXCEPT !.pc = "finish"])
    /\ SetOffset(run[r].db, run[r].next)
    /\ UNCHANGED <<log, created, path, ghosts>>

\* The status _run_once logs and narrates.
Status(r) ==
    IF run[r].failures THEN "degraded"
    ELSE IF ~run[r].sent /\ ~run[r].dry /\ ~SendWhenEmpty THEN "no_email"
    ELSE "succeeded"

Finish(r) ==
    /\ At(r, "finish")
    /\ HandOn(r, Idle)
    /\ UNCHANGED <<log, storageVars, ghosts>>

\* A node raises (PROZORRO unreachable, database locked, PDF or SMTP failure,
\* no recipients, ...) or the process is killed.
Abort(r) ==
    /\ ~At(r, "idle")
    /\ HandOn(r, Idle)
    /\ forgotten' = IF At(r, "persist") /\ run[r].sent
                      THEN forgotten \cup Unrecorded(NewTenders(r)) ELSE forgotten
    /\ UNCHANGED <<log, storageVars, emailed, dropped, cleared>>

-----------------------------------------------------------------------------
(* The other commands of main.py *)

\* healthcheck and stats open the database, which creates it when missing.
Inspect ==
    /\ path = 0
    /\ Open
    /\ UNCHANGED <<log, run, ghosts>>

\* reset-seen on the database at db_path, which it creates when missing: the
\* cursor and the usage rows stay.
ResetSeen ==
    /\ path # 0
    /\ ClearSeen(path)
    /\ cleared' = cleared \cup files[path].seen
    /\ forgotten' = forgotten \cup files[path].seen
    /\ UNCHANGED <<log, created, path, run, emailed, dropped>>

\* reset-db --yes
ResetDb ==
    /\ Unlink
    /\ cleared' = cleared \cup files[path].seen
    /\ forgotten' = forgotten \cup files[path].seen
    /\ UNCHANGED <<log, run, emailed, dropped>>

PublishNext ==
    /\ \E t \in Tenders, open \in BOOLEAN : Publish(t, open)
    /\ UNCHANGED <<storageVars, run, ghosts>>

-----------------------------------------------------------------------------
CycleStep(r) ==
    \/ \E dry \in BOOLEAN : Start(r, dry)
    \/ CrawlBegin(r) \/ CrawlEnd(r)
    \/ Prefilter(r) \/ Classify(r) \/ Dedupe(r) \/ DeadlineCheck(r) \/ Render(r)
    \/ SkipEmail(r) \/ Notify(r) \/ NotifyUnconfirmed(r)
    \/ Persist(r) \/ SaveCursor(r) \/ Finish(r) \/ Abort(r)

Next == PublishNext \/ \E r \in Runs : CycleStep(r)

Spec == Init /\ [][Next]_vars

\* The operator's commands as well.
AdminNext == Next \/ Inspect \/ ResetSeen \/ ResetDb

AdminSpec == Init /\ [][AdminNext]_vars
=============================================================================
