# Verification of the tender agent

TLA+ models of `src/tender_agent`, model-checked with TLC on small instances,
and theorems that TLAPS checks for every value of the constants: every safety
property of a passing run is one of them. Every definition is translated from
the source; `PROJECT.json` gives the lines each one stands for.

## 1. The system

The agent runs *report cycles*, by its own cron scheduler or by
`tender-agent run --now`. A cycle crawls the PROZORRO feed from a saved cursor,
narrows the tenders down (keyword prefilter, LLM verdict, history), e-mails a
report, and records what it reported and how far it read.

| Part | State it keeps | Operations | Talks to |
|---|---|---|---|
| Pipeline (`pipeline.py`, `state.py`) | `PipelineState`, handed from node to node | crawl, prefilter, classify, dedupe, deadline_check, render, notify, persist | everything below |
| Storage (`storage.py`) | SQLite file: `feed_offset`, `seen_tenders`, `llm_usage` | open, get/set_offset, filter_unseen, mark_reported, get_deadline_reminders, clear_seen, record_usage, usage_rollup | pipeline, LLM client, commands |
| PROZORRO client (`prozorro/`) | cursor, listed ids, retries, semaphore | crawl, fetch_tender, paging, detail fetch, retry | PROZORRO (HTTP) |
| LLM client (`llm.py`, `errors.py`) | failures of the run | classify, summarize, fallback, accounting | LLM providers, storage |
| E-mail (`emailer/sender.py`, `recipients.py`) | none | send, load_recipients | SMTP server |
| Report (`emailer/report.py`, `pdf.py`, template) | files in `reports_dir` | render_report, render_pdf, save | pipeline, test-send |
| Commands, scheduler (`main.py`) | the process, its single job, the cron trigger | run, schedule, stats, healthcheck, reset-seen, reset-db, test-send | all |
| Filters, settings, logging | configuration | load, match, format | all |

### What is hard

* **Crashes between effects.** A report is delivered, then the history is
  committed, then the cursor. The process may die, or a step fail, in between;
  no transaction spans them.
* **Overlap.** Nothing locks the database for the length of a cycle: a manual
  run and the scheduled one interleave at every node, and `reset-db` may unlink
  the file under both.
* **A feed that moves.** PROZORRO publishes while the client pages; a modified
  tender moves to the end, so pages shift and a tender may be listed twice.
* **Failure of one of many.** A page or detail request is retried a bounded
  number of times; one lost detail is a warning, one malformed detail aborts the
  crawl. An LLM answer that cannot be recorded is a failed answer.
* **Time.** Reminders compare deadlines, written in local time, with UTC as
  texts. The window is three days from the moment the check runs, some time after
  the trigger and some time before the report is out; the week-end of the schedule
  is three days from trigger to trigger. The scheduler drops every trigger it
  misses.
* **Mail that half succeeds.** The server may refuse some recipients, take the
  message and lose the reply, or fail at QUIT, after which the report counts as
  not sent.
* **Files written in place.** A report is emptied, then written; processes share
  the directory, test-send reads it, and a second of local time names a file.
* **Progress.** Any single cycle may fail, the next one starts from what was
  saved; the cursor and every tender must still get there.

`PROJECT.json` lists each hazard at its line with the properties that guard it.

## 2. Modules

```
Domain  tenders, positions, cursors
 +- Feed            the PROZORRO log; Current, Listable, CrawlOutcome
 |   +- Subscription        abstract: what the agent promises its readers
 |   +- Crawl               abstract: a crawl is one step with CrawlOutcome
 |   +- ProzorroClient      client.py, implements Crawl
 |       +- ClientProofs    its theorems
 +- Storage         the SQLite files
Verdicts            ClassifyOutcome, SummariesOutcome
 +- LLMClient               llm.py under classify/render, implements the outcomes
     +- LLMProofs           its theorems
     +- MCLLMClient         its instance
Feed + Storage + Verdicts
 +- Pipeline                pipeline.py and the commands of main.py
     +- PipelineProperties  its properties, fairness, inductive invariant;
         |                  shows Subscription at db_path
         +- PipelineProofs  the theorems about cursor and history
         |   +- MemoryProofs    what is forgotten
         |       +- CycleProofs     the status, dry runs, cycles that do not overlap
         |           +- SubscriptionProofs  the refinement
         +- MCPipeline      its instances
Scheduler           the weekly trigger and its one job
 +- Reminders               deadline_check, dedupe and persist over time
     +- RemindersProofs     its theorems
Notification        abstract: what sending a report promises
 +- EmailSender             recipients.py and sender.py, implements Notification
Reports             file names, files in place
Reports + EmailSender
 +- Delivery                render, save and notify beside test-send
     +- DeliveryProofs      its theorems
     +- MCDelivery          its instance
```

The composition is by *outcomes*. `Pipeline` does not page, retry or speak SMTP:
its `CrawlEnd` takes any result `CrawlOutcome` allows, its `Classify` and
`Render` any result of `Verdicts`, its `_notify` has the three endings of
`Notification`. The detailed modules show that the code gives no other result:
`ProzorroClient` refines `Crawl` (`ImplementsCrawl`, an `INSTANCE ... WITH` that
shows the cursor and the listings only once the crawl is done), `LLMClient` keeps
the outcomes as the step of each whole node (`ImplementsOutcomes`), and
`EmailSender` refines `Notification` (`ImplementsNotification`). All three are
theorems.

**Subscription** is the other direction: what all of it amounts to for whoever
reads the reports. It knows no process, node or file, only the feed, what was
reported, what a cycle still *owes* to the history, the history, what was lost
or erased, and the cursor. A tender is reported, then remembered or lost, then
passed by the cursor (`Report`, `Remember`, `Lose`, `Advance`), and entries may
be let go on the way (`LetGo`). Two specifications say how well: `Spec` for
cycles that overlap, `OrderlySpec` for cycles that do not, which report only
what was never reported, or lost, settle all they owe at once and never take the
cursor back. `PipelineProperties` maps `Pipeline` to it at `settings.db_path`:
the history is `SeenAtPath`, owed is `InFlight`, lost is `forgotten`; what a
cycle does to a file that `reset-db` unlinked is a stutter, or loses what it
owed.

**Positions.** A cursor is the position of the last entry it covers, because
PROZORRO's offset is a modification time. `NoCursor` is `get_offset() = None`.
An entry is *superseded* once its tender was modified again. Listings are named
by the entry they were read from, so a tender that was listed twice in one crawl
is two listings, as in the code.

**Pipeline.** `run[r]` is the cycle of process `r`: its node, its database file,
the cursor it read, the one it will save, its listings (`work`), reminders and
status flags. Each node is one action, except where another process or a crash
can show: the crawl has `CrawlBegin` (cursor read) and `CrawlEnd`, and persist
has its two commits, `Persist` and `SaveCursor`. `_notify` has three outcomes:
`Notify`, `NotifyUnconfirmed` (the server took the message, then the session
failed or the process died) and `Abort`, which is any exception or kill at any
node. `Inspect` (stats, healthcheck), `ResetSeen` and `ResetDb` are the
operator's commands, enabled at any time. `emailed`, `dropped`, `cleared` and
`forgotten` record what happened and are read by properties only; `dropped` holds
what a cycle let go knowingly: older than the look-back window, no details,
filtered out, judged irrelevant.

**Storage.** A connection keeps naming the file it opened, so the model tells
files apart: `path` is the one `db_path` leads to, `Unlink` takes the name away,
`Open` creates another. A write of a cycle whose file was unlinked reaches the
orphan; SQLite may instead refuse it, which is `Abort`.

**ProzorroClient.** `pc` is where `crawl` is, `detail` what became of each
listing. One action per page outcome, per attempt and per detail outcome; the
semaphore bounds the requests on the way; `answered` records, for the
property, how much of the feed was published when the details of a listing came. `next_page` may be missing, repeat the
cursor or name the last entry of the page. An HTTP answer that is not JSON, or a
page or tender that does not validate, raises out of the crawl.

**LLMClient.** `task` is the stage of each coroutine. From an answer to the next
`await` no other coroutine runs, so recording, parsing and falling back are one
step. `pending` holds rows whose INSERT succeeded and whose COMMIT did not: they
stay in the connection's transaction and go along with the next commit.

**Scheduler.** `clock` is the time of the week; at a trigger the job is started
(`Launch`), skipped because the last one still runs (`SkipBusy`,
`max_instances=1`), or nobody was there within the grace second (`Misfire`).
`job()` catches what a cycle raises, so the slot is always given back.

**Reminders.** One cycle at a time, started by the scheduler. Every point of time
is kept as the *time left* until it (`due` at PROZORRO, `stored` in the history
row, `new` in the cycle's hands), so that the clock may run for ever in finitely
many states. The text of a deadline is its local time, hence `Offset` ahead of
the UTC text it is compared with: `InWindow` is that comparison. The nodes from
crawl to dedupe are one step (`Collect`), because the clock may pass inside any
stage; `Check` reads the clock when it runs and not when the trigger fired, and
`Notify` delivers what it found, any time later. `since`, `met`, `reminded` and
`extended` are for the properties: `since` is the time since the *check* of the
last report that was delivered, `met` holds the tenders such a check found in the
history with the text of their deadline still ahead. The cycle carries the age of
its own check (`age`) and those tenders (`ahead`) until its report is delivered.

**EmailSender.** One action per call of `load_recipients` and `send()`:
`Connect`, `Login`, `Address` (MAIL and RCPT), `Data`, `Quit`. `mail` keeps the
refused addresses, what the try block raised and whom the server took the message
for. `finally: smtp.quit()` may raise in place of a success; smtplib's count of
refused addresses is modelled with the duplicates of an address in two fields.

**Reports.** Stems are seconds of local time, which runs backwards once when
summer time ends. A file is `Absent`, `Torn` (emptied or in parts) or holds the
report of that number. `Latest` is what test-send takes for the newest.

**Delivery.** `job[p]` is the end of a cycle or a test-send of process `p`: its
report in memory and the stem. Grouping and wording are left out; that rendering
may raise, as it does with a category `filters.yaml` lacks, is `Stop`.
Opening and filling each file are two steps, so a kill or another process can
come between; `spoiled` records, for the audit property, the PDFs that test-send
was killed writing, made of a half-written page, or wrote together with another
process. One process, `Mailer`, sends; its session is `EmailSender`'s.

## 3. Runs

| Run | Instance | What it shows |
|---|---|---|
| `cycle` | 1 process, dry or wet, 2 tenders, 3 entries, send_when_empty on | nothing the cursor covers is lost (`NoSilentLoss`), the status is honest, new and reminder do not mix, a dry run is inert, the cursor never moves back |
| `admin` | 1 process and the operator, 2 files, 2 entries, send_when_empty off | a delivered tender is remembered unless an operator, a crash or an orphan file forgot it (`EmailedIsRemembered`); only those are reported as new again; `ImplementsOrderly` |
| `overlap` | 2 processes, 2 tenders, 2 entries | the inductive invariant and the safety properties with every interleaving; `ImplementsSubscription` |
| `live` | 1 process, 1 tender, 2 entries, fair | the cursor catches up again and again; every entry is settled |
| `client` | 3 tenders, 3 entries, pages of 2, cap 2, 3 attempts, 2 slots, fair | `ImplementsCrawl`, the cursor stays behind the listings, a tender that closed before its details came is dropped, every crawl ends and no step of it undoes another (`CrawlProgresses`) |
| `llm` | 3 listings, 2 slots | outcomes, degraded silence, an unlogged call is a failure of the run, earned fallback, no model asked twice (`AskedOnce`) |
| `reminders` | 1 tender, units of 8 hours, trigger at 08:00, window 3 days, offset 1 unit, fair | a recorded deadline passes unreminded only more than a window after the check of the last report (less the offset, for the instant itself); cycles complete for ever |
| `delivery` | 2 processes, 2 reports, 3 seconds, 6 recipient lists | the audit copy survives but for the PDF that test-send spoils, sent means taken, late failures are e-mail errors, test-send is up to date, `ImplementsNotification` |
| `reported-twice`, `dry-run-writes`, `reset-seen`, `weekdays` | 1 process, or the schedule | what the documentation says and the code does not do (section 6) |

**Bounds.** `MaxFeed` and `MaxFiles` bound the feed and the files in the guards
of `Publish`, `Open` and `Unlink`; `MaxTime` and `MaxReports` bound the local
time and the reports in `SecondPasses` and `Render`; `MaxAhead` is the farthest
deadline. Two tenders are needed for a wrong one to be confused with a right one,
three entries for one tender to be superseded while another waits; two processes
give every pairwise race, two files one replacement. In the client three entries
make a second page and a listing whose neighbour was superseded; a cap of two
pages is reached; two slots with three listings make one wait. In `reminders`
tenders do not interact, so one is enough; eight hours divide the day so that the
trigger falls on a unit, and the offset of Kyiv is rounded up to one unit. Every
stage may take any number of units, so that the checks of two cycles lie nearer
together or farther apart than their triggers, and the week-end, three days from
trigger to trigger, is longer or shorter than the window. `MaxAhead` lies beyond
the window, so deadlines enter it from outside. In `delivery` two reports in three
seconds give both a shared and an own stem, the clock can fall back, and the six lists are those
`load_recipients` and `sendmail` treat differently. Larger values repeat these
cases. Tenders (and listings) are interchangeable, and so are processes; the runs
with liveness use no symmetry. The theorems do not depend on these bounds.

Deadlock is checked everywhere but in `llm`, whose batch ends with the report
handed to notify, and in `delivery`, where both bounds may be used up.

Each property of a passing run has a mutant: a definition named `Deviation:` in
its comment, which breaks the code in a plausible way and must break the
property.

## 4. Fairness

*Cycles* (`FairSpec` of PipelineProperties). The scheduler starts a cycle at
every trigger whatever happened to the last (`_cmd_schedule` catches and logs),
and asyncio runs it on: weak fairness of `CycleStep`. Any single cycle may die
anywhere. Strong fairness of a node on a crawl that reached the live edge says
that the outside world does not fail every time: PROZORRO answers, SMTP accepts,
SQLite commits some day. No fairness is given to `SkipEmail`, to the drops, to
PROZORRO's publishing or to the operator.

*Client* (`FairSpec` of ProzorroClient). asyncio keeps running the crawl and
httpx ends every request (`request_timeout_seconds`): weak fairness of
`ClientStep`, none of any particular outcome.

*Scheduler* (`FairSpec` of Reminders). Time passes (weak fairness of `Tick`) and
a stage that runs ends somehow, by its result or by `Fail`. Strong fairness of
`Start` and of each stage: the host does not sleep at every trigger and no stage
fails every time. The safety properties of that run need none of it.

The code puts no timeout of its own on LLM and SMTP calls, so that none hangs for
ever is an assumption, not a result.

## 5. Proofs

All theorems hold for any tenders, processes, listings, addresses and bounds,
under the named assumptions on the constants: `FeedAssumption`,
`FilesAssumption`, `RunsAssumption`, `ClientAssumption`, `ConcurrencyAssumption`,
`CronAssumption`, `WindowAssumption`, `ListsAssumption`, `ReportsAssumption`,
`MailerAssumption`. They cover type correctness, every invariant, every action
property and all refinements of the passing runs.

**PipelineProofs**: `Inductive` (`AdminSpec => []IInv`), `TypeCorrect`,
`DeliveredHistory`, `CursorSafe`, `NothingLost`, and `NothingLostByCycles` for
`Spec`. `NoSilentLoss` speaks of saved cursors only and is not inductive: whether
the next `SaveCursor` keeps it depends on what the cycle did since it read the
feed. `IInv` therefore follows the cursor through the cycle. Each entry a cursor
covers is *recorded* (superseded, closed, dropped, in the history of that very
file, or cleared from it), for the saved cursor (`CursorInv`), for the one a
crawl starts from (`StartInv`), for the one it will save apart from the listings
still in hand (`WorkInv`), and without exception once they are marked
(`MarkedInv`). The listings that reach persist outside a dry run are delivered.
The proof has one lemma per action; three facts carry it: what is recorded stays
recorded (`RecordedPersists`), a step of one cycle does not disturb another
(`CycleStays`, `CycleMoves`), and an entry let go is recorded
(`DroppedIsRecorded`).

**MemoryProofs**: `Remembered`, `AdminSpec => []EmailedIsRemembered`. The
invariant is `MemoryInv`: `IInv`, the property itself, and `DryUnsent`, that a
dry run never counts as sent. `IInv` is needed because a report in flight must
keep naming the same tenders while PROZORRO publishes, and `DryUnsent` because
persist drops the listings of a dry run without a word. Each step then either
leaves a delivered tender where it was or moves it: into flight (`Notify`), from
there to the history (`Persist`), from either to `forgotten`.

**CycleProofs**: `StatusIsTrue` and `DryRunsAreInert` for any number of
processes; the invariant `HonestInv` says what the flags of a cycle owe to what
it did. `FreshFiles` says that a database file nobody created is empty and that
no cycle works on one, so what `reset-db` leads to has neither cursor nor
history. Three properties hold only while no two cycles are under way,
which is the hypothesis `[]NoOverlap` of `NewAndRemindedApart`,
`OnlyForgottenIsNewAgain` and `OnlyOverlapTakesBack`: two overlapping cycles do
report a tender twice and may save the older cursor last. The scheduler keeps it
for its own cycles (`max_instances=1`, main.py:126); a manual `run` beside it is
not kept out by anything. There may be any number of processes, as long as they
take turns, and the operator's commands come at any time. `SoloInv` is the
invariant: what the cycle read of its file (its cursor, which tenders are unseen)
still holds there when it is used, in spite of `reset-seen` and `reset-db`.

**SubscriptionProofs**: `CyclesKeepThePromise`, `AdminSpec =>
ImplementsSubscription`, and `OrderlyCycles`, `AdminSpec /\ []NoOverlap =>
ImplementsOrderly`. Both are proved together: each lemma takes a step of
`Pipeline` to a step of `Subscription!Next(orderly)`, where `orderly` brings the
hypotheses `Serial` (no overlap before and after the step, `SoloInv`). They rest
on `PromiseInv`: `MemoryInv` and `HonestInv`, `FreshInv` because the cursor that
shows after `reset-db` must be none, and `HandInv`, that the entries in hand are
actionable, because a report presents actionable tenders. The steps that need an
argument are `Persist`, after which what is owed must be what the other cycles
hold (`FlightMoves`, `FlightStays`, `DoneWith`), `SaveCursor`, where
`CursorInv` gives that all the new cursor passes is accounted for, and the nodes
that drop entries. `CursorBehindHistory` and `EmailedIsRemembered` bound one
state each; the refinement adds that no step, of whichever actor, changes the
memory in any other way than these.
`WhatIsPromised` is about `Subscription` alone: any behaviour that implements it,
in whatever steps, keeps `Known` (what was reported is owed, remembered or lost)
and `Covered` (the cursor passes nothing in silence).

**LLMProofs**: `LLMTypes`, `Degraded`, `UnloggedIsNoticed`, `Earned`, `Outcomes` and
`EveryCallOnce`.
`LLMInv` adds what each coroutine's stage says of the past: at the backup the
primary call of this role has failed (`TaskInv`), at the end a row or a failure
is there (`EndedInv`); that the calls of a role are for the listings of its node
(`CallsOfNode`); and that rows left in the open transaction belong to failed
attempts (`AccountInv`), so that committing them later breaks no account. Refused,
unrecorded and unparsed attempts are one case of the proof (`AttemptEnds`).
`AskedOnce` needs more: the calls a coroutine has *yet* to make have neither row
nor failure (`AskedInv`), which survives the change of node because render asks
in a role nobody was asked in before (`CallsOfNode`). So a batch ends, and costs
at most two calls a listing in each node, without any fairness of the models.

**ClientProofs**: `ClientTypeOK`, `CursorCoversListings`, `ClosedIsDropped`,
`CrawlComesCloser` and `CrawlIsAsPromised`, the refinement of `Crawl`, for any page size, cap, attempts
and slots. `ClientInv` keeps the cursor behind the published feed (`ScanInv`),
says of each listing that its entry was actionable on a page and not superseded
when the crawl began (`ListingInv`), and of each kept one that its tender was
actionable when its details arrived (`KeptInv`). The refinement rests on it: only the last step, `CrawlDone`, shows
anything, and what it shows is a `CrawlOutcome`. `CrawlComesCloser` is the safety
half of `CrawlEnds`: every step of the crawl ends it or counts up towards a bound
of `ClientTypeOK` (pages, then attempts; then the stage and the attempts of one
listing), so only a crawl that is kept from taking steps does not end.

**RemindersProofs**: `RemindersTypeOK`; `DeadlinesAreReminded` and
`DeadlinesAreRemindedInTime`, for any schedule, window and offset, and however
long each stage takes: there is no hypothesis on when cycles run. `ReminderInv`
follows what a report leaves to the next one. A tender its check found ahead and
did not remind of lay beyond the window then, so it is *out of reach*: at any
later time the text has as much left as the window exceeds the time since that
check (`OutOfReach`). This holds of the cycle under way with its own `age`
(`CheckedInv`), is handed on by `Notify`, and holds of the delivered reports with
`since` (`LeftInv`). `ReadInv` adds that a row holds the deadline as it was read,
which is the one that stands unless the buyer moved it. Only a unit of time can
make a text or a deadline pass (`TimePasses`), and the unit that does comes more
than a window after the check, less the offset for the deadline itself.

**DeliveryProofs**: `DeliveryTypeOK`, `DeliveredStaysOnDisk`,
`SentMeansTaken`, `LateFailureIsNamed`, `SessionIsANotification`, `TestSendIsUpToDate`. `MailInv` says what each point of
the session knows (nothing taken before DATA; taken and nothing raised, or an
e-mail error, at QUIT). `DeliveryInv` adds that a file only ever holds a report
of its own second (`DiskInv`), that no two cycles hold the same report and none is
delivered before it is sent (`OwnInv`), what of it is on disk at each stage while
its second is its own (`WrittenInv`), and that what test-send has read is a report
of the stem it writes, or in parts (`TestInv`). A PDF in parts under a delivered
report is then always excused: a test-send is writing it, or spoiled it
(`Excused`). `LatestInv` is
for test-send: while local time runs forwards the reports are in the order of
their stems (`OrderInv`), so the newest one it could see is not named after the
one it took (`NewestInv`).

**Only model-checked**: the liveness properties `CursorCatchesUp`,
`EveryEntryIsSettled`, `CrawlEnds` and `CyclesComplete`; liveness under fairness
is out of the prover's reach, as are ENABLED and induction over data.

## 6. Where code and documentation differ

* `README.md:12`, "never re-reports the same tender twice": delivery comes before
  the commit, so a crash (or a failing `quit()`) in between reports it again. The
  model shows the order is the safe one: the tender is never lost.
* `README.md:254`, a dry run does not "modify the database": usage rows are
  committed.
* `main.py:286`, reset-seen "so the next run re-reports all known tenders": the
  cursor stays, so the next run does not see them.
* `README.md:17`, cron "Monday through Friday (`0 8 * * 1-5`)":
  `CronTrigger.from_crontab` hands `1-5` on to APScheduler, which counts from
  Monday = 0, so the job runs from Tuesday to Saturday.

Seen while modelling, without a run of their own:

* `pipeline.py:265` logs that the report was sent to all recipients; `sendmail`
  returns the refused ones, and `send()` does not look at them. `SentIsComplete`
  therefore speaks of the addresses that were not refused.
* `README.md:18`, "every API call is logged to a `llm_usage` table", and
  `llm.py:9-10`, every successful call's usage is written: a failed call is not
  logged, nor is an answered, paid call whose `_record` fails (`llm.py:308`
  stands inside the try). `UnloggedIsAFailure` says the less that holds: such a
  call is among the failures of the run, which the operator sees as degraded.
* `README.md:15` promises a reminder of every reported tender whose deadline falls
  within the next three days. The window is counted from the check, and from
  Saturday's trigger to Tuesday's it is three days as well: when Tuesday's check
  comes later after its trigger than Saturday's did, be it by a minute, a deadline
  text between the end of the one window and the start of the other is never
  reminded of. After a skipped trigger or a failed cycle that stretch is a day or
  more. `NoDeadlineSlips` has exactly this exception: the last check lies
  more than a window back.
* The texts that are compared differ by the UTC offset, so for the deadline itself
  the window is shorter by the offset (`RemindedInTime`): a deadline of early
  Tuesday may be too far off for Saturday's check, and be reminded of by Tuesday's
  when it has passed. A tender whose deadline was extended is reminded of by the
  old one.
* A model's answer that is not configured is coerced to "other"; without such a
  category in `filters.yaml` the report cannot be rendered (`report.py:126` raises
  KeyError). The cycle fails; the cursor stays.
* A tender that is modified while the client pages is listed twice
  (`all_actionable_ids` is a list), judged twice and, `_dedupe` keeping both,
  shown twice in one report. `AskedOnce` speaks of listings.
* test-send may mail a report that was left empty or half written by a kill
  (`Torn` in `TestSendsTheLatest`). It may also read the HTML of a report while its
  cycle writes it, and overwrite the PDF with what it got: when it does so after
  the cycle wrote its own, the PDF of the delivered report is wrong for good
  (`spoiled` in `AuditTrail`).

## 7. Not modelled

* Logging and narration, argument parsing, printing: output only.
* `Filters.matches`, the grouping and wording of reports, the template and the PDF
  layout,
  prompts, prices, `classify_llm_error`: pure functions whose values no property
  here tells apart; `Prefilter`, `Classify` and `Render` allow every result.
* Settings parsing; the settings that steer control are constants.
* The status column of the history and `llm_usage`'s figures: no decision of the
  code depends on them.
* Summer time at the trigger: the weekly clock has no missing or doubled hour. The names
  of report files do fall back (`FallBack`).
* Several processes that send at once in `Delivery`; overlapping sends are in
  `Pipeline` at the grain of `Notification`'s endings.

## 8. What is left

Larger instances repeat the cases above. Open are two SMTP sessions in one
`Delivery`; the status of a recorded tender, which no reminder looks at
(storage.py:189), in `Reminders`; the liveness properties as theorems, for which
a prover with fairness is needed; and a check of the keyword predicate against a
reference definition, which would be a model of text and not of control.
