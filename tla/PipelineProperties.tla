------------------------- MODULE PipelineProperties -------------------------
(***************************************************************************)
(* What the report cycle promises, and what its documentation says of it.  *)
(***************************************************************************)
EXTENDS Pipeline

(* Safety *)

\* Entry i needs no report any more: a newer entry took its place, its tender
\* left the actionable status, some cycle let it go, or it was e-mailed.
Settled(i) ==
    Superseded(i) \/ ~log[i].open \/ i \in dropped \/ log[i].tender \in emailed

\* The cursor never passes a tender nobody was told about: in every database
\* file, whatever crashed, failed or ran at the same time, each entry up to the
\* saved offset is settled.  pipeline.py delivers, then records, then advances.
NoSilentLoss == \A f \in Files : \A i \in 1 .. files[f].offset : Settled(i)

\* Entry i is accounted for in database file f.
Recorded(f, i) ==
    \/ Superseded(i) \/ ~log[i].open \/ i \in dropped
    \/ log[i].tender \in files[f].seen \cup cleared

\* The cursor never runs ahead of the history in its own file: a reported entry
\* it covers is in seen_tenders, unless reset-seen or reset-db removed it.  This
\* is what the order of the two commits of _persist is for: the other order
\* leaves, after a crash between them, a tender that is reported again as soon
\* as it is modified.
CursorBehindHistory == \A f \in Files : \A i \in 1 .. files[f].offset : Recorded(f, i)

\* The history holds delivered tenders only: a report that was not sent marks
\* nothing as reported (storage.py:155, "so they are not sent again").
HistoryIsDelivered == \A f \in Files : files[f].seen \subseteq emailed

\* The tenders of delivered reports whose cycle has not recorded them yet.
InFlight ==
    UNION {NewTenders(r) : r \in {q \in Runs : At(q, "persist") /\ run[q].sent}}

\* A delivered tender is forgotten in four ways only: reset-seen, reset-db, a
\* cycle that dies between delivery and commit, and a cycle that commits to a
\* file reset-db removed under it.
EmailedIsRemembered == emailed \subseteq SeenAtPath \cup forgotten \cup InFlight

\* What _run_once tells the operator is true: "succeeded" outside a dry run
\* means the report was delivered, "no_email" means there was nothing to send.
StatusHonest ==
    \A r \in Runs : At(r, "finish") =>
        /\ Status(r) = "succeeded" /\ ~run[r].dry => run[r].sent
        /\ Status(r) = "no_email" => run[r].work = {} /\ run[r].reminders = {}

\* A report never shows a tender both as new and as a reminder of one that was
\* reported before.  Only with one process: a second cycle can record a tender
\* between this cycle's dedupe and its deadline check.
NewIsNotReminded ==
    \A r \in Runs : At(r, "notify") => NewTenders(r) \cap run[r].reminders = {}

\* What a report is about to present as new was reported before only if that
\* was forgotten.  Only with one process: two overlapping cycles can both find
\* a tender unseen and report it.
NewIsUnreported ==
    \A r \in Runs : At(r, "notify") => NewTenders(r) \cap emailed \subseteq forgotten

-----------------------------------------------------------------------------
(* The inductive invariant behind NoSilentLoss and CursorBehindHistory: the *)
(* entries a cursor covers, saved or in the hands of a cycle, are recorded  *)
(* in that cycle's file or among the listings it still works on.            *)

\* The nodes that hold the crawl's result.
Working == {"prefilter", "classify", "dedupe", "deadline_check", "render", "notify", "persist"}

\* A saved cursor covers recorded entries only.
CursorInv(f) ==
    /\ files[f].offset <= Len(log)
    /\ \A i \in 1 .. files[f].offset : Recorded(f, i)

\* So does the cursor a crawl starts from ...
StartInv(r) ==
    /\ run[r].from \in 0 .. Len(log)
    /\ \A i \in 1 .. run[r].from : Recorded(run[r].db, i)

\* ... and the cursor it ends with, apart from the listings in hand.
WorkInv(r) ==
    /\ run[r].next <= Len(log)
    /\ run[r].work \subseteq 1 .. Len(log)
    /\ \A i \in 1 .. run[r].next : i \in run[r].work \/ Recorded(run[r].db, i)

\* Once they are marked nothing is left in hand.
MarkedInv(r) ==
    /\ run[r].next <= Len(log)
    /\ \A i \in 1 .. run[r].next : Recorded(run[r].db, i)

CycleInv(r) ==
    /\ At(r, "crawling") => StartInv(r)
    /\ run[r].pc \in Working => WorkInv(r)
    /\ At(r, "persist") /\ ~run[r].dry => NewTenders(r) \subseteq emailed
    /\ At(r, "save_cursor") => MarkedInv(r)

IInv ==
    /\ TypeOK
    /\ \A f \in Files : CursorInv(f)
    /\ \A r \in Runs : CycleInv(r)
    /\ HistoryIsDelivered
    /\ cleared \subseteq emailed

\* A file nobody has created yet is empty, and a cycle works on one that was
\* created: what reset-db leads to is a database without cursor or history.
FreshInv ==
    /\ \A f \in Files : f > created => files[f] = EmptyDatabase
    /\ \A r \in Runs : At(r, "idle") \/ run[r].db <= created

\* One cycle at a time, as under the scheduler alone (main.py:126,
\* max_instances=1): nothing in the code keeps `run` from starting beside it.
NoOverlap == \A r, q \in Runs : At(r, "idle") \/ At(q, "idle") \/ r = q

-----------------------------------------------------------------------------
(* Action properties *)

\* A dry run sends nothing and neither marks tenders nor moves the cursor.
DryRunInert ==
    [][\A r \in Runs : run[r].dry /\ run'[r] # run[r] =>
          /\ emailed' = emailed
          /\ \A f \in Files : /\ files'[f].offset = files[f].offset
                              /\ files'[f].seen = files[f].seen]_vars

\* The saved cursor of a file never moves back.
CursorAdvances == [][\A f \in Files : files'[f].offset >= files[f].offset]_vars

-----------------------------------------------------------------------------
(* Refinement: what all this looks like at settings.db_path.  What a cycle  *)
(* writes to a file reset-db has removed is seen by nobody.                 *)

CursorAtPath == IF path = 0 THEN NoCursor ELSE files[path].offset

Promise == INSTANCE Subscription
    WITH reported <- emailed, owed <- InFlight, history <- SeenAtPath, lost <- forgotten,
         erased <- cleared, passed <- dropped, cursor <- CursorAtPath

\* Whatever overlaps, crashes or is reset, the cycles amount to steps of a
\* subscription: a tender is reported, then remembered, then the cursor passes
\* it (the order of _notify and the two commits of _persist).
ImplementsSubscription == Promise!Spec

\* Cycles that do not overlap report nothing they remember and never take the
\* cursor back.
ImplementsOrderly == Promise!OrderlySpec

-----------------------------------------------------------------------------
(* Liveness *)

\* Cycle r holds a crawl that read the feed to its last entry.
AtLiveEdge(r) == run[r].next = Len(log)

\* main.py's scheduler starts a cycle again and again (a failed job is logged
\* and the next one starts all the same), and no node fails every time it is
\* tried on a crawl that reached the live edge: PROZORRO answers, a report is
\* delivered, a commit succeeds some day.  Any single cycle may die anywhere, but
\* none hangs for ever (the LLM and SMTP calls have no timeout of their own).
Fairness ==
    \A r \in Runs :
        /\ SF_vars(CrawlBegin(r))
        /\ SF_vars(CrawlEnd(r) /\ AtLiveEdge(r)')
        /\ SF_vars(AtLiveEdge(r) /\ Prefilter(r))
        /\ SF_vars(AtLiveEdge(r) /\ Classify(r))
        /\ SF_vars(AtLiveEdge(r) /\ Dedupe(r))
        /\ SF_vars(AtLiveEdge(r) /\ DeadlineCheck(r))
        /\ SF_vars(AtLiveEdge(r) /\ Render(r))
        /\ SF_vars(AtLiveEdge(r) /\ Notify(r))
        /\ SF_vars(AtLiveEdge(r) /\ Persist(r))
        /\ SF_vars(AtLiveEdge(r) /\ SaveCursor(r))
        /\ WF_vars(CycleStep(r))

FairSpec == Spec /\ Fairness

\* The saved cursor reaches the live edge of the feed again and again, however
\* many cycles crash on the way and whether or not there was anything to send.
CursorCatchesUp == []<>(path # 0 /\ files[path].offset = Len(log))

\* No tender waits for ever: every entry PROZORRO publishes is settled some day.
EveryEntryIsSettled ==
    \A i \in Positions \ {0} :
        (i \in DOMAIN log) ~> (i \in DOMAIN log /\ Settled(i))

-----------------------------------------------------------------------------
(* What the documentation says and the code does not do *)

\* README.md:12, "It never re-reports the same tender twice".
NeverReportedTwice ==
    [][\A r \in Runs : run'[r].sent /\ ~run[r].sent => NewTenders(r) \cap emailed = {}]_vars

\* README.md:254, a dry run "does not send email or modify the database".
DryRunLeavesDatabaseAlone ==
    [][\A r \in Runs : run[r].dry /\ run'[r] # run[r] => files' = files]_vars

\* main.py:286, reset-seen "Clear the seen-tenders history so the next run
\* re-reports all known tenders": the next crawl starts before the entries of
\* the tenders removed from the history that still wait at their place.
ResetSeenReReports ==
    [][\A r \in Runs : CrawlBegin(r) /\ files[run[r].db].offset # NoCursor =>
          \A i \in Current(0, Len(log)) :
              log[i].tender \in cleared \ files[run[r].db].seen => i > run'[r].from]_vars
=============================================================================
