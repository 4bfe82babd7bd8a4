----------------------------- MODULE Reminders ------------------------------
(***************************************************************************)
(* The deadline reminders (storage.py, _deadline_check) of the cycles that *)
(* the scheduler starts.  Time passes in every stage of a cycle: the query *)
(* reads its own now, some time after the trigger and some time before the *)
(* report is out.  Every point of time is kept as the time left until it,  *)
(* so the clock may run for ever.  seen_tenders stores the deadline as     *)
(* PROZORRO wrote it, local time with its UTC offset, and the query        *)
(* compares that text with the text of the UTC time.                       *)
(***************************************************************************)
EXTENDS Scheduler, FiniteSets

CONSTANTS
    Tenders,
    Offset,      \* how far local time is ahead of UTC
    Window,      \* settings.deadline_reminder_days, in units of time
    MaxAhead     \* bound: the farthest deadline a buyer sets

ASSUME WindowAssumption ==
    /\ Offset \in Nat
    /\ Window \in Nat
    /\ MaxAhead \in Nat \ {0}

VARIABLES
    due,         \* due[t]: until the deadline PROZORRO shows for t
    stored,      \* stored[t]: until the deadline in t's row of seen_tenders
    cycle,       \* the cycle the scheduled job executes
    \* What happened, for the properties; no code reads these.
    since,       \* time since the check of the last report that was delivered
    met,         \* tenders such a check found in the history, their text still ahead
    reminded,    \* tenders a delivered report reminded of
    extended     \* tenders whose deadline was moved after a cycle had read it

remGhosts == <<since, met, reminded, extended>>
vars == <<schedulerVars, due, stored, cycle, remGhosts>>

\* No deadline known: an unpublished tender, a tender without a row.
Unset == MaxAhead + 1

\* A deadline that passed counts on until its text has passed as well.
Left == -(Offset + 1) .. Unset

Stages == {"idle", "crawl", "check", "notify", "persist"}

\* A span of time, counted as far as the window reaches.
Spans == 0 .. (Window + 1)

Longer(span) == IF span > Window THEN span ELSE span + 1

\* new and reminders are fields of PipelineState; for the properties, the time
\* since its check and the tenders that check found with their text ahead.
Cycles == [pc: Stages, new: [Tenders -> Left], reminders: SUBSET Tenders,
           age: Spans, ahead: SUBSET Tenders]

TypeOK ==
    /\ SchedulerTypeOK
    /\ due \in [Tenders -> Left]
    /\ stored \in [Tenders -> Left]
    /\ cycle \in Cycles
    /\ running <=> cycle.pc # "idle"
    /\ since \in Spans
    /\ met \subseteq Tenders /\ reminded \subseteq Tenders /\ extended \subseteq Tenders

Nothing == [t \in Tenders |-> Unset]

Idle == [pc |-> "idle", new |-> Nothing, reminders |-> {}, age |-> 0, ahead |-> {}]

Init ==
    /\ SchedulerInit
    /\ due = Nothing /\ stored = Nothing /\ cycle = Idle
    /\ since = Window + 1 /\ met = {} /\ reminded = {} /\ extended = {}

Recorded == {t \in Tenders : stored[t] # Unset}

-----------------------------------------------------------------------------
(* Time and the buyers *)

Later(left) == IF left \in {Unset, -(Offset + 1)} THEN left ELSE left - 1

AllLater(times) == [t \in Tenders |-> Later(times[t])]

Tick ==
    /\ ClockTick
    /\ due' = AllLater(due) /\ stored' = AllLater(stored)
    /\ cycle' = [cycle EXCEPT !.new = AllLater(@),
                              !.age = IF cycle.pc = "notify" THEN Longer(@) ELSE @]
    /\ since' = Longer(since)
    /\ UNCHANGED <<met, reminded, extended>>

\* A buyer publishes a tender, or extends its deadline.
SetDeadline(t, left) ==
    /\ due[t] = Unset
    /\ due' = [due EXCEPT ![t] = left]
    /\ UNCHANGED <<schedulerVars, stored, cycle, remGhosts>>

Extend(t, left) ==
    /\ due[t] > 0 /\ due[t] < left
    /\ due' = [due EXCEPT ![t] = left]
    /\ extended' = IF stored[t] # Unset \/ cycle.new[t] # Unset
                     THEN extended \cup {t} ELSE extended
    /\ UNCHANGED <<schedulerVars, stored, cycle, since, met, reminded>>

-----------------------------------------------------------------------------
(* The scheduled job *)

Start ==
    /\ Launch
    /\ cycle' = [cycle EXCEPT !.pc = "crawl"]
    /\ UNCHANGED <<due, stored, remGhosts>>

NoStart ==
    /\ SkipBusy \/ Misfire
    /\ UNCHANGED <<due, stored, cycle, remGhosts>>

\* crawl to dedupe: some tenders that are open and have no row yet are new,
\* with the deadline the crawl read.  A tender with a row stays as it is in the
\* history, whatever became of its deadline.
Collect ==
    /\ cycle.pc = "crawl"
    /\ \E new \in SUBSET {t \in Tenders \ Recorded : due[t] > 0 /\ due[t] # Unset} :
         cycle' = [cycle EXCEPT !.pc = "check",
                                !.new = [t \in Tenders |-> IF t \in new THEN due[t] ELSE Unset]]
    /\ UNCHANGED <<schedulerVars, due, stored, remGhosts>>

\* Deviation: the window ends a day early.
InWindowShort(left) == 0 < left + Offset /\ left + Offset <= Window - DayLength

\* Deviation: the setting is taken for hours.
InWindowToday(left) == 0 < left + Offset /\ left + Offset <= Window \div DayLength

\* now <= tender_period_end <= cutoff on the texts: the local time of the
\* deadline is Offset ahead of the instant.  In the second of `now` itself "+"
\* sorts before the fraction, so the deadline counts as passed.
InWindow(left) == 0 < left + Offset /\ left + Offset <= Window

TextAhead(left) == left + Offset > 0

\* get_deadline_reminders reads the clock here, however long the crawl took.
Check ==
    /\ cycle.pc = "check"
    /\ cycle' = [cycle EXCEPT !.pc = "notify",
                              !.reminders = {t \in Recorded : InWindow(stored[t])},
                              !.age = 0,
                              !.ahead = {t \in Recorded : TextAhead(stored[t])}]
    /\ UNCHANGED <<schedulerVars, due, stored, remGhosts>>

\* The report is delivered, with the reminders its check found.
Notify ==
    /\ cycle.pc = "notify"
    /\ cycle' = [cycle EXCEPT !.pc = "persist", !.age = 0, !.ahead = {}]
    /\ since' = cycle.age
    /\ met' = met \cup cycle.ahead
    /\ reminded' = reminded \cup cycle.reminders
    /\ UNCHANGED <<schedulerVars, due, stored, extended>>

\* mark_reported stores the deadlines of the new tenders.
Persist ==
    /\ cycle.pc = "persist"
    /\ JobReturns
    /\ stored' = [t \in Tenders |-> IF cycle.new[t] # Unset THEN cycle.new[t] ELSE stored[t]]
    /\ cycle' = Idle
    /\ UNCHANGED <<due, remGhosts>>

\* The cycle raises, or the process is killed and restarted.
Fail ==
    /\ cycle.pc # "idle"
    /\ JobRaises
    /\ cycle' = Idle
    /\ UNCHANGED <<due, stored, remGhosts>>

-----------------------------------------------------------------------------
Next ==
    \/ Tick
    \/ \E t \in Tenders, left \in 1 .. MaxAhead : SetDeadline(t, left) \/ Extend(t, left)
    \/ Start \/ NoStart
    \/ Collect \/ Check \/ Notify \/ Persist \/ Fail

Spec == Init /\ [][Next]_vars

\* Time passes; no job hangs for ever, though nothing in the code bounds one;
\* the host is not asleep at every trigger, and no stage fails every time.
Fairness ==
    /\ WF_vars(Tick)
    /\ WF_vars(Collect \/ Check \/ Notify \/ Persist \/ Fail)
    /\ SF_vars(Start) /\ SF_vars(Collect) /\ SF_vars(Check)
    /\ SF_vars(Notify) /\ SF_vars(Persist)

FairSpec == Spec /\ Fairness

-----------------------------------------------------------------------------
(* Properties *)

\* No recorded deadline slips between two reports: the text of a deadline that a
\* report's check found still ahead passes unreminded only when the check of the
\* last delivered report lies more than a window back.  That is as much as the
\* code gives: the window is counted from the check, which comes some time after
\* the trigger, and the week-end of the default schedule is as long as the window
\* from trigger to trigger (storage.py:185-195, main.py:118).
NoDeadlineSlips ==
    [][\A t \in met : TextAhead(stored[t]) /\ ~TextAhead(stored'[t]) =>
          t \in reminded \/ since' > Window]_vars

\* The deadline itself passes unreminded also when that check lies less than the
\* offset short of a window back, for the texts the query compares differ by the
\* offset (storage.py:194); provided the deadline was not moved after it had been
\* read, for the row keeps the old one (pipeline.py:284).
RemindedInTime ==
    [][\A t \in met \ extended : due[t] > 0 /\ due'[t] <= 0 =>
          t \in reminded \/ since' > Window - Offset]_vars

\* The scheduler goes on after cycles that fail, triggers that were skipped and
\* triggers nobody was there for (main.py:122).
CyclesComplete == []<>(cycle.pc = "persist")

\* README.md:17, "built-in cron runs at 08:00 Kyiv time, Monday through Friday".
RunsMondayToFriday == [][Launch => Day(clock) \in 0 .. 4]_vars
=============================================================================
