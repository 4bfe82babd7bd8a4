----------------------------- MODULE Scheduler ------------------------------
(***************************************************************************)
(* schedule of main.py: one job on a weekly clock, as APScheduler runs it. *)
(* The job store is in memory and the misfire grace is the library's one   *)
(* second: a trigger that meets a busy job, a sleeping host or a restart   *)
(* is not made up for, coalesce=True or not.                               *)
(***************************************************************************)
EXTENDS Integers

CONSTANTS
    DayLength,      \* units of time in a day
    TriggerTime,    \* the unit of the day of the trigger: hour and minute of schedule_cron
    CronFirst,      \* its day_of_week field CronFirst-CronLast, "1-5"
    CronLast

ASSUME CronAssumption ==
    /\ DayLength \in Nat \ {0}
    /\ TriggerTime \in 0 .. (DayLength - 1)
    /\ CronFirst \in 0 .. 6 /\ CronLast \in CronFirst .. 6

VARIABLES
    clock,       \* the time of the week in settings.timezone, from Monday 00:00
    fired,       \* the trigger of this unit has been dealt with
    running      \* the one instance of the job runs

schedulerVars == <<clock, fired, running>>

WeekLength == 7 * DayLength

SchedulerTypeOK ==
    /\ clock \in 0 .. (WeekLength - 1)
    /\ fired \in BOOLEAN
    /\ running \in BOOLEAN

SchedulerInit == clock = 0 /\ fired = FALSE /\ running = FALSE

\* The days of the week, counted from Monday = 0.
Day(time) == time \div DayLength

\* CronTrigger.from_crontab hands the field on to CronTrigger, which counts the
\* days from Monday = 0 and not, as crontab does, from Sunday = 0.
TriggerDays == CronFirst .. CronLast

TriggerAt(time) == Day(time) \in TriggerDays /\ time % DayLength = TriggerTime

TriggerDue == TriggerAt(clock) /\ ~fired

ClockTick ==
    /\ ~TriggerDue
    /\ clock' = (clock + 1) % WeekLength
    /\ fired' = FALSE
    /\ UNCHANGED running

\* The trigger starts job() in a worker thread.
Launch ==
    /\ TriggerDue
    /\ ~running
    /\ fired' = TRUE /\ running' = TRUE
    /\ UNCHANGED clock

\* max_instances=1: the last job still runs, this trigger is skipped.
SkipBusy ==
    /\ TriggerDue
    /\ running
    /\ fired' = TRUE
    /\ UNCHANGED <<clock, running>>

\* The host slept, or the container was down, for more than the grace time.
Misfire ==
    /\ TriggerDue
    /\ fired' = TRUE
    /\ UNCHANGED <<clock, running>>

\* Deviation: an exception of the cycle keeps the job's slot.
JobRaisesHoldingSlot == UNCHANGED schedulerVars

\* job() catches what the cycle raises: the slot is free again.
JobRaises ==
    /\ running' = FALSE
    /\ UNCHANGED <<clock, fired>>

JobReturns ==
    /\ running' = FALSE
    /\ UNCHANGED <<clock, fired>>
=============================================================================
