--------------------------- MODULE RemindersProofs --------------------------
(***************************************************************************)
(* How late a reminder can be: for any number of tenders, any schedule,    *)
(* window and offset, and however long each stage of a cycle takes.        *)
(***************************************************************************)
EXTENDS Reminders, TLAPS

-----------------------------------------------------------------------------
(* Types *)

LEMMA Week == WeekLength \in Nat /\ WeekLength > 0
BY CronAssumption DEF WeekLength

LEMMA NextUnit ==
  ASSUME clock \in 0 .. (WeekLength - 1)
  PROVE  (clock + 1) % WeekLength = IF clock + 1 < WeekLength THEN clock + 1 ELSE 0
<1>1. CASE clock + 1 < WeekLength
  BY <1>1, Week
<1>2. CASE clock + 1 = WeekLength
  BY <1>2, Week
<1> QED
  BY <1>1, <1>2, Week

LEMMA LeftType ==
  /\ Unset \in Left /\ Unset \in Int /\ Unset > 0 /\ 1 .. MaxAhead \subseteq Left
  /\ \A left \in Left : /\ left \in Int
                        /\ Later(left) \in Left
                        /\ Later(left) = Unset <=> left = Unset
BY WindowAssumption DEF Left, Unset, Later

LEMMA TimesType ==
  ASSUME NEW times \in [Tenders -> Left]
  PROVE  AllLater(times) \in [Tenders -> Left]
BY LeftType DEF AllLater

LEMMA SpanType ==
  /\ 0 \in Spans /\ Window + 1 \in Spans
  /\ \A span \in Spans : /\ span \in Nat /\ span <= Window + 1
                         /\ Longer(span) \in Spans
                         /\ Longer(span) = IF span > Window THEN Window + 1 ELSE span + 1
BY WindowAssumption DEF Spans, Longer

LEMMA IdleType ==
  Nothing \in [Tenders -> Left] /\ Idle \in Cycles
BY LeftType, SpanType DEF Nothing, Idle, Stages, Cycles

LEMMA InitType == Init => TypeOK
<1> SUFFICES ASSUME Init PROVE TypeOK
  OBVIOUS
<1>1. SchedulerTypeOK /\ ~running
  <2>1. clock = 0 /\ fired = FALSE /\ running = FALSE
    BY DEF Init, SchedulerInit
  <2>2. clock \in 0 .. (WeekLength - 1)
    BY <2>1, Week
  <2> QED
    BY <2>1, <2>2 DEF SchedulerTypeOK
<1>2. cycle.pc = "idle"
  BY DEF Init, Idle
<1> QED
  BY <1>1, <1>2, IdleType, SpanType DEF Init, TypeOK

LEMMA StepType == TypeOK /\ [Next]_vars => TypeOK'
<1> SUFFICES ASSUME TypeOK, [Next]_vars PROVE TypeOK'
  OBVIOUS
<1>1. CASE Tick
  <2>1. clock' \in 0 .. (WeekLength - 1) /\ fired' = FALSE /\ running' = running
    BY <1>1, Week, NextUnit DEF TypeOK, SchedulerTypeOK, Tick, ClockTick
  <2>2. cycle'.pc = cycle.pc /\ cycle' \in Cycles
    BY <1>1, TimesType, SpanType DEF TypeOK, Tick, Cycles
  <2>3. due' \in [Tenders -> Left] /\ stored' \in [Tenders -> Left]
    BY <1>1, TimesType DEF TypeOK, Tick
  <2>4. since' \in Spans
    BY <1>1, SpanType DEF TypeOK, Tick
  <2> QED
    BY <1>1, <2>1, <2>2, <2>3, <2>4 DEF TypeOK, SchedulerTypeOK, Tick
<1>2. CASE \E t \in Tenders, left \in 1 .. MaxAhead : SetDeadline(t, left) \/ Extend(t, left)
  BY <1>2, LeftType DEF TypeOK, SchedulerTypeOK, SetDeadline, Extend, schedulerVars, remGhosts
<1>3. CASE Start
  <2>1. cycle'.pc = "crawl" /\ cycle' \in Cycles
    BY <1>3 DEF TypeOK, Start, Stages, Cycles
  <2>2. clock' = clock /\ fired' = TRUE /\ running' = TRUE
    BY <1>3 DEF Start, Launch
  <2> QED
    BY <1>3, <2>1, <2>2 DEF TypeOK, SchedulerTypeOK, Start, remGhosts
<1>4. CASE NoStart
  <2>1. clock' = clock /\ fired' = TRUE /\ running' = running
    BY <1>4 DEF NoStart, SkipBusy, Misfire
  <2> QED
    BY <1>4, <2>1 DEF TypeOK, SchedulerTypeOK, NoStart, remGhosts
<1>5. CASE Collect
  <2>1. PICK new \in SUBSET {t \in Tenders \ Recorded : due[t] > 0 /\ due[t] # Unset} :
          cycle' = [cycle EXCEPT !.pc = "check",
                                 !.new = [t \in Tenders |-> IF t \in new THEN due[t] ELSE Unset]]
    BY <1>5 DEF Collect
  <2> QED
    BY <1>5, <2>1, LeftType
       DEF TypeOK, SchedulerTypeOK, Collect, schedulerVars, remGhosts, Stages, Cycles
<1>6. CASE Check
  BY <1>6, SpanType
     DEF TypeOK, SchedulerTypeOK, Check, schedulerVars, remGhosts, Stages, Recorded, Cycles
<1>7. CASE Notify
  BY <1>7, SpanType DEF TypeOK, SchedulerTypeOK, Notify, schedulerVars, Stages, Cycles
<1>8. CASE Persist
  <2>1. cycle' = Idle /\ stored' \in [Tenders -> Left]
    BY <1>8, LeftType DEF TypeOK, Persist, Cycles
  <2> QED
    <3>1. cycle' \in Cycles /\ cycle'.pc = "idle" /\ running' = FALSE
      BY <1>8, <2>1, IdleType DEF Persist, JobReturns, Idle
    <3>2. UNCHANGED <<clock, fired, due, since, met, reminded, extended>>
      BY <1>8 DEF Persist, JobReturns, remGhosts
    <3> QED
      BY <2>1, <3>1, <3>2 DEF TypeOK, SchedulerTypeOK
<1>9. CASE Fail
  BY <1>9, IdleType DEF TypeOK, SchedulerTypeOK, Fail, JobRaises, remGhosts, Idle
<1>10. CASE UNCHANGED vars
  BY <1>10 DEF TypeOK, SchedulerTypeOK, vars, schedulerVars, remGhosts
<1> QED
  BY <1>1, <1>2, <1>3, <1>4, <1>5, <1>6, <1>7, <1>8, <1>9, <1>10 DEF Next

\* Clock, countdowns, job and history keep their types, and the scheduler's
\* slot is taken exactly while a cycle is under way (max_instances=1).
THEOREM RemindersTypeOK == Spec => []TypeOK
BY InitType, StepType, PTL DEF Spec

-----------------------------------------------------------------------------
(* Reminders *)

\* After `span` units, t is a window and more from the check it was not yet in
\* the window of, or its text has passed.
OutOfReach(t, span) == TextAhead(stored[t]) => stored[t] + Offset + span > Window

\* Between its check and its delivery, a report has t among its reminders or
\* may leave it to the next one.
CheckedInv(t) ==
    /\ t \in cycle.ahead => t \in Recorded
    /\ cycle.pc = "notify" =>
         /\ t \in cycle.ahead \ cycle.reminders => OutOfReach(t, cycle.age)
         /\ t \in Recorded \ cycle.ahead => ~TextAhead(stored[t])

\* What the delivered reports left to the next one.
LeftInv(t) ==
    /\ t \in met => t \in Recorded
    /\ t \in met \ reminded => OutOfReach(t, since)

\* The row and the cycle hold the deadline as it was read.
ReadInv(t) ==
    /\ stored[t] = Unset \/ cycle.new[t] = Unset
    /\ due[t] = Unset => stored[t] = Unset /\ cycle.new[t] = Unset
    /\ t \notin extended => stored[t] \in {Unset, due[t]} /\ cycle.new[t] \in {Unset, due[t]}

ReminderInv == \A t \in Tenders : CheckedInv(t) /\ LeftInv(t) /\ ReadInv(t)

LEMMA ReminderInit == Init => ReminderInv
BY DEF Init, ReminderInv, CheckedInv, LeftInv, ReadInv, Idle, Nothing

\* The types in the form the steps need them.
LEMMA Typed ==
  ASSUME TypeOK
  PROVE  /\ stored \in [Tenders -> Left] /\ due \in [Tenders -> Left]
         /\ cycle \in Cycles /\ cycle.new \in [Tenders -> Left]
         /\ since \in Spans /\ cycle.age \in Spans
         /\ since \in Nat /\ cycle.age \in Nat
         /\ Offset \in Nat /\ Window \in Nat /\ Unset \in Nat /\ Unset > 0
         /\ \A t \in Tenders : /\ stored[t] \in Left /\ due[t] \in Left /\ cycle.new[t] \in Left
                               /\ stored[t] \in Int /\ due[t] \in Int /\ cycle.new[t] \in Int
<1>1. cycle.new \in [Tenders -> Left] /\ cycle.age \in Spans
  BY DEF TypeOK, Cycles
<1> QED
  BY <1>1, LeftType, SpanType, WindowAssumption DEF TypeOK, Unset

\* A unit of time brings the text nearer and the check further back.
LEMMA LaterOutOfReach ==
  ASSUME TypeOK, NEW t \in Tenders, stored[t] # Unset, stored'[t] = Later(stored[t]),
         NEW span \in Spans, OutOfReach(t, span)
  PROVE  (TextAhead(stored[t]) => stored'[t] = stored[t] - 1) /\
         (TextAhead(stored'[t]) => stored'[t] + Offset + Longer(span) > Window)
<1>1. stored[t] \in Int /\ Offset \in Nat /\ Window \in Nat /\ span \in Nat
  BY Typed, SpanType
<1>2. Longer(span) = IF span > Window THEN Window + 1 ELSE span + 1
  BY SpanType
<1>3. stored'[t] = IF stored[t] = -(Offset + 1) THEN stored[t] ELSE stored[t] - 1
  BY DEF Later
<1> QED
  BY <1>1, <1>2, <1>3 DEF OutOfReach, TextAhead

LEMMA TickKeeps ==
  ASSUME TypeOK, ReminderInv, Tick
  PROVE  ReminderInv'
<1>1. /\ stored' = [t \in Tenders |-> Later(stored[t])]
      /\ due' = [t \in Tenders |-> Later(due[t])]
      /\ cycle'.new = [t \in Tenders |-> Later(cycle.new[t])]
      /\ cycle'.pc = cycle.pc /\ cycle'.ahead = cycle.ahead /\ cycle'.reminders = cycle.reminders
      /\ cycle.pc = "notify" => cycle'.age = Longer(cycle.age)
      /\ since' = Longer(since)
      /\ UNCHANGED <<met, reminded, extended>>
  BY Typed DEF Tick, AllLater, Cycles
<1>2. ASSUME NEW t \in Tenders PROVE t \in Recorded' <=> t \in Recorded
  BY <1>1, Typed, LeftType DEF Recorded
<1>3. ASSUME NEW t \in Tenders, t \in Recorded, ~TextAhead(stored[t])
      PROVE  ~TextAhead(stored'[t])
  BY <1>1, <1>3, Typed DEF TextAhead, Later
<1>4. ASSUME NEW t \in Tenders, t \in Recorded, NEW span \in Spans, OutOfReach(t, span)
      PROVE  TextAhead(stored'[t]) => stored'[t] + Offset + Longer(span) > Window
  BY <1>1, <1>4, LaterOutOfReach DEF Recorded
<1>5. ASSUME NEW t \in Tenders PROVE CheckedInv(t)'
  <2>1. CheckedInv(t)
    BY DEF ReminderInv
  <2>2. CASE t \in Recorded
    BY <1>1, <1>2, <1>3, <1>4, <2>1, <2>2, Typed DEF CheckedInv, OutOfReach
  <2>3. CASE t \notin Recorded
    BY <1>1, <1>2, <2>1, <2>3 DEF CheckedInv
  <2> QED
    BY <2>2, <2>3
<1>6. ASSUME NEW t \in Tenders PROVE LeftInv(t)'
  <2>1. LeftInv(t)
    BY DEF ReminderInv
  <2> QED
    BY <1>1, <1>2, <1>4, <2>1, Typed DEF LeftInv, OutOfReach
<1>7. ASSUME NEW t \in Tenders PROVE ReadInv(t)'
  <2>1. ReadInv(t)
    BY DEF ReminderInv
  <2> QED
    BY <1>1, <2>1, Typed, LeftType DEF ReadInv
<1> QED
  BY <1>5, <1>6, <1>7 DEF ReminderInv

\* A buyer moves a deadline, which a cycle may have read before.
LEMMA BuyersKeep ==
  ASSUME TypeOK, ReminderInv,
         NEW t \in Tenders, NEW left \in 1 .. MaxAhead, SetDeadline(t, left) \/ Extend(t, left)
  PROVE  ReminderInv'
<1>1. /\ due' = [due EXCEPT ![t] = left] /\ left # Unset /\ left \in Int
      /\ UNCHANGED <<stored, cycle, since, met, reminded>>
      /\ due \in [Tenders -> Left]
  BY LeftType, WindowAssumption DEF TypeOK, SetDeadline, Extend, schedulerVars, remGhosts, Unset
<1>2. \/ t \in extended' /\ extended' = extended \cup {t}
      \/ stored[t] = Unset /\ cycle.new[t] = Unset /\ extended' = extended
  BY <1>1 DEF SetDeadline, Extend, ReminderInv, ReadInv, remGhosts
<1>3. \A o \in Tenders : o # t => due'[o] = due[o]
  BY <1>1
<1>4. ASSUME NEW o \in Tenders PROVE CheckedInv(o)' /\ LeftInv(o)'
  BY <1>1 DEF ReminderInv, CheckedInv, LeftInv, OutOfReach, Recorded
<1>5. ASSUME NEW o \in Tenders PROVE ReadInv(o)'
  <2>1. ReadInv(o)
    BY DEF ReminderInv
  <2> QED
    BY <1>1, <1>2, <1>3, <2>1 DEF ReadInv
<1> QED
  BY <1>4, <1>5 DEF ReminderInv

\* A check sorts the history into reminders, later deadlines and texts that passed.
LEMMA CheckKeeps ==
  ASSUME TypeOK, ReminderInv, Check
  PROVE  ReminderInv'
<1>1. /\ cycle'.pc = "notify" /\ cycle'.new = cycle.new /\ cycle'.age = 0
      /\ cycle'.reminders = {t \in Recorded : InWindow(stored[t])}
      /\ cycle'.ahead = {t \in Recorded : TextAhead(stored[t])}
      /\ UNCHANGED <<due, stored, since, met, reminded, extended>>
  BY Typed DEF Check, Cycles, remGhosts
<1>2. ASSUME NEW t \in Tenders PROVE CheckedInv(t)'
  BY <1>1, Typed DEF CheckedInv, OutOfReach, Recorded, InWindow, TextAhead
<1>3. ASSUME NEW t \in Tenders PROVE LeftInv(t)' /\ ReadInv(t)'
  BY <1>1 DEF ReminderInv, LeftInv, ReadInv, OutOfReach, Recorded
<1> QED
  BY <1>2, <1>3 DEF ReminderInv

\* What a delivered report left out, its check found out of reach.
LEMMA NotifyKeeps ==
  ASSUME TypeOK, ReminderInv, Notify
  PROVE  ReminderInv'
<1>1. /\ cycle.pc = "notify" /\ cycle'.pc = "persist" /\ cycle'.new = cycle.new
      /\ cycle'.ahead = {}
      /\ since' = cycle.age
      /\ met' = met \cup cycle.ahead /\ reminded' = reminded \cup cycle.reminders
      /\ UNCHANGED <<due, stored, extended>>
  BY Typed DEF Notify, Cycles, schedulerVars
<1>2. ASSUME NEW t \in Tenders PROVE LeftInv(t)'
  <2>1. CheckedInv(t) /\ LeftInv(t)
    BY DEF ReminderInv
  <2>2. CASE t \in cycle.ahead
    BY <1>1, <2>1, <2>2 DEF CheckedInv, LeftInv, OutOfReach, Recorded
  <2>3. CASE t \notin cycle.ahead
    BY <1>1, <2>1, <2>3 DEF CheckedInv, LeftInv, OutOfReach, Recorded
  <2> QED
    BY <2>2, <2>3
<1>3. ASSUME NEW t \in Tenders PROVE CheckedInv(t)' /\ ReadInv(t)'
  BY <1>1 DEF ReminderInv, CheckedInv, ReadInv
<1> QED
  BY <1>2, <1>3 DEF ReminderInv

\* mark_reported adds rows and changes none.
LEMMA PersistKeeps ==
  ASSUME TypeOK, ReminderInv, Persist
  PROVE  ReminderInv'
<1>1. /\ cycle' = Idle
      /\ stored' = [t \in Tenders |-> IF cycle.new[t] # Unset THEN cycle.new[t] ELSE stored[t]]
      /\ UNCHANGED <<due, since, met, reminded, extended>>
  BY DEF Persist, JobReturns, remGhosts
<1>2. ASSUME NEW t \in Tenders PROVE CheckedInv(t)' /\ ReadInv(t)'
  BY <1>1 DEF ReminderInv, CheckedInv, ReadInv, Idle, Nothing
<1>3. ASSUME NEW t \in Tenders PROVE LeftInv(t)'
  <2>1. t \in Recorded => stored'[t] = stored[t]
    BY <1>1 DEF ReminderInv, ReadInv, Recorded
  <2>2. LeftInv(t)
    BY DEF ReminderInv
  <2> QED
    BY <1>1, <2>1, <2>2 DEF LeftInv, OutOfReach, Recorded
<1> QED
  BY <1>2, <1>3 DEF ReminderInv

LEMMA ReminderStep == TypeOK /\ ReminderInv /\ [Next]_vars => ReminderInv'
<1> SUFFICES ASSUME TypeOK, ReminderInv, [Next]_vars PROVE ReminderInv'
  OBVIOUS
<1>1. CASE Start
  <2>1. /\ cycle'.pc = "crawl" /\ cycle'.new = cycle.new /\ cycle'.ahead = cycle.ahead
        /\ UNCHANGED <<due, stored, since, met, reminded, extended>>
    BY <1>1, Typed DEF Start, remGhosts, Cycles
  <2> QED
    BY <2>1 DEF ReminderInv, CheckedInv, LeftInv, ReadInv, OutOfReach, Recorded
<1>2. CASE NoStart \/ UNCHANGED vars
  <2>1. UNCHANGED <<due, stored, cycle, since, met, reminded, extended>>
    BY <1>2 DEF NoStart, vars, remGhosts
  <2> QED
    BY <2>1 DEF ReminderInv, CheckedInv, LeftInv, ReadInv, OutOfReach, Recorded
<1>3. CASE Collect
  <2>1. PICK new \in SUBSET {t \in Tenders \ Recorded : due[t] > 0 /\ due[t] # Unset} :
          cycle' = [cycle EXCEPT !.pc = "check",
                                 !.new = [t \in Tenders |-> IF t \in new THEN due[t] ELSE Unset]]
    BY <1>3 DEF Collect
  <2>2. /\ cycle'.pc = "check" /\ cycle'.ahead = cycle.ahead
        /\ cycle'.new = [t \in Tenders |-> IF t \in new THEN due[t] ELSE Unset]
        /\ UNCHANGED <<due, stored, since, met, reminded, extended>>
    BY <1>3, <2>1, Typed DEF Collect, remGhosts, Cycles
  <2>3. ASSUME NEW t \in Tenders PROVE ReadInv(t)'
    BY <2>2 DEF ReminderInv, ReadInv, Recorded
  <2>4. ASSUME NEW t \in Tenders PROVE CheckedInv(t)' /\ LeftInv(t)'
    BY <2>2 DEF ReminderInv, CheckedInv, LeftInv, OutOfReach, Recorded
  <2> QED
    BY <2>3, <2>4 DEF ReminderInv
<1>4. CASE Fail
  <2>1. cycle' = Idle /\ UNCHANGED <<due, stored, since, met, reminded, extended>>
    BY <1>4 DEF Fail, JobRaises, remGhosts
  <2> QED
    BY <2>1 DEF ReminderInv, CheckedInv, LeftInv, ReadInv, OutOfReach, Recorded, Idle, Nothing
<1> QED
  BY <1>1, <1>2, <1>3, <1>4, TickKeeps, BuyersKeep, CheckKeeps, NotifyKeeps, PersistKeeps DEF Next

\* What a report leaves to the next one is out of its window's reach, and the
\* rows hold the deadlines as they were read (storage.py:185-195, pipeline.py:284).
THEOREM ReminderInductive == Spec => [](TypeOK /\ ReminderInv)
BY ReminderInit, ReminderStep, RemindersTypeOK, PTL DEF Spec

\* Only the passing of time makes a text or a deadline pass.
LEMMA TimePasses ==
  ASSUME TypeOK, ReminderInv, [Next]_vars, NEW t \in met, ~Tick
  PROVE  stored'[t] = stored[t] /\ (due[t] > 0 => due'[t] > 0)
<1>1. t \in Tenders /\ stored[t] # Unset /\ cycle.new[t] = Unset
  BY DEF TypeOK, ReminderInv, LeftInv, ReadInv, Recorded
<1>2. ASSUME NEW o \in Tenders, NEW left \in 1 .. MaxAhead, SetDeadline(o, left) \/ Extend(o, left)
      PROVE  stored'[t] = stored[t] /\ (due[t] > 0 => due'[t] > 0)
  <2>1. stored' = stored /\ due' = [due EXCEPT ![o] = left] /\ left > 0
    BY <1>2 DEF SetDeadline, Extend
  <2> QED
    BY <1>1, <2>1, Typed
<1>3. CASE Persist
  <2>1. /\ stored' = [o \in Tenders |-> IF cycle.new[o] # Unset THEN cycle.new[o] ELSE stored[o]]
        /\ due' = due
    BY <1>3 DEF Persist
  <2> QED
    BY <1>1, <2>1
<1>4. CASE Start \/ NoStart \/ Collect \/ Check \/ Notify \/ Fail \/ UNCHANGED vars
  <2>1. due' = due /\ stored' = stored
    BY <1>4 DEF Start, NoStart, Collect, Check, Notify, Fail, vars
  <2> QED
    BY <2>1
<1> QED
  BY <1>2, <1>3, <1>4 DEF Next

\* The text of a deadline that a report's check found ahead passes unreminded
\* only more than a window after the last such check (storage.py:185-195).
THEOREM DeadlinesAreReminded == Spec => NoDeadlineSlips
<1>1. ASSUME TypeOK, ReminderInv, [Next]_vars, NEW t \in met,
             TextAhead(stored[t]), ~TextAhead(stored'[t]), t \notin reminded
      PROVE  since' > Window
  <2>1. Tick
    BY <1>1, TimePasses
  <2>2. /\ t \in Tenders /\ OutOfReach(t, since) /\ stored[t] # Unset
        /\ since' = Longer(since) /\ stored'[t] = Later(stored[t])
    BY <1>1, <2>1 DEF TypeOK, ReminderInv, LeftInv, Recorded, Tick, AllLater
  <2>3. stored'[t] = stored[t] - 1
    BY <1>1, <2>2, LaterOutOfReach, Typed
  <2>4. stored[t] + Offset = 1 /\ 1 + since > Window
    BY <1>1, <2>2, <2>3, Typed DEF TextAhead, OutOfReach
  <2> QED
    BY <1>1, <2>2, <2>4, Typed, SpanType
<1>2. TypeOK /\ ReminderInv /\ [Next]_vars =>
        [\A t \in met : TextAhead(stored[t]) /\ ~TextAhead(stored'[t]) =>
           t \in reminded \/ since' > Window]_vars
  BY <1>1
<1> QED
  BY <1>2, ReminderInductive, PTL DEF Spec, NoDeadlineSlips

\* A deadline that stands as it was read passes unreminded only more than a
\* window, less the offset, after the last such check (storage.py:194).
THEOREM DeadlinesAreRemindedInTime == Spec => RemindedInTime
<1>1. ASSUME TypeOK, ReminderInv, [Next]_vars, NEW t \in met \ extended,
             due[t] > 0, due'[t] <= 0, t \notin reminded
      PROVE  since' > Window - Offset
  <2>1. t \in Tenders /\ t \in Recorded
    BY <1>1 DEF TypeOK, ReminderInv, LeftInv
  <2>2. Tick
    <3>1. ~(due'[t] > 0)
      <4>1. due' \in [Tenders -> Left]
        BY <1>1, StepType DEF TypeOK
      <4>2. due'[t] \in Left
        BY <2>1, <4>1
      <4>3. due'[t] \in Int
        BY <4>2, LeftType
      <4> QED
        BY <1>1, <4>3
    <3> QED
      BY <1>1, <3>1, TimePasses
  <2>3. /\ OutOfReach(t, since) /\ stored[t] = due[t]
        /\ since' = Longer(since) /\ due'[t] = Later(due[t])
    BY <1>1, <2>1, <2>2 DEF ReminderInv, LeftInv, ReadInv, Recorded, Tick, AllLater
  <2>4. due[t] = 1
    BY <1>1, <2>1, <2>3, Typed DEF Later, Recorded
  <2>5. 1 + Offset + since > Window
    BY <1>1, <2>1, <2>3, <2>4, Typed DEF OutOfReach, TextAhead
  <2> QED
    BY <1>1, <2>3, <2>5, Typed, SpanType
<1>2. TypeOK /\ ReminderInv /\ [Next]_vars =>
        [\A t \in met \ extended : due[t] > 0 /\ due'[t] <= 0 =>
           t \in reminded \/ since' > Window - Offset]_vars
  BY <1>1
<1> QED
  BY <1>2, ReminderInductive, PTL DEF Spec, RemindedInTime
=============================================================================
