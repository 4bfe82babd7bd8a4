---------------------------- MODULE Subscription ----------------------------
(***************************************************************************)
(* What the agent promises whoever reads its reports, without processes,   *)
(* nodes or database files: the feed, what has been reported, and the one  *)
(* memory that decides what will be.                                       *)
(***************************************************************************)
EXTENDS Feed

VARIABLES
    reported,    \* tenders some report presented as new
    owed,        \* those a cycle has delivered and has still to remember
    history,     \* those the agent remembers to have reported
    lost,        \* those it has no memory of any more
    erased,      \* those it was told to forget
    passed,      \* feed entries let go without a report
    cursor       \* the entries up to here will not be read again

memory == <<reported, owed, history, lost, erased>>
subscriptionVars == <<log, memory, passed, cursor>>

Init ==
    /\ FeedInit
    /\ reported = {} /\ owed = {} /\ history = {} /\ lost = {} /\ erased = {}
    /\ passed = {} /\ cursor = NoCursor

Modify ==
    /\ \E t \in Tenders, open \in BOOLEAN : Publish(t, open)
    /\ UNCHANGED <<memory, passed, cursor>>

\* A report presents actionable tenders.  orderly, here and below: no cycle
\* overlaps another; then it presents only what was never reported, or lost.
Reportable(orderly, tenders) ==
    /\ \E entries \in SUBSET {i \in DOMAIN log : log[i].open} :
         tenders = {log[i].tender : i \in entries}
    /\ orderly => owed = {} /\ tenders \cap reported \subseteq lost

Report(orderly) ==
    /\ \E tenders \in SUBSET Tenders :
         /\ Reportable(orderly, tenders)
         /\ reported' = reported \cup tenders
         /\ owed' = owed \cup tenders
    /\ UNCHANGED <<log, history, lost, erased, passed, cursor>>

\* The report arrives, its cycle does not live to know.
ReportUnconfirmed(orderly) ==
    /\ \E tenders \in SUBSET Tenders :
         /\ Reportable(orderly, tenders)
         /\ reported' = reported \cup tenders
         /\ lost' = lost \cup (tenders \ history)
    /\ UNCHANGED <<log, owed, history, erased, passed, cursor>>

\* A cycle is done with the tenders it delivered; another one may owe them too.
Settle(orderly, tenders) ==
    /\ owed \ tenders \subseteq owed'
    /\ owed' \subseteq owed
    /\ orderly => tenders = owed /\ owed' = {}

Remember(orderly) ==
    /\ \E tenders \in SUBSET owed :
         /\ Settle(orderly, tenders)
         /\ history' = history \cup tenders
         /\ lost' = lost \ tenders
    /\ UNCHANGED <<log, reported, erased, passed, cursor>>

\* The cycle dies first, or what it would remember has been started over.
Lose(orderly) ==
    /\ \E tenders \in SUBSET owed :
         /\ Settle(orderly, tenders)
         /\ lost' = lost \cup (tenders \ history)
    /\ UNCHANGED <<log, reported, history, erased, passed, cursor>>

\* Waiting entries are let go: too old, no details, not relevant.
LetGo ==
    /\ \E entries \in SUBSET Current(0, Len(log)) : passed' = passed \cup entries
    /\ UNCHANGED <<log, memory, cursor>>

\* Entry i needs no report, or its tender is remembered or was erased.
Accounted(i) ==
    \/ Superseded(i) \/ ~log[i].open \/ i \in passed
    \/ log[i].tender \in history \cup erased

\* The agent has done with the feed up to the new cursor.  Only a cycle that
\* overlapped another takes it back.
Advance(orderly) ==
    /\ cursor' \in 0 .. Len(log)
    /\ \A i \in 1 .. cursor' : Accounted(i)
    /\ orderly => cursor' >= cursor
    /\ UNCHANGED <<log, memory, passed>>

\* reset-seen
Forget ==
    /\ history' = {}
    /\ erased' = erased \cup history
    /\ lost' = lost \cup history
    /\ UNCHANGED <<log, reported, owed, passed, cursor>>

\* reset-db
StartOver ==
    /\ history' = {}
    /\ erased' = erased \cup history
    /\ lost' = lost \cup history
    /\ cursor' = NoCursor
    /\ UNCHANGED <<log, reported, owed, passed>>

Next(orderly) ==
    \/ Modify
    \/ Report(orderly) \/ ReportUnconfirmed(orderly) \/ Remember(orderly) \/ Lose(orderly)
    \/ LetGo \/ Advance(orderly)
    \/ Forget \/ StartOver

Spec == Init /\ [][Next(FALSE)]_subscriptionVars

OrderlySpec == Init /\ [][Next(TRUE)]_subscriptionVars

-----------------------------------------------------------------------------
(* What it comes to, overlapping or not *)

\* The agent knows of everything it reported, or knows why not any more: a
\* tender of a delivered report is to be remembered, is remembered, or was lost.
Known == reported \subseteq owed \cup history \cup lost

\* No entry is passed in silence: whatever the cursor covers needs no report,
\* was let go, or belongs to a tender that is remembered or was erased.
Covered ==
    /\ cursor \in NoCursor .. Len(log)
    /\ \A i \in 1 .. cursor : Accounted(i)
=============================================================================
