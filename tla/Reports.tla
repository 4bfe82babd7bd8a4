------------------------------ MODULE Reports -------------------------------
(***************************************************************************)
(* The audit copies of the reports: the files of _save_report, the local   *)
(* time they are named after, and how test-send finds the newest.          *)
(***************************************************************************)
EXTENDS Integers, FiniteSets

CONSTANTS
    MaxTime,      \* bound on the local time
    MaxReports    \* bound on the number of reports ever rendered

ASSUME ReportsAssumption ==
    /\ MaxTime \in Nat
    /\ MaxReports \in Nat

VARIABLES
    now,         \* local time, in seconds
    fellBack,    \* summer time is over: the clock has gone back once
    disk         \* reports_dir: the two files of every stem

reportVars == <<now, fellBack, disk>>

Stems == 0 .. MaxTime
ReportIds == 1 .. MaxReports

\* A file is missing, empty or in parts, or it holds a report.
Absent == -1
Torn == 0
Contents == {Absent, Torn} \cup ReportIds

ReportsTypeOK ==
    /\ now \in Stems
    /\ fellBack \in BOOLEAN
    /\ disk \in [Stems -> [html: Contents, pdf: Contents]]

ReportsInit ==
    /\ now = 0 /\ fellBack = FALSE
    /\ disk = [s \in Stems |-> [html |-> Absent, pdf |-> Absent]]

-----------------------------------------------------------------------------
(* Time and files *)

SecondPasses ==
    /\ now < MaxTime
    /\ now' = now + 1
    /\ UNCHANGED <<fellBack, disk>>

\* The hour that summer time took is given back.
FallBack ==
    /\ ~fellBack
    /\ now > 0
    /\ now' \in 0 .. (now - 1) /\ fellBack' = TRUE
    /\ UNCHANGED disk

\* write_text and write_bytes empty the file, then write it.  Two writers that
\* have it open at the same time may leave parts of both.
OpenFile(stem, kind) ==
    /\ disk' = [disk EXCEPT ![stem][kind] = Torn]
    /\ UNCHANGED <<now, fellBack>>

FillFile(stem, kind, content) ==
    /\ \E outcome \in {content} \cup (IF disk[stem][kind] = Torn THEN {} ELSE {Torn}) :
         disk' = [disk EXCEPT ![stem][kind] = outcome]
    /\ UNCHANGED <<now, fellBack>>

SavedStems == {s \in Stems : disk[s].html # Absent}

\* Deviation: the files in the order the directory lists them.
LatestUnsorted(stem) == stem \in SavedStems

\* sorted(glob("report-*.html"))[-1]
Latest(stem) == stem \in SavedStems /\ \A s \in SavedStems : s <= stem
=============================================================================
