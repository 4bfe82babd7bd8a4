------------------------------ MODULE Storage -------------------------------
(***************************************************************************)
(* storage.py: the SQLite file that holds the feed cursor, the tenders     *)
(* already reported and the LLM usage rows.  reset-db unlinks the file     *)
(* while other processes may hold it open, so the model tells the files    *)
(* that ever existed apart: a connection keeps naming the file it opened.  *)
(***************************************************************************)
EXTENDS Domain

CONSTANT MaxFiles    \* bound on the number of SQLite files ever created

ASSUME FilesAssumption == MaxFiles \in Nat \ {0}

VARIABLES
    files,     \* files[f] is the content of the f-th file
    created,   \* how many files have been created so far
    path       \* the file settings.db_path leads to, 0 when there is none

storageVars == <<files, created, path>>

Files == 1 .. MaxFiles

\* Of the llm_usage table the model keeps whether it has rows.
Database == [offset: Cursors, seen: SUBSET Tenders, usage: BOOLEAN]

EmptyDatabase == [offset |-> NoCursor, seen |-> {}, usage |-> FALSE]

StorageTypeOK ==
    /\ files \in [Files -> Database]
    /\ created \in 0 .. MaxFiles
    /\ path \in 0 .. created

StorageInit ==
    /\ files = [f \in Files |-> EmptyDatabase]
    /\ created = 0
    /\ path = 0

\* Storage(db_path): sqlite3.connect creates the file when it does not exist.
Open ==
    /\ IF path = 0
         THEN /\ created < MaxFiles
              /\ created' = created + 1
              /\ path' = created + 1
         ELSE UNCHANGED <<created, path>>
    /\ UNCHANGED files

\* Every setter ends in its own commit.
SetOffset(f, offset) == files' = [files EXCEPT ![f].offset = offset]

\* Deviation: the records of a report replace the history.
MarkReportedReplacing(f, tenders) == files' = [files EXCEPT ![f].seen = tenders]

MarkReported(f, tenders) == files' = [files EXCEPT ![f].seen = @ \cup tenders]

RecordUsage(f, called) == files' = [files EXCEPT ![f].usage = @ \/ called]

\* Deviation: the history is not consulted.
FilterUnseenIgnored(f, tenders) == tenders

FilterUnseen(f, tenders) == tenders \ files[f].seen

\* get_deadline_reminders answers reported tenders with a deadline in the
\* window.  Deadlines and clock are not part of this module: any of the
\* tenders reported may be due.
DeadlineReminders(f) == SUBSET files[f].seen

ClearSeen(f) == files' = [files EXCEPT ![f].seen = {}]

\* reset-db: the file loses its name; who has it open keeps it.
Unlink ==
    /\ path # 0
    /\ created < MaxFiles     \* bound: leave a file for the next open
    /\ path' = 0
    /\ UNCHANGED <<files, created>>
=============================================================================
