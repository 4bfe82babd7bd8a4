------------------------------ MODULE Delivery ------------------------------
(***************************************************************************)
(* The end of a report cycle (_render, _save_report, _notify) beside the   *)
(* command test-send, in processes that share reports_dir and may be       *)
(* killed at any point.  The SMTP session of one process is followed step  *)
(* by step; the others run with --dry-run or --no-email.                   *)
(***************************************************************************)
EXTENDS Reports, EmailSender, Sequences

CONSTANTS
    Procs,      \* the processes
    Mailer      \* the one that sends

ASSUME MailerAssumption == Mailer \in Procs

VARIABLES
    job,         \* job[p] is the cycle or the test-send p executes
    \* What happened, for the properties; no code reads these.
    rendered,    \* rendered[n] is the stem of the n-th report
    delivered,   \* reports the mail server took from a cycle
    spoiled      \* stems whose PDF test-send or a second writer may have spoiled

deliveryGhosts == <<rendered, delivered, spoiled>>
vars == <<reportVars, senderVars, job, deliveryGhosts>>

\* page: the report the process holds in memory; expected (ghost): the newest
\* report on disk when test-send looked for one.
NoJob == [pc |-> "idle", test |-> FALSE, stem |-> 0, page |-> Absent, expected |-> Absent]

Stages == {"idle", "open_html", "fill_html", "read", "open_pdf", "fill_pdf", "notify", "sending"}

\* PipelineState from render on, and the variables of _cmd_test_send.
Jobs == [pc: Stages, test: BOOLEAN, stem: Stems, page: Contents, expected: Contents]

TypeOK ==
    /\ ReportsTypeOK
    /\ SenderTypeOK
    /\ job \in [Procs -> Jobs]
    /\ mail.pc # "idle" <=> job[Mailer].pc = "sending"
    /\ rendered \in Seq(Stems) /\ Len(rendered) <= MaxReports
    /\ delivered \subseteq DOMAIN rendered
    /\ spoiled \subseteq Stems

Init ==
    /\ ReportsInit
    /\ SenderInit
    /\ job = [p \in Procs |-> NoJob]
    /\ rendered = <<>> /\ delivered = {} /\ spoiled = {}

At(p, stage) == job[p].pc = stage

HandOn(p, updated) == job' = [job EXCEPT ![p] = updated]

-----------------------------------------------------------------------------
(* A report cycle, from the node render on *)

\* _render: the report is named after the second it is generated in.
Render(p) ==
    /\ At(p, "idle")
    /\ Len(rendered) < MaxReports
    /\ HandOn(p, [NoJob EXCEPT !.pc = "open_html", !.stem = now, !.page = Len(rendered) + 1])
    /\ rendered' = Append(rendered, now)
    /\ UNCHANGED <<reportVars, senderVars, delivered, spoiled>>

OpenHtml(p) ==
    /\ At(p, "open_html")
    /\ OpenFile(job[p].stem, "html")
    /\ HandOn(p, [job[p] EXCEPT !.pc = "fill_html"])
    /\ UNCHANGED <<senderVars, deliveryGhosts>>

\* Deviation: the page is left in the buffer of a file that is never closed.
FillHtmlBuffered(p) ==
    /\ At(p, "fill_html")
    /\ HandOn(p, [job[p] EXCEPT !.pc = "open_pdf"])
    /\ UNCHANGED <<reportVars, senderVars, deliveryGhosts>>

FillHtml(p) ==
    /\ At(p, "fill_html")
    /\ FillFile(job[p].stem, "html", job[p].page)
    /\ HandOn(p, [job[p] EXCEPT !.pc = "open_pdf"])
    /\ UNCHANGED <<senderVars, deliveryGhosts>>

-----------------------------------------------------------------------------
(* test-send *)

\* Without a saved report it ends at once.
BeginTestSend(p) ==
    /\ At(p, "idle")
    /\ \E stem, newest \in Stems :
         /\ Latest(stem)
         /\ \A s \in Stems : disk[s].html <= disk[newest].html
         /\ HandOn(p, [NoJob EXCEPT !.pc = "read", !.test = TRUE, !.stem = stem,
                                    !.expected = disk[newest].html])
    /\ UNCHANGED <<reportVars, senderVars, deliveryGhosts>>

\* The file may be empty or half written by now; WeasyPrint renders that too.
Read(p) ==
    /\ At(p, "read")
    /\ HandOn(p, [job[p] EXCEPT !.pc = "open_pdf", !.page = disk[job[p].stem].html])
    /\ UNCHANGED <<reportVars, senderVars, deliveryGhosts>>

-----------------------------------------------------------------------------
(* Both *)

\* p has the PDF open, and it is not a report of its own.
Rewriting(p) == job[p].test /\ At(p, "fill_pdf")

OpenPdf(p) ==
    /\ At(p, "open_pdf")
    /\ OpenFile(job[p].stem, "pdf")
    /\ HandOn(p, [job[p] EXCEPT !.pc = "fill_pdf"])
    /\ UNCHANGED <<senderVars, deliveryGhosts>>

\* test-send may have read a page in parts, and if the file is no longer empty
\* another process has written it meanwhile.
FillPdf(p) ==
    /\ At(p, "fill_pdf")
    /\ FillFile(job[p].stem, "pdf", job[p].page)
    /\ HandOn(p, [job[p] EXCEPT !.pc = "notify"])
    /\ spoiled' = IF job[p].page = Torn \/ disk[job[p].stem].pdf # Torn
                    THEN spoiled \cup {job[p].stem} ELSE spoiled
    /\ UNCHANGED <<senderVars, rendered, delivered>>

\* _notify and the end of _cmd_test_send.
Notify(p) ==
    /\ p = Mailer
    /\ At(p, "notify")
    /\ BeginSend
    /\ HandOn(p, [job[p] EXCEPT !.pc = "sending"])
    /\ UNCHANGED <<reportVars, deliveryGhosts>>

\* --dry-run, --no-email
Skip(p) ==
    /\ At(p, "notify")
    /\ HandOn(p, NoJob)
    /\ UNCHANGED <<reportVars, senderVars, deliveryGhosts>>

Send ==
    /\ SendStep
    /\ delivered' = IF mail'.taken # {} /\ ~job[Mailer].test
                      THEN delivered \cup {job[Mailer].page} ELSE delivered
    /\ UNCHANGED <<reportVars, job, rendered, spoiled>>

Finish ==
    /\ Answered
    /\ LeaveMail
    /\ HandOn(Mailer, NoJob)
    /\ UNCHANGED <<reportVars, deliveryGhosts>>

\* The process raises or is killed; what it has written stays as it is.
Stop(p) ==
    /\ job[p].pc # "idle"
    /\ HandOn(p, NoJob)
    /\ IF At(p, "sending") THEN LeaveMail ELSE UNCHANGED senderVars
    /\ spoiled' = IF Rewriting(p) THEN spoiled \cup {job[p].stem} ELSE spoiled
    /\ UNCHANGED <<reportVars, rendered, delivered>>

Clock ==
    /\ SecondPasses \/ FallBack
    /\ UNCHANGED <<senderVars, job, deliveryGhosts>>

Next ==
    \/ \E p \in Procs :
         \/ Render(p) \/ OpenHtml(p) \/ FillHtml(p)
         \/ BeginTestSend(p) \/ Read(p)
         \/ OpenPdf(p) \/ FillPdf(p) \/ Notify(p) \/ Skip(p) \/ Stop(p)
    \/ Send \/ Finish \/ Clock

Spec == Init /\ [][Next]_vars

-----------------------------------------------------------------------------
(* Properties *)

\* A report that was sent has been taken for every address of the three fields
\* the server did not refuse, and for one at least (sender.py:63-76).
SentIsComplete ==
    mail.pc = "sent" => mail.taken = Envelope \ mail.refused /\ mail.taken # {}

\* A run that fails although somebody has got its report, which the next run
\* will send again, is described to the operator as an e-mail error, whatever
\* the session raised on its way out (sender.py:71-76, errors.py:122).
LateFailureIsEmailError ==
    mail.pc = "failed" /\ mail.taken # {} => Described(mail.raised) = "email_error"

SecondReused(n) == \E m \in DOMAIN rendered : m # n /\ rendered[m] = rendered[n]

\* The audit trail: both files of a delivered report stay on disk, whatever is
\* killed when, unless another report was generated in the same second of local
\* time (pipeline.py:183).  The PDF alone, which test-send writes anew
\* (main.py:216-222), may be in parts: while a test-send writes it, and for good
\* when one was killed doing so, had read the HTML while that was written, or
\* wrote it at the same time as another process.
AuditTrail ==
    \A n \in delivered :
      LET stem == rendered[n]
          pdf == disk[stem].pdf
      IN  \/ SecondReused(n)
          \/ /\ disk[stem].html = n
             /\ \/ pdf = n
                \/ /\ pdf = Torn
                   /\ \/ stem \in spoiled
                      \/ \E p \in Procs : Rewriting(p) /\ job[p].stem = stem

\* test-send never sends a report older than the newest complete one it found,
\* as long as local time runs forwards and no two reports share a second; it
\* may send one that is empty or half written (main.py:206-218).
TestSendsTheLatest ==
    \A p \in Procs :
      (job[p].test /\ job[p].pc # "read") =>
        \/ fellBack
        \/ \E n \in DOMAIN rendered : SecondReused(n)
        \/ job[p].page = Torn
        \/ job[p].page >= job[p].expected
=============================================================================
