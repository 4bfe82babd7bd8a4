--------------------------- MODULE DeliveryProofs ---------------------------
(***************************************************************************)
(* Proofs about Delivery, for any processes, seconds and reports.          *)
(***************************************************************************)
EXTENDS Delivery, TLAPS

-----------------------------------------------------------------------------
(* The mail session: what holds between its steps, and that each step is   *)
(* one of Notification.                                                    *)

BeforeData == {"idle", "load", "connect", "login", "address", "data"}

\* Nobody has the report before DATA, and everybody the server accepted has it
\* once it answered; what was raised after that is an SMTP error.
MailInv ==
    /\ SenderTypeOK
    /\ mail.pc \in {"idle", "load"} => list = NoList
    /\ mail.pc \in BeforeData => mail.taken = {} /\ mail.raised = "none"
    /\ mail.pc \in {"quit", "sent"} /\ mail.raised = "none" =>
         mail.taken = Envelope \ mail.refused /\ mail.taken # {}
    /\ mail.taken # {} => mail.raised \in {"none", "EmailSendError"}
    /\ mail.pc = "sent" => mail.raised = "none"
    /\ mail.pc = "failed" => mail.raised # "none"

SenderNext == BeginSend \/ SendStep \/ LeaveMail

-----------------------------------------------------------------------------
LEMMA EnvelopeType ==
  ASSUME SenderTypeOK
  PROVE  Envelope \subseteq Addresses
BY ListsAssumption DEF SenderTypeOK, NoList, ListFile, Envelope

LEMMA SenderInitially ==
  ASSUME SenderInit
  PROVE  MailInv
BY DEF SenderInit, MailInv, SenderTypeOK, Mail, NoMail, Errors, BeforeData

LEMMA SenderInductive ==
  ASSUME MailInv, [SenderNext]_senderVars
  PROVE  MailInv'
<1> USE DEF MailInv, SenderTypeOK, BeforeData
<1>0. Envelope \subseteq Addresses
  BY EnvelopeType
<1>1. CASE BeginSend
  BY <1>1 DEF BeginSend, NoMail, Mail, Errors, Envelope
<1>2. CASE LoadRecipients
  BY <1>2 DEF LoadRecipients, Mail, Errors, Envelope
<1>3. CASE Connect
  BY <1>3 DEF Connect, Mail, Errors, Envelope
<1>4. CASE Login
  BY <1>4 DEF Login, Raise, Mail, Errors, Envelope
<1>5. CASE Address
  BY <1>0, <1>5 DEF Address, Raise, Mail, Errors, Envelope
<1>6. CASE Data
  BY <1>0, <1>6 DEF Data, Raise, Mail, Errors, Envelope
<1>7. CASE Quit
  BY <1>7 DEF Quit, Mail, Errors, Envelope
<1>8. CASE LeaveMail
  BY <1>8 DEF LeaveMail, NoMail, Mail, Errors
<1>9. CASE UNCHANGED senderVars
  BY <1>9 DEF senderVars, Envelope
<1> QED
  BY <1>1, <1>2, <1>3, <1>4, <1>5, <1>6, <1>7, <1>8, <1>9 DEF SenderNext, SendStep

-----------------------------------------------------------------------------
LEMMA InitImplements ==
  ASSUME SenderInit
  PROVE  Note!Init
BY DEF SenderInit, Note!Init, Phase, NoMail, NoList, Envelope

\* A loaded list names somebody.
LEMMA ValidNames ==
  ASSUME NEW file \in Lists, Valid(file), list' = file, SenderTypeOK
  PROVE  Envelope' \in (SUBSET Addresses) \ {{}}
BY ListsAssumption DEF Valid, Envelope, ListFile

LEMMA StepImplements ==
  ASSUME MailInv, [SenderNext]_senderVars
  PROVE  [Note!Next]_(Note!notificationVars)
<1> USE DEF Phase, Note!Next, Note!notificationVars
<1>0. mail \in Mail
  BY DEF MailInv, SenderTypeOK
<1>1. CASE BeginSend
  BY <1>0, <1>1 DEF BeginSend, NoMail, Mail, Envelope, MailInv, BeforeData, Note!Begin
<1>2. CASE LoadRecipients
  <2>1. PICK file \in Lists : IF Valid(file)
           THEN list' = file /\ mail' = [mail EXCEPT !.pc = "connect"]
           ELSE /\ mail' = [mail EXCEPT !.pc = "failed", !.raised = "RecipientsError"]
                /\ UNCHANGED list
    BY <1>2 DEF LoadRecipients
  <2>2. mail.pc = "load" /\ list = NoList /\ Envelope = {}
    BY <1>2 DEF LoadRecipients, MailInv, NoList, Envelope
  <2>3. CASE Valid(file)
    <3>1. Envelope' \in (SUBSET Addresses) \ {{}}
      BY <2>1, <2>3, ValidNames DEF MailInv
    <3>2. mail'.pc = "connect" /\ mail'.taken = mail.taken
      BY <1>0, <2>1, <2>3 DEF Mail
    <3> QED
      BY <2>2, <3>1, <3>2 DEF Note!Address
  <2>4. CASE ~Valid(file)
    <3>1. mail'.pc = "failed" /\ mail'.taken = mail.taken /\ UNCHANGED list
      BY <1>0, <2>1, <2>4 DEF Mail
    <3> QED
      BY <2>2, <3>1 DEF Note!Fail, Envelope
  <2> QED
    BY <2>3, <2>4
<1>3. CASE Connect
  BY <1>0, <1>3 DEF Connect, Mail, Envelope, Note!Fail
<1>4. CASE Login
  BY <1>0, <1>4 DEF Login, Raise, Mail, Envelope
<1>5. CASE Address
  BY <1>0, <1>5 DEF Address, Raise, Mail, Envelope
<1>6. CASE Data
  <2>1. mail.taken = {} /\ mail.pc = "data" /\ UNCHANGED list
    BY <1>6 DEF Data, MailInv, BeforeData
  <2>2. /\ mail'.pc = "quit"
        /\ \/ mail'.taken = Envelope \ mail.refused /\ Envelope \ mail.refused # {}
           \/ mail'.taken = mail.taken
    BY <1>0, <1>6 DEF Data, Raise, Mail
  <2> QED
    BY <2>1, <2>2 DEF Note!Take, Envelope
<1>7. CASE Quit
  <2>1. mail.pc = "quit" /\ UNCHANGED list /\ mail'.taken = mail.taken
    BY <1>0, <1>7 DEF Quit, Mail
  <2>2. \/ mail'.pc = "failed"
        \/ mail'.pc = "sent" /\ mail.raised = "none"
    BY <1>0, <1>7 DEF Quit, Mail
  <2>3. mail.raised = "none" => mail.taken # {}
    BY <2>1 DEF MailInv
  <2> QED
    BY <2>1, <2>2, <2>3 DEF Note!Fail, Note!Confirm, Envelope
<1>8. CASE LeaveMail
  BY <1>0, <1>8 DEF LeaveMail, NoMail, NoList, Envelope, Note!Leave
<1>9. CASE UNCHANGED senderVars
  BY <1>9 DEF senderVars, Envelope
<1> QED
  BY <1>1, <1>2, <1>3, <1>4, <1>5, <1>6, <1>7, <1>8, <1>9 DEF SenderNext, SendStep

-----------------------------------------------------------------------------
(* Types, files and reports *)

\* The stages of a cycle with a report, of one that has not
\* handed it to the mail server, and those that have the HTML file, or both
\* files, behind them.
HasReport == Stages \ {"idle", "read"}
Unsent == HasReport \ {"sending"}
HtmlWritten == {"open_pdf", "fill_pdf", "notify", "sending"}
PdfWritten == {"notify", "sending"}

Active(p) == ~job[p].test /\ job[p].pc \in HasReport

\* The reports of a stem.
Of(stem) == {n \in DOMAIN rendered : rendered[n] = stem}

\* What a file may hold, and what test-send has in memory.
DiskInv ==
    \A s \in Stems : /\ disk[s].html \in {Absent, Torn} \cup Of(s)
                     /\ disk[s].pdf \in {Absent, Torn} \cup Of(s)

TestInv(p) ==
    /\ job[p].pc = "read" => job[p].test
    /\ job[p].test =>
      /\ job[p].pc \in {"read", "open_pdf", "fill_pdf", "notify", "sending"}
      /\ disk[job[p].stem].html # Absent
      /\ job[p].pc # "read" => job[p].page \in {Torn} \cup Of(job[p].stem)

\* A cycle owns its report, and has it to itself until it is sent.
OwnInv(p) ==
    Active(p) =>
      /\ job[p].page \in Of(job[p].stem)
      /\ \A q \in Procs \ {p} : Active(q) => job[q].page # job[p].page
      /\ job[p].pc \in Unsent => job[p].page \notin delivered

HtmlOf(n) == disk[rendered[n]].html = n
Excused(stem) == stem \in spoiled \/ \E q \in Procs : Rewriting(q) /\ job[q].stem = stem
PdfOf(n) ==
    \/ disk[rendered[n]].pdf = n
    \/ disk[rendered[n]].pdf = Torn /\ Excused(rendered[n])

\* What a cycle has written stays as long as the second is its own.
WrittenInv(p) ==
    LET n == job[p].page IN
    Active(p) /\ ~SecondReused(n) =>
      /\ job[p].pc = "fill_html" => disk[job[p].stem].html = Torn
      /\ job[p].pc \in HtmlWritten => HtmlOf(n)
      /\ job[p].pc \in PdfWritten => PdfOf(n)

JobInv(p) ==
    TestInv(p) /\ OwnInv(p) /\ WrittenInv(p)

\* Only the mailer sends, and it follows its session to the end.
SendingInv ==
    /\ mail.pc # "idle" <=> job[Mailer].pc = "sending"
    /\ \A p \in Procs : job[p].pc = "sending" => p = Mailer

DeliveryInv ==
    /\ TypeOK
    /\ MailInv
    /\ SendingInv
    /\ DiskInv
    /\ \A p \in Procs : JobInv(p)
    /\ AuditTrail

-----------------------------------------------------------------------------
(* What the steps have in common *)

LEMMA OthersJobs ==
  ASSUME job \in [Procs -> Jobs], NEW p \in Procs, NEW updated, HandOn(p, updated)
  PROVE  /\ job'[p] = updated
         /\ \A q \in Procs \ {p} : job'[q] = job[q]
BY DEF HandOn

LEMMA ReportsOfStem ==
  ASSUME TypeOK
  PROVE  /\ DOMAIN rendered = 1 .. Len(rendered) /\ Len(rendered) \in 0 .. MaxReports
         /\ MaxReports \in Nat
         /\ \A n \in DOMAIN rendered : rendered[n] \in Stems /\ n \in ReportIds
         /\ \A stem : Of(stem) \subseteq DOMAIN rendered /\ Of(stem) \subseteq Contents
BY ReportsAssumption DEF TypeOK, Of, ReportIds, Contents

LEMMA StepOfSender ==
  ASSUME [Next]_vars
  PROVE  [SenderNext]_senderVars
BY DEF Next, vars, SenderNext, Render, OpenHtml, FillHtml, BeginTestSend, Read,
       OpenPdf, FillPdf, Notify, Skip, Send, Finish, Stop, Clock

\* What excuses a PDF in parts holds on, unless it is p that ends it.
LEMMA ExcuseStays ==
  ASSUME job \in [Procs -> Jobs], NEW p \in Procs, NEW updated, HandOn(p, updated),
         spoiled \subseteq spoiled', Rewriting(p) => job[p].stem \in spoiled',
         NEW stem, Excused(stem)
  PROVE  Excused(stem)'
<1>1. CASE stem \in spoiled
  BY <1>1 DEF Excused
<1>2. ASSUME NEW q \in Procs, Rewriting(q), job[q].stem = stem
      PROVE  Excused(stem)'
  <2>1. CASE q = p
    BY <1>2, <2>1 DEF Excused
  <2>2. CASE q # p
    <3>1. job'[q] = job[q]
      BY <2>2, OthersJobs
    <3> QED
      BY <1>2, <3>1 DEF Excused, Rewriting, At
  <2> QED
    BY <2>1, <2>2
<1> QED
  BY <1>1, <1>2 DEF Excused

\* A delivered report keeps its files.
LEMMA AuditOf ==
  AuditTrail <=> \A n \in delivered : SecondReused(n) \/ (HtmlOf(n) /\ PdfOf(n))
BY DEF AuditTrail, HtmlOf, PdfOf, Excused

LEMMA AuditOfNext ==
  AuditTrail' <=> \A n \in delivered' : SecondReused(n)' \/ (HtmlOf(n)' /\ PdfOf(n)')
BY DEF AuditTrail, HtmlOf, PdfOf, Excused, Rewriting, At, SecondReused

\* A step of p that touches no file, sends nothing and renders nothing leaves
\* the others alone, unless it takes their report.
LEMMA QuietStep ==
  ASSUME DeliveryInv, NEW p \in Procs, NEW updated \in Jobs, HandOn(p, updated),
         UNCHANGED <<disk, rendered, delivered>>,
         spoiled \subseteq spoiled', Rewriting(p) => job[p].stem \in spoiled',
         Active(p)' => Active(p) /\ updated.page = job[p].page
  PROVE  /\ DiskInv' /\ AuditTrail'
         /\ job' \in [Procs -> Jobs]
         /\ \A q \in Procs \ {p} : JobInv(q)'
         /\ Active(p)' => \A q \in Procs \ {p} : Active(q)' => job'[q].page # job'[p].page
<1>1. /\ job'[p] = updated
      /\ \A q \in Procs \ {p} : job'[q] = job[q]
  BY OthersJobs DEF DeliveryInv, TypeOK
<1>2. job' \in [Procs -> Jobs]
  BY DEF DeliveryInv, TypeOK, HandOn
<1>3. DiskInv'
  BY DEF DeliveryInv, DiskInv, Of
<1>0. \A n \in DOMAIN rendered : /\ SecondReused(n)' <=> SecondReused(n)
                                 /\ HtmlOf(n) => HtmlOf(n)'
                                 /\ PdfOf(n) => PdfOf(n)'
  <2>1. \A stem : Excused(stem) => Excused(stem)'
    BY ExcuseStays DEF DeliveryInv, TypeOK
  <2> QED
    BY <2>1 DEF SecondReused, HtmlOf, PdfOf
<1>4. AuditTrail'
  BY <1>0, AuditOf, AuditOfNext DEF DeliveryInv, TypeOK
<1>5. ASSUME NEW q \in Procs \ {p} PROVE JobInv(q)'
  <2>1. JobInv(q) /\ JobInv(p)
    BY DEF DeliveryInv
  <2>2. TestInv(q)'
    BY <1>1, <2>1 DEF JobInv, TestInv, Of
  <2>3. OwnInv(q)'
    BY <1>1, <2>1 DEF JobInv, OwnInv, Active, Of
  <2>4. WrittenInv(q)'
    BY <1>0, <1>1, <2>1 DEF JobInv, OwnInv, Of, WrittenInv, Active
  <2> QED
    BY <2>2, <2>3, <2>4 DEF JobInv
<1>6. Active(p)' => \A q \in Procs \ {p} : Active(q)' => job'[q].page # job'[p].page
  BY <1>1 DEF DeliveryInv, JobInv, OwnInv, Active
<1> QED
  BY <1>2, <1>3, <1>4, <1>5, <1>6

LEMMA NoJobType ==
  NoJob \in Jobs
BY ReportsAssumption DEF NoJob, Jobs, Stages, Stems, Contents

\* A process that stops or ends has nothing to keep.
LEMMA Ending ==
  ASSUME DeliveryInv, NEW p \in Procs, HandOn(p, NoJob),
         UNCHANGED <<disk, rendered, delivered>>,
         spoiled \subseteq spoiled', Rewriting(p) => job[p].stem \in spoiled'
  PROVE  DiskInv' /\ AuditTrail' /\ job' \in [Procs -> Jobs] /\ \A q \in Procs : JobInv(q)'
<1>1. NoJob \in Jobs
  BY NoJobType
<1>2. job'[p] = NoJob
  BY OthersJobs DEF DeliveryInv, TypeOK
<1>3. ~Active(p)' /\ JobInv(p)'
  BY <1>2 DEF NoJob, Active, HasReport, JobInv, TestInv, OwnInv, WrittenInv
<1> QED
  BY <1>1, <1>3, QuietStep

-----------------------------------------------------------------------------
(* The actions, one by one *)

Kept == DiskInv /\ AuditTrail /\ job \in [Procs -> Jobs] /\ \A q \in Procs : JobInv(q)

LEMMA BeginTestSendKeeps ==
  ASSUME DeliveryInv, NEW p \in Procs, BeginTestSend(p)
  PROVE  Kept'
<1>1. PICK stem, newest \in Stems :
        /\ Latest(stem)
        /\ HandOn(p, [NoJob EXCEPT !.pc = "read", !.test = TRUE, !.stem = stem,
                                   !.expected = disk[newest].html])
  BY DEF BeginTestSend
<1> DEFINE updated == [NoJob EXCEPT !.pc = "read", !.test = TRUE, !.stem = stem,
                                    !.expected = disk[newest].html]
<1>2. disk[newest].html \in Contents
  BY DEF DeliveryInv, TypeOK, ReportsTypeOK
<1>3. updated \in Jobs
  BY <1>2, NoJobType DEF Jobs, Stages
<1>4. updated.pc = "read" /\ updated.test = TRUE /\ updated.stem = stem
  BY DEF NoJob
<1>5. job'[p] = updated
  BY <1>1, OthersJobs DEF DeliveryInv, TypeOK
<1> HIDE DEF updated
<1>6. ~Active(p)'
  BY <1>4, <1>5 DEF Active
<1>7. UNCHANGED <<disk, rendered, delivered, spoiled>> /\ ~Rewriting(p)
  BY DEF BeginTestSend, reportVars, deliveryGhosts, Rewriting, At
<1>8. JobInv(p)'
  <2>1. disk[stem].html # Absent
    BY <1>1 DEF Latest, SavedStems
  <2> QED
    BY <1>4, <1>5, <1>6, <1>7, <2>1 DEF JobInv, TestInv, OwnInv, WrittenInv, PdfWritten
<1> QED
  BY <1>1, <1>3, <1>6, <1>7, <1>8, QuietStep DEF Kept, updated

LEMMA ReadKeeps ==
  ASSUME DeliveryInv, NEW p \in Procs, Read(p)
  PROVE  Kept'
<1> DEFINE page == disk[job[p].stem].html
           updated == [job[p] EXCEPT !.pc = "open_pdf", !.page = page]
<1>1. /\ job[p] \in Jobs /\ JobInv(p) /\ job[p].pc = "read"
      /\ HandOn(p, updated) /\ job'[p] = updated
      /\ UNCHANGED <<disk, rendered, delivered, spoiled>> /\ ~Rewriting(p)
  BY OthersJobs DEF DeliveryInv, TypeOK, Read, At, reportVars, deliveryGhosts, Rewriting
<1>2. page \in Contents
  BY <1>1 DEF DeliveryInv, TypeOK, ReportsTypeOK, Jobs
<1>3. updated \in Jobs
  BY <1>1, <1>2 DEF Jobs, Stages
<1>4. /\ updated.pc = "open_pdf" /\ updated.test = job[p].test
      /\ updated.stem = job[p].stem /\ updated.page = page
  BY <1>1 DEF Jobs
<1>5. /\ job[p].test /\ page # Absent
      /\ page \in {Torn} \cup Of(job[p].stem)
  BY <1>1 DEF JobInv, TestInv, DeliveryInv, DiskInv, Jobs
<1> HIDE DEF page, updated
<1>6. ~Active(p)'
  BY <1>1, <1>4, <1>5 DEF Active
<1>7. JobInv(p)'
  <2>1. TestInv(p)'
    BY <1>1, <1>4, <1>5 DEF TestInv, JobInv, PdfWritten, Of, page
  <2> QED
    BY <1>1, <1>4, <1>6, <2>1 DEF JobInv, OwnInv, WrittenInv
<1> QED
  BY <1>1, <1>3, <1>6, <1>7, QuietStep DEF Kept

LEMMA NotifyKeeps ==
  ASSUME DeliveryInv, NEW p \in Procs, Notify(p)
  PROVE  Kept'
<1> DEFINE updated == [job[p] EXCEPT !.pc = "sending"]
<1>1. /\ job[p] \in Jobs /\ JobInv(p) /\ job[p].pc = "notify"
      /\ HandOn(p, updated) /\ job'[p] = updated
      /\ UNCHANGED <<disk, rendered, delivered, spoiled>> /\ ~Rewriting(p)
  BY OthersJobs DEF DeliveryInv, TypeOK, Notify, At, reportVars, deliveryGhosts, Rewriting
<1>2. updated \in Jobs
  BY <1>1 DEF Jobs, Stages
<1>3. /\ updated.pc = "sending" /\ updated.test = job[p].test
      /\ updated.stem = job[p].stem /\ updated.page = job[p].page
  BY <1>1 DEF Jobs
<1> HIDE DEF updated
<1>4. Active(p)' => Active(p)
  BY <1>1, <1>3 DEF Active, HasReport, Stages
<1>5. \A q \in Procs \ {p} : Active(p)' /\ Active(q)' => job'[q].page # job'[p].page
  BY <1>1, <1>2, <1>3, <1>4, QuietStep
<1>6. JobInv(p)'
  <2>1. TestInv(p)'
    BY <1>1, <1>3 DEF TestInv, JobInv, PdfWritten, Of
  <2>2. OwnInv(p)'
    BY <1>1, <1>3, <1>4, <1>5 DEF OwnInv, JobInv, Of, Unsent, HasReport
  <2>3. WrittenInv(p)'
    <3>1. \A stem : Excused(stem) => Excused(stem)'
      BY <1>1, ExcuseStays DEF DeliveryInv, TypeOK
    <3> QED
      BY <1>1, <1>3, <1>4, <3>1
         DEF WrittenInv, JobInv, SecondReused, HtmlOf, PdfOf, HtmlWritten, PdfWritten
  <2> QED
    BY <2>1, <2>2, <2>3 DEF JobInv
<1> QED
  BY <1>1, <1>2, <1>3, <1>4, <1>6, QuietStep DEF Kept

\* The new report has a number of its own.
LEMMA RenderKeeps ==
  ASSUME DeliveryInv, NEW p \in Procs, Render(p)
  PROVE  Kept'
<1> DEFINE id == Len(rendered) + 1
           updated == [NoJob EXCEPT !.pc = "open_html", !.stem = now, !.page = id]
<1>1. /\ job[p] \in Jobs /\ JobInv(p) /\ job[p].pc = "idle"
      /\ Len(rendered) < MaxReports
      /\ HandOn(p, updated) /\ job'[p] = updated
      /\ \A q \in Procs \ {p} : job'[q] = job[q]
      /\ UNCHANGED <<disk, delivered, spoiled>> /\ ~Rewriting(p)
  BY OthersJobs DEF DeliveryInv, TypeOK, Render, At, reportVars, Rewriting
<1>2. /\ rendered' = Append(rendered, now)
      /\ rendered \in Seq(Stems) /\ now \in Stems /\ delivered \subseteq DOMAIN rendered
  BY DEF Render, DeliveryInv, TypeOK, ReportsTypeOK
<1>3. /\ DOMAIN rendered = 1 .. Len(rendered) /\ DOMAIN rendered' = 1 .. id
      /\ Len(rendered) \in Nat /\ id \notin DOMAIN rendered
      /\ rendered'[id] = now /\ id \in DOMAIN rendered'
      /\ \A n \in DOMAIN rendered : rendered'[n] = rendered[n] /\ n \in DOMAIN rendered'
  BY <1>2
<1>4. /\ \A stem : Of(stem) \subseteq Of(stem)'
      /\ \A n \in DOMAIN rendered : SecondReused(n) => SecondReused(n)'
  BY <1>3 DEF Of, SecondReused
<1>5. updated \in Jobs
  <2>1. id \in Contents
    BY <1>1, <1>3, ReportsAssumption DEF Contents, ReportIds
  <2> HIDE DEF id
  <2> QED
    BY <1>2, <2>1, NoJobType DEF Jobs, Stages
<1>6. /\ updated.pc = "open_html" /\ updated.test = FALSE
      /\ updated.stem = now /\ updated.page = id
  BY DEF NoJob
<1>7. job' \in [Procs -> Jobs]
  BY <1>1, <1>5 DEF DeliveryInv, TypeOK, HandOn
<1> HIDE DEF updated, id
<1>8. DiskInv'
  BY <1>1, <1>4 DEF DeliveryInv, DiskInv
<1>10. \A n \in DOMAIN rendered : HtmlOf(n) /\ PdfOf(n) => HtmlOf(n)' /\ PdfOf(n)'
  <2>1. \A stem : Excused(stem) => Excused(stem)'
    BY <1>1, ExcuseStays DEF DeliveryInv, TypeOK
  <2> QED
    BY <1>1, <1>3, <2>1 DEF HtmlOf, PdfOf
<1>9. AuditTrail'
  BY <1>1, <1>2, <1>4, <1>10, AuditOf, AuditOfNext DEF DeliveryInv
<1>11. \A q \in Procs \ {p} : Active(q) => job[q].page \in DOMAIN rendered
  BY DEF DeliveryInv, JobInv, OwnInv, Of
<1>12. ASSUME NEW q \in Procs \ {p} PROVE JobInv(q)'
  <2>1. JobInv(q) /\ job'[q] = job[q]
    BY <1>1 DEF DeliveryInv
  <2>2. TestInv(q)'
    BY <1>1, <1>4, <2>1 DEF JobInv, TestInv
  <2>3. OwnInv(q)'
    <3>1. SUFFICES ASSUME Active(q) PROVE OwnInv(q)'
      BY <2>1 DEF OwnInv, Active
    <3>2. job[q].page \in DOMAIN rendered /\ job[q].page # id
      BY <1>3, <1>11, <3>1
    <3>3. \A o \in Procs \ {q} : Active(o)' => job'[o].page # job'[q].page
      BY <1>1, <1>6, <2>1, <3>1, <3>2 DEF JobInv, OwnInv, Active
    <3>4. job[q].page \in Of(job[q].stem) /\ (job[q].pc \in Unsent => job[q].page \notin delivered)
      BY <2>1, <3>1 DEF JobInv, OwnInv
    <3>5. job'[q].page \in {n \in DOMAIN rendered' : rendered'[n] = job'[q].stem}
      BY <1>3, <2>1, <3>4 DEF Of
    <3>6. UNCHANGED delivered
      BY <1>1
    <3> QED
      BY <2>1, <3>3, <3>4, <3>5, <3>6 DEF OwnInv, Of
  <2>4. WrittenInv(q)'
    <3>1. SUFFICES ASSUME Active(q), ~SecondReused(job[q].page)' PROVE WrittenInv(q)'
      BY <2>1 DEF WrittenInv, Active
    <3>2. job[q].page \in DOMAIN rendered /\ ~SecondReused(job[q].page)
      BY <1>4, <1>11, <2>1, <3>1
    <3>3. /\ job[q].pc = "fill_html" => disk[job[q].stem].html = Torn
          /\ job[q].pc \in HtmlWritten => HtmlOf(job[q].page)
          /\ job[q].pc \in PdfWritten => PdfOf(job[q].page) /\ HtmlOf(job[q].page)
      BY <2>1, <3>1, <3>2 DEF JobInv, WrittenInv, PdfWritten, HtmlWritten
    <3>4. HtmlOf(job[q].page) => HtmlOf(job[q].page)'
      BY <1>1, <1>3, <2>1, <3>2 DEF HtmlOf
    <3>5. HtmlOf(job[q].page) /\ PdfOf(job[q].page) => PdfOf(job[q].page)'
      BY <1>10, <2>1, <3>2
    <3> QED
      BY <1>1, <2>1, <3>3, <3>4, <3>5 DEF WrittenInv
  <2> QED
    BY <2>2, <2>3, <2>4 DEF JobInv
<1>13. JobInv(p)'
  <2>1. TestInv(p)'
    BY <1>1, <1>6 DEF TestInv
  <2>2. OwnInv(p)'
    <3>1. \A q \in Procs \ {p} : Active(q)' => job'[q].page # id
      BY <1>1, <1>3, <1>11 DEF Active
    <3>2. job'[p].page = id /\ id \in {n \in DOMAIN rendered' : rendered'[n] = job'[p].stem}
      BY <1>1, <1>3, <1>6
    <3>3. id \notin delivered'
      BY <1>1, <1>2, <1>3
    <3> QED
      BY <3>1, <3>2, <3>3 DEF OwnInv, Of
  <2>3. WrittenInv(p)'
    BY <1>1, <1>6 DEF WrittenInv, HtmlWritten, PdfWritten
  <2> QED
    BY <2>1, <2>2, <2>3 DEF JobInv
<1> QED
  BY <1>7, <1>8, <1>9, <1>12, <1>13 DEF Kept

-----------------------------------------------------------------------------
(* The files *)

Kinds == {"html", "pdf"}

\* One file is emptied, filled or torn, and no other.
Writes(stem, kind, content) ==
    /\ disk' \in [Stems -> [html: Contents, pdf: Contents]]
    /\ disk'[stem][kind] \in {content, Torn}
    /\ \A s \in Stems, k \in Kinds : s # stem \/ k # kind => disk'[s][k] = disk[s][k]

\* The job goes on with the same report.
GoesOn(p, updated) ==
    /\ HandOn(p, updated)
    /\ updated.test = job[p].test
    /\ updated.stem = job[p].stem
    /\ updated.page = job[p].page

LEMMA FileOpened ==
  ASSUME ReportsTypeOK, NEW stem \in Stems, NEW kind \in Kinds, NEW content \in Contents,
         OpenFile(stem, kind)
  PROVE  Writes(stem, kind, content) /\ disk'[stem][kind] = Torn
BY DEF ReportsTypeOK, OpenFile, Kinds, Contents, Writes

LEMMA FileFilled ==
  ASSUME ReportsTypeOK, NEW stem \in Stems, NEW kind \in Kinds, NEW content \in Contents,
         FillFile(stem, kind, content)
  PROVE  /\ Writes(stem, kind, content)
         /\ disk[stem][kind] = Torn => disk'[stem][kind] = content
<1>1. PICK outcome \in {content} \cup (IF disk[stem][kind] = Torn THEN {} ELSE {Torn}) :
        disk' = [disk EXCEPT ![stem][kind] = outcome]
  BY DEF FillFile
<1>2. outcome \in Contents
  BY <1>1 DEF Contents
<1> QED
  BY <1>1, <1>2 DEF ReportsTypeOK, Kinds, Writes

\* Two cycles that share a stem have two reports of it.
LEMMA SharedStem ==
  ASSUME DeliveryInv, NEW p \in Procs, Active(p), NEW n \in DOMAIN rendered,
         n # job[p].page, rendered[n] = job[p].stem
  PROVE  SecondReused(n)
BY DEF DeliveryInv, JobInv, OwnInv, Of, SecondReused

\* A cycle that writes the HTML file of its report.
LEMMA HtmlStep ==
  ASSUME DeliveryInv, NEW p \in Procs, NEW updated \in Jobs, GoesOn(p, updated),
         UNCHANGED <<rendered, delivered, spoiled>>,
         Active(p), job[p].pc \in Unsent, updated.pc \in Unsent,
         Writes(job[p].stem, "html", job[p].page)
  PROVE  /\ DiskInv' /\ AuditTrail'
         /\ job' \in [Procs -> Jobs] /\ job'[p] = updated
         /\ \A q \in Procs \ {p} : JobInv(q)'
         /\ TestInv(p)' /\ OwnInv(p)'
<1> DEFINE id == job[p].page
           stem == job[p].stem
<1>0. /\ disk' \in [Stems -> [html: Contents, pdf: Contents]]
      /\ disk'[stem].html \in {id, Torn}
      /\ \A s \in Stems : /\ disk'[s].pdf = disk[s].pdf
                          /\ s # stem => disk'[s].html = disk[s].html
  BY DEF Writes, Kinds
<1>1. /\ job'[p] = updated
      /\ updated.test = job[p].test /\ updated.stem = stem /\ updated.page = id
      /\ \A q \in Procs \ {p} : job'[q] = job[q]
      /\ job' \in [Procs -> Jobs]
  BY OthersJobs DEF DeliveryInv, TypeOK, HandOn, GoesOn
<1>2. /\ stem \in Stems /\ id \in Of(stem) /\ id \notin delivered
      /\ id \notin {Absent, Torn}
  BY ReportsOfStem DEF DeliveryInv, TypeOK, JobInv, OwnInv, Jobs, ReportIds, Of, Absent, Torn
<1>3. Active(p)'
  BY <1>1 DEF Active, Unsent
<1>4. DiskInv'
  BY <1>0, <1>2 DEF DeliveryInv, DiskInv, Of
<1>9. \A s : Excused(s) => Excused(s)'
  BY ExcuseStays DEF DeliveryInv, TypeOK, GoesOn, Active, Rewriting
<1>5. AuditTrail'
  <2>0. \A s : Excused(s) => Excused(s)'
    BY <1>9
  <2>1. SUFFICES ASSUME NEW n \in delivered, ~SecondReused(n)
                 PROVE  disk'[rendered[n]] = disk[rendered[n]]
    BY <2>0, AuditOf, AuditOfNext DEF SecondReused, DeliveryInv, HtmlOf, PdfOf
  <2>2. n \in DOMAIN rendered /\ n # id /\ rendered[n] \in Stems
    BY <1>2, ReportsOfStem DEF DeliveryInv, TypeOK
  <2>3. rendered[n] # stem
    BY <2>1, <2>2, SharedStem
  <2> QED
    BY <1>0, <2>2, <2>3 DEF DeliveryInv, TypeOK, ReportsTypeOK
<1>6. ASSUME NEW q \in Procs \ {p} PROVE JobInv(q)'
  <2>1. JobInv(q) /\ job'[q] = job[q] /\ job[q].stem \in Stems
    BY <1>1 DEF DeliveryInv, TypeOK, Jobs
  <2>2. TestInv(q)'
    <3>1. disk[job[q].stem].html # Absent => disk'[job[q].stem].html # Absent
      BY <1>0, <1>2, <2>1 DEF Absent, Torn
    <3> QED
      BY <2>1, <3>1 DEF JobInv, TestInv, Of
  <2>3. OwnInv(q)'
    BY <1>1, <2>1 DEF JobInv, OwnInv, Active, Of, Unsent
  <2>4. WrittenInv(q)'
    <3>1. SUFFICES ASSUME Active(q), ~SecondReused(job[q].page) PROVE WrittenInv(q)'
      BY <2>1 DEF WrittenInv, Active, SecondReused
    <3>2. /\ job[q].page \in DOMAIN rendered /\ job[q].page # id
          /\ rendered[job[q].page] = job[q].stem
      BY <2>1, <3>1 DEF JobInv, OwnInv, Of
    <3>3. job[q].stem # stem
      BY <3>1, <3>2, SharedStem
    <3>4. disk'[job[q].stem] = disk[job[q].stem]
      BY <1>0, <2>1, <3>3 DEF DeliveryInv, TypeOK, ReportsTypeOK
    <3> QED
      BY <1>9, <2>1, <3>1, <3>2, <3>4 DEF JobInv, WrittenInv, HtmlOf, PdfOf
  <2> QED
    BY <2>2, <2>3, <2>4 DEF JobInv
<1>7. TestInv(p)'
  BY <1>1, <1>3 DEF TestInv, Active, Unsent, HasReport
<1>8. OwnInv(p)'
  BY <1>1, <1>2, <1>3 DEF OwnInv, Of, DeliveryInv, JobInv, Active
<1> QED
  BY <1>1, <1>4, <1>5, <1>6, <1>7, <1>8

LEMMA OpenHtmlKeeps ==
  ASSUME DeliveryInv, NEW p \in Procs, OpenHtml(p)
  PROVE  Kept'
<1> DEFINE updated == [job[p] EXCEPT !.pc = "fill_html"]
<1>1. /\ job[p] \in Jobs /\ JobInv(p) /\ job[p].pc = "open_html"
      /\ OpenFile(job[p].stem, "html")
      /\ HandOn(p, updated)
      /\ UNCHANGED <<rendered, delivered, spoiled>>
  BY DEF DeliveryInv, TypeOK, OpenHtml, At, deliveryGhosts
<1>2. updated \in Jobs
  BY <1>1 DEF Jobs, Stages
<1>3. /\ updated.pc = "fill_html" /\ GoesOn(p, updated)
  BY <1>1 DEF Jobs, GoesOn
<1> HIDE DEF updated
<1>4. /\ Writes(job[p].stem, "html", job[p].page)
      /\ disk'[job[p].stem].html = Torn
  BY <1>1, FileOpened DEF DeliveryInv, TypeOK, Jobs, Kinds
<1>5. Active(p) /\ job[p].pc \in Unsent /\ updated.pc \in Unsent
  BY <1>1, <1>3 DEF JobInv, TestInv, Active, HasReport, Unsent, Stages
<1>6. /\ DiskInv' /\ AuditTrail' /\ job' \in [Procs -> Jobs] /\ job'[p] = updated
      /\ \A q \in Procs \ {p} : JobInv(q)'
      /\ TestInv(p)' /\ OwnInv(p)'
  BY <1>1, <1>2, <1>3, <1>4, <1>5, HtmlStep
<1>7. WrittenInv(p)'
  BY <1>3, <1>4, <1>6 DEF GoesOn, WrittenInv, HtmlWritten, PdfWritten
<1> QED
  BY <1>6, <1>7 DEF Kept, JobInv

LEMMA FillHtmlKeeps ==
  ASSUME DeliveryInv, NEW p \in Procs, FillHtml(p)
  PROVE  Kept'
<1> DEFINE updated == [job[p] EXCEPT !.pc = "open_pdf"]
<1>1. /\ job[p] \in Jobs /\ JobInv(p) /\ job[p].pc = "fill_html"
      /\ FillFile(job[p].stem, "html", job[p].page)
      /\ HandOn(p, updated)
      /\ UNCHANGED <<rendered, delivered, spoiled>>
  BY DEF DeliveryInv, TypeOK, FillHtml, At, deliveryGhosts
<1>2. updated \in Jobs
  BY <1>1 DEF Jobs, Stages
<1>3. /\ updated.pc = "open_pdf" /\ GoesOn(p, updated)
  BY <1>1 DEF Jobs, GoesOn
<1> HIDE DEF updated
<1>4. /\ Writes(job[p].stem, "html", job[p].page)
      /\ disk[job[p].stem].html = Torn => disk'[job[p].stem].html = job[p].page
  BY <1>1, FileFilled DEF DeliveryInv, TypeOK, Jobs, Kinds
<1>5. Active(p) /\ job[p].pc \in Unsent /\ updated.pc \in Unsent
  BY <1>1, <1>3 DEF JobInv, TestInv, Active, HasReport, Unsent, Stages
<1>6. /\ DiskInv' /\ AuditTrail' /\ job' \in [Procs -> Jobs] /\ job'[p] = updated
      /\ \A q \in Procs \ {p} : JobInv(q)'
      /\ TestInv(p)' /\ OwnInv(p)'
  BY <1>1, <1>2, <1>3, <1>4, <1>5, HtmlStep
<1>7. WrittenInv(p)'
  <2>1. ~SecondReused(job[p].page) => disk'[job[p].stem].html = job[p].page
    BY <1>1, <1>4, <1>5 DEF JobInv, WrittenInv
  <2>2. rendered[job[p].page] = job[p].stem
    BY <1>1, <1>5 DEF JobInv, OwnInv, Of
  <2> QED
    BY <1>1, <1>3, <1>6, <2>1, <2>2
       DEF GoesOn, WrittenInv, HtmlWritten, PdfWritten, HtmlOf, SecondReused
<1> QED
  BY <1>6, <1>7 DEF Kept, JobInv

\* A report that has its second to itself is the only one of its stem.
LEMMA OnlyReport ==
  ASSUME NEW n \in DOMAIN rendered, ~SecondReused(n), NEW stem, rendered[n] = stem
  PROVE  Of(stem) = {n}
BY DEF Of, SecondReused

\* The PDF file is written, by the cycle of the report or by a test-send.
LEMMA PdfStep ==
  ASSUME DeliveryInv, NEW p \in Procs, NEW updated \in Jobs, GoesOn(p, updated),
         UNCHANGED <<rendered, delivered>>,
         spoiled \subseteq spoiled',
         job[p].test /\ disk'[job[p].stem].pdf = Torn => Excused(job[p].stem)',
         job[p].pc \in {"open_pdf", "fill_pdf"}, updated.pc \in {"fill_pdf", "notify"},
         Writes(job[p].stem, "pdf", job[p].page)
  PROVE  /\ DiskInv' /\ AuditTrail'
         /\ job' \in [Procs -> Jobs] /\ job'[p] = updated
         /\ \A q \in Procs \ {p} : JobInv(q)'
         /\ TestInv(p)' /\ OwnInv(p)'
<1> DEFINE id == job[p].page
           stem == job[p].stem
<1>0. /\ disk' \in [Stems -> [html: Contents, pdf: Contents]]
      /\ disk'[stem].pdf \in {id, Torn}
      /\ \A s \in Stems : disk'[s].html = disk[s].html
      /\ \A s \in Stems \ {stem} : disk'[s].pdf = disk[s].pdf
  BY DEF Writes, Kinds
<1>1. /\ job'[p] = updated
      /\ updated.test = job[p].test /\ updated.stem = stem /\ updated.page = id
      /\ \A q \in Procs \ {p} : job'[q] = job[q]
      /\ job' \in [Procs -> Jobs]
  BY OthersJobs DEF DeliveryInv, TypeOK, HandOn, GoesOn
<1>2. /\ stem \in Stems
      /\ JobInv(p)
      /\ job[p].test => id \in {Torn} \cup Of(stem)
      /\ Active(p) <=> ~job[p].test
      /\ Active(p) => id \in Of(stem) /\ id \notin delivered
  BY DEF DeliveryInv, TypeOK, Jobs, JobInv, TestInv, OwnInv, Active, HasReport, Unsent, Stages
<1>3. Active(p)' <=> Active(p)
  BY <1>1, <1>2 DEF Active, HasReport, Stages
<1>4. DiskInv'
  BY <1>0, <1>2 DEF DeliveryInv, DiskInv, Of
<1>9. ASSUME NEW s, s # stem, Excused(s) PROVE Excused(s)'
  <2>1. ASSUME NEW q \in Procs, Rewriting(q), job[q].stem = s
        PROVE  Rewriting(q)' /\ job'[q].stem = s
    <3>1. job'[q] = job[q]
      BY <1>1, <1>9, <2>1
    <3> QED
      BY <2>1, <3>1 DEF Rewriting, At
  <2> QED
    BY <1>9, <2>1 DEF Excused
<1>5. AuditTrail'
  <2>1. SUFFICES ASSUME NEW n \in delivered, ~SecondReused(n)
                 PROVE  HtmlOf(n)' /\ PdfOf(n)'
    BY AuditOfNext DEF SecondReused, DeliveryInv
  <2>2. /\ n \in DOMAIN rendered /\ rendered[n] \in Stems
        /\ HtmlOf(n) /\ PdfOf(n)
    BY <2>1, ReportsOfStem, AuditOf DEF DeliveryInv, TypeOK
  <2>3. CASE rendered[n] # stem
    BY <1>0, <1>9, <2>2, <2>3 DEF HtmlOf, PdfOf
  <2>4. CASE rendered[n] = stem
    <3>1. job[p].test
      BY <1>2, <2>1, <2>2, <2>4, SharedStem
    <3>2. Of(stem) = {n}
      BY <2>1, <2>2, <2>4, OnlyReport
    <3>3. disk'[stem].html = n /\ disk'[stem].pdf \in {n, Torn}
      BY <1>0, <1>2, <2>2, <2>4, <3>1, <3>2 DEF HtmlOf
    <3> QED
      BY <1>1, <2>4, <3>1, <3>3 DEF HtmlOf, PdfOf
  <2> QED
    BY <2>3, <2>4
<1>6. ASSUME NEW q \in Procs \ {p} PROVE JobInv(q)'
  <2>1. JobInv(q) /\ job'[q] = job[q] /\ job[q].stem \in Stems
    BY <1>1 DEF DeliveryInv, TypeOK, Jobs
  <2>2. TestInv(q)'
    BY <1>0, <2>1 DEF JobInv, TestInv, Of
  <2>3. OwnInv(q)'
    BY <1>1, <1>3, <2>1 DEF JobInv, OwnInv, Active, Of
  <2>4. WrittenInv(q)'
    <3>1. SUFFICES ASSUME Active(q), ~SecondReused(job[q].page) PROVE WrittenInv(q)'
      BY <2>1 DEF WrittenInv, Active, SecondReused
    <3> DEFINE n == job[q].page
    <3>2. n \in DOMAIN rendered /\ rendered[n] = job[q].stem
      BY <2>1, <3>1 DEF JobInv, OwnInv, Of
    <3>3. /\ job[q].pc = "fill_html" => disk[job[q].stem].html = Torn
          /\ job[q].pc \in HtmlWritten => HtmlOf(n)
          /\ job[q].pc \in PdfWritten => PdfOf(n)
      BY <2>1, <3>1 DEF JobInv, WrittenInv
    <3>4. CASE job[q].stem # stem
      BY <1>0, <1>9, <2>1, <3>2, <3>3, <3>4 DEF WrittenInv, HtmlOf, PdfOf
    <3>5. CASE job[q].stem = stem
      <4>1. Of(stem) = {n}
        BY <3>1, <3>2, <3>5, OnlyReport
      <4>2. job[p].test
        <5>1. Active(p) => id # n
          BY <1>2, <3>1 DEF JobInv, OwnInv
        <5> QED
          BY <1>2, <4>1, <5>1
      <4>3. disk'[stem].pdf = n \/ (disk'[stem].pdf = Torn /\ Excused(stem)')
        BY <1>0, <1>2, <4>1, <4>2
      <4>4. job'[p].stem = stem /\ job'[q].page = n /\ rendered'[n] = stem
        BY <1>1, <2>1, <3>2, <3>5
      <4>5. PdfOf(n)'
        BY <4>3, <4>4 DEF PdfOf
      <4>6. HtmlOf(n) => HtmlOf(n)'
        BY <1>0, <3>2, <4>4, ReportsOfStem DEF HtmlOf, DeliveryInv
      <4> QED
        BY <1>0, <2>1, <3>3, <3>5, <4>4, <4>5, <4>6 DEF WrittenInv
    <3> QED
      BY <3>4, <3>5
  <2> QED
    BY <2>2, <2>3, <2>4 DEF JobInv
<1>7. TestInv(p)'
  BY <1>0, <1>1, <1>2 DEF JobInv, TestInv, Of, PdfWritten
<1>8. OwnInv(p)'
  BY <1>1, <1>2, <1>3 DEF OwnInv, Of, DeliveryInv, JobInv, Active
<1> QED
  BY <1>1, <1>4, <1>5, <1>6, <1>7, <1>8

LEMMA OpenPdfKeeps ==
  ASSUME DeliveryInv, NEW p \in Procs, OpenPdf(p)
  PROVE  Kept'
<1> DEFINE updated == [job[p] EXCEPT !.pc = "fill_pdf"]
<1>1. /\ job[p] \in Jobs /\ JobInv(p) /\ job[p].pc = "open_pdf"
      /\ OpenFile(job[p].stem, "pdf")
      /\ HandOn(p, updated)
      /\ UNCHANGED <<rendered, delivered, spoiled>>
  BY DEF DeliveryInv, TypeOK, OpenPdf, At, deliveryGhosts
<1>2. updated \in Jobs
  BY <1>1 DEF Jobs, Stages
<1>3. updated.pc = "fill_pdf" /\ GoesOn(p, updated)
  BY <1>1 DEF Jobs, GoesOn
<1> HIDE DEF updated
<1>4. /\ Writes(job[p].stem, "pdf", job[p].page)
      /\ disk'[job[p].stem].pdf = Torn
  BY <1>1, FileOpened DEF DeliveryInv, TypeOK, Jobs, Kinds
<1>7. job[p].test => Excused(job[p].stem)'
  <2>1. job'[p] = updated
    BY <1>1, OthersJobs DEF DeliveryInv, TypeOK
  <2> QED
    BY <1>3, <2>1 DEF GoesOn, Excused, Rewriting, At
<1>5. /\ DiskInv' /\ AuditTrail' /\ job' \in [Procs -> Jobs] /\ job'[p] = updated
      /\ \A q \in Procs \ {p} : JobInv(q)'
      /\ TestInv(p)' /\ OwnInv(p)'
  BY <1>1, <1>2, <1>3, <1>4, <1>7, PdfStep
<1>6. WrittenInv(p)'
  <2>1. /\ disk'[job[p].stem].html = disk[job[p].stem].html
        /\ Active(p) => Active(p)' /\ rendered[job[p].page] = job[p].stem
    BY <1>1, <1>3, <1>4, <1>5
       DEF Writes, Kinds, Jobs, GoesOn, Active, JobInv, OwnInv, Of, HasReport, Stages
  <2>2. Active(p)' => Active(p)
    BY <1>1, <1>3, <1>5 DEF GoesOn, Active, HasReport, Stages
  <2> QED
    BY <1>1, <1>3, <1>4, <1>5, <2>1, <2>2
       DEF GoesOn, JobInv, WrittenInv, HtmlWritten, PdfWritten, HtmlOf, SecondReused
<1> QED
  BY <1>5, <1>6 DEF Kept, JobInv

LEMMA FillPdfKeeps ==
  ASSUME DeliveryInv, NEW p \in Procs, FillPdf(p)
  PROVE  Kept'
<1> DEFINE updated == [job[p] EXCEPT !.pc = "notify"]
<1>1. /\ job[p] \in Jobs /\ JobInv(p) /\ job[p].pc = "fill_pdf"
      /\ FillFile(job[p].stem, "pdf", job[p].page)
      /\ HandOn(p, updated)
      /\ UNCHANGED <<rendered, delivered>>
      /\ spoiled \subseteq spoiled'
      /\ job[p].page = Torn \/ disk[job[p].stem].pdf # Torn => job[p].stem \in spoiled'
  BY DEF DeliveryInv, TypeOK, FillPdf, At
<1>2. updated \in Jobs
  BY <1>1 DEF Jobs, Stages
<1>3. updated.pc = "notify" /\ GoesOn(p, updated)
  BY <1>1 DEF Jobs, GoesOn
<1> HIDE DEF updated
<1>4. /\ Writes(job[p].stem, "pdf", job[p].page)
      /\ disk[job[p].stem].pdf = Torn => disk'[job[p].stem].pdf = job[p].page
  BY <1>1, FileFilled DEF DeliveryInv, TypeOK, Jobs, Kinds
<1>7. disk'[job[p].stem].pdf = Torn => Excused(job[p].stem)'
  <2>1. job'[p].stem = job[p].stem
    BY <1>1, <1>3, OthersJobs DEF DeliveryInv, TypeOK, GoesOn
  <2>2. disk'[job[p].stem].pdf = Torn => job[p].stem \in spoiled'
    BY <1>1, <1>4
  <2> QED
    BY <2>1, <2>2 DEF Excused
<1>5. /\ DiskInv' /\ AuditTrail' /\ job' \in [Procs -> Jobs] /\ job'[p] = updated
      /\ \A q \in Procs \ {p} : JobInv(q)'
      /\ TestInv(p)' /\ OwnInv(p)'
  BY <1>1, <1>2, <1>3, <1>4, <1>7, PdfStep
<1>6. WrittenInv(p)'
  <2>1. /\ disk'[job[p].stem].html = disk[job[p].stem].html
        /\ disk'[job[p].stem].pdf \in {job[p].page, Torn}
        /\ Active(p) => rendered[job[p].page] = job[p].stem
    BY <1>1, <1>4 DEF Writes, Kinds, Jobs, JobInv, OwnInv, Of
  <2>2. Active(p)' => Active(p)
    BY <1>1, <1>3, <1>5 DEF GoesOn, Active, HasReport, Stages
  <2>3. Active(p) /\ ~SecondReused(job[p].page) => HtmlOf(job[p].page)
    BY <1>1 DEF JobInv, WrittenInv, HtmlWritten
  <2> QED
    BY <1>1, <1>3, <1>5, <1>7, <2>1, <2>2, <2>3
       DEF GoesOn, WrittenInv, HtmlOf, PdfOf, SecondReused
<1> QED
  BY <1>5, <1>6 DEF Kept, JobInv

-----------------------------------------------------------------------------
(* The mail, and what ends a job *)

\* The server takes a report whose files the cycle has written.
LEMMA SendKeeps ==
  ASSUME DeliveryInv, Send
  PROVE  Kept' /\ delivered' \subseteq DOMAIN rendered
<1> DEFINE id == job[Mailer].page
<1>1. /\ Mailer \in Procs /\ job[Mailer].pc = "sending"
      /\ \A p \in Procs : JobInv(p)
      /\ UNCHANGED <<disk, job, rendered, spoiled>>
      /\ delivered \subseteq delivered'
  BY MailerAssumption DEF DeliveryInv, TypeOK, Send, SendStep, LoadRecipients, Connect, Login,
     Address, Data, Quit, reportVars
<1>2. delivered' = delivered \/ (Active(Mailer) /\ delivered' = delivered \cup {id})
  BY <1>1 DEF Send, Active, HasReport, Stages
<1>3. Active(Mailer) => id \in DOMAIN rendered /\ rendered[id] = job[Mailer].stem
  BY <1>1 DEF JobInv, OwnInv, Of
<1>4. AuditTrail'
  <2>1. SUFFICES ASSUME NEW n \in delivered', ~SecondReused(n)
                 PROVE  HtmlOf(n) /\ PdfOf(n)
    BY <1>1, AuditOfNext DEF SecondReused, HtmlOf, PdfOf, Excused, Rewriting, At
  <2>2. CASE n \in delivered
    BY <2>1, <2>2, AuditOf DEF DeliveryInv
  <2>3. CASE n \notin delivered
    BY <1>1, <1>2, <2>1, <2>3 DEF JobInv, WrittenInv, HtmlWritten, PdfWritten
  <2> QED
    BY <2>2, <2>3
<1>5. ASSUME NEW q \in Procs PROVE JobInv(q)'
  <2>1. TestInv(q)' /\ WrittenInv(q)'
    BY <1>1 DEF JobInv, TestInv, WrittenInv, Of, Active, SecondReused, HtmlOf, PdfOf,
       Excused, Rewriting, At
  <2>2. OwnInv(q)'
    BY <1>1, <1>2 DEF JobInv, OwnInv, Of, Active, Unsent
  <2> QED
    BY <2>1, <2>2 DEF JobInv
<1>6. DiskInv' /\ job' \in [Procs -> Jobs]
  BY <1>1 DEF DeliveryInv, DiskInv, Of, TypeOK
<1>7. delivered' \subseteq DOMAIN rendered
  BY <1>2, <1>3 DEF DeliveryInv, TypeOK
<1> QED
  BY <1>4, <1>5, <1>6, <1>7 DEF Kept

\* Nothing of it depends on the time.
LEMMA UntouchedKeeps ==
  ASSUME DeliveryInv, UNCHANGED <<disk, job, rendered, delivered, spoiled>>
  PROVE  Kept'
<1>1. DiskInv' /\ AuditTrail' /\ job' \in [Procs -> Jobs]
  BY DEF DeliveryInv, DiskInv, AuditTrail, SecondReused, Of, TypeOK, Rewriting, At
<1>2. ASSUME NEW q \in Procs PROVE JobInv(q)'
  <2>1. JobInv(q)
    BY DEF DeliveryInv
  <2> QED
    BY <2>1 DEF JobInv, TestInv, OwnInv, WrittenInv, Of, Active, SecondReused, HtmlOf,
       PdfOf, Excused, Rewriting, At
<1> QED
  BY <1>1, <1>2 DEF Kept

\* The types that a step of some process, or of the clock, may disturb.
Steady ==
    /\ ReportsTypeOK
    /\ SendingInv
    /\ rendered \in Seq(Stems) /\ Len(rendered) <= MaxReports
    /\ delivered \subseteq DOMAIN rendered
    /\ spoiled \subseteq Stems

\* A step that leaves the mail and the stage "sending" of every job alone.
LEMMA SteadyJobs ==
  ASSUME DeliveryInv, NEW p \in Procs, NEW updated, HandOn(p, updated),
         job[p].pc # "sending", updated.pc # "sending", UNCHANGED mail
  PROVE  SendingInv'
<1>1. /\ job'[p] = updated
      /\ \A q \in Procs \ {p} : job'[q] = job[q]
  BY OthersJobs DEF DeliveryInv, TypeOK
<1> QED
  BY <1>1, MailerAssumption DEF DeliveryInv, SendingInv

LEMMA SteadyFiles ==
  ASSUME DeliveryInv, NEW stem \in Stems, NEW kind \in Kinds, NEW content \in Contents,
         OpenFile(stem, kind) \/ FillFile(stem, kind, content)
  PROVE  ReportsTypeOK'
<1>1. disk' \in [Stems -> [html: Contents, pdf: Contents]]
  BY FileOpened, FileFilled DEF DeliveryInv, TypeOK, Writes
<1> QED
  BY <1>1 DEF DeliveryInv, TypeOK, ReportsTypeOK, OpenFile, FillFile

\* A session that is under way ends with an answer.
LEMMA SessionGoesOn ==
  ASSUME MailInv, SendStep
  PROVE  mail.pc # "idle" /\ mail'.pc # "idle"
BY DEF MailInv, SenderTypeOK, SendStep, LoadRecipients, Connect, Login, Address, Data, Quit, Raise,
   Mail

LEMMA StepKeeps ==
  ASSUME DeliveryInv, [Next]_vars
  PROVE  Kept' /\ Steady'
<1> USE DEF Steady
<1>0. /\ Steady
      /\ \A p \in Procs : job[p] \in Jobs
      /\ \A p \in Procs : job[p].stem \in Stems /\ job[p].page \in Contents
  BY DEF DeliveryInv, TypeOK, Jobs
<1>2. ASSUME NEW p \in Procs, Render(p) PROVE Kept' /\ Steady'
  <2>1. SendingInv'
    <3>1. PICK updated : updated.pc = "open_html" /\ HandOn(p, updated)
      BY <1>2 DEF Render, NoJob
    <3> QED
      BY <1>2, <3>1, SteadyJobs DEF Render, At, senderVars
  <2>2. /\ rendered' \in Seq(Stems) /\ Len(rendered') <= MaxReports
        /\ DOMAIN rendered \subseteq DOMAIN rendered'
    BY <1>0, <1>2, ReportsAssumption DEF Render, ReportsTypeOK
  <2> QED
    BY <1>0, <1>2, <2>1, <2>2, RenderKeeps DEF Render, reportVars, ReportsTypeOK
<1>3. ASSUME NEW p \in Procs, OpenHtml(p) PROVE Kept' /\ Steady'
  <2>1. SendingInv'
    <3>1. PICK updated : updated.pc = "fill_html" /\ HandOn(p, updated)
      BY <1>0, <1>3 DEF OpenHtml, Jobs
    <3> QED
      BY <1>3, <3>1, SteadyJobs DEF OpenHtml, At, senderVars
  <2>2. ReportsTypeOK'
    BY <1>0, <1>3, SteadyFiles DEF OpenHtml, Kinds
  <2> QED
    BY <1>0, <1>3, <2>1, <2>2, OpenHtmlKeeps DEF OpenHtml, deliveryGhosts
<1>4. ASSUME NEW p \in Procs, FillHtml(p) PROVE Kept' /\ Steady'
  <2>1. SendingInv'
    <3>1. PICK updated : updated.pc = "open_pdf" /\ HandOn(p, updated)
      BY <1>0, <1>4 DEF FillHtml, Jobs
    <3> QED
      BY <1>4, <3>1, SteadyJobs DEF FillHtml, At, senderVars
  <2>2. ReportsTypeOK'
    BY <1>0, <1>4, SteadyFiles DEF FillHtml, Kinds
  <2> QED
    BY <1>0, <1>4, <2>1, <2>2, FillHtmlKeeps DEF FillHtml, deliveryGhosts
<1>5. ASSUME NEW p \in Procs, BeginTestSend(p) PROVE Kept' /\ Steady'
  <2>1. SendingInv'
    <3>1. PICK updated : updated.pc = "read" /\ HandOn(p, updated)
      BY <1>5 DEF BeginTestSend, NoJob
    <3> QED
      BY <1>5, <3>1, SteadyJobs DEF BeginTestSend, At, senderVars
  <2> QED
    BY <1>0, <1>5, <2>1, BeginTestSendKeeps
       DEF BeginTestSend, reportVars, deliveryGhosts, ReportsTypeOK
<1>6. ASSUME NEW p \in Procs, Read(p) PROVE Kept' /\ Steady'
  <2>1. SendingInv'
    <3>1. PICK updated : updated.pc = "open_pdf" /\ HandOn(p, updated)
      BY <1>0, <1>6 DEF Read, Jobs
    <3> QED
      BY <1>6, <3>1, SteadyJobs DEF Read, At, senderVars
  <2> QED
    BY <1>0, <1>6, <2>1, ReadKeeps DEF Read, reportVars, deliveryGhosts, ReportsTypeOK
<1>7. ASSUME NEW p \in Procs, OpenPdf(p) PROVE Kept' /\ Steady'
  <2>1. SendingInv'
    <3>1. PICK updated : updated.pc = "fill_pdf" /\ HandOn(p, updated)
      BY <1>0, <1>7 DEF OpenPdf, Jobs
    <3> QED
      BY <1>7, <3>1, SteadyJobs DEF OpenPdf, At, senderVars
  <2>2. ReportsTypeOK'
    BY <1>0, <1>7, SteadyFiles DEF OpenPdf, Kinds
  <2> QED
    BY <1>0, <1>7, <2>1, <2>2, OpenPdfKeeps DEF OpenPdf, deliveryGhosts
<1>8. ASSUME NEW p \in Procs, FillPdf(p) PROVE Kept' /\ Steady'
  <2>1. SendingInv'
    <3>1. PICK updated : updated.pc = "notify" /\ HandOn(p, updated)
      BY <1>0, <1>8 DEF FillPdf, Jobs
    <3> QED
      BY <1>8, <3>1, SteadyJobs DEF FillPdf, At, senderVars
  <2>2. ReportsTypeOK'
    BY <1>0, <1>8, SteadyFiles DEF FillPdf, Kinds
  <2> QED
    BY <1>0, <1>8, <2>1, <2>2, FillPdfKeeps DEF FillPdf
<1>9. ASSUME NEW p \in Procs, Notify(p) PROVE Kept' /\ Steady'
  <2>1. SendingInv'
    <3>1. PICK updated : updated.pc = "sending" /\ HandOn(p, updated)
      BY <1>0, <1>9 DEF Notify, Jobs
    <3>2. /\ p = Mailer /\ job'[p] = updated /\ mail'.pc = "load"
          /\ \A q \in Procs \ {p} : job'[q] = job[q]
      BY <1>9, <3>1, OthersJobs DEF Notify, BeginSend, NoMail, DeliveryInv, TypeOK
    <3> QED
      BY <1>0, <3>1, <3>2 DEF SendingInv
  <2> QED
    BY <1>0, <1>9, <2>1, NotifyKeeps DEF Notify, reportVars, deliveryGhosts, ReportsTypeOK
<1>10. ASSUME NEW p \in Procs, Skip(p) PROVE Kept' /\ Steady'
  <2>1. SendingInv'
    BY <1>10, SteadyJobs DEF Skip, At, NoJob, senderVars
  <2> QED
    BY <1>0, <1>10, <2>1, Ending
       DEF Skip, At, Rewriting, reportVars, deliveryGhosts, ReportsTypeOK, Kept
<1>11. ASSUME NEW p \in Procs, Stop(p) PROVE Kept' /\ Steady'
  <2>1. SendingInv'
    <3>1. /\ job'[p] = NoJob
          /\ \A q \in Procs \ {p} : job'[q] = job[q]
      BY <1>11, OthersJobs DEF Stop, DeliveryInv, TypeOK
    <3>2. CASE ~At(p, "sending")
      BY <1>11, <3>2, SteadyJobs DEF Stop, At, NoJob, senderVars
    <3>3. CASE At(p, "sending") /\ p = Mailer
      BY <1>0, <1>11, <3>1, <3>3 DEF Stop, LeaveMail, NoMail, NoJob, SendingInv
    <3> QED
      BY <1>0, <3>2, <3>3 DEF At, SendingInv
  <2> QED
    BY <1>0, <1>11, <2>1, Ending DEF Stop, reportVars, ReportsTypeOK, Kept
<1>12. CASE Send
  <2>1. SendingInv'
    BY <1>0, <1>12, SessionGoesOn DEF Send, DeliveryInv, SendingInv
  <2> QED
    BY <1>0, <1>12, <2>1, SendKeeps DEF Send, reportVars, ReportsTypeOK
<1>13. CASE Finish
  <2>1. SendingInv'
    <3>1. /\ job'[Mailer] = NoJob /\ mail' = NoMail
          /\ \A q \in Procs \ {Mailer} : job'[q] = job[q]
      BY <1>13, OthersJobs, MailerAssumption DEF Finish, LeaveMail, DeliveryInv, TypeOK
    <3> QED
      BY <1>0, <3>1 DEF SendingInv, NoMail, NoJob
  <2> QED
    <3>1. job[Mailer].pc = "sending"
      BY <1>13, MailerAssumption DEF Finish, Answered, DeliveryInv, TypeOK
    <3> QED
      BY <1>0, <1>13, <2>1, <3>1, Ending, MailerAssumption
         DEF Finish, At, Rewriting, reportVars, deliveryGhosts, ReportsTypeOK, Kept
<1>14. CASE Clock
  <2>1. UNCHANGED disk /\ now' \in Stems /\ fellBack' \in BOOLEAN
    <3>1. now \in 0 .. MaxTime /\ fellBack \in BOOLEAN /\ MaxTime \in Nat
      BY <1>0, ReportsAssumption DEF ReportsTypeOK, Stems
    <3>2. CASE SecondPasses
      BY <3>1, <3>2 DEF SecondPasses, Stems
    <3>3. CASE FallBack
      BY <3>1, <3>3 DEF FallBack, Stems
    <3> QED
      BY <1>14, <3>2, <3>3 DEF Clock
  <2> QED
    BY <1>0, <1>14, <2>1, UntouchedKeeps DEF Clock, deliveryGhosts, ReportsTypeOK, senderVars, SendingInv
<1>15. CASE UNCHANGED vars
  BY <1>0, <1>15, UntouchedKeeps
     DEF vars, deliveryGhosts, reportVars, senderVars, ReportsTypeOK, SendingInv
<1> QED
  BY <1>2, <1>3, <1>4, <1>5, <1>6, <1>7, <1>8, <1>9, <1>10, <1>11, <1>12, <1>13, <1>14, <1>15
     DEF Next

-----------------------------------------------------------------------------
(* The specification *)

LEMMA Initially ==
  ASSUME Init
  PROVE  DeliveryInv
<1>1. MailInv
  BY SenderInitially DEF Init
<1>2. now = 0 /\ 0 \in Stems
  BY ReportsAssumption DEF Init, ReportsInit, Stems
<1>3. job \in [Procs -> Jobs] /\ \A p \in Procs : job[p] = NoJob
  BY NoJobType DEF Init
<1>4. TypeOK
  <2>1. ReportsTypeOK
    BY <1>2 DEF Init, ReportsInit, ReportsTypeOK, Contents
  <2>2. mail.pc # "idle" <=> job[Mailer].pc = "sending"
    BY <1>3, MailerAssumption DEF Init, SenderInit, NoMail, NoJob
  <2>3. rendered \in Seq(Stems) /\ Len(rendered) <= MaxReports
    BY ReportsAssumption DEF Init
  <2> QED
    BY <1>1, <1>3, <2>1, <2>2, <2>3 DEF TypeOK, Init, MailInv
<1>5. SendingInv
  BY <1>3, <1>4 DEF TypeOK, SendingInv, NoJob
<1>6. DiskInv /\ AuditTrail
  BY DEF Init, ReportsInit, DiskInv, AuditTrail
<1>7. \A p \in Procs : JobInv(p)
  BY <1>3 DEF JobInv, TestInv, OwnInv, WrittenInv, Active, HasReport, NoJob
<1> QED
  BY <1>1, <1>4, <1>5, <1>6, <1>7 DEF DeliveryInv

LEMMA Preserved ==
  ASSUME DeliveryInv, [Next]_vars
  PROVE  DeliveryInv'
<1>1. Kept' /\ Steady'
  BY StepKeeps
<1>2. MailInv'
  BY StepOfSender, SenderInductive DEF DeliveryInv
<1>3. TypeOK'
  BY <1>1, <1>2 DEF TypeOK, Kept, Steady, MailInv, SendingInv
<1> QED
  BY <1>1, <1>2, <1>3 DEF DeliveryInv, Kept, Steady

\* What ties the files to the jobs and to the mail holds whatever is killed when.
THEOREM DeliveryInductive == Spec => []DeliveryInv
BY Initially, Preserved, PTL DEF Spec

\* The jobs, the files, the mail and the records of what happened keep their
\* types; a session is under way exactly while its process is sending.
THEOREM DeliveryTypeOK == Spec => []TypeOK
<1>1. DeliveryInv => TypeOK
  BY DEF DeliveryInv
<1> QED
  BY <1>1, DeliveryInductive, PTL

\* Every delivered report keeps both its files (_save_report, _cmd_test_send),
\* but for the exceptions the property names: a second used twice, and a PDF
\* that test-send left in parts, made of a page in parts, or wrote together
\* with another process.
THEOREM DeliveredStaysOnDisk == Spec => []AuditTrail
<1>1. DeliveryInv => AuditTrail
  BY DEF DeliveryInv
<1> QED
  BY <1>1, DeliveryInductive, PTL

\* send() returns only once the server took the message for every address it
\* had not refused.
THEOREM SentMeansTaken == Spec => []SentIsComplete
<1>1. DeliveryInv => SentIsComplete
  BY DEF DeliveryInv, MailInv, SentIsComplete
<1> QED
  BY <1>1, DeliveryInductive, PTL

\* A failure after the server took the message is an EmailSendError.
THEOREM LateFailureIsNamed == Spec => []LateFailureIsEmailError
<1>1. DeliveryInv => LateFailureIsEmailError
  BY DEF DeliveryInv, MailInv, LateFailureIsEmailError, Described
<1> QED
  BY <1>1, DeliveryInductive, PTL

-----------------------------------------------------------------------------
(* test-send: the order of the reports is the order of their names.         *)

\* As long as local time runs forwards.
OrderInv ==
    fellBack \/ /\ \A n \in DOMAIN rendered : rendered[n] <= now
                /\ \A m, n \in DOMAIN rendered : m <= n => rendered[m] <= rendered[n]

\* The newest report test-send could see is not named after the one it took.
NewestInv(p) ==
    job[p].test /\ job[p].expected \in ReportIds =>
      job[p].expected \in DOMAIN rendered /\ rendered[job[p].expected] <= job[p].stem

LatestInv == OrderInv /\ \A p \in Procs : NewestInv(p)

LEMMA OrderKeeps ==
  ASSUME DeliveryInv, OrderInv, [Next]_vars
  PROVE  /\ OrderInv'
         /\ \A n \in DOMAIN rendered : n \in DOMAIN rendered' /\ rendered'[n] = rendered[n]
<1>0. /\ rendered \in Seq(Stems) /\ now \in Nat /\ now \in Stems /\ Stems \subseteq Nat
      /\ \A n \in DOMAIN rendered : rendered[n] \in Nat
  BY ReportsAssumption DEF DeliveryInv, TypeOK, ReportsTypeOK, Stems
<1>1. CASE \E p \in Procs : Render(p)
  <2>1. rendered' = Append(rendered, now) /\ UNCHANGED <<now, fellBack>>
    BY <1>1 DEF Render, reportVars
  <2>2. /\ DOMAIN rendered' = 1 .. Len(rendered) + 1 /\ DOMAIN rendered = 1 .. Len(rendered)
        /\ Len(rendered) \in Nat
        /\ \A n \in 1 .. Len(rendered) : rendered'[n] = rendered[n]
        /\ rendered'[Len(rendered) + 1] = now
    BY <1>0, <2>1
  <2> QED
    BY <1>0, <2>1, <2>2 DEF OrderInv
<1>2. CASE Clock
  BY <1>0, <1>2 DEF Clock, SecondPasses, FallBack, deliveryGhosts, OrderInv
<1>3. CASE ~Clock /\ ~\E p \in Procs : Render(p)
  <2>1. UNCHANGED <<now, fellBack, rendered>>
    BY <1>3 DEF Next, OpenHtml, FillHtml, BeginTestSend, Read, OpenPdf, FillPdf, Notify,
       Skip, Stop, Send, Finish, OpenFile, FillFile, vars, reportVars, deliveryGhosts
  <2> QED
    BY <2>1 DEF OrderInv
<1> QED
  BY <1>1, <1>2, <1>3

\* Every report test-send found has its name among those it took the last of.
LEMMA TestSendFinds ==
  ASSUME DeliveryInv, NEW p \in Procs, BeginTestSend(p)
  PROVE  NewestInv(p)'
<1>1. PICK stem, newest \in Stems :
        /\ Latest(stem)
        /\ HandOn(p, [NoJob EXCEPT !.pc = "read", !.test = TRUE, !.stem = stem,
                                   !.expected = disk[newest].html])
  BY DEF BeginTestSend
<1>2. job'[p].stem = stem /\ job'[p].expected = disk[newest].html /\ rendered' = rendered
  BY <1>1 DEF BeginTestSend, HandOn, DeliveryInv, TypeOK, NoJob, deliveryGhosts
<1> SUFFICES ASSUME disk[newest].html \in ReportIds
             PROVE  disk[newest].html \in DOMAIN rendered /\ rendered[disk[newest].html] <= stem
  BY <1>2 DEF NewestInv
<1>3. disk[newest].html \in Of(newest) /\ newest \in SavedStems
  BY DEF DeliveryInv, DiskInv, ReportIds, Absent, Torn, SavedStems
<1> QED
  BY <1>1, <1>3 DEF Of, Latest

LEMMA NewestKeeps ==
  ASSUME DeliveryInv, LatestInv, [Next]_vars, NEW p \in Procs
  PROVE  NewestInv(p)'
<1>1. job \in [Procs -> Jobs] /\ NewestInv(p) /\ TestInv(p)
  BY DEF DeliveryInv, TypeOK, LatestInv, JobInv
<1>2. \A n \in DOMAIN rendered : n \in DOMAIN rendered' /\ rendered'[n] = rendered[n]
  BY OrderKeeps DEF LatestInv
<1>3. \/ (job'[p].test <=> job[p].test) /\ job'[p].stem = job[p].stem /\ job'[p].expected = job[p].expected
      \/ ~job'[p].test
      \/ BeginTestSend(p)
  <2>1. CASE job'[p] = job[p]
    BY <2>1
  <2>2. ASSUME NEW q \in Procs, NEW updated, HandOn(q, updated), job'[p] # job[p]
        PROVE  q = p /\ job'[p] = updated
    BY <1>1, <2>2 DEF HandOn
  <2>4. ASSUME NEW q \in Procs, Render(q), job'[p] # job[p] PROVE ~job'[p].test
    <3>1. PICK stem, page :
            HandOn(q, [NoJob EXCEPT !.pc = "open_html", !.stem = stem, !.page = page])
      BY <2>4 DEF Render
    <3>2. job'[p] = [NoJob EXCEPT !.pc = "open_html", !.stem = stem, !.page = page]
      BY <2>2, <2>4, <3>1
    <3> QED
      BY <3>2 DEF NoJob
  <2>5. ASSUME NEW q \in Procs, job'[p] # job[p],
               OpenHtml(q) \/ FillHtml(q) \/ Read(q) \/ OpenPdf(q) \/ FillPdf(q) \/ Notify(q)
        PROVE  /\ job'[p].test <=> job[p].test
               /\ job'[p].stem = job[p].stem /\ job'[p].expected = job[p].expected
    <3>1. q = p
      BY <1>1, <2>5 DEF OpenHtml, FillHtml, Read, OpenPdf, FillPdf, Notify, HandOn
    <3>2. CASE OpenHtml(p)
      BY <1>1, <3>2 DEF OpenHtml, HandOn, Jobs
    <3>3. CASE FillHtml(p)
      BY <1>1, <3>3 DEF FillHtml, HandOn, Jobs
    <3>4. CASE Read(p)
      BY <1>1, <3>4 DEF Read, HandOn, Jobs
    <3>5. CASE OpenPdf(p)
      BY <1>1, <3>5 DEF OpenPdf, HandOn, Jobs
    <3>6. CASE FillPdf(p)
      BY <1>1, <3>6 DEF FillPdf, HandOn, Jobs
    <3>7. CASE Notify(p)
      BY <1>1, <3>7 DEF Notify, HandOn, Jobs
    <3> QED
      BY <2>5, <3>1, <3>2, <3>3, <3>4, <3>5, <3>6, <3>7
  <2>6. ASSUME NEW q \in Procs, Skip(q) \/ Stop(q), job'[p] # job[p] PROVE ~job'[p].test
    BY <2>2, <2>6 DEF Skip, Stop, NoJob
  <2>7. ASSUME NEW q \in Procs, BeginTestSend(q), job'[p] # job[p] PROVE BeginTestSend(p)
    <3>1. PICK updated : HandOn(q, updated)
      BY <2>7 DEF BeginTestSend
    <3> QED
      BY <2>2, <2>7, <3>1
  <2>8. ASSUME Finish, job'[p] # job[p] PROVE ~job'[p].test
    BY <2>2, <2>8, MailerAssumption DEF Finish, NoJob
  <2>9. CASE Send \/ Clock \/ UNCHANGED vars
    BY <2>9 DEF Send, Clock, vars
  <2> QED
    BY <2>1, <2>4, <2>5, <2>6, <2>7, <2>8, <2>9 DEF Next
<1>4. CASE BeginTestSend(p)
  BY <1>4, TestSendFinds
<1>5. CASE ~BeginTestSend(p)
  <2> SUFFICES ASSUME job'[p].test, job'[p].expected \in ReportIds
               PROVE  job'[p].expected \in DOMAIN rendered' /\ rendered'[job'[p].expected] <= job'[p].stem
    BY DEF NewestInv, ReportIds
  <2>1. job[p].test /\ job'[p].stem = job[p].stem /\ job'[p].expected = job[p].expected
    BY <1>3, <1>5
  <2> QED
    BY <1>1, <1>2, <2>1 DEF NewestInv
<1> QED
  BY <1>4, <1>5

\* test-send sends the newest complete report it found, or a newer one, as long
\* as local time runs forwards and no second is used twice (main.py:206-218).
THEOREM TestSendIsUpToDate == Spec => []TestSendsTheLatest
<1>1. Init => LatestInv
  BY DEF Init, ReportsInit, LatestInv, OrderInv, NewestInv, NoJob
<1>2. DeliveryInv /\ LatestInv /\ [Next]_vars => LatestInv'
  BY OrderKeeps, NewestKeeps DEF LatestInv
<1>3. ASSUME DeliveryInv, LatestInv PROVE TestSendsTheLatest
  <2> SUFFICES ASSUME NEW p \in Procs, job[p].test, job[p].pc # "read", ~fellBack,
                      \A n \in DOMAIN rendered : ~SecondReused(n), job[p].page # Torn
               PROVE  job[p].page >= job[p].expected
    BY DEF TestSendsTheLatest
  <2>1. /\ job[p].page \in Of(job[p].stem) /\ job[p].page \in Nat
        /\ job[p].expected \in {Absent, Torn} \cup ReportIds
        /\ DOMAIN rendered = 1 .. Len(rendered)
        /\ \A n \in DOMAIN rendered : rendered[n] \in Nat
    <3>1. job[p].page \in Of(job[p].stem)
      BY <1>3 DEF DeliveryInv, JobInv, TestInv
    <3> QED
      BY <1>3, <3>1, ReportsOfStem, ReportsAssumption DEF DeliveryInv, TypeOK, Jobs, Contents, Of, Stems
  <2>2. CASE job[p].expected \in {Absent, Torn}
    BY <2>1, <2>2 DEF Absent, Torn
  <2>3. CASE job[p].expected \in ReportIds
    <3>1. /\ job[p].expected \in DOMAIN rendered
          /\ rendered[job[p].expected] <= rendered[job[p].page]
      BY <1>3, <2>1, <2>3 DEF LatestInv, NewestInv, Of
    <3>2. ASSUME job[p].page < job[p].expected PROVE FALSE
      <4>1. rendered[job[p].page] = rendered[job[p].expected]
        BY <1>3, <2>1, <3>1, <3>2 DEF LatestInv, OrderInv, Of
      <4> QED
        BY <2>1, <3>1, <3>2, <4>1 DEF SecondReused, Of
    <3> QED
      BY <2>1, <3>1, <3>2
  <2> QED
    BY <2>1, <2>2, <2>3
<1> QED
  BY <1>1, <1>2, <1>3, DeliveryInductive, PTL DEF Spec

\* However the session of sender.py goes, its caller sees what Notification
\* promises.
THEOREM SessionIsANotification == Spec => ImplementsNotification
<1>1. Init => Note!Init
  BY InitImplements DEF Init
<1>2. DeliveryInv /\ [Next]_vars => [Note!Next]_(Note!notificationVars)
  BY StepOfSender, StepImplements DEF DeliveryInv
<1> QED
  BY <1>1, <1>2, DeliveryInductive, PTL DEF Spec, ImplementsNotification, Note!Spec
=============================================================================
