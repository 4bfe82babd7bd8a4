----------------------------- MODULE EmailSender ----------------------------
(***************************************************************************)
(* emailer/recipients.py and emailer/sender.py: the recipient list is read *)
(* and validated as a whole, then one message goes to all its addresses in *)
(* one SMTP session, without a second try.                                 *)
(***************************************************************************)
EXTENDS Integers, FiniteSets

CONSTANTS
    Addresses,
    Invalid,       \* those validate_email rejects
    Foreign,       \* those it accepts although smtplib cannot encode them
    Lists          \* the contents recipients.yaml may have

\* wellformed: the file exists, is YAML, a mapping, and its fields are lists.
ListFile == [wellformed: BOOLEAN, to: SUBSET Addresses, cc: SUBSET Addresses, bcc: SUBSET Addresses]

ASSUME ListsAssumption == Lists \subseteq ListFile /\ Lists # {}

VARIABLES
    list,      \* the recipients the sending process has loaded
    mail       \* the report on its way: where send() is, and what became of it

Errors == {"none", "RecipientsError", "EmailSendError", "UnicodeEncodeError"}

\* pc: the next call of _notify or send(); refused: the RCPTs the server
\* refused; raised: what the try block raised; taken: whom the server took the
\* message for.
Mail == [pc: {"idle", "load", "connect", "login", "address", "data", "quit", "sent", "failed"},
         refused: SUBSET Addresses, raised: Errors, taken: SUBSET Addresses]

NoMail == [pc |-> "idle", refused |-> {}, raised |-> "none", taken |-> {}]

senderVars == <<list, mail>>

NoList == [wellformed |-> FALSE, to |-> {}, cc |-> {}, bcc |-> {}]

SenderTypeOK == list \in Lists \cup {NoList} /\ mail \in Mail

SenderInit == list = NoList /\ mail = NoMail

Envelope == list.to \cup list.cc \cup list.bcc

-----------------------------------------------------------------------------
BeginSend ==
    /\ mail.pc = "idle"
    /\ mail' = [NoMail EXCEPT !.pc = "load"]
    /\ UNCHANGED list

\* One bad address refuses the whole list.
Valid(file) ==
    /\ file.wellformed
    /\ file.to # {}
    /\ (file.to \cup file.cc \cup file.bcc) \cap Invalid = {}

\* load_recipients: the operator may have edited the file since the last run.
LoadRecipients ==
    /\ mail.pc = "load"
    /\ \E file \in Lists :
         IF Valid(file)
           THEN list' = file /\ mail' = [mail EXCEPT !.pc = "connect"]
           ELSE /\ mail' = [mail EXCEPT !.pc = "failed", !.raised = "RecipientsError"]
                /\ UNCHANGED list

\* Deviation: the connection is opened before the try block.
ConnectOutside ==
    /\ mail.pc = "connect"
    /\ \/ mail' = [mail EXCEPT !.pc = "login"]
       \/ mail' = [mail EXCEPT !.pc = "failed", !.raised = "OSError"]
    /\ UNCHANGED list

\* _connect: no greeting, a refused STARTTLS or a broken handshake raise before
\* there is a session to quit.
Connect ==
    /\ mail.pc = "connect"
    /\ \/ mail' = [mail EXCEPT !.pc = "login"]
       \/ mail' = [mail EXCEPT !.pc = "failed", !.raised = "EmailSendError"]
    /\ UNCHANGED list

\* The try block is left with an SMTPException or OSError.
Raise(error) == mail' = [mail EXCEPT !.pc = "quit", !.raised = error]

\* Only when a user name is set; without one the session goes on at once.
Login ==
    /\ mail.pc = "login"
    /\ mail' = [mail EXCEPT !.pc = "address"] \/ Raise("EmailSendError")
    /\ UNCHANGED list

\* sendmail counts the refused addresses against the length of the list it was
\* given, in which an address of two fields stands twice.
AllRefused(refused) ==
    Cardinality(refused) =
        Cardinality(list.to) + Cardinality(list.cc) + Cardinality(list.bcc)

\* sendmail, MAIL and RCPT: some addresses may be refused.
Address ==
    /\ mail.pc = "address"
    /\ \/ /\ Envelope \cap Foreign = {}
          /\ \E refused \in SUBSET Envelope :
               /\ ~AllRefused(refused)
               /\ mail' = [mail EXCEPT !.pc = "data", !.refused = refused]
       \/ Raise("EmailSendError")
       \/ Envelope \cap Foreign # {} /\ Raise("UnicodeEncodeError")
    /\ UNCHANGED list

\* Deviation: a message whose reply was lost is not given up.
DataResends ==
    /\ mail.pc = "data"
    /\ \/ \E whom \in SUBSET (Envelope \ mail.refused) :
            mail' = [mail EXCEPT !.taken = @ \cup whom]
       \/ mail' = [mail EXCEPT !.pc = "quit", !.taken = Envelope \ mail.refused]
    /\ UNCHANGED list

\* sendmail, DATA: the server takes the message for everyone it has accepted,
\* and answers unless the connection breaks; or it does not take it.
Data ==
    /\ mail.pc = "data"
    /\ \/ /\ Envelope \ mail.refused # {}
          /\ \E error \in {"none", "EmailSendError"} :
               mail' = [mail EXCEPT !.pc = "quit", !.raised = error,
                                    !.taken = Envelope \ mail.refused]
       \/ Raise("EmailSendError")
    /\ UNCHANGED list

\* Deviation: an exception is logged and not raised again.
QuitQuietly ==
    /\ mail.pc = "quit"
    /\ mail' = [mail EXCEPT !.pc = "sent"]
    /\ UNCHANGED list

\* Deviation: a failing QUIT is raised as it is.
QuitUnwrapped ==
    /\ mail.pc = "quit"
    /\ \/ mail' = [mail EXCEPT !.pc = IF mail.raised = "none" THEN "sent" ELSE "failed"]
       \/ mail' = [mail EXCEPT !.pc = "failed", !.raised = "UnicodeEncodeError"]
    /\ UNCHANGED list

\* finally: smtp.quit().  On a broken session it raises in place of whatever
\* the try block did, also when that was to succeed.
Quit ==
    /\ mail.pc = "quit"
    /\ \/ mail' = [mail EXCEPT !.pc = IF mail.raised = "none" THEN "sent" ELSE "failed"]
       \/ mail' = [mail EXCEPT !.pc = "failed", !.raised = "EmailSendError"]
    /\ UNCHANGED list

\* The caller goes on, or its process is killed.
LeaveMail ==
    /\ mail.pc # "idle"
    /\ mail' = NoMail /\ list' = NoList

SendStep == LoadRecipients \/ Connect \/ Login \/ Address \/ Data \/ Quit

Answered == mail.pc \in {"sent", "failed"}

-----------------------------------------------------------------------------
\* describe_exception: what the operator is told of a run that failed.
Described(error) ==
    CASE error = "RecipientsError" -> "config_error"
      [] error = "EmailSendError" -> "email_error"
      [] OTHER -> "unknown"

Phase ==
    CASE mail.pc \in {"idle", "sent", "failed"} -> mail.pc
      [] OTHER -> "sending"

Note == INSTANCE Notification
          WITH phase <- Phase, taken <- mail.taken,
               wanted <- Envelope

ImplementsNotification == Note!Spec
=============================================================================
