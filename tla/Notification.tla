---------------------------- MODULE Notification ----------------------------
(***************************************************************************)
(* What sending one report promises its caller: the mail server takes it   *)
(* at most once and for some of the recipients, "sent" means it was taken, *)
(* and a failure may come after it was taken.  The three ways to end are   *)
(* Notify, NotifyUnconfirmed and Abort of Pipeline.                        *)
(***************************************************************************)
CONSTANT Addresses

VARIABLES
    phase,     \* "idle", "sending", "sent" or "failed"
    taken,     \* whom the server has taken the report for
    wanted     \* whom the recipient list names

notificationVars == <<phase, taken, wanted>>

Init ==
    /\ phase = "idle"
    /\ taken = {} /\ wanted = {}

Begin ==
    /\ phase = "idle"
    /\ phase' = "sending"
    /\ UNCHANGED <<taken, wanted>>

Address ==
    /\ phase = "sending" /\ wanted = {}
    /\ wanted' \in (SUBSET Addresses) \ {{}}
    /\ UNCHANGED <<phase, taken>>

Take ==
    /\ phase = "sending" /\ taken = {}
    /\ taken' \in (SUBSET wanted) \ {{}}
    /\ UNCHANGED <<phase, wanted>>

Confirm ==
    /\ phase = "sending" /\ taken # {}
    /\ phase' = "sent"
    /\ UNCHANGED <<taken, wanted>>

Fail ==
    /\ phase = "sending"
    /\ phase' = "failed"
    /\ UNCHANGED <<taken, wanted>>

\* The process that sends is killed, or is through with an answer.
Leave ==
    /\ phase' = "idle" /\ taken' = {} /\ wanted' = {}

Next == Begin \/ Address \/ Take \/ Confirm \/ Fail \/ Leave

Spec == Init /\ [][Next]_notificationVars
=============================================================================
