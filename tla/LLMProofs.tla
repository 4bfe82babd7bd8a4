----------------------------- MODULE LLMProofs ------------------------------
(***************************************************************************)
(* Proofs about LLMClient, for any listings and any number of coroutines.  *)
(***************************************************************************)
EXTENDS LLMClient, TLAPS

Call(l, role, fallback) == [listing |-> l, role |-> role, fallback |-> fallback]

\* The coroutines of a node run for its listings, and a backup model is asked
\* after the primary one failed.
TaskInv(l) ==
    /\ task[l] \in {"waiting", "primary", "backup"} =>
         l \in work /\ node \in {"classify", "render"}
    /\ task[l] = "backup" => Call(l, Role, FALSE) \in failures

\* A coroutine that ended left a row or a failure, and a model's verdict a row.
EndedInv(l) ==
    /\ task[l] = "ended" /\ node \in {"classify", "render"} =>
         \E fallback \in BOOLEAN : Call(l, Role, fallback) \in usage \cup failures
    /\ verdict[l] = "relevant" =>
         \E fallback \in BOOLEAN : Call(l, "classify", fallback) \in usage

\* The calls of a role are those for the listings of its node.
CallsOfNode ==
    \A c \in usage \cup failures :
        /\ c.role = Role => c.listing \in work
        /\ node \in {"classify", "dedupe"} => c.role = "classify"

\* What the accounting relies on.  A row left in the open transaction belongs to
\* a failed attempt, so it may be committed later.
AccountInv ==
    /\ pending \subseteq failures
    /\ UnloggedIsAFailure
    /\ \A c \in usage \cup failures : c.fallback => Call(c.listing, c.role, FALSE) \in failures

LLMInv ==
    /\ TypeOK
    /\ \A l \in Listings : TaskInv(l) /\ EndedInv(l)
    /\ SilenceIsDegraded
    /\ CallsOfNode
    /\ AccountInv

-----------------------------------------------------------------------------
(* The calls *)

\* The call listing l is waiting for, by stage; its primary call if it is the
\* backup's turn.
LEMMA TheCall ==
  ASSUME LLMInv, NEW l \in Listings, task[l] \in {"primary", "backup"}
  PROVE  /\ Attempts(l) \in Calls
         /\ Attempts(l) = Call(l, Role, task[l] = "backup")
         /\ Attempts(l).listing \in work /\ Attempts(l).role = Role
         /\ node \in {"classify", "render"}
         /\ Attempts(l).fallback => Call(l, Role, FALSE) \in failures
<1>1. TaskInv(l) /\ Role \in Roles
  BY DEF LLMInv, Role, Roles
<1>2. Attempts(l) \in Calls /\ Attempts(l) = Call(l, Role, task[l] = "backup")
  BY <1>1 DEF Attempts, Calls, Call
<1>3. Attempts(l).listing \in work /\ Attempts(l).role = Role /\ node \in {"classify", "render"}
  BY <1>1 DEF TaskInv, Attempts
<1>4. Attempts(l).fallback => Call(l, Role, FALSE) \in failures
  BY <1>1 DEF Attempts, TaskInv
<1> QED
  BY <1>2, <1>3, <1>4

\* An attempt of listing l ended one way or the other: its call is recorded, or
\* failed, and nothing recorded or failed is lost.
AttemptEnds(l) ==
    /\ UNCHANGED <<node, work>>
    /\ task[l] \in {"primary", "backup"}
    /\ usage \subseteq usage' /\ usage' \subseteq usage \cup pending \cup {Attempts(l)}
    /\ failures \subseteq failures' /\ failures' \subseteq failures \cup {Attempts(l)}
    /\ Attempts(l) \in usage' \cup failures'
    /\ pending' \subseteq pending \cup (failures' \cap {Attempts(l)})
    /\ billed' \subseteq billed \cup {Attempts(l)}

\* The sets of calls keep their invariant through it.
LEMMA CallsKept ==
  ASSUME LLMInv, NEW l \in Listings, AttemptEnds(l)
  PROVE  /\ {usage, pending, failures, billed}' \subseteq SUBSET Calls
         /\ CallsOfNode' /\ AccountInv'
<1>1. /\ Attempts(l) \in Calls
      /\ Attempts(l).listing \in work /\ Attempts(l).role = Role
      /\ node \in {"classify", "render"}
      /\ Attempts(l).fallback => Call(l, Role, FALSE) \in failures
  BY TheCall DEF AttemptEnds
<1>2. usage' \cup failures' \subseteq usage \cup failures \cup {Attempts(l)}
  BY DEF AttemptEnds, LLMInv, AccountInv
<1>3. {usage, pending, failures, billed}' \subseteq SUBSET Calls
  BY <1>1 DEF AttemptEnds, LLMInv, TypeOK
<1>4. Role' = Role /\ (node = "classify" => Role = "classify")
  BY DEF Role, AttemptEnds
<1>5. CallsOfNode'
  BY <1>1, <1>2, <1>4 DEF CallsOfNode, LLMInv, AttemptEnds
<1>6. pending' \subseteq failures'
  BY DEF LLMInv, AccountInv, AttemptEnds
<1>7. UnloggedIsAFailure'
  BY DEF LLMInv, AccountInv, UnloggedIsAFailure, AttemptEnds
<1>8. (\A c \in usage \cup failures :
          c.fallback => Call(c.listing, c.role, FALSE) \in failures)'
  <2>1. Call(Attempts(l).listing, Attempts(l).role, FALSE) = Call(l, Role, FALSE)
    BY DEF Attempts
  <2>2. \A c \in usage \cup failures \cup {Attempts(l)} :
          c.fallback => Call(c.listing, c.role, FALSE) \in failures
    BY <1>1, <2>1 DEF LLMInv, AccountInv
  <2>3. \A c \in usage' \cup failures' :
          c.fallback => Call(c.listing, c.role, FALSE) \in failures'
    BY <1>2, <2>2 DEF AttemptEnds
  <2> QED
    BY <2>3 DEF Call
<1> QED
  BY <1>3, <1>5, <1>6, <1>7, <1>8 DEF AccountInv

\* The coroutines of the other listings are not disturbed by it.
LEMMA OthersKept ==
  ASSUME LLMInv, NEW l \in Listings, AttemptEnds(l),
         NEW k \in Listings, task'[k] = task[k], verdict'[k] = verdict[k]
  PROVE  TaskInv(k)' /\ EndedInv(k)'
<1>1. Role' = Role
  BY DEF Role, AttemptEnds
<1> QED
  BY <1>1 DEF LLMInv, TaskInv, EndedInv, AttemptEnds, Call

-----------------------------------------------------------------------------
(* The steps *)

\* An answer that is recorded and can be used.
LEMMA AnswerSafe ==
  ASSUME LLMInv, NEW l \in Listings, Answer(l)
  PROVE  LLMInv'
<1>1. AttemptEnds(l) /\ Attempts(l) \in usage'
  BY DEF Answer, Record, AttemptEnds, LLMInv, AccountInv
<1>2. PICK result \in Results : Returns(l, result)
  BY DEF Answer
<1>3. /\ task' = [task EXCEPT ![l] = "ended"]
      /\ node = "classify" => verdict' = [verdict EXCEPT ![l] = result] /\ summary' = summary
      /\ node # "classify" => summary' = [summary EXCEPT ![l] = result] /\ verdict' = verdict
  BY <1>2 DEF Returns
<1>4. Attempts(l) = Call(l, Role, task[l] = "backup") /\ Role' = Role
  BY <1>1, TheCall DEF AttemptEnds, Role
<1>5. TypeOK'
  BY <1>1, <1>3, CallsKept DEF LLMInv, TypeOK, AttemptEnds, Stages, Results
<1>6. \A k \in Listings : TaskInv(k)' /\ EndedInv(k)'
  <2> TAKE k \in Listings
  <2>1. CASE k # l
    <3>1. task'[k] = task[k] /\ verdict'[k] = verdict[k]
      BY <1>3, <2>1 DEF LLMInv, TypeOK
    <3> QED
      BY <1>1, <3>1, OthersKept
  <2>2. CASE k = l
    <3>1. task'[l] = "ended"
      BY <1>3 DEF LLMInv, TypeOK
    <3>2. TaskInv(l)'
      BY <3>1 DEF TaskInv
    <3>3. \E fallback \in BOOLEAN : Call(l, Role, fallback) \in usage'
      BY <1>1, <1>4
    <3>4. verdict'[l] = "relevant" =>
            \E fallback \in BOOLEAN : Call(l, "classify", fallback) \in usage'
      <4>1. CASE node = "classify"
        BY <3>3, <4>1 DEF Role
      <4>2. CASE node # "classify"
        BY <1>1, <1>3, <4>2 DEF LLMInv, EndedInv, AttemptEnds
      <4> QED
        BY <4>1, <4>2
    <3>5. EndedInv(l)'
      BY <1>4, <3>3, <3>4 DEF EndedInv, Call
    <3> QED
      BY <2>2, <3>2, <3>5
  <2> QED
    BY <2>1, <2>2
<1>7. SilenceIsDegraded'
  <2>1. \A k \in Listings : verdict'[k] = "default" => verdict[k] = "default"
    BY <1>3 DEF LLMInv, TypeOK, Results
  <2> QED
    BY <1>1, <2>1 DEF LLMInv, SilenceIsDegraded, AttemptEnds
<1> QED
  BY <1>1, <1>5, <1>6, <1>7, CallsKept DEF LLMInv

\* An attempt that failed, whatever went wrong: the backup model is next, or the
\* listing gets the default with both failures behind it.
LEMMA GiveUpSafe ==
  ASSUME LLMInv, NEW l \in Listings, AttemptEnds(l), GiveUp(l)
  PROVE  LLMInv'
<1>1. Attempts(l) = Call(l, Role, task[l] = "backup") /\ Role' = Role /\ TaskInv(l)
      /\ node \in {"classify", "render"} /\ l \in work /\ node' = node /\ work' = work
      /\ Attempts(l) \in failures' /\ failures \subseteq failures' /\ usage \subseteq usage'
  BY TheCall DEF AttemptEnds, Role, LLMInv, TaskInv, GiveUp
<1>2. CASE task[l] = "primary"
  <2>1. task' = [task EXCEPT ![l] = "backup"] /\ verdict' = verdict /\ summary' = summary
    BY <1>2 DEF GiveUp
  <2>2. TypeOK'
    BY <1>1, <2>1, CallsKept DEF LLMInv, TypeOK, Stages
  <2>3. \A k \in Listings : TaskInv(k)' /\ EndedInv(k)'
    <3> TAKE k \in Listings
    <3>1. CASE k # l
      <4>1. task'[k] = task[k]
        BY <2>1, <3>1 DEF LLMInv, TypeOK
      <4> QED
        BY <2>1, <4>1, OthersKept
    <3>2. CASE k = l
      <4>1. task'[l] = "backup"
        BY <2>1 DEF LLMInv, TypeOK
      <4>2. Call(l, Role, FALSE) \in failures'
        BY <1>1, <1>2
      <4>3. TaskInv(l)'
        BY <1>1, <4>1, <4>2 DEF TaskInv, Call
      <4>4. EndedInv(l)'
        BY <1>1, <2>1, <4>1 DEF EndedInv, LLMInv, Call
      <4> QED
        BY <3>2, <4>3, <4>4
    <3> QED
      BY <3>1, <3>2
  <2>4. SilenceIsDegraded'
    BY <1>1, <2>1 DEF LLMInv, SilenceIsDegraded
  <2> QED
    BY <2>2, <2>3, <2>4, CallsKept DEF LLMInv
<1>3. CASE task[l] = "backup"
  <2>1. /\ task' = [task EXCEPT ![l] = "ended"]
        /\ node = "classify" => verdict' = [verdict EXCEPT ![l] = "default"] /\ summary' = summary
        /\ node # "classify" => summary' = [summary EXCEPT ![l] = "empty"] /\ verdict' = verdict
    BY <1>3 DEF GiveUp, Returns, Default
  <2>2. TypeOK'
    BY <1>1, <2>1, CallsKept DEF LLMInv, TypeOK, Stages
  <2>3. \A k \in Listings : TaskInv(k)' /\ EndedInv(k)'
    <3> TAKE k \in Listings
    <3>1. CASE k # l
      <4>1. task'[k] = task[k] /\ verdict'[k] = verdict[k]
        BY <2>1, <3>1 DEF LLMInv, TypeOK
      <4> QED
        BY <4>1, OthersKept
    <3>2. CASE k = l
      <4>1. task'[l] = "ended"
        BY <2>1 DEF LLMInv, TypeOK
      <4>2. verdict'[l] = "relevant" => verdict[l] = "relevant"
        BY <2>1 DEF LLMInv, TypeOK
      <4>3. Call(l, Role, TRUE) \in failures'
        BY <1>1, <1>3
      <4>4. TaskInv(l)'
        BY <4>1 DEF TaskInv
      <4>5. EndedInv(l)'
        BY <1>1, <4>2, <4>3 DEF EndedInv, LLMInv, Call
      <4> QED
        BY <3>2, <4>4, <4>5
    <3> QED
      BY <3>1, <3>2
  <2>4. SilenceIsDegraded'
    <3> SUFFICES ASSUME NEW k \in Listings, verdict'[k] = "default", NEW fallback \in BOOLEAN
                 PROVE  Call(k, "classify", fallback) \in failures'
      BY DEF SilenceIsDegraded, Call
    <3>1. CASE verdict[k] = "default"
      BY <1>1, <3>1 DEF LLMInv, SilenceIsDegraded, Call
    <3>2. CASE verdict[k] # "default"
      <4>1. k = l /\ Role = "classify"
        BY <2>1, <3>2 DEF LLMInv, TypeOK, Role
      <4>2. Call(l, Role, TRUE) \in failures' /\ Call(l, Role, FALSE) \in failures'
        BY <1>1, <1>3 DEF TaskInv
      <4> QED
        BY <4>1, <4>2
    <3> QED
      BY <3>1, <3>2
  <2> QED
    BY <2>2, <2>3, <2>4, CallsKept DEF LLMInv
<1> QED
  BY <1>2, <1>3 DEF AttemptEnds

\* Every failure of an attempt is an attempt that ended.
LEMMA AttemptSafe ==
  ASSUME LLMInv, NEW l \in Listings, Refused(l) \/ Unrecorded(l) \/ Unparsed(l)
  PROVE  LLMInv'
<1>1. CASE Refused(l)
  <2>1. AttemptEnds(l)
    BY <1>1 DEF Refused, GiveUp, AttemptEnds
  <2> QED
    BY <1>1, <2>1, GiveUpSafe DEF Refused
<1>2. CASE Unrecorded(l)
  <2>1. AttemptEnds(l)
    BY <1>2 DEF Unrecorded, GiveUp, AttemptEnds
  <2> QED
    BY <1>2, <2>1, GiveUpSafe DEF Unrecorded
<1>3. CASE Unparsed(l)
  <2>1. AttemptEnds(l)
    BY <1>3 DEF Unparsed, Record, GiveUp, AttemptEnds, LLMInv, AccountInv
  <2> QED
    BY <1>3, <2>1, GiveUpSafe DEF Unparsed
<1> QED
  BY <1>1, <1>2, <1>3

\* The semaphore lets a coroutine in.
LEMMA AcquireSafe ==
  ASSUME LLMInv, NEW l \in Listings, Acquire(l)
  PROVE  LLMInv'
<1>1. /\ task[l] = "waiting" /\ task' = [task EXCEPT ![l] = "primary"]
      /\ UNCHANGED <<node, work, verdict, summary, usage, pending, failures, billed>>
  BY DEF Acquire
<1>2. TypeOK' /\ Role' = Role
  BY <1>1 DEF LLMInv, TypeOK, Stages, Role
<1>3. \A k \in Listings : TaskInv(k)' /\ EndedInv(k)'
  BY <1>1, <1>2 DEF LLMInv, TypeOK, TaskInv, EndedInv, Call
<1>4. SilenceIsDegraded' /\ CallsOfNode' /\ AccountInv'
  BY <1>1, <1>2 DEF LLMInv, SilenceIsDegraded, CallsOfNode, AccountInv,
                    UnloggedIsAFailure, Call
<1> QED
  BY <1>2, <1>3, <1>4 DEF LLMInv

\* The steps between the nodes start and end the coroutines, and make no call.
LEMMA NodeSafe ==
  ASSUME LLMInv, Classified \/ Dedupe \/ Rendered
  PROVE  LLMInv'
<1>1. UNCHANGED <<verdict, summary, usage, pending, failures, billed>>
  BY DEF Classified, Dedupe, Rendered
<1>2. TypeOK'
  BY <1>1 DEF LLMInv, TypeOK, Classified, Dedupe, Rendered, Relevant, Gather, Stages
<1>3. \A k \in Listings : TaskInv(k)'
  <2>1. CASE Dedupe
    BY <2>1 DEF Dedupe, LLMInv, TypeOK, TaskInv, Gather
  <2>2. CASE Classified \/ Rendered
    BY <2>2 DEF Classified, Rendered, Gathered, LLMInv, TypeOK, TaskInv, Role, Call
  <2> QED
    BY <2>1, <2>2
<1>4. \A k \in Listings : EndedInv(k)'
  <2>1. CASE Dedupe
    BY <1>1, <2>1 DEF Dedupe, LLMInv, EndedInv, Gather, Call
  <2>2. CASE Classified \/ Rendered
    BY <1>1, <2>2 DEF Classified, Rendered, LLMInv, EndedInv, Call
  <2> QED
    BY <2>1, <2>2
<1>5. CallsOfNode'
  BY <1>1 DEF Classified, Dedupe, Rendered, LLMInv, CallsOfNode, Role
<1>6. SilenceIsDegraded' /\ AccountInv'
  BY <1>1 DEF LLMInv, SilenceIsDegraded, AccountInv, UnloggedIsAFailure, Call
<1> QED
  BY <1>2, <1>3, <1>4, <1>5, <1>6 DEF LLMInv

-----------------------------------------------------------------------------
(* One call to each model *)

\* The calls a coroutine has yet to make in the role of its node have neither a
\* row nor a failure.
AskedInv(l) ==
    /\ task[l] \in {"waiting", "primary"} =>
         \A fallback \in BOOLEAN : Call(l, Role, fallback) \notin usage \cup failures
    /\ task[l] = "backup" => Call(l, Role, TRUE) \notin usage \cup failures

Unasked == \A l \in Listings : AskedInv(l)

\* The coroutine of l goes on to the backup model, or ends.
MovesOn(l) ==
    \/ task' = [task EXCEPT ![l] = "ended"]
    \/ task[l] = "primary" /\ task' = [task EXCEPT ![l] = "backup"]

\* An attempt that ends uses up its own call and no other.
LEMMA AttemptUsesItsCall ==
  ASSUME LLMInv, NEW l \in Listings, AttemptEnds(l), Unasked, MovesOn(l)
  PROVE  Unasked'
<1>1. /\ Attempts(l) = Call(l, Role, task[l] = "backup")
      /\ usage' \cup failures' \subseteq usage \cup failures \cup {Attempts(l)}
      /\ Role' = Role
  BY TheCall DEF AttemptEnds, LLMInv, AccountInv, Role
<1> SUFFICES ASSUME NEW k \in Listings PROVE AskedInv(k)'
  BY DEF Unasked
<1>2. CASE k # l
  <2>1. task'[k] = task[k]
    BY <1>2 DEF MovesOn, LLMInv, TypeOK
  <2>2. \A role, fallback : Call(k, role, fallback) # Attempts(l)
    BY <1>1, <1>2 DEF Call
  <2> QED
    BY <1>1, <2>1, <2>2 DEF Unasked, AskedInv, Call
<1>3. CASE k = l
  <2>1. task'[l] \in {"backup", "ended"} /\ (task'[l] = "backup" => task[l] = "primary")
    BY DEF MovesOn, LLMInv, TypeOK
  <2>2. ASSUME task[l] = "primary"
        PROVE  Call(l, Role, TRUE) \notin usage' \cup failures'
    <3>1. Call(l, Role, TRUE).fallback = TRUE /\ Attempts(l).fallback = FALSE
      BY <2>2 DEF Call, Attempts
    <3> QED
      BY <1>1, <2>2, <3>1 DEF Unasked, AskedInv
  <2> QED
    BY <1>1, <1>3, <2>1, <2>2 DEF Unasked, AskedInv, Call
<1> QED
  BY <1>2, <1>3

\* Neither the coroutines nor the change of node bring a call back: the node
\* that starts coroutines asks in a role nobody was asked in before.
LEMMA AskedStep ==
  ASSUME LLMInv, Unasked, [Next]_vars
  PROVE  Unasked'
<1>1. ASSUME NEW l \in Listings, Acquire(l)
      PROVE  Unasked'
  BY <1>1 DEF Acquire, LLMInv, TypeOK, Unasked, AskedInv, Role, Call
<1>2. ASSUME NEW l \in Listings, Answer(l)
      PROVE  Unasked'
  <2>1. AttemptEnds(l) /\ MovesOn(l)
    BY <1>2 DEF Answer, Returns, MovesOn, Record, AttemptEnds, LLMInv, AccountInv
  <2> QED
    BY <2>1, AttemptUsesItsCall
<1>3. ASSUME NEW l \in Listings, Refused(l) \/ Unrecorded(l) \/ Unparsed(l)
      PROVE  Unasked'
  <2>1. AttemptEnds(l)
    BY <1>3 DEF Refused, Unrecorded, Unparsed, Record, GiveUp, AttemptEnds, LLMInv, AccountInv
  <2>2. GiveUp(l)
    BY <1>3 DEF Refused, Unrecorded, Unparsed
  <2>3. MovesOn(l)
    BY <2>2 DEF GiveUp, Returns, MovesOn
  <2> QED
    BY <2>1, <2>3, AttemptUsesItsCall
<1>4. CASE Classified \/ Rendered
  <2>1. \A k \in Listings : task'[k] \notin {"waiting", "primary", "backup"}
    BY <1>4 DEF Classified, Rendered, Gathered, LLMInv, TaskInv
  <2> QED
    BY <2>1 DEF Unasked, AskedInv
<1>5. CASE Dedupe
  <2>1. Role' = "report" /\ \A c \in usage' \cup failures' : c.role = "classify"
    BY <1>5 DEF Dedupe, Role, LLMInv, CallsOfNode
  <2>2. \A k, fallback : Call(k, "report", fallback).role = "report"
    BY DEF Call
  <2>3. \A k, fallback : Call(k, "report", fallback) \notin usage' \cup failures'
    BY <2>1, <2>2
  <2> QED
    BY <2>1, <2>3 DEF Unasked, AskedInv, Call
<1>6. CASE UNCHANGED vars
  BY <1>6 DEF vars, Unasked, AskedInv, Role, Call
<1> QED
  BY <1>1, <1>2, <1>3, <1>4, <1>5, <1>6 DEF Next

-----------------------------------------------------------------------------
(* The theorems *)

\* Before the first call nothing was recorded and nothing failed.
LEMMA LLMInit == Init => LLMInv
<1> SUFFICES ASSUME Init PROVE LLMInv
  OBVIOUS
<1>1. TypeOK
  BY DEF Init, TypeOK, Gather, Stages
<1>2. \A k \in Listings : TaskInv(k) /\ EndedInv(k)
  BY DEF Init, Gather, TaskInv, EndedInv
<1>3. SilenceIsDegraded /\ CallsOfNode /\ AccountInv
  BY DEF Init, SilenceIsDegraded, CallsOfNode, AccountInv, UnloggedIsAFailure
<1> QED
  BY <1>1, <1>2, <1>3 DEF LLMInv

\* Every step of a coroutine, and every change of node, keeps the invariant.
LEMMA LLMStep == LLMInv /\ [Next]_vars => LLMInv'
<1> SUFFICES ASSUME LLMInv, [Next]_vars PROVE LLMInv'
  OBVIOUS
<1>1. CASE Next
  BY <1>1, AcquireSafe, AnswerSafe, AttemptSafe, NodeSafe DEF Next
<1>2. CASE UNCHANGED vars
  BY <1>2 DEF vars, LLMInv, TypeOK, TaskInv, EndedInv, SilenceIsDegraded, CallsOfNode,
              AccountInv, UnloggedIsAFailure, Role, Call
<1> QED
  BY <1>1, <1>2

\* The invariant holds however the coroutines interleave.
THEOREM LLMInductive == Spec => []LLMInv
  BY LLMInit, LLMStep, PTL DEF Spec

\* Every variable keeps its type.
THEOREM LLMTypes == Spec => []TypeOK
<1>1. LLMInv => TypeOK
  BY DEF LLMInv
<1> QED
  BY <1>1, LLMInductive, PTL

\* A verdict no model gave leaves both failures behind, so that the run is
\* reported as degraded.
THEOREM Degraded == Spec => []SilenceIsDegraded
<1>1. LLMInv => SilenceIsDegraded
  BY DEF LLMInv
<1> QED
  BY <1>1, LLMInductive, PTL

\* Every answered call that llm_usage lacks is among the failures of the run.
THEOREM UnloggedIsNoticed == Spec => []UnloggedIsAFailure
<1>1. LLMInv => UnloggedIsAFailure
  BY DEF LLMInv, AccountInv
<1> QED
  BY <1>1, LLMInductive, PTL

\* A backup call is recorded only after the primary call for the same listing
\* and role failed.
THEOREM Earned == Spec => []FallbackIsEarned
<1>1. LLMInv => FallbackIsEarned
  BY DEF LLMInv, AccountInv, FallbackIsEarned, Call
<1> QED
  BY <1>1, LLMInductive, PTL

\* Each node ends with an outcome Pipeline's Classify and Render allow.
THEOREM Outcomes == Spec => ImplementsOutcomes
<1> DEFINE Outcome ==
      /\ Classified => ClassifyOutcome(work, work', failures # {}, usage # {})
      /\ Rendered => SummariesOutcome(work, Of(failures, "report") # {},
                                      Of(usage, "report") # {})
<1>1. LLMInv /\ [Next]_vars => [Outcome]_vars
  <2> SUFFICES ASSUME LLMInv PROVE Outcome
    OBVIOUS
  <2>1. ASSUME Classified
        PROVE  ClassifyOutcome(work, work', failures # {}, usage # {})
    <3>1. work' \subseteq work /\ Role = "classify" /\ node = "classify" /\ work \subseteq Listings
      BY <2>1 DEF Classified, Relevant, Role, LLMInv, TypeOK
    <3>2. work = {} => failures = {} /\ usage = {}
      BY <3>1 DEF LLMInv, CallsOfNode
    <3>3. work' # {} => usage # {}
      BY <2>1, <3>1 DEF Classified, Relevant, LLMInv, EndedInv
    <3>4. work # {} => usage # {} \/ failures # {}
      BY <2>1, <3>1 DEF Classified, Gathered, LLMInv, EndedInv
    <3> QED
      BY <3>1, <3>2, <3>3, <3>4 DEF ClassifyOutcome
  <2>2. ASSUME Rendered
        PROVE  SummariesOutcome(work, Of(failures, "report") # {}, Of(usage, "report") # {})
    <3>1. Role = "report" /\ node = "render" /\ work \subseteq Listings
      BY <2>2 DEF Rendered, Role, LLMInv, TypeOK
    <3>2. work = {} => Of(failures, "report") = {} /\ Of(usage, "report") = {}
      BY <3>1 DEF LLMInv, CallsOfNode, Of
    <3>3. work # {} => Of(usage, "report") # {} \/ Of(failures, "report") # {}
      <4> SUFFICES ASSUME NEW l \in work
                   PROVE  Of(usage, "report") # {} \/ Of(failures, "report") # {}
        OBVIOUS
      <4>1. PICK fallback \in BOOLEAN : Call(l, "report", fallback) \in usage \cup failures
        BY <2>2, <3>1 DEF Rendered, Gathered, LLMInv, EndedInv
      <4>2. Call(l, "report", fallback).role = "report"
        BY DEF Call
      <4> QED
        BY <4>1, <4>2 DEF Of
    <3> QED
      BY <3>2, <3>3 DEF SummariesOutcome
  <2> QED
    BY <2>1, <2>2
<1> QED
  BY <1>1, LLMInductive, PTL DEF Spec, ImplementsOutcomes

\* No model is asked twice about a listing in the same role.
THEOREM EveryCallOnce == Spec => []AskedOnce
<1>1. Init => Unasked
  BY DEF Init, Unasked, AskedInv, Gather
<1>2. LLMInv /\ Unasked /\ [Next]_vars => Unasked'
  BY AskedStep
<1>3. LLMInv /\ Unasked => AskedOnce
  <2> SUFFICES ASSUME LLMInv, Unasked, NEW l \in Listings, task[l] \in {"primary", "backup"}
               PROVE  Attempts(l) \notin usage \cup failures \cup billed
    BY DEF AskedOnce
  <2>1. Attempts(l) = Call(l, Role, task[l] = "backup")
    BY TheCall
  <2>2. Attempts(l) \notin usage \cup failures
    BY <2>1 DEF Unasked, AskedInv
  <2> QED
    BY <2>2 DEF LLMInv, AccountInv, UnloggedIsAFailure
<1> QED
  BY <1>1, <1>2, <1>3, LLMInductive, PTL DEF Spec
=============================================================================
