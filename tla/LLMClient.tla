----------------------------- MODULE LLMClient ------------------------------
(***************************************************************************)
(* llm.py under the _classify and _render nodes of pipeline.py: the        *)
(* listings of a node are put to the LLM concurrently, each first to the   *)
(* role's primary model and, when that attempt fails, to its backup.  An   *)
(* answer counts only once its usage row is committed: an answer that      *)
(* cannot be parsed or recorded is a failed attempt.  One coroutine runs   *)
(* from an answer to its next await undisturbed, so that is one step.      *)
(***************************************************************************)
EXTENDS Integers, FiniteSets, Verdicts

CONSTANTS
    Listings,               \* what the prefilter can leave to be classified
    ClassifyConcurrency,    \* _CLASSIFY_CONCURRENCY
    SummaryConcurrency      \* _SUMMARY_CONCURRENCY

ASSUME ConcurrencyAssumption ==
    {ClassifyConcurrency, SummaryConcurrency} \subseteq Nat \ {0}

VARIABLES
    node,        \* "classify", "dedupe", "render" or "notify"
    work,        \* the listings of the node
    task,        \* how far the listing's coroutine is
    verdict,     \* _run_structured's result for the listing
    summary,     \* _run_text's result for the listing
    usage,       \* the calls with a row in llm_usage
    pending,     \* the calls with a row in the connection's open transaction
    failures,    \* the calls in LLMClient.failures
    billed       \* for the properties: the calls a model answered

vars == <<node, work, task, verdict, summary, usage, pending, failures, billed>>

Roles == {"classify", "report"}

Calls == [listing: Listings, role: Roles, fallback: BOOLEAN]

\* Not started, held by the semaphore, awaiting the primary or the backup
\* model, ended.
Stages == {"none", "waiting", "primary", "backup", "ended"}

TypeOK ==
    /\ node \in {"classify", "dedupe", "render", "notify"}
    /\ work \subseteq Listings
    /\ task \in [Listings -> Stages]
    /\ verdict \in [Listings -> {"none", "relevant", "irrelevant", "default"}]
    /\ summary \in [Listings -> {"none", "text", "empty"}]
    /\ {usage, pending, failures, billed} \subseteq SUBSET Calls

\* gather() starts the coroutines of listings ls.
Gather(ls) == [l \in Listings |-> IF l \in ls THEN "waiting" ELSE "none"]

Init ==
    /\ node = "classify"
    /\ work \in SUBSET Listings
    /\ task = Gather(work)
    /\ verdict = [l \in Listings |-> "none"]
    /\ summary = [l \in Listings |-> "none"]
    /\ usage = {} /\ pending = {} /\ failures = {} /\ billed = {}

-----------------------------------------------------------------------------
Role == IF node = "classify" THEN "classify" ELSE "report"

Concurrency == IF node = "classify" THEN ClassifyConcurrency ELSE SummaryConcurrency

Asking == {l \in Listings : task[l] \in {"primary", "backup"}}

\* Deviation: the backup model is asked first.
AttemptsReversed(l) ==
    [listing |-> l, role |-> Role, fallback |-> task[l] = "primary"]

\* _Role.attempts(): the call listing l is waiting for.
Attempts(l) == [listing |-> l, role |-> Role, fallback |-> task[l] = "backup"]

Acquire(l) ==
    /\ task[l] = "waiting"
    /\ Cardinality(Asking) < Concurrency
    /\ task' = [task EXCEPT ![l] = "primary"]
    /\ UNCHANGED <<node, work, verdict, summary, usage, pending, failures, billed>>

\* The coroutine of l returns its result.
Returns(l, result) ==
    /\ task' = [task EXCEPT ![l] = "ended"]
    /\ IF node = "classify"
         THEN verdict' = [verdict EXCEPT ![l] = result] /\ UNCHANGED summary
         ELSE summary' = [summary EXCEPT ![l] = result] /\ UNCHANGED verdict

Results == IF node = "classify" THEN {"relevant", "irrelevant"} ELSE {"text", "empty"}

\* Deviation: a text where a verdict is expected.
DefaultText == "empty"

Default == IF node = "classify" THEN "default" ELSE "empty"

\* record_usage: the commit takes along what an earlier, failed one left behind.
Record(call) ==
    /\ usage' = usage \cup pending \cup {call}
    /\ pending' = {}

\* Deviation: a usage row that cannot be written does not spoil the answer.
AnswerUnrecorded(l) ==
    /\ task[l] \in {"primary", "backup"}
    /\ \E result \in Results : Returns(l, result)
    /\ billed' = billed \cup {Attempts(l)}
    /\ \E written \in BOOLEAN :
         usage' = IF written THEN usage \cup {Attempts(l)} ELSE usage
    /\ UNCHANGED <<node, work, pending, failures>>

\* The answer came, was recorded and could be used.  A summary may be blank.
Answer(l) ==
    /\ task[l] \in {"primary", "backup"}
    /\ \E result \in Results : Returns(l, result)
    /\ billed' = billed \cup {Attempts(l)}
    /\ Record(Attempts(l))
    /\ UNCHANGED <<node, work, failures>>

\* Deviation: only the failure of the primary model is kept.
GiveUpQuietly(l) ==
    IF task[l] = "primary"
      THEN /\ task' = [task EXCEPT ![l] = "backup"]
           /\ failures' = failures \cup {Attempts(l)}
           /\ UNCHANGED <<verdict, summary>>
      ELSE Returns(l, Default) /\ UNCHANGED failures

\* Deviation: the chain of models starts over when its last one failed.
GiveUpNever(l) ==
    /\ failures' = failures \cup {Attempts(l)}
    /\ task' = [task EXCEPT ![l] = IF @ = "primary" THEN "backup" ELSE "primary"]
    /\ UNCHANGED <<verdict, summary>>

\* The except branch: note the failure, go on to the backup, or give up with
\* the default.
GiveUp(l) ==
    /\ failures' = failures \cup {Attempts(l)}
    /\ IF task[l] = "primary"
         THEN task' = [task EXCEPT ![l] = "backup"] /\ UNCHANGED <<verdict, summary>>
         ELSE Returns(l, Default)

\* The model did not answer.
Refused(l) ==
    /\ task[l] \in {"primary", "backup"}
    /\ GiveUp(l)
    /\ UNCHANGED <<node, work, usage, pending, billed>>

\* It answered, but the database is locked: the INSERT failed, or the COMMIT did
\* and leaves the row in the transaction.
Unrecorded(l) ==
    /\ task[l] \in {"primary", "backup"}
    /\ billed' = billed \cup {Attempts(l)}
    /\ pending' \in {pending, pending \cup {Attempts(l)}}
    /\ GiveUp(l)
    /\ UNCHANGED <<node, work, usage>>

\* It answered and was recorded, but structured output could not be parsed.
Unparsed(l) ==
    /\ node = "classify"
    /\ task[l] \in {"primary", "backup"}
    /\ billed' = billed \cup {Attempts(l)}
    /\ Record(Attempts(l))
    /\ GiveUp(l)
    /\ UNCHANGED <<node, work>>

\* Deviation: a listing without a verdict is kept for the report.
RelevantOrUnknown == {l \in work : verdict[l] # "irrelevant"}

Relevant == {l \in work : verdict[l] = "relevant"}

Gathered == \A l \in work : task[l] = "ended"

\* _classify ends: what is not relevant leaves the pipeline.
Classified ==
    /\ node = "classify" /\ Gathered
    /\ node' = "dedupe"
    /\ work' = Relevant
    /\ UNCHANGED <<task, verdict, summary, usage, pending, failures, billed>>

\* _dedupe keeps the unseen ones, _render summarises them.  With nothing to
\* report it may be skipped, as if it had no listings.
Dedupe ==
    /\ node = "dedupe"
    /\ node' = "render"
    /\ \E new \in SUBSET work : work' = new /\ task' = Gather(new)
    /\ UNCHANGED <<verdict, summary, usage, pending, failures, billed>>

Rendered ==
    /\ node = "render" /\ Gathered
    /\ node' = "notify"
    /\ UNCHANGED <<work, task, verdict, summary, usage, pending, failures, billed>>

Next ==
    \/ \E l \in Listings : \/ Acquire(l) \/ Answer(l)
                           \/ Refused(l) \/ Unrecorded(l) \/ Unparsed(l)
    \/ Classified \/ Dedupe \/ Rendered

Spec == Init /\ [][Next]_vars

-----------------------------------------------------------------------------
(* Properties *)

Of(calls, role) == {c \in calls : c.role = role}

\* Each node keeps the promise the pipeline relies on, as the step of the whole
\* node: Verdicts' outcomes, for the listings it was given and what it leaves
\* (pipeline.py:151, 217; llm.py:303-353).
ImplementsOutcomes ==
    [][/\ Classified => ClassifyOutcome(work, work', failures # {}, usage # {})
       /\ Rendered => SummariesOutcome(work, Of(failures, "report") # {},
                                       Of(usage, "report") # {})]_vars

\* No tender is put aside without anyone noticing: a verdict nobody gave leaves
\* the failures of both models behind, which makes the run "degraded", however
\* the coroutines interleave (llm.py:316-328, main.py:57-59).
SilenceIsDegraded ==
    \A l \in Listings : verdict[l] = "default" =>
        \A fallback \in BOOLEAN :
            [listing |-> l, role |-> "classify", fallback |-> fallback] \in failures

\* An answered, paid call that is missing from llm_usage, which is to log every
\* call (README:18, llm.py:9-10), is at least a failure of the run: the
\* operator is told, although the statistics lack it (llm.py:307-308, 334-335).
UnloggedIsAFailure == billed \ usage \subseteq failures

\* The backup model is paid for only where the primary model of the same role
\* failed on the same listing: "fallback_used" of the statistics is true
\* (llm.py:140-145, 375).
FallbackIsEarned ==
    \A c \in usage : c.fallback =>
        [listing |-> c.listing, role |-> c.role, fallback |-> FALSE] \in failures

\* No model is asked twice about a listing in the same role, so that a batch
\* ends and costs at most two calls a listing in each node, whatever fails and
\* whatever another coroutine's commit takes along (llm.py:304-328, 332-353).
AskedOnce ==
    \A l \in Listings : task[l] \in {"primary", "backup"} =>
        Attempts(l) \notin usage \cup failures \cup billed
=============================================================================
