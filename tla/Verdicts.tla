------------------------------ MODULE Verdicts ------------------------------
(***************************************************************************)
(* What the LLM nodes of the pipeline give their caller, whatever the      *)
(* models and the database do meanwhile.  Pipeline relies on these         *)
(* outcomes; LLMClient keeps them.                                         *)
(***************************************************************************)

\* Classifying `work` leaves the relevant part of it.  failures: some attempt
\* was added to LLMClient.failures; answered: some answer was recorded.  A
\* listing without an answer counts as not relevant, so nothing is relevant
\* unless an answer was recorded, and silence leaves a failure behind.
ClassifyOutcome(work, relevant, failures, answered) ==
    /\ relevant \subseteq work
    /\ work = {} => ~failures /\ ~answered
    /\ relevant # {} => answered
    /\ work # {} /\ ~answered => failures

\* Summarising `work`: the report goes out with or without the summaries.
SummariesOutcome(work, failures, answered) ==
    /\ work = {} => ~failures /\ ~answered
    /\ work # {} /\ ~answered => failures
=============================================================================
