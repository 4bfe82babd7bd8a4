----------------------------- MODULE MCPipeline -----------------------------
(***************************************************************************)
(* Pipeline on small instances.  Tenders are interchangeable, and so are    *)
(* the processes as long as all or none of them may run dry.               *)
(***************************************************************************)
EXTENDS PipelineProperties, TLC

Interchangeable ==
    {tenders @@ runs : tenders \in Permutations(Tenders), runs \in Permutations(Runs)}
=============================================================================
