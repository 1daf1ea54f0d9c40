----------------------------- MODULE MCPipeline -----------------------------
(***************************************************************************)
(* Model-checking Pipeline: the body of main, or one of the inputs of the  *)
(* other passes, is any of its set, and the rest is the simplest.          *)
(***************************************************************************)
EXTENDS Pipeline, MCPasses, MCTemplates

SimplestMain == main = <<>> /\ meta_input_fuzz_count = 0

MCPipelineInit ==
  \/ SimplestMain /\ TemplateInit /\ MCInit
  \/ SimplestInputs /\ Start /\ TemplateInit

MCPipelineSpec == MCPipelineInit /\ [][PipelineNext]_pipeline_vars
=============================================================================
