------------------------------ MODULE Pipeline ------------------------------
(***************************************************************************)
(* The passes of mtFuzzer in the order of main (src/src/fuzzMetaTest.cpp): *)
(* passes 1 and 2 read the library, pass 3 duplicates the templates of     *)
(* main, pass 4 reads the relations, pass 5 expands fuzz::fuzz_new, passes *)
(* 6 and 7 replace the calls of helpers and of fuzz_rand.  A pass starts   *)
(* only when the one before it has succeeded.                              *)
(*                                                                         *)
(* Each step is one of Passes that leaves main alone, or one of FuzzNew    *)
(* that leaves the rest alone, so that what holds of Spec and of           *)
(* TemplateSpec in every reachable state holds here.                       *)
(***************************************************************************)
EXTENDS Passes, FuzzNew

PipelineInit == Init /\ TemplateInit

pipeline_vars == <<vars, template_vars>>

-----------------------------------------------------------------------------

LibraryRead == ReadLibrary /\ UNCHANGED template_vars

(* Pass 3, then pass 5, which waits for pass 4.                            *)
MainRewritten ==
  /\ lib_pc = "read"
  /\ pc = "duplicated" => read_pc = "read"
  /\ TemplateNext
  /\ UNCHANGED vars

RelationsRead ==
  /\ pc = "duplicated"
  /\ ReadRelations
  /\ UNCHANGED template_vars

HelpersStitched ==
  /\ pc = "expanded"
  /\ StitchHelpers
  /\ UNCHANGED template_vars

CallsReplaced == ReplaceCalls /\ UNCHANGED template_vars

PipelineNext ==
  \/ LibraryRead
  \/ MainRewritten
  \/ RelationsRead
  \/ HelpersStitched
  \/ CallsReplaced

PipelineSpec == PipelineInit /\ [][PipelineNext]_pipeline_vars
=============================================================================
