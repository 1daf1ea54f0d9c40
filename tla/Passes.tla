-------------------------------- MODULE Passes --------------------------------
(***************************************************************************)
(* A run of mtFuzzer (main of src/src/fuzzMetaTest.cpp) as the sequence of *)
(* the passes that the modules below model one by one: the library is read *)
(* (passes 1 and 2), then the metamorphic relations (the beginning of pass *)
(* 4), the calls of helpers are replaced (pass 6) and those of fuzz_rand   *)
(* (pass 7).  A pass that fails ends the run, so that a later one starts   *)
(* only after a success.                                                   *)
(*                                                                         *)
(* What a pass gets from an earlier one is the text of a program, which is *)
(* an input here.  Passes 3 and 5, which rewrite main, are in FuzzNew, and *)
(* Pipeline puts them in their places; the generation of tests is the      *)
(* subject of MetaTests, and the files are that of FuzzTool.               *)
(***************************************************************************)
EXTENDS Integers, FiniteSets, SequencesExt

CONSTANTS
  Libraries, Specifications, Programs, CallLists,   \* the inputs of the passes
  Types, MaxInt, MaxByte, Fractions, Printed

VARIABLES
  library, lib_pc, unmatched, exposed_funcs, lib_funcs, lib_types,
  matched_fds, fd_next, read_pc, meta_input_var_type, meta_rel_decls, meta_check_decls,
  program, stitch_pc, stitch_next, helper_funcs_splits, stitch_exprs, replace_index,
  stitched,
  fuzzer_calls, call_next, rand_pc, replaced

Lib == INSTANCE ExposedFuncs WITH pc <- lib_pc
Reader == INSTANCE MRReader WITH next <- fd_next, pc <- read_pc
Stitch == INSTANCE HelperStitch WITH next <- stitch_next, pc <- stitch_pc
Rand == INSTANCE FuzzRand WITH next <- call_next, pc <- rand_pc

ASSUME PassesAssumption ==
  /\ Lib!LibraryAssumption /\ Reader!ReaderAssumption
  /\ Stitch!ProgramsAssumption /\ Rand!FuzzRandAssumption

lib_vars == <<library, lib_pc, unmatched, exposed_funcs, lib_funcs, lib_types>>
reader_vars ==
  <<matched_fds, fd_next, read_pc, meta_input_var_type, meta_rel_decls, meta_check_decls>>
stitch_vars ==
  <<program, stitch_pc, stitch_next, helper_funcs_splits, stitch_exprs, replace_index,
    stitched>>
rand_vars == <<fuzzer_calls, call_next, rand_pc, replaced>>

vars == <<lib_vars, reader_vars, stitch_vars, rand_vars>>

Start == Lib!Start /\ Reader!Start /\ Stitch!Start /\ Rand!Start

Init ==
  /\ library \in Libraries /\ matched_fds \in Specifications
  /\ program \in Programs /\ fuzzer_calls \in CallLists
  /\ Start

-----------------------------------------------------------------------------

ReadLibrary == Lib!Next /\ UNCHANGED <<reader_vars, stitch_vars, rand_vars>>

ReadRelations ==
  /\ lib_pc = "read"
  /\ Reader!Next
  /\ UNCHANGED <<lib_vars, stitch_vars, rand_vars>>

StitchHelpers ==
  /\ read_pc = "read"
  /\ Stitch!Next
  /\ UNCHANGED <<lib_vars, reader_vars, rand_vars>>

ReplaceCalls ==
  /\ stitch_pc = "done"
  /\ Rand!Next
  /\ UNCHANGED <<lib_vars, reader_vars, stitch_vars>>

Next ==
  \/ ReadLibrary
  \/ ReadRelations
  \/ StitchHelpers
  \/ ReplaceCalls

Spec == Init /\ [][Next]_vars

-----------------------------------------------------------------------------
(***************************************************************************)
(* The properties of the passes, which their modules define and explain.   *)
(***************************************************************************)

TypeOK == Lib!TypeOK /\ Reader!TypeOK /\ Stitch!TypeOK /\ Rand!TypeOK

(* Every exposed or helper function is handed over to the fuzzer library   *)
(* with its marks and once, however often it is declared and in whichever  *)
(* order, though two passes hand over (addExposedFuncs of                  *)
(* libSpecReader.cpp).                                                     *)
EachHandedOverOnce == Lib!EachHandedOverOnce

(* Each function of a kind that pass 4 reads is listed where that kind and *)
(* its family say, as often as it is declared, and nowhere else; nothing   *)
(* else is listed (logMetaRelDecl of generateMetaTests.cpp).               *)
EachWhereItBelongs == Reader!EachWhereItBelongs

(* A relation that may end a recursion has no placeholder in its body (the *)
(* is_base_func of the mrInfo constructor).  It fails for a relation that  *)
(* is declared before it is defined.                                       *)
BasesHaveNoPlaceholder == Reader!BasesHaveNoPlaceholder

(* Whether a specification is accepted does not depend on the order of its *)
(* declarations (the assertion on meta_input_var_type).                    *)
AcceptedInAnyOrder == Reader!AcceptedInAnyOrder

(* What replaces a call of a helper is the helper's body, with the whole   *)
(* argument for each parameter and a fresh name for each of its variables  *)
(* (getSplitWithReplacements of helperFuncStitch.cpp).                     *)
SameBody == Stitch!SameBody

(* Every name in the rewritten functions is declared once and before its   *)
(* use (makeReplace of helperFuncStitch.cpp).                              *)
NamesResolve == Stitch!NamesResolve

(* No call of a helper is left (the comment on fuzzHelperFuncStitch).      *)
NoCallLeft == Stitch!NoCallLeft

(* Pass 6 gives up exactly for helpers whose returns it cannot replace a   *)
(* call by (addNewSplit and makeReplace of helperFuncStitch.cpp).          *)
ProperHelpersAccepted == Stitch!ProperHelpersAccepted

(* What replaces a call of fuzz_rand lies between the bounds written in    *)
(* the source (makeReplace of parseFuzzerCalls.cpp).                       *)
WithinBounds == Rand!WithinBounds
=============================================================================
