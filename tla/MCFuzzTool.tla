----------------------------- MODULE MCFuzzTool -----------------------------
(* Runs of the tool, for TLC.  The names of temporary files are            *)
(* interchangeable.                                                        *)
EXTENDS FuzzTool, TLC

NamesSymmetry == Permutations(Names)
=============================================================================
