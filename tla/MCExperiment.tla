---------------------------- MODULE MCExperiment ----------------------------
(***************************************************************************)
(* Command lines for model-checking Experiment.                            *)
(***************************************************************************)
EXTENDS Experiment

line(mode, val, stop, log) ==
  [mode |-> mode, mode_val |-> val, stop_on_fail |-> stop, log_all_tests |-> log]

MCLimited ==
  {line("count", 2, stop, log) : stop, log \in BOOLEAN}
    \cup {line("time", 1, FALSE, TRUE), line("generate", 1, FALSE, FALSE)}

MCUnlimited == {line("count", -1, TRUE, FALSE), line("generate", -1, FALSE, FALSE)}

MCAll == MCLimited \cup MCUnlimited
=============================================================================
