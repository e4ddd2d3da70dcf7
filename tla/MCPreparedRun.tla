---------------------------- MODULE MCPreparedRun ----------------------------
(* Small instances of PreparedRun for TLC: two staged inputs around a bound *)
(* device input or output.                                                  *)
EXTENDS PreparedRun

CONSTANTS s1, s2

StagedInputs == {1, 2}

AllFaults == {"copy", "address", "launch"}
=============================================================================
