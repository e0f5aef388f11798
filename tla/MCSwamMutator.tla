--------------------------- MODULE MCSwamMutator ---------------------------
(***************************************************************************)
(* Instances of SwamMutator for TLC.                                       *)
(***************************************************************************)
EXTENDS SwamMutator

MCMarkerValue == 0..NumScenarios

\* Two scenarios the wasm3 profile supports neither of.
MCOpClassOf == [s \in 1..NumScenarios |->
                  IF s = 1 THEN "ATOMIC_LOAD" ELSE "BULK_INIT"]

\* Both kinds of bug, and a bug next to a scenario without a specified outcome.
BothBugs   == [s \in 1..NumScenarios |-> IF s = 1 THEN "TRAP" ELSE "NO_TRAP"]
BugUnknown == [s \in 1..NumScenarios |-> IF s = 1 THEN "TRAP" ELSE "UNKNOWN"]
=============================================================================
