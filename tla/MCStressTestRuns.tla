--------------------------- MODULE MCStressTestRuns ---------------------------
(* Instances of StressTestRuns. *)
EXTENDS StressTestRuns, TLC

AnyFailure   == FailureKinds
QueueOnly    == {"queue"}
CrashOnly    == {"crash"}
NoFailure    == {}
MCSymmetry   == Permutations(Runs)
===============================================================================
