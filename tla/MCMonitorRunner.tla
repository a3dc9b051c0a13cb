--------------------------- MODULE MCMonitorRunner ---------------------------
(* Instances of MonitorRunner. *)
EXTENDS MonitorRunner

AllOn    == [onDown |-> TRUE, onRecover |-> TRUE, fleetMuted |-> FALSE, until |-> 0]

\* Everything on, or a maintenance window that ends during the run.
MCPrefs  == {AllOn, [AllOn EXCEPT !.until = 2]}
MCAllOn  == {AllOn}

=============================================================================
