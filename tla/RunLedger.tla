------------------------------ MODULE RunLedger ------------------------------
(***************************************************************************)
(* What running stress tests promises about a run and the notification      *)
(* about it, with no starters, no queue and no executions in sight: a run   *)
(* begins, has one result, and its result is owed to the user from the      *)
(* moment it is written until it is told, once, or the notice is lost.      *)
(* Runs in doubt, whose job the queue may have taken without saying so, may *)
(* have a second result and a second notice; no other run is touched by it. *)
(***************************************************************************)
EXTENDS Sequences

CONSTANT Runs

VARIABLES
    status,  \* of each run; "none" before it begins, "gone" with its test
    owed,    \* results that are written and not told yet: pairs of run and result
    told,    \* the results told about each run, the newest first
    doubt    \* runs that may be executed twice

vars == <<status, owed, told, doubt>>

Results == {"PASSED", "FAILED"}

Init ==
    /\ status = [r \in Runs |-> "none"]
    /\ owed = {}
    /\ told = [r \in Runs |-> << >>]
    /\ doubt = {}

Begin(r) ==
    /\ status[r] = "none"
    /\ status' = [status EXCEPT ![r] = "RUNNING"]
    /\ UNCHANGED <<owed, told, doubt>>

\* From here on the run may be executed twice: it has no result yet.
Doubt(r) ==
    /\ status[r] \in {"RUNNING", "gone"}
    /\ doubt' = doubt \cup {r}
    /\ UNCHANGED <<status, owed, told>>

Result(r) == \E v \in Results :
    /\ status[r] = "RUNNING" \/ (r \in doubt /\ status[r] \in Results)
    /\ status' = [status EXCEPT ![r] = v]
    /\ owed' = owed \cup {<<r, v>>}
    /\ UNCHANGED <<told, doubt>>

\* Two equal results of a run in doubt are owed as one, and told twice.
Tell(r) == \E v \in Results :
    /\ <<r, v>> \in owed
    /\ told[r] = << >> \/ r \in doubt
    /\ told' = [told EXCEPT ![r] = <<v>> \o @]
    /\ owed' = owed \ {<<r, v>>} \/ (r \in doubt /\ owed' = owed)
    /\ UNCHANGED <<status, doubt>>

\* Notices are lost, all at once when the process dies.
Lose ==
    /\ owed' \in SUBSET owed
    /\ UNCHANGED <<status, told, doubt>>

\* A test is deleted, and its runs with it; what is owed is told all the same.
Delete(R) ==
    /\ \A r \in R : status[r] # "none"
    /\ status' = [r \in Runs |-> IF r \in R THEN "gone" ELSE status[r]]
    /\ UNCHANGED <<owed, told, doubt>>

Next ==
    \/ \E r \in Runs : Begin(r) \/ Doubt(r) \/ Result(r) \/ Tell(r)
    \/ Lose
    \/ \E R \in SUBSET Runs : Delete(R)

Spec == Init /\ [][Next]_vars
=============================================================================
