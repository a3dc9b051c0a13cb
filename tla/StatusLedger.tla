---------------------------- MODULE StatusLedger ----------------------------
(***************************************************************************)
(* What checking promises about the status of a monitor and the alerts      *)
(* about it, with no callers, no locks and no failures in sight: the status *)
(* changes one step at a time, a change from a known state of health is     *)
(* told at most once, and only while it is still the truth.                 *)
(***************************************************************************)
EXTENDS Naturals

CONSTANT Monitors

VARIABLES
    status,  \* the current status of each monitor
    from,    \* the status before it
    told     \* how many alerts the current status has led to

vars == <<status, from, told>>

Init ==
    /\ status = [m \in Monitors |-> "UNKNOWN"]
    /\ from = [m \in Monitors |-> "UNKNOWN"]
    /\ told = [m \in Monitors |-> 0]

Change(m) == \E s \in {"UP", "DOWN"} :
    /\ s # status[m]
    /\ status' = [status EXCEPT ![m] = s]
    /\ from' = [from EXCEPT ![m] = status[m]]
    /\ told' = [told EXCEPT ![m] = 0]

\* Going down is news, and so is coming back; the first sign of life is not.
News(m) == status[m] = "DOWN" \/ (status[m] = "UP" /\ from[m] = "DOWN")

Tell(m) ==
    /\ News(m)
    /\ told[m] = 0
    /\ told' = [told EXCEPT ![m] = 1]
    /\ UNCHANGED <<status, from>>

\* The monitor is deleted, and everything known of it.
Forget(m) ==
    /\ status' = [status EXCEPT ![m] = "UNKNOWN"]
    /\ from' = [from EXCEPT ![m] = "UNKNOWN"]
    /\ told' = [told EXCEPT ![m] = 0]

Next == \E m \in Monitors : Change(m) \/ Tell(m) \/ Forget(m)

Spec == Init /\ [][Next]_vars
=============================================================================
