----------------------------- MODULE MCServices ------------------------------
(***************************************************************************)
(* The services around the runner, checked in one run: every behaviour      *)
(* exercises one of them (part) and leaves the others where they start, so  *)
(* that the run is the sum of their state spaces and not the product.       *)
(***************************************************************************)
EXTENDS Probe, K6Process, AlertDelivery, CheckHistory, Accounts, Notifications, Monitors

VARIABLE part

vars == <<part, probeVars, k6Vars, deliveryVars, historyVars, accountsVars,
          notesVars, monitorsVars>>

Parts == {"probe", "k6", "delivery", "history", "accounts", "notes", "monitors"}

\* The parts that are not exercised start in one way only.
Init ==
    /\ part \in Parts
    /\ ProbeInit /\ K6Init /\ DeliveryInit /\ HistoryInit
    /\ AccountsInit /\ NotesInit /\ MonitorsInit
    /\ part # "probe" => kind = "tcp"
    /\ part # "delivery" => configured = {} /\ smtpHost = FALSE
    /\ part # "accounts" => account = FALSE

Rest(p) ==
    /\ part = p
    /\ UNCHANGED part
    /\ p # "probe"    => UNCHANGED probeVars
    /\ p # "k6"       => UNCHANGED k6Vars
    /\ p # "delivery" => UNCHANGED deliveryVars
    /\ p # "history"  => UNCHANGED historyVars
    /\ p # "accounts" => UNCHANGED accountsVars
    /\ p # "notes"    => UNCHANGED notesVars
    /\ p # "monitors" => UNCHANGED monitorsVars

Next ==
    \/ part = "probe"    /\ ProbeNext    /\ Rest("probe")
    \/ part = "k6"       /\ K6Next       /\ Rest("k6")
    \/ part = "delivery" /\ DeliveryNext /\ Rest("delivery")
    \/ part = "history"  /\ HistoryNext  /\ Rest("history")
    \/ part = "accounts" /\ AccountsNext /\ Rest("accounts")
    \/ part = "notes"    /\ NotesNext    /\ Rest("notes")
    \/ part = "monitors" /\ MonitorsNext /\ Rest("monitors")

Spec == /\ Init /\ [][Next]_vars
        /\ ProbeFairness /\ K6Fairness /\ DeliveryFairness

(***************************************************************************)
(* What is tried as a monitor: every input of the field of its type.        *)
(***************************************************************************)
MCBag(field, b) == [f \in {field} |-> b]

MCDrafts == UNION {{[type |-> t, bag |-> MCBag(FieldOf[t], b)] : b \in Inputs[FieldOf[t]]}
                   : t \in MonitorTypes}

MCHttp(s) == [url |-> [scheme |-> s, rest |-> "host"], method |-> "absent",
              expectedStatus |-> Absent]
MCTcp     == [host |-> "name", port |-> 1]

MCStored == {d \in MCDrafts : d.bag \in {MCBag("tcp", MCTcp), MCBag("http", MCHttp("none"))}}

\* Updates between two types: with no configuration, one of either type, one that
\* only the resolver refuses, and two at a time.
MCChanges ==
    [type : {"absent", "HTTP", "TCP"},
     bag  : {<<>>, MCBag("http", MCHttp("https")), MCBag("tcp", MCTcp)}]
    \cup [type : {"absent"},
          bag  : {MCBag("http", MCHttp("none")),
                  [f \in {"http", "tcp"} |-> IF f = "tcp" THEN MCTcp ELSE MCHttp("https")]}]

MCPatches == {<<>>, [name |-> "new"], [name |-> "null"], [name |-> "old", enabled |-> "new"],
              [enabled |-> "old"], [enabled |-> "null"]}
==============================================================================
