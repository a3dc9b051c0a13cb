------------------------------ MODULE K6Process ------------------------------
(***************************************************************************)
(* One call of K6RunnerService.run: a directory is made, the script is      *)
(* written, k6 is started with a time limit, its summary is read and the    *)
(* directory is removed.  The child process and the two timers run beside   *)
(* the handlers of the child's events.  k6 is external: it may exit by      *)
(* itself with any code, heed SIGTERM or ignore it; what it (or a wrapper   *)
(* in K6_BIN) started may outlive it and hold its stderr open, and the      *)
(* 'close' event waits for that.                                            *)
(***************************************************************************)
EXTENDS Integers

\* The exit codes k6 is tried with, and the code of a process ended by a signal.
CONSTANT ExitCodes
BySignal == -1

ASSUME K6Assumption == ExitCodes \subseteq 0..255

VARIABLES
    stage,     \* "idle", "writing", "spawning", "running", "reading", "removing", "returned"
    k6,        \* the child: "none", "running" or "gone"
    exitCode,  \* what it exited with
    heir,      \* a process it started holds its stderr
    limit,     \* the timer of timeoutMs is armed
    killer,    \* killTimer is armed
    signalled, \* history: a signal was sent to the living child
    timedOut,  \* the flag of spawnK6
    code,      \* the code of the result
    dir,       \* the directory exists
    outcome    \* of the run: "none", "passed", "failed", "missing" or "error"

k6Vars == <<stage, k6, exitCode, heir, limit, killer, signalled, timedOut, code,
            dir, outcome>>

Child  == <<k6, exitCode, heir, limit, killer, signalled, timedOut>>

K6Init ==
    /\ stage = "idle"
    /\ k6 = "none" /\ exitCode = BySignal /\ heir = FALSE
    /\ limit = FALSE /\ killer = FALSE
    /\ signalled = FALSE /\ timedOut = FALSE
    /\ code = BySignal
    /\ dir = FALSE
    /\ outcome = "none"

\* mkdtemp stands before the try: there is nothing to remove when it fails.
MakeDir ==
    /\ stage = "idle"
    /\ \/ dir' = TRUE /\ stage' = "writing" /\ UNCHANGED outcome
       \/ stage' = "returned" /\ outcome' = "error" /\ UNCHANGED dir
    /\ UNCHANGED <<Child, code>>

WriteScript ==
    /\ stage = "writing"
    /\ \/ stage' = "spawning" /\ UNCHANGED outcome
       \/ stage' = "removing" /\ outcome' = "error"
    /\ UNCHANGED <<Child, code, dir>>

Spawn ==
    /\ stage = "spawning"
    /\ stage' = "running"
    /\ k6' = "running"
    /\ limit' = TRUE
    /\ UNCHANGED <<exitCode, heir, killer, signalled, timedOut, code, dir, outcome>>

\* The 'error' event of a child that did not start: finish(error) takes the timer
\* back; ENOENT is reported as a missing k6.
SpawnFails ==
    /\ stage = "spawning"
    /\ stage' = "removing"
    /\ outcome' \in {"missing", "error"}
    /\ UNCHANGED <<Child, code, dir>>

\* k6 ends, by itself or because it heeds SIGTERM.
K6Exits ==
    /\ k6 = "running"
    /\ k6' = "gone"
    /\ exitCode' \in ExitCodes \cup (IF signalled THEN {BySignal} ELSE {})
    /\ heir' \in BOOLEAN
    /\ UNCHANGED <<stage, limit, killer, signalled, timedOut, code, dir, outcome>>

HeirEnds ==
    /\ heir
    /\ heir' = FALSE
    /\ UNCHANGED <<stage, k6, exitCode, limit, killer, signalled, timedOut, code,
                   dir, outcome>>

\* Mutation of LimitPasses: SIGTERM only, and no SIGKILL after it.
LimitPassesPolitely ==
    /\ limit
    /\ limit' = FALSE
    /\ timedOut' = TRUE
    /\ signalled' = (k6 = "running")
    /\ UNCHANGED <<stage, k6, exitCode, heir, killer, code, dir, outcome>>

\* timeoutMs have passed: SIGTERM, which a child that has exited does not get.
LimitPasses ==
    /\ limit
    /\ limit' = FALSE
    /\ timedOut' = TRUE
    /\ signalled' = (k6 = "running")
    /\ killer' = TRUE
    /\ UNCHANGED <<stage, k6, exitCode, heir, code, dir, outcome>>

\* Two seconds later: SIGKILL, which nothing ignores.
KillerFires ==
    /\ killer
    /\ killer' = FALSE
    /\ IF k6 = "running"
       THEN k6' = "gone" /\ exitCode' = BySignal /\ heir' \in BOOLEAN
       ELSE UNCHANGED <<k6, exitCode, heir>>
    /\ UNCHANGED <<stage, limit, signalled, timedOut, code, dir, outcome>>

\* Mutation of Close: finish clears the first timer and forgets killTimer.
CloseButForKiller ==
    /\ stage = "running" /\ k6 = "gone" /\ ~heir
    /\ stage' = "reading"
    /\ code' = IF exitCode = BySignal THEN 1 ELSE exitCode
    /\ limit' = FALSE
    /\ UNCHANGED <<k6, exitCode, heir, killer, signalled, timedOut, dir, outcome>>

\* The 'close' event: finish takes both timers back; a signal counts as code 1.
Close ==
    /\ stage = "running" /\ k6 = "gone" /\ ~heir
    /\ stage' = "reading"
    /\ code' = IF exitCode = BySignal THEN 1 ELSE exitCode
    /\ limit' = FALSE
    /\ killer' = FALSE
    /\ UNCHANGED <<k6, exitCode, heir, signalled, timedOut, dir, outcome>>

\* Mutation of Passed: the exit code alone decides.
PassedByCode(late, c) == c = 0
\* What the executor makes of a result.
Passed(late, c) == ~late /\ c = 0

\* A summary that is missing or not understood is null, which changes no verdict.
ReadSummary ==
    /\ stage = "reading"
    /\ stage' = "removing"
    /\ outcome' = IF Passed(timedOut, code) THEN "passed" ELSE "failed"
    /\ UNCHANGED <<Child, code, dir>>

\* The finally block; an error of rm replaces the result.
Remove ==
    /\ stage = "removing"
    /\ stage' = "returned"
    /\ \/ dir' = FALSE /\ UNCHANGED outcome
       \/ outcome' = "error" /\ UNCHANGED dir
    /\ UNCHANGED <<Child, code>>

K6Code == \/ MakeDir \/ WriteScript \/ Spawn \/ SpawnFails
          \/ LimitPasses \/ KillerFires \/ Close \/ ReadSummary \/ Remove

K6Next == K6Code \/ K6Exits \/ HeirEnds

\* Once begun, the event loop runs what is due; k6 and what it started owe nothing.
K6Fairness == WF_k6Vars(stage # "idle" /\ K6Code)

K6Spec == K6Init /\ [][K6Next]_k6Vars /\ K6Fairness

(***************************************************************************)
(* Properties.                                                              *)
(***************************************************************************)
K6TypeOK ==
    /\ stage \in {"idle", "writing", "spawning", "running", "reading", "removing",
                  "returned"}
    /\ k6 \in {"none", "running", "gone"}
    /\ exitCode \in ExitCodes \cup {BySignal}
    /\ code \in ExitCodes \cup {BySignal, 1}
    /\ heir \in BOOLEAN /\ limit \in BOOLEAN /\ killer \in BOOLEAN
    /\ signalled \in BOOLEAN /\ timedOut \in BOOLEAN /\ dir \in BOOLEAN
    /\ outcome \in {"none", "passed", "failed", "missing", "error"}

\* A run that has returned leaves neither a k6 process nor a timer that would
\* signal one, and its directory only when rm failed, which is an error.
NothingLeftBehind ==
    stage = "returned" =>
        /\ k6 # "running"
        /\ ~limit /\ ~killer
        /\ dir => outcome = "error"

\* A k6 that runs is on a timer that ends it: the time limit, and from the moment
\* that has passed until the child is gone the one that kills it.
ChildIsTimed ==
    k6 = "running" => stage = "running" /\ IF timedOut THEN killer ELSE limit

\* A run passes only if k6 exited by itself with code 0 and no signal was sent to
\* it; a k6 that ends cleanly on SIGTERM has not passed.
KilledNeverPasses ==
    outcome = "passed" => exitCode = 0 /\ ~signalled

\* Every run returns, though k6 hangs and ignores SIGTERM, unless a process that
\* k6 started holds its stderr for good: neither signal reaches that one.
K6RunEnds ==
    [](stage # "idle" => <>(stage = "returned") \/ <>[](k6 = "gone" /\ heir))
==============================================================================
