---------------------------- MODULE StressTestRuns ----------------------------
(***************************************************************************)
(* Runs of stress tests: StressTestService (src/src/stress-test/            *)
(* stress-test.service.ts) starts them, for a user, for the cron or for a   *)
(* job of the schedule; StressTestExecutorService executes them, in the     *)
(* BullMQ worker (stress-test.processor.ts, concurrency 1) or, when there   *)
(* is no queue or it fails, in the process that started them.               *)
(*                                                                          *)
(* Nothing but rows of the database is shared: nothing locks a test between *)
(* two awaits.  One action is one access to the database, the queue or k6   *)
(* with the code up to the next.  What is due is left open: the intervals   *)
(* are minutes, the hazards are milliseconds.                               *)
(***************************************************************************)
EXTENDS Naturals, Sequences, FiniteSets

CONSTANTS
    Tests,
    Runs,        \* bound: run rows that may be created
    Requests,    \* runForUser calls that may be open at the same time
    Crons,       \* executions of the cron handler that may be open
    Worker,      \* the worker of the stress test queue
    None,
    Failures,    \* the kinds of failure that happen
    MaxFaults    \* bound: how many of them

FailureKinds == {"database", "queue", "queueLostReply", "crash"}

ASSUME StressAssumption ==
    /\ None \notin Runs \cup Tests
    /\ Worker \notin Requests \cup Crons \cup Runs
    /\ Requests \cap Crons = {}
    /\ Runs \cap (Requests \cup Crons) = {}
    /\ Failures \subseteq FailureKinds
    /\ MaxFaults \in Nat

Starters  == Requests \cup Crons \cup {Worker}
\* An in-process execution is known by its run.
Executors == Runs \cup {Worker}
Procs     == Starters \cup Executors

VARIABLES
    jobsEnabled,  \* areJobsEnabled(): there is a queue and a worker
    stored,       \* tests that are not deleted
    scheduled,    \* tests with scheduleEnabled
    lastStatus,   \* its column
    row,          \* the row of each run: its status, or that there is none
    testOf,       \* its stressTestId
    queue,        \* run jobs waiting in BullMQ
    pc,           \* where each process is
    test, run,    \* its locals: the test it starts, the run it starts or executes
    todo,         \* locals of runDueScheduled: tests left
    verdict,      \* local of execute: the status it is going to write
    told,         \* history: verdicts notified for each run, the newest first
    raced,        \* history: starters overtaken between their look and their row
    faults, doubt \* failures so far; runs whose reply from the queue got lost

rowVars   == <<stored, lastStatus, row, testOf>>
localVars == <<test, run, todo, verdict>>
vars == <<jobsEnabled, scheduled, rowVars, queue, pc, localVars, told, raced, faults,
          doubt>>

Ended  == {"PASSED", "FAILED"}
Start  == {"find", "create", "update", "enqueue"}
Execution == {"read", "k6", "finish", "finishFailed", "notify"}

TypeOK ==
    /\ jobsEnabled \in BOOLEAN
    /\ stored \subseteq Tests /\ scheduled \subseteq Tests
    /\ lastStatus \in [Tests -> {"IDLE", "RUNNING"} \cup Ended]
    /\ row \in [Runs -> {"none", "RUNNING", "gone"} \cup Ended]
    /\ testOf \in [Runs -> Tests \cup {None}]
    /\ queue \subseteq Runs
    /\ pc \in [Procs -> {"idle", "loop"} \cup Start \cup Execution]
    /\ test \in [Starters -> Tests \cup {None}]
    /\ run \in [Procs -> Runs \cup {None}]
    /\ todo \in [Crons -> SUBSET Tests]
    /\ verdict \in [Executors -> Ended \cup {None}]
    /\ told \in [Runs -> Seq(Ended)]
    /\ raced \subseteq Starters
    /\ faults \in 0..MaxFaults
    /\ doubt \subseteq Runs

Init ==
    /\ jobsEnabled \in BOOLEAN
    /\ stored = Tests
    /\ scheduled \in SUBSET Tests
    /\ lastStatus = [t \in Tests |-> "IDLE"]
    /\ row = [r \in Runs |-> "none"]
    /\ testOf = [r \in Runs |-> None]
    /\ queue = {}
    /\ pc = [p \in Procs |-> "idle"]
    /\ test = [s \in Starters |-> None]
    /\ run = [p \in Procs |-> None]
    /\ todo = [c \in Crons |-> {}]
    /\ verdict = [e \in Executors |-> None]
    /\ told = [r \in Runs |-> << >>]
    /\ raced = {}
    /\ faults = 0
    /\ doubt = {}

Running(t) == {r \in Runs : testOf[r] = t /\ row[r] = "RUNNING"}

-----------------------------------------------------------------------------
(* Who calls startRun. *)

\* Bound: every starter that looks finds a row left to create.
RowLeft ==
    Cardinality({s \in Starters : pc[s] \in {"find", "create"}})
        < Cardinality({r \in Runs : row[r] = "none"})

Begins(s, t) ==
    /\ RowLeft
    /\ pc' = [pc EXCEPT ![s] = "find"]
    /\ test' = [test EXCEPT ![s] = t]
    /\ UNCHANGED <<jobsEnabled, scheduled, rowVars, queue, run, verdict, told, raced,
                   faults, doubt>>

\* runForUser: requireOwned
RequestRun(s, t) ==
    /\ pc[s] = "idle"
    /\ t \in stored
    /\ Begins(s, t)
    /\ UNCHANGED todo

\* runDueScheduled lists the tests with a schedule, and starts those that were
\* due when it listed them, one after the other.
CronLists(s) ==
    /\ ~ jobsEnabled
    /\ pc[s] = "idle"
    /\ scheduled # {}
    /\ pc' = [pc EXCEPT ![s] = "loop"]
    /\ todo' = [todo EXCEPT ![s] = scheduled]
    /\ UNCHANGED <<jobsEnabled, scheduled, rowVars, queue, test, run, verdict, told,
                   raced, faults, doubt>>

CronStarts(s, t) ==
    /\ pc[s] = "loop"
    /\ t \in todo[s]
    /\ todo' = [todo EXCEPT ![s] = @ \ {t}]
    /\ Begins(s, t)

CronSkips(s) == \E D \in SUBSET todo[s] :
    /\ pc[s] = "loop"
    /\ D # {} \/ todo[s] = {}
    /\ todo' = [todo EXCEPT ![s] = @ \ D]
    /\ pc' = [pc EXCEPT ![s] = IF D = todo[s] THEN "idle" ELSE "loop"]
    /\ UNCHANGED <<jobsEnabled, scheduled, rowVars, queue, test, run, verdict, told,
                   raced, faults, doubt>>

\* A job of a test's scheduler: runScheduled looks the test up first.
ScheduleJob(t) ==
    /\ jobsEnabled
    /\ pc[Worker] = "idle"
    /\ t \in scheduled
    /\ Begins(Worker, t)
    /\ UNCHANGED todo

-----------------------------------------------------------------------------
(* startRun. *)

\* Where a starter goes when startRun returns or throws, and what it forgets.
Leaves(s) ==
    /\ pc' = [pc EXCEPT ![s] = IF s \in Crons THEN "loop" ELSE "idle"]
    /\ test' = [test EXCEPT ![s] = None]
    /\ run' = [run EXCEPT ![s] = None]
    /\ raced' = raced \ {s}
    /\ UNCHANGED <<todo, verdict>>

\* Mutation of Find: without the look for a running row.
FindIgnoringRunning(s) ==
    /\ pc[s] = "find"
    /\ pc' = [pc EXCEPT ![s] = "create"]
    /\ raced' = raced \ {s}
    /\ UNCHANGED <<jobsEnabled, scheduled, rowVars, queue, localVars, told, faults, doubt>>

\* 'A k6 run is already in progress': the ConflictException of the one who looks
\* while a row says RUNNING.
Find(s) ==
    /\ pc[s] = "find"
    /\ IF Running(test[s]) = {}
       THEN /\ pc' = [pc EXCEPT ![s] = "create"]
            /\ UNCHANGED <<localVars, raced>>
       ELSE Leaves(s)
    /\ UNCHANGED <<jobsEnabled, scheduled, rowVars, queue, told, faults, doubt>>

\* The new row, RUNNING from the start; its foreign key fails when the test is gone.
Create(s) ==
    /\ pc[s] = "create"
    /\ IF test[s] \in stored
       THEN \E r \in Runs :
            /\ row[r] = "none"
            /\ row' = [row EXCEPT ![r] = "RUNNING"]
            /\ testOf' = [testOf EXCEPT ![r] = test[s]]
            /\ run' = [run EXCEPT ![s] = r]
            /\ pc' = [pc EXCEPT ![s] = "update"]
            /\ raced' = (raced \ {s}) \cup
                   {q \in Starters : q # s /\ pc[q] = "create" /\ test[q] = test[s]}
            /\ UNCHANGED <<test, todo, verdict>>
       ELSE /\ Leaves(s)
            /\ UNCHANGED <<row, testOf>>
    /\ UNCHANGED <<jobsEnabled, scheduled, stored, lastStatus, queue, told, faults, doubt>>

\* lastStatus and scheduleLastRunAt of the test; throws when the test is gone.
Update(s) ==
    /\ pc[s] = "update"
    /\ IF test[s] \in stored
       THEN /\ lastStatus' = [lastStatus EXCEPT ![test[s]] = "RUNNING"]
            /\ pc' = [pc EXCEPT ![s] = "enqueue"]
            /\ UNCHANGED <<localVars, raced>>
       ELSE /\ Leaves(s)
            /\ UNCHANGED lastStatus
    /\ UNCHANGED <<jobsEnabled, scheduled, stored, row, testOf, queue, told, faults, doubt>>

\* executeInProcess is not awaited: a process of its own begins.
ExecutesInProcess(s) ==
    /\ pc' = [pc EXCEPT ![s] = IF s \in Crons THEN "loop" ELSE "idle", ![run[s]] = "read"]
    /\ test' = [test EXCEPT ![s] = None]
    /\ run' = [run EXCEPT ![s] = None, ![run[s]] = run[s]]
    /\ UNCHANGED <<todo, verdict, raced>>

\* Mutation of Enqueue: in-process as well, whatever enqueueStressTestRun returned.
EnqueueAndExecute(s) ==
    /\ pc[s] = "enqueue"
    /\ queue' = IF jobsEnabled THEN queue \cup {run[s]} ELSE queue
    /\ ExecutesInProcess(s)
    /\ UNCHANGED <<jobsEnabled, scheduled, rowVars, told, faults, doubt>>

Enqueue(s) ==
    /\ pc[s] = "enqueue"
    /\ IF jobsEnabled
       THEN queue' = queue \cup {run[s]} /\ Leaves(s)
       ELSE ExecutesInProcess(s) /\ UNCHANGED queue
    /\ UNCHANGED <<jobsEnabled, scheduled, rowVars, told, faults, doubt>>

-----------------------------------------------------------------------------
(* execute. *)

\* The worker takes a run job.
RunJob(r) ==
    /\ pc[Worker] = "idle"
    /\ r \in queue
    /\ queue' = queue \ {r}
    /\ pc' = [pc EXCEPT ![Worker] = "read"]
    /\ run' = [run EXCEPT ![Worker] = r]
    /\ UNCHANGED <<jobsEnabled, scheduled, rowVars, test, todo, verdict, told, raced,
                   faults, doubt>>

Ends(e) ==
    /\ pc' = [pc EXCEPT ![e] = "idle"]
    /\ run' = [run EXCEPT ![e] = None]
    /\ verdict' = [verdict EXCEPT ![e] = None]
    /\ UNCHANGED <<test, todo>>

\* Only a row that says RUNNING is executed.
Read(e) ==
    /\ pc[e] = "read"
    /\ IF row[run[e]] = "RUNNING"
       THEN /\ pc' = [pc EXCEPT ![e] = "k6"]
            /\ UNCHANGED localVars
       ELSE Ends(e)
    /\ UNCHANGED <<jobsEnabled, scheduled, rowVars, queue, told, raced, faults, doubt>>

\* k6 exits, by itself or killed at its time limit; or it cannot be run at all,
\* and the catch block finishes the run.
K6(e) ==
    /\ pc[e] = "k6"
    /\ \E v \in Ended, ok \in BOOLEAN :
           /\ ok \/ v = "FAILED"
           /\ verdict' = [verdict EXCEPT ![e] = v]
           /\ pc' = [pc EXCEPT ![e] = IF ok THEN "finish" ELSE "finishFailed"]
    /\ UNCHANGED <<jobsEnabled, scheduled, rowVars, queue, test, run, todo, told, raced,
                   faults, doubt>>

\* The transaction of finish throws: the first time the catch block tries again
\* with FAILED, the second time the run is given up.
Throws(e) ==
    IF pc[e] = "finish"
    THEN /\ pc' = [pc EXCEPT ![e] = "finishFailed"]
         /\ verdict' = [verdict EXCEPT ![e] = "FAILED"]
         /\ UNCHANGED <<test, run, todo>>
    ELSE Ends(e)

\* The row and its test, in one transaction.
Writes(e) ==
    /\ row' = [row EXCEPT ![run[e]] = verdict[e]]
    /\ lastStatus' = [lastStatus EXCEPT ![testOf[run[e]]] = verdict[e]]

\* Mutation of Finish: the run only, not its test.
FinishRowOnly(e) ==
    /\ pc[e] \in {"finish", "finishFailed"}
    /\ IF row[run[e]] # "gone"
       THEN /\ row' = [row EXCEPT ![run[e]] = verdict[e]]
            /\ pc' = [pc EXCEPT ![e] = "notify"]
            /\ UNCHANGED localVars
       ELSE Throws(e) /\ UNCHANGED row
    /\ UNCHANGED <<jobsEnabled, scheduled, stored, lastStatus, testOf, queue, told, raced,
                   faults, doubt>>

Finish(e) ==
    /\ pc[e] \in {"finish", "finishFailed"}
    /\ IF row[run[e]] # "gone"
       THEN /\ Writes(e)
            /\ pc' = [pc EXCEPT ![e] = "notify"]
            /\ UNCHANGED localVars
       ELSE Throws(e) /\ UNCHANGED <<row, lastStatus>>
    /\ UNCHANGED <<jobsEnabled, scheduled, stored, testOf, queue, told, raced, faults, doubt>>

\* Mutation of Notify: what delivering throws reaches the catch block of execute.
NotifyUncaught(e) ==
    /\ pc[e] = "notify"
    /\ told' = [told EXCEPT ![run[e]] = <<verdict[e]>> \o @]
    /\ \/ Ends(e)
       \/ /\ Len(told[run[e]]) = 0
          /\ pc' = [pc EXCEPT ![e] = "finishFailed"]
          /\ verdict' = [verdict EXCEPT ![e] = "FAILED"]
          /\ UNCHANGED <<test, run, todo>>
    /\ UNCHANGED <<jobsEnabled, scheduled, rowVars, queue, raced, faults, doubt>>

\* notify: it catches what it throws, so its notification may fail to be made
\* but nothing else does.
Notify(e) ==
    /\ pc[e] = "notify"
    /\ told' = [told EXCEPT ![run[e]] = <<verdict[e]>> \o @]
    /\ Ends(e)
    /\ UNCHANGED <<jobsEnabled, scheduled, rowVars, queue, raced, faults, doubt>>

-----------------------------------------------------------------------------
(* Failures and users. *)

Fails(kind) ==
    /\ kind \in Failures
    /\ faults < MaxFaults
    /\ faults' = faults + 1
    /\ UNCHANGED <<jobsEnabled, scheduled, stored>>

\* A database call fails and had no effect.
StarterFails(s) ==
    /\ pc[s] \in {"find", "create", "update"}
    /\ Fails("database")
    /\ Leaves(s)
    /\ UNCHANGED <<lastStatus, row, testOf, queue, told, doubt>>

ExecutorFails(e) ==
    /\ pc[e] \in {"read", "finish", "finishFailed", "notify"}
    /\ Fails("database")
    /\ IF pc[e] \in {"finish", "finishFailed"} THEN Throws(e) ELSE Ends(e)
    /\ UNCHANGED <<lastStatus, row, testOf, queue, told, raced, doubt>>

\* Mutation of EnqueueFails: the error is logged and that is all.
EnqueueFailsSilently(s) ==
    /\ pc[s] = "enqueue"
    /\ jobsEnabled
    /\ Fails("queue")
    /\ Leaves(s)
    /\ UNCHANGED <<lastStatus, row, testOf, queue, told, doubt>>

\* Redis does not answer: the run is executed in-process, whether the job got
\* there or not.
EnqueueFails(s) ==
    /\ pc[s] = "enqueue"
    /\ jobsEnabled
    /\ \/ Fails("queue") /\ UNCHANGED <<queue, doubt>>
       \/ /\ Fails("queueLostReply")
          /\ queue' = queue \cup {run[s]}
          /\ doubt' = doubt \cup {run[s]}
    /\ ExecutesInProcess(s)
    /\ UNCHANGED <<lastStatus, row, testOf, told>>

\* The process dies.  Redis keeps the job of the worker and hands it out again.
Crash ==
    /\ Fails("crash")
    /\ pc' = [p \in Procs |-> "idle"]
    /\ test' = [s \in Starters |-> None]
    /\ run' = [p \in Procs |-> None]
    /\ todo' = [c \in Crons |-> {}]
    /\ verdict' = [e \in Executors |-> None]
    /\ raced' = {}
    /\ queue' = IF pc[Worker] \in Execution THEN queue \cup {run[Worker]} ELSE queue
    /\ UNCHANGED <<lastStatus, row, testOf, told, doubt>>

\* deleteForUser: the runs go with the test (onDelete: Cascade).
DeleteTest(t) ==
    /\ t \in stored
    /\ stored' = stored \ {t}
    /\ scheduled' = scheduled \ {t}
    /\ lastStatus' = [lastStatus EXCEPT ![t] = "IDLE"]
    /\ row' = [r \in Runs |-> IF testOf[r] = t THEN "gone" ELSE row[r]]
    /\ UNCHANGED <<jobsEnabled, testOf, queue, pc, localVars, told, raced, faults, doubt>>

\* createForUser and updateForUser, as far as runs are concerned.
EditSchedule(t) ==
    /\ t \in stored
    /\ scheduled' = IF t \in scheduled THEN scheduled \ {t} ELSE scheduled \cup {t}
    /\ UNCHANGED <<jobsEnabled, rowVars, queue, pc, localVars, told, raced, faults, doubt>>

-----------------------------------------------------------------------------
StartStep(s) ==
    \/ Find(s) \/ Create(s) \/ Update(s) \/ Enqueue(s)

CronStep(s) == CronSkips(s) \/ \E t \in Tests : CronStarts(s, t)

ExecuteStep(e) == Read(e) \/ K6(e) \/ Finish(e) \/ Notify(e)

Next ==
    \/ \E s \in Requests, t \in Tests : RequestRun(s, t)
    \/ \E s \in Crons : CronLists(s) \/ CronStep(s)
    \/ \E t \in Tests : ScheduleJob(t) \/ DeleteTest(t) \/ EditSchedule(t)
    \/ \E s \in Starters : StartStep(s) \/ StarterFails(s) \/ EnqueueFails(s)
    \/ \E r \in Runs : RunJob(r)
    \/ \E e \in Executors : ExecuteStep(e) \/ ExecutorFails(e)
    \/ Crash

Spec == Init /\ [][Next]_vars

\* The database and k6 answer, the latter at its time limit at the latest.  The
\* queue is first in, first out, so the worker comes to each run job however
\* many schedule jobs there are.
Fairness ==
    /\ \A s \in Starters : WF_vars(StartStep(s))
    /\ \A s \in Crons : WF_vars(CronStep(s))
    /\ \A e \in Executors : WF_vars(ExecuteStep(e))
    /\ \A r \in Runs : SF_vars(RunJob(r))

FairSpec == Spec /\ Fairness

-----------------------------------------------------------------------------
(* Properties. *)

\* A run has one execution at a time, in the worker or in the process, unless a
\* lost reply of the queue made both believe they are the one; a crash does not,
\* although the queue hands the job out again, nor does the lost reply about another
\* run.
ExecutedOnce ==
    \A d, e \in Executors : pc[d] \in Execution /\ run[d] \notin doubt =>
        /\ pc[e] \in Execution /\ run[d] = run[e] => d = e
        /\ run[d] \notin queue

\* The result of a run is final: no later execution, retry or second finish
\* writes over it.
ResultIsFinal ==
    [][\A r \in Runs \ doubt' : row[r] \in Ended => row'[r] \in {row[r], "gone"}]_vars

\* Each run is told at most once, and what is told is what its row says.
ToldAsWritten ==
    \A r \in Runs \ doubt :
        /\ told[r] \in {<< >>} \cup {<<a>> : a \in Ended}
        /\ told[r] # << >> => row[r] \in {told[r][1], "gone"}

\* A run that says RUNNING is in the hands of the starter that created it, of the
\* queue or of an execution, until a crash or a database call that fails takes it
\* from them: a queue that refuses, a reply that is lost or a starter that is
\* overtaken orphans none.
InHands(r) ==
    \/ r \in queue
    \/ \E s \in Starters : pc[s] \in {"update", "enqueue"} /\ run[s] = r
    \/ \E e \in Executors : pc[e] \in Execution /\ run[e] = r

Orphan(r) == row[r] = "RUNNING" /\ ~ InHands(r)

OrphanedOnlyByFailure ==
    [][\A r \in Runs : Orphan(r)' /\ ~ Orphan(r) =>
           \/ Crash
           \/ \E s \in Starters : StarterFails(s) /\ run[s] = r
           \/ \E e \in Executors : ExecutorFails(e) /\ run[e] = r]_vars

\* startRun and execute keep the promise of the ledger: what is owed to the user is
\* what the executions between their result and their notification hold.
Owed == {<<run[e], verdict[e]>> : e \in {d \in Executors : pc[d] = "notify"}}

Ledger == INSTANCE RunLedger WITH status <- row, owed <- Owed
ImplementsRunLedger == Ledger!Spec

\* RUNNING on a test means that a run of it is RUNNING, with any number of
\* overlapping runs and any failure; "results land on lastStatus" as soon as the
\* last of them ends.
RunningMeansRunning ==
    \A t \in stored : lastStatus[t] = "RUNNING" => Running(t) # {}

\* A run begins next to another one only if the two starters both looked before
\* either had its row: the check of startRun holds in every other case.
OverlapOnlyByRace ==
    [][\A s \in Starters :
          pc[s] = "create" /\ pc'[s] = "update" /\ Running(test[s]) # {} => s \in raced]_vars

\* Every run ends, although the queue may refuse its job.
RunsEnd == \A r \in Runs : []<>(row[r] # "RUNNING")

\* "rejects a second concurrent run"
OneRunAtATime == \A t \in Tests, q, r \in Runs : {q, r} \subseteq Running(t) => q = r

\* "results land on lastStatus": a test does not stay RUNNING.
ResultsLand == \A t \in Tests : []<>(lastStatus[t] # "RUNNING")
===============================================================================
