------------------------ MODULE StressTestRunsProofs ------------------------
(***************************************************************************)
(* Proofs about StressTestRuns, for any tests, runs, starters, failures and *)
(* bounds.                                                                  *)
(*                                                                          *)
(* The argument follows a run from hand to hand.  The starter that created  *)
(* its row holds it alone until it gives it to the queue or to an execution *)
(* in the process; the queue gives it to the worker.  Unless the queue lost *)
(* the reply about this very run, whoever holds it holds it alone.          *)
(***************************************************************************)
EXTENDS StressTestRuns, SequenceTheorems, TLAPS

\* Between the creation of a run's row and its hand-over.
Creating == {"update", "enqueue"}
Holding  == Creating \cup Execution

\* What the places of startRun and execute imply of the locals.
StarterPlaced(s) ==
    /\ pc[s] \in Start => test[s] \in Tests
    /\ pc[s] \in Creating => run[s] \in Runs

ExecutorPlaced(e) ==
    /\ pc[e] \in Execution => run[e] \in Runs /\ (e \in Runs => run[e] = e)
    /\ pc[e] \in {"finish", "finishFailed", "notify"} => verdict[e] \in Ended

Proper(p) ==
    /\ pc[p] \in Start => p \in Starters
    /\ pc[p] \in Execution => p \in Executors

TypeInv ==
    /\ TypeOK
    /\ \A p \in Procs : Proper(p)
    /\ \A s \in Starters : StarterPlaced(s)
    /\ \A e \in Executors : ExecutorPlaced(e)

\* TypeOK by the part of the state.
LocalsOK ==
    /\ pc \in [Procs -> {"idle", "loop"} \cup Start \cup Execution]
    /\ test \in [Starters -> Tests \cup {None}]
    /\ run \in [Procs -> Runs \cup {None}]
    /\ todo \in [Crons -> SUBSET Tests]
    /\ verdict \in [Executors -> Ended \cup {None}]

RowsOK ==
    /\ jobsEnabled \in BOOLEAN
    /\ stored \subseteq Tests /\ scheduled \subseteq Tests
    /\ lastStatus \in [Tests -> {"IDLE", "RUNNING"} \cup Ended]
    /\ row \in [Runs -> {"none", "RUNNING", "gone"} \cup Ended]
    /\ testOf \in [Runs -> Tests \cup {None}]
    /\ queue \subseteq Runs

HistoryOK ==
    /\ told \in [Runs -> Seq(Ended)]
    /\ raced \subseteq Starters
    /\ faults \in 0..MaxFaults
    /\ doubt \subseteq Runs

\* Nobody knows of a row that is not there yet.
Unused(r) ==
    row[r] = "none" =>
        /\ testOf[r] = None
        /\ r \notin queue
        /\ \A p \in Procs : pc[p] \in Holding => run[p] # r

\* p is the only one to hold its run.
Alone(p) ==
    /\ run[p] \notin queue
    /\ \A q \in Procs : q # p /\ pc[q] \in Holding => run[q] # run[p]

\* The row a starter has created waits for it, or went with its test.
Created(s) ==
    pc[s] \in Creating =>
        /\ Alone(s)
        /\ testOf[run[s]] = test[s]
        /\ row[run[s]] = IF test[s] \in stored THEN "RUNNING" ELSE "gone"

\* A starter past its look has seen no running row, or was overtaken.
Looked(s) == pc[s] = "create" => s \in raced \/ Running(test[s]) = {}

\* What notify is about to tell has been written.
Written(e) == pc[e] = "notify" => row[run[e]] \in Ended \cup {"gone"}

\* Without a lost reply about its run an execution is the only one, has not written
\* before finish, and has told nobody before notify.
Executing(e) ==
    pc[e] \in Execution /\ run[e] \notin doubt =>
        /\ Alone(e)
        /\ pc[e] \in {"k6", "finish", "finishFailed"} => row[run[e]] \in {"RUNNING", "gone"}
        /\ pc[e] = "notify" => row[run[e]] \in {verdict[e], "gone"}
        /\ pc[e] \in Execution \ {"read"} => told[run[e]] = << >>

\* The inductive invariant.
IInv ==
    /\ TypeInv
    /\ \A r \in Runs : Unused(r)
    /\ \A s \in Starters : Created(s) /\ Looked(s)
    /\ RunningMeansRunning
    /\ \A e \in Executors : Written(e) /\ Executing(e)
    /\ ToldAsWritten

-----------------------------------------------------------------------------
\* TypeOK is the conjunction of its parts.
LEMMA TypeParts == TypeOK <=> LocalsOK /\ RowsOK /\ HistoryOK
    BY DEF TypeOK, LocalsOK, RowsOK, HistoryOK

\* Initially nothing is created, held or told.
LEMMA InitInv == Init => IInv
<1> SUFFICES ASSUME Init PROVE IInv
    OBVIOUS
<1>0. << >> \in Seq(Ended)
    OBVIOUS
<1>1. TypeOK
  <2>1. LocalsOK
      BY DEF Init, LocalsOK
  <2>2. RowsOK
      BY DEF Init, RowsOK
  <2>3. 0 \in 0..MaxFaults
      BY StressAssumption
  <2>4. told \in [Runs -> Seq(Ended)]
      BY <1>0 DEF Init
  <2> QED
      BY <2>1, <2>2, <2>3, <2>4, TypeParts DEF Init, HistoryOK
<1>2. \A p \in Procs : pc[p] = "idle"
    BY DEF Init
<1>3. (\A r \in Runs : Unused(r)) /\ \A s \in Starters : Created(s) /\ Looked(s)
    BY <1>2 DEF Init, Unused, Created, Looked, Holding, Creating, Execution, Procs
<1>4. \A e \in Executors : Written(e) /\ Executing(e)
    BY <1>2 DEF Written, Executing, Execution, Procs
<1>5. RunningMeansRunning
    BY DEF Init, RunningMeansRunning
<1>6. ToldAsWritten
    BY DEF Init, ToldAsWritten
<1>7. TypeInv
    BY <1>1, <1>2 DEF TypeInv, Proper, StarterPlaced, ExecutorPlaced, Start, Creating, Execution,
       Procs
<1> QED
    BY <1>3, <1>4, <1>5, <1>6, <1>7 DEF IInv

\* Starters and the executions of runs in the process are different, and the
\* worker is both.
LEMMA Kinds ==
    /\ Starters \subseteq Procs /\ Executors \subseteq Procs
    /\ Runs \subseteq Executors /\ Worker \in Starters /\ Worker \in Executors
    /\ \A s \in Starters : s \notin Runs
    /\ Crons \subseteq Starters
    /\ Worker \notin Crons
    BY StressAssumption DEF Starters, Executors, Procs

\* The names of the places.
LEMMA Places ==
    /\ Start \cap Execution = {} /\ Creating \subseteq Start
    /\ Creating \subseteq Holding /\ Execution \subseteq Holding
    /\ {"idle", "loop", "find", "create"} \cap Holding = {}
    BY DEF Start, Execution, Creating, Holding

\* Appending a verdict (told grows by what notify tells).
LEMMA ToldType ==
    ASSUME NEW S, NEW v \in S, NEW t \in Seq(S)
    PROVE  <<v>> \o t \in Seq(S) /\ (t = << >> => <<v>> \o t = <<v>>)
<1>1. <<v>> \in Seq(S)
    OBVIOUS
<1> QED
    BY <1>1, ConcatProperties, ConcatEmptySeq

\* The types of the state, for steps that need some of them.
LEMMA Types ==
    ASSUME TypeInv
    PROVE  /\ stored \subseteq Tests /\ queue \subseteq Runs /\ raced \subseteq Starters
           /\ lastStatus \in [Tests -> {"IDLE", "RUNNING"} \cup Ended]
           /\ row \in [Runs -> {"none", "RUNNING", "gone"} \cup Ended]
           /\ testOf \in [Runs -> Tests \cup {None}]
           /\ pc \in [Procs -> {"idle", "loop"} \cup Start \cup Execution]
           /\ test \in [Starters -> Tests \cup {None}]
           /\ run \in [Procs -> Runs \cup {None}]
           /\ verdict \in [Executors -> Ended \cup {None}]
           /\ told \in [Runs -> Seq(Ended)]
           /\ doubt \subseteq Runs
    BY DEF TypeInv, TypeOK

\* The types of the locals: when startRun returns or throws ...
LEMMA LeavesLocals ==
    ASSUME LocalsOK, HistoryOK, NEW s \in Starters, Leaves(s)
    PROVE  LocalsOK' /\ raced' \subseteq Starters
    BY Kinds DEF LocalsOK, HistoryOK, Leaves

\* ... when executeInProcess begins an execution ...
LEMMA InProcessLocals ==
    ASSUME LocalsOK, HistoryOK, NEW s \in Starters, run[s] \in Runs, ExecutesInProcess(s)
    PROVE  LocalsOK' /\ raced' \subseteq Starters
    BY Kinds DEF LocalsOK, HistoryOK, ExecutesInProcess, Execution

\* ... and when an execution ends or goes to its catch block.
LEMMA ThrowsLocals ==
    ASSUME LocalsOK, NEW e \in Executors, Throws(e) \/ Ends(e)
    PROVE  LocalsOK'
<1>1. ASSUME Ends(e) PROVE LocalsOK'
    BY <1>1, Kinds DEF LocalsOK, Ends
<1>2. ASSUME pc[e] = "finish", Throws(e) PROVE LocalsOK'
    BY <1>2, Kinds DEF LocalsOK, Throws, Execution, Ended
<1> QED
    BY <1>1, <1>2 DEF Throws

\* Every step keeps TypeOK.
LEMMA TypeOKStep == TypeInv /\ [Next]_vars => TypeOK'
<1> SUFFICES ASSUME TypeInv, [Next]_vars, LocalsOK, RowsOK, HistoryOK
             PROVE  LocalsOK' /\ RowsOK' /\ HistoryOK'
    BY TypeParts DEF TypeInv, TypeOK, LocalsOK, RowsOK, HistoryOK
<1> DEFINE OK == LocalsOK' /\ RowsOK' /\ HistoryOK'
<1>1. ASSUME UNCHANGED <<jobsEnabled, scheduled, rowVars, queue>> PROVE RowsOK'
    BY <1>1 DEF RowsOK, rowVars
<1>2. ASSUME raced' \subseteq Starters, UNCHANGED <<told, faults, doubt>> PROVE HistoryOK'
    BY <1>2 DEF HistoryOK
<1>3. ASSUME NEW k \in Failures, Fails(k), raced' \subseteq Starters, UNCHANGED told,
             doubt' \subseteq Runs
      PROVE  HistoryOK'
    BY <1>3, StressAssumption DEF HistoryOK, Fails
<1>4. ASSUME NEW s \in Starters, NEW t \in Tests, Begins(s, t), UNCHANGED todo PROVE OK
    BY <1>1, <1>2, <1>4, Kinds DEF Begins, LocalsOK, HistoryOK, Start
<1>5. ASSUME NEW s \in Crons, NEW t \in Tests, CronStarts(s, t) PROVE OK
    BY <1>1, <1>2, <1>5, Kinds DEF CronStarts, Begins, LocalsOK, HistoryOK, Start
<1>6. ASSUME NEW s \in Crons, CronLists(s) PROVE OK
    BY <1>1, <1>2, <1>6, Kinds DEF CronLists, LocalsOK, HistoryOK, RowsOK
<1>7. ASSUME NEW s \in Crons, CronSkips(s) PROVE OK
    BY <1>1, <1>2, <1>7, Kinds DEF CronSkips, LocalsOK, HistoryOK
<1>8. ASSUME NEW s \in Starters, Find(s) PROVE OK
  <2>1. LocalsOK' /\ raced' \subseteq Starters
    <3>1. CASE Leaves(s)
        BY <3>1, LeavesLocals
    <3>2. CASE pc' = [pc EXCEPT ![s] = "create"] /\ UNCHANGED <<localVars, raced>>
        BY <3>2, Kinds DEF LocalsOK, HistoryOK, localVars, Start
    <3> QED
        BY <1>8, <3>1, <3>2 DEF Find
  <2> QED
      BY <1>1, <1>2, <1>8, <2>1 DEF Find
<1>9. ASSUME NEW s \in Starters, Create(s) PROVE OK
  <2>1. CASE test[s] \in stored
    <3>1. PICK r \in Runs :
              /\ row' = [row EXCEPT ![r] = "RUNNING"]
              /\ testOf' = [testOf EXCEPT ![r] = test[s]]
              /\ run' = [run EXCEPT ![s] = r]
              /\ pc' = [pc EXCEPT ![s] = "update"]
              /\ raced' = (raced \ {s}) \cup
                     {q \in Starters : q # s /\ pc[q] = "create" /\ test[q] = test[s]}
              /\ UNCHANGED <<test, todo, verdict>>
        BY <1>9, <2>1 DEF Create
    <3>2. LocalsOK'
        BY <3>1, Kinds DEF LocalsOK, Start
    <3>3. RowsOK'
        BY <1>9, <3>1, <2>1 DEF Create, RowsOK, LocalsOK
    <3> QED
        BY <1>2, <1>9, <3>1, <3>2, <3>3 DEF Create, HistoryOK
  <2>2. CASE test[s] \notin stored
      BY <1>1, <1>2, <1>9, <2>2, LeavesLocals DEF Create, rowVars
  <2> QED
      BY <2>1, <2>2
<1>10. ASSUME NEW s \in Starters, Update(s) PROVE OK
  <2>1. CASE test[s] \in stored
    <3>1. LocalsOK'
        BY <1>10, <2>1, Kinds DEF Update, LocalsOK, localVars, Start
    <3>2. RowsOK'
        BY <1>10, <2>1 DEF Update, RowsOK
    <3> QED
        BY <1>2, <1>10, <2>1, <3>1, <3>2 DEF Update, HistoryOK
  <2>2. CASE test[s] \notin stored
      BY <1>1, <1>2, <1>10, <2>2, LeavesLocals DEF Update, rowVars
  <2> QED
      BY <2>1, <2>2
<1>11. ASSUME NEW s \in Starters, Enqueue(s) PROVE OK
  <2>1. run[s] \in Runs
      BY <1>11 DEF TypeInv, StarterPlaced, Enqueue, Creating
  <2>2. LocalsOK' /\ raced' \subseteq Starters
      BY <1>11, <2>1, LeavesLocals, InProcessLocals DEF Enqueue
  <2>3. RowsOK'
      BY <1>11, <2>1 DEF Enqueue, RowsOK, rowVars
  <2> QED
      BY <1>2, <1>11, <2>2, <2>3 DEF Enqueue
<1>12. ASSUME NEW s \in Starters, StarterFails(s) PROVE OK
  <2>1. LocalsOK' /\ raced' \subseteq Starters
      BY <1>12, LeavesLocals DEF StarterFails
  <2>2. RowsOK'
      BY <1>12 DEF StarterFails, Fails, RowsOK
  <2> QED
      BY <1>3, <1>12, <2>1, <2>2 DEF StarterFails, Fails, HistoryOK
<1>13. ASSUME NEW s \in Starters, EnqueueFails(s) PROVE OK
  <2>1. run[s] \in Runs
      BY <1>13 DEF TypeInv, StarterPlaced, EnqueueFails, Creating
  <2>2. LocalsOK' /\ raced' \subseteq Starters
      BY <1>13, <2>1, InProcessLocals DEF EnqueueFails
  <2>3. RowsOK'
      BY <1>13, <2>1 DEF EnqueueFails, Fails, RowsOK
  <2> QED
      BY <1>3, <1>13, <2>1, <2>2, <2>3 DEF EnqueueFails, Fails, HistoryOK
<1>14. ASSUME NEW r \in Runs, RunJob(r) PROVE OK
  <2>1. LocalsOK'
      BY <1>14, Kinds DEF RunJob, LocalsOK, Execution
  <2>2. RowsOK'
      BY <1>14 DEF RunJob, RowsOK, rowVars
  <2> QED
      BY <1>2, <1>14, <2>1, <2>2 DEF RunJob, HistoryOK
<1>15. ASSUME NEW e \in Executors, Read(e) PROVE OK
  <2>1. LocalsOK'
    <3>1. CASE Ends(e)
        BY <3>1, ThrowsLocals
    <3>2. CASE pc' = [pc EXCEPT ![e] = "k6"] /\ UNCHANGED localVars
        BY <3>2, Kinds DEF LocalsOK, localVars, Execution
    <3> QED
        BY <1>15, <3>1, <3>2 DEF Read
  <2> QED
      BY <1>1, <1>2, <1>15, <2>1 DEF Read, HistoryOK
<1>16. ASSUME NEW e \in Executors, K6(e) PROVE OK
    BY <1>1, <1>2, <1>16, Kinds DEF K6, LocalsOK, HistoryOK, Execution
<1>17. ASSUME NEW e \in Executors, Finish(e) PROVE OK
  <2>1. verdict[e] \in Ended
      BY <1>17 DEF TypeInv, ExecutorPlaced, Finish
  <2>2. CASE row[run[e]] # "gone"
    <3>1. LocalsOK'
        BY <1>17, <2>2, Kinds DEF Finish, LocalsOK, localVars, Execution
    <3>2. RowsOK'
        BY <1>17, <2>1, <2>2 DEF Finish, Writes, RowsOK, Ended
    <3> QED
        BY <1>2, <1>17, <3>1, <3>2 DEF Finish, HistoryOK
  <2>3. CASE row[run[e]] = "gone"
      BY <1>1, <1>2, <1>17, <2>3, ThrowsLocals DEF Finish, HistoryOK, rowVars
  <2> QED
      BY <2>2, <2>3
<1>18. ASSUME NEW e \in Executors, Notify(e) PROVE OK
  <2>1. verdict[e] \in Ended
      BY <1>18 DEF TypeInv, ExecutorPlaced, Notify
  <2>2. \A r \in Runs : <<verdict[e]>> \o told[r] \in Seq(Ended)
      BY <2>1, ToldType DEF HistoryOK
  <2>3. told' \in [Runs -> Seq(Ended)]
      BY <1>18, <2>2 DEF Notify, HistoryOK
  <2>4. LocalsOK' /\ RowsOK'
      BY <1>1, <1>18, ThrowsLocals DEF Notify
  <2> QED
      BY <1>18, <2>3, <2>4 DEF Notify, HistoryOK
<1>19. ASSUME NEW e \in Executors, ExecutorFails(e) PROVE OK
  <2>1. LocalsOK'
      BY <1>19, ThrowsLocals DEF ExecutorFails
  <2>2. RowsOK'
      BY <1>19 DEF ExecutorFails, Fails, RowsOK
  <2> QED
      BY <1>3, <1>19, <2>1, <2>2 DEF ExecutorFails, Fails, HistoryOK
<1>20. ASSUME Crash PROVE OK
  <2>1. pc[Worker] \in Execution => run[Worker] \in Runs
      BY Kinds DEF TypeInv, ExecutorPlaced
  <2>2. LocalsOK'
      BY <1>20 DEF Crash, LocalsOK
  <2>3. RowsOK'
      BY <1>20, <2>1 DEF Crash, Fails, RowsOK
  <2> QED
      BY <1>3, <1>20, <2>2, <2>3 DEF Crash, Fails, HistoryOK
<1>21. ASSUME NEW t \in Tests, DeleteTest(t) PROVE OK
  <2>1. LocalsOK'
      BY <1>21 DEF DeleteTest, LocalsOK, localVars
  <2>2. RowsOK'
      BY <1>21 DEF DeleteTest, RowsOK
  <2> QED
      BY <1>2, <1>21, <2>1, <2>2 DEF DeleteTest, HistoryOK
<1>22. ASSUME NEW t \in Tests, EditSchedule(t) PROVE OK
    BY <1>2, <1>22 DEF EditSchedule, LocalsOK, RowsOK, HistoryOK, localVars, rowVars
<1>23. CASE UNCHANGED vars
    BY <1>1, <1>2, <1>23 DEF vars, LocalsOK, localVars, HistoryOK
<1> QED
    BY <1>4, <1>5, <1>6, <1>7, <1>8, <1>9, <1>10, <1>11, <1>12, <1>13, <1>14, <1>15, <1>16,
       <1>17, <1>18, <1>19, <1>20, <1>21, <1>22, <1>23, Kinds
    DEF Next, CronStep, StartStep, ExecuteStep, RequestRun, ScheduleJob, Starters

-----------------------------------------------------------------------------
\* What startRun and execute do to the locals, process by process: when they
\* return or throw ...
LEMMA LeavesFrame ==
    ASSUME LocalsOK, NEW s \in Starters, Leaves(s)
    PROVE  /\ pc'[s] \in {"idle", "loop"}
           /\ \A p \in Procs \ {s} : pc'[p] = pc[p] /\ run'[p] = run[p]
           /\ \A q \in Starters \ {s} : test'[q] = test[q]
           /\ verdict' = verdict /\ raced' = raced \ {s}
    BY Kinds DEF LocalsOK, Leaves

\* ... when an execution begins in the process ...
LEMMA InProcessFrame ==
    ASSUME LocalsOK, NEW s \in Starters, run[s] \in Runs, ExecutesInProcess(s)
    PROVE  /\ pc'[s] \in {"idle", "loop"}
           /\ pc'[run[s]] = "read" /\ run'[run[s]] = run[s]
           /\ \A p \in Procs \ {s, run[s]} : pc'[p] = pc[p] /\ run'[p] = run[p]
           /\ \A q \in Starters \ {s} : test'[q] = test[q]
           /\ verdict' = verdict /\ raced' = raced
    BY Kinds DEF LocalsOK, ExecutesInProcess

\* ... and when an execution ends or goes to its catch block.
LEMMA ThrowsFrame ==
    ASSUME LocalsOK, NEW e \in Executors, Throws(e) \/ Ends(e)
    PROVE  /\ \/ pc'[e] = "idle"
              \/ pc[e] = "finish" /\ pc'[e] = "finishFailed" /\ verdict'[e] = "FAILED"
                 /\ run'[e] = run[e]
           /\ \A p \in Procs \ {e} : pc'[p] = pc[p] /\ run'[p] = run[p]
           /\ \A d \in Executors \ {e} : verdict'[d] = verdict[d]
           /\ test' = test
<1>1. CASE Ends(e)
    BY <1>1, Kinds DEF LocalsOK, Ends
<1>2. CASE pc[e] = "finish" /\ Throws(e)
    BY <1>2, Kinds DEF LocalsOK, Throws
<1> QED
    BY <1>1, <1>2 DEF Throws

\* Every step keeps what the places imply.
LEMMA PlacedStep ==
    ASSUME TypeInv, [Next]_vars
    PROVE  /\ \A p \in Procs : Proper(p)'
           /\ \A s \in Starters : StarterPlaced(s)'
           /\ \A e \in Executors : ExecutorPlaced(e)'
<1> USE DEF Creating, Start, Execution
<1> DEFINE Placed == /\ \A p \in Procs : Proper(p)'
                     /\ \A s \in Starters : StarterPlaced(s)'
                     /\ \A e \in Executors : ExecutorPlaced(e)'
           P0 == /\ \A p \in Procs : Proper(p)
                 /\ \A s \in Starters : StarterPlaced(s)
                 /\ \A e \in Executors : ExecutorPlaced(e)
<1>0. LocalsOK /\ P0 /\ stored \subseteq Tests
    BY TypeParts DEF TypeInv, TypeOK
<1>1. ASSUME UNCHANGED <<pc, localVars>> PROVE Placed
    BY <1>0, <1>1 DEF Proper, StarterPlaced, ExecutorPlaced, localVars
<1>2. ASSUME NEW s \in Starters, Leaves(s) PROVE Placed
    BY <1>0, <1>2, LeavesFrame, Kinds DEF Proper, StarterPlaced, ExecutorPlaced
<1>3. ASSUME NEW e \in Executors, Throws(e) \/ Ends(e) PROVE Placed
    BY <1>0, <1>3, ThrowsFrame, Kinds DEF Proper, StarterPlaced, ExecutorPlaced, Ended
<1>4. ASSUME NEW s \in Starters, run[s] \in Runs, ExecutesInProcess(s) PROVE Placed
    BY <1>0, <1>4, InProcessFrame, Kinds DEF Proper, StarterPlaced, ExecutorPlaced
<1>5. ASSUME NEW s \in Starters, NEW t \in Tests, Begins(s, t) PROVE Placed
    BY <1>0, <1>5, Kinds DEF Begins, LocalsOK, Proper, StarterPlaced, ExecutorPlaced
<1>6. ASSUME NEW s \in Crons, CronLists(s) \/ CronSkips(s) PROVE Placed
    BY <1>0, <1>6, Kinds DEF CronLists, CronSkips, LocalsOK, Proper, StarterPlaced,
       ExecutorPlaced
<1>7. ASSUME NEW s \in Starters, Find(s) PROVE Placed
  <2>1. CASE pc' = [pc EXCEPT ![s] = "create"] /\ UNCHANGED localVars
      BY <1>0, <1>7, <2>1, Kinds DEF Find, LocalsOK, localVars, Proper, StarterPlaced,
         ExecutorPlaced
  <2> QED
      BY <1>2, <1>7, <2>1 DEF Find
<1>8. ASSUME NEW s \in Starters, Create(s) PROVE Placed
  <2>1. CASE test[s] \in stored
      BY <1>0, <1>8, <2>1, Kinds DEF Create, LocalsOK, Proper, StarterPlaced, ExecutorPlaced
  <2> QED
      BY <1>2, <1>8, <2>1 DEF Create
<1>9. ASSUME NEW s \in Starters, Update(s) PROVE Placed
  <2>1. CASE test[s] \in stored
      BY <1>0, <1>9, <2>1, Kinds DEF Update, LocalsOK, localVars, Proper, StarterPlaced,
         ExecutorPlaced
  <2> QED
      BY <1>2, <1>9, <2>1 DEF Update
<1>10. ASSUME NEW s \in Starters, Enqueue(s) \/ EnqueueFails(s) PROVE Placed
  <2>1. run[s] \in Runs
      BY <1>0, <1>10 DEF StarterPlaced, Enqueue, EnqueueFails
  <2> QED
      BY <1>2, <1>4, <1>10, <2>1 DEF Enqueue, EnqueueFails
<1>11. ASSUME NEW s \in Starters, StarterFails(s) PROVE Placed
    BY <1>2, <1>11 DEF StarterFails
<1>12. ASSUME NEW r \in Runs, RunJob(r) PROVE Placed
    BY <1>0, <1>12, Kinds DEF RunJob, LocalsOK, Proper, StarterPlaced, ExecutorPlaced
<1>13. ASSUME NEW e \in Executors, Read(e) PROVE Placed
  <2>1. CASE pc' = [pc EXCEPT ![e] = "k6"] /\ UNCHANGED localVars
      BY <1>0, <1>13, <2>1, Kinds DEF Read, LocalsOK, localVars, Proper, StarterPlaced,
         ExecutorPlaced
  <2> QED
      BY <1>3, <1>13, <2>1 DEF Read
<1>14. ASSUME NEW e \in Executors, K6(e) PROVE Placed
    BY <1>0, <1>14, Kinds DEF K6, LocalsOK, Proper, StarterPlaced, ExecutorPlaced
<1>15. ASSUME NEW e \in Executors, Finish(e) PROVE Placed
  <2>1. CASE pc' = [pc EXCEPT ![e] = "notify"] /\ UNCHANGED localVars
      BY <1>0, <1>15, <2>1, Kinds DEF Finish, LocalsOK, localVars, Proper, StarterPlaced,
         ExecutorPlaced
  <2> QED
      BY <1>3, <1>15, <2>1 DEF Finish
<1>16. ASSUME NEW e \in Executors, Notify(e) \/ ExecutorFails(e) PROVE Placed
    BY <1>3, <1>16 DEF Notify, ExecutorFails
<1>17. ASSUME Crash PROVE Placed
    BY <1>17, Kinds DEF Crash, Proper, StarterPlaced, ExecutorPlaced
<1>18. ASSUME NEW t \in Tests, DeleteTest(t) \/ EditSchedule(t) PROVE Placed
    BY <1>1, <1>18 DEF DeleteTest, EditSchedule
<1>19. CASE UNCHANGED vars
    BY <1>1, <1>19 DEF vars
<1> QED
    BY <1>5, <1>6, <1>7, <1>8, <1>9, <1>10, <1>11, <1>12, <1>13, <1>14, <1>15, <1>16, <1>17,
       <1>18, <1>19, Kinds
    DEF Next, CronStep, CronStarts, StartStep, ExecuteStep, RequestRun, ScheduleJob, Starters

\* Every step keeps the types and what the places imply.
LEMMA TypeStep == TypeInv /\ [Next]_vars => TypeInv'
    BY TypeOKStep, PlacedStep DEF TypeInv

-----------------------------------------------------------------------------
\* Most steps hand over no run: nobody gets hold of one, and the rows stay.
CalmLocals ==
    /\ \A p \in Procs : pc'[p] \in Holding => pc[p] \in Holding /\ run'[p] = run[p]
    /\ \A s \in Starters : pc'[s] \in Creating => pc[s] \in Creating /\ test'[s] = test[s]

Calm == CalmLocals /\ UNCHANGED <<stored, row, testOf, queue>>

\* The steps that do.
HandOver ==
    \/ \E s \in Starters : Create(s) \/ Enqueue(s) \/ EnqueueFails(s)
    \/ \E r \in Runs : RunJob(r)
    \/ \E e \in Executors : Finish(e)
    \/ \E t \in Tests : DeleteTest(t)
    \/ Crash

\* startRun or execute returning or throwing is calm.
LEMMA CalmEnds ==
    /\ \A s \in Starters : LocalsOK /\ Leaves(s) => CalmLocals
    /\ \A e \in Executors : LocalsOK /\ (Throws(e) \/ Ends(e)) => CalmLocals
<1> USE DEF Creating, Start, Execution, Holding
<1>1. ASSUME NEW s \in Starters, LocalsOK, Leaves(s) PROVE CalmLocals
    BY <1>1, LeavesFrame, Kinds DEF CalmLocals
<1>2. ASSUME NEW e \in Executors, LocalsOK, Throws(e) \/ Ends(e) PROVE CalmLocals
    BY <1>2, ThrowsFrame, Kinds DEF CalmLocals
<1> QED
    BY <1>1, <1>2

\* Every step is calm or hands a run over.
LEMMA CalmStep ==
    ASSUME TypeInv, [Next]_vars
    PROVE  Calm \/ HandOver
<1> USE DEF Creating, Start, Execution, Holding
<1>0. LocalsOK
    BY TypeParts DEF TypeInv
<1>1. ASSUME UNCHANGED <<pc, test, run>> PROVE CalmLocals
    BY <1>1 DEF CalmLocals
<1>2. ASSUME NEW s \in Starters, NEW t \in Tests, Begins(s, t) PROVE Calm
    BY <1>0, <1>2, Kinds DEF Begins, LocalsOK, Calm, CalmLocals, rowVars
<1>3. ASSUME NEW s \in Crons, CronLists(s) \/ CronSkips(s) PROVE Calm
    BY <1>0, <1>3, Kinds DEF CronLists, CronSkips, LocalsOK, Calm, CalmLocals, rowVars
<1>4. ASSUME NEW s \in Starters, Find(s) PROVE Calm
  <2>1. CASE pc' = [pc EXCEPT ![s] = "create"] /\ UNCHANGED localVars
      BY <1>0, <1>4, <2>1, Kinds DEF Find, LocalsOK, localVars, Calm, CalmLocals, rowVars
  <2> QED
      BY <1>0, <1>4, <2>1, CalmEnds DEF Find, Calm, rowVars
<1>5. ASSUME NEW s \in Starters, Update(s) PROVE Calm
  <2>1. CASE pc' = [pc EXCEPT ![s] = "enqueue"] /\ UNCHANGED localVars
      BY <1>0, <1>5, <2>1, Kinds DEF Update, LocalsOK, localVars, Calm, CalmLocals
  <2> QED
      BY <1>0, <1>5, <2>1, CalmEnds DEF Update, Calm, rowVars
<1>6. ASSUME NEW s \in Starters, StarterFails(s) PROVE Calm
    BY <1>0, <1>6, CalmEnds DEF StarterFails, Fails, Calm
<1>7. ASSUME NEW e \in Executors, Read(e) PROVE Calm
  <2>1. CASE pc' = [pc EXCEPT ![e] = "k6"] /\ UNCHANGED localVars
      BY <1>0, <1>7, <2>1, Kinds DEF Read, LocalsOK, localVars, Calm, CalmLocals, rowVars
  <2> QED
      BY <1>0, <1>7, <2>1, CalmEnds DEF Read, Calm, rowVars
<1>8. ASSUME NEW e \in Executors, K6(e) PROVE Calm
    BY <1>0, <1>8, Kinds DEF K6, LocalsOK, Calm, CalmLocals, rowVars
<1>9. ASSUME NEW e \in Executors, Notify(e) \/ ExecutorFails(e) PROVE Calm
    BY <1>0, <1>9, CalmEnds DEF Notify, ExecutorFails, Fails, Calm, rowVars
<1>10. ASSUME NEW t \in Tests, EditSchedule(t) PROVE Calm
    BY <1>1, <1>10 DEF EditSchedule, Calm, rowVars, localVars
<1>11. CASE UNCHANGED vars
    BY <1>1, <1>11 DEF vars, Calm, rowVars, localVars
<1> QED
    BY <1>2, <1>3, <1>4, <1>5, <1>6, <1>7, <1>8, <1>9, <1>10, <1>11, Kinds
    DEF Next, CronStep, CronStarts, StartStep, ExecuteStep, RequestRun, ScheduleJob, Starters,
        HandOver

\* What Create does when it creates a row.
CreatesRow(s, r) ==
    /\ test[s] \in stored
    /\ row[r] = "none"
    /\ row' = [row EXCEPT ![r] = "RUNNING"]
    /\ testOf' = [testOf EXCEPT ![r] = test[s]]
    /\ run' = [run EXCEPT ![s] = r]
    /\ pc' = [pc EXCEPT ![s] = "update"]
    /\ raced' = (raced \ {s}) \cup
           {q \in Starters : q # s /\ pc[q] = "create" /\ test[q] = test[s]}
    /\ UNCHANGED <<stored, lastStatus, queue, test, verdict, told, doubt>>

\* The steps that hand over, by what they do to holders, rows and queue.
LEMMA CreateCases ==
    ASSUME TypeInv, NEW s \in Starters, Create(s)
    PROVE  (Calm /\ UNCHANGED <<lastStatus, told, doubt>> /\ Leaves(s))
           \/ (\E r \in Runs : CreatesRow(s, r))
<1>0. LocalsOK
    BY TypeParts DEF TypeInv
<1>1. CASE test[s] \in stored
    BY <1>1 DEF Create, CreatesRow
<1>2. CASE test[s] \notin stored
    BY <1>0, <1>2, CalmEnds DEF Create, Calm
<1> QED
    BY <1>1, <1>2

\* Enqueue leaves the run to the queue, or to an execution in the process; only a
\* lost reply makes it both.
LEMMA EnqueueCases ==
    ASSUME TypeInv, NEW s \in Starters, Enqueue(s) \/ EnqueueFails(s)
    PROVE  /\ pc[s] = "enqueue" /\ run[s] \in Runs
           /\ UNCHANGED <<rowVars, told>>
           /\ \/ Leaves(s) /\ queue' = queue \cup {run[s]} /\ doubt' = doubt
              \/ ExecutesInProcess(s) /\ queue' = queue /\ doubt' = doubt
              \/ /\ ExecutesInProcess(s)
                 /\ queue' = queue \cup {run[s]} /\ doubt' = doubt \cup {run[s]}
<1>1. run[s] \in Runs
    BY DEF TypeInv, StarterPlaced, Enqueue, EnqueueFails, Creating
<1>2. CASE Enqueue(s)
    BY <1>1, <1>2 DEF Enqueue
<1>3. CASE EnqueueFails(s)
    BY <1>1, <1>3 DEF EnqueueFails, Fails, rowVars
<1> QED
    BY <1>2, <1>3

\* Finish writes row and test, or throws because the row is gone.
LEMMA FinishCases ==
    ASSUME TypeInv, NEW e \in Executors, Finish(e)
    PROVE  /\ pc[e] \in {"finish", "finishFailed"}
           /\ run[e] \in Runs /\ verdict[e] \in Ended
           /\ UNCHANGED <<stored, testOf, queue, told, raced, doubt>>
           /\ \/ /\ row[run[e]] # "gone"
                 /\ Writes(e)
                 /\ pc' = [pc EXCEPT ![e] = "notify"]
                 /\ UNCHANGED localVars
              \/ row[run[e]] = "gone" /\ Throws(e) /\ Calm /\ UNCHANGED lastStatus
<1>0. LocalsOK
    BY TypeParts DEF TypeInv
<1>1. run[e] \in Runs /\ verdict[e] \in Ended
    BY DEF TypeInv, ExecutorPlaced, Finish, Execution
<1>2. CASE row[run[e]] # "gone"
    BY <1>1, <1>2 DEF Finish
<1>3. CASE row[run[e]] = "gone"
    BY <1>0, <1>1, <1>3, CalmEnds DEF Finish, Calm
<1> QED
    BY <1>2, <1>3

-----------------------------------------------------------------------------
\* Every step keeps Unused: rows never go back to "none", and only Create takes
\* one that is.
LEMMA UnusedStep == IInv /\ [Next]_vars => \A r \in Runs : Unused(r)'
<1> SUFFICES ASSUME IInv, [Next]_vars, NEW r \in Runs PROVE Unused(r)'
    OBVIOUS
<1> USE DEF Creating, Start, Execution, Holding
<1>0. TypeInv /\ LocalsOK /\ RowsOK /\ Unused(r)
    BY TypeParts DEF IInv, TypeInv
<1>1. CASE Calm
    BY <1>0, <1>1 DEF Calm, CalmLocals, Unused
<1>2. ASSUME NEW s \in Starters, NEW q \in Runs, CreatesRow(s, q) PROVE Unused(r)'
    BY <1>0, <1>2, Kinds DEF CreatesRow, Unused, LocalsOK, RowsOK
<1>3. ASSUME NEW s \in Starters, Enqueue(s) \/ EnqueueFails(s) PROVE Unused(r)'
  <2>1. row' = row /\ testOf' = testOf /\ run[s] \in Runs
        /\ queue' \subseteq queue \cup {run[s]} /\ pc[s] \in Holding
      BY <1>0, <1>3, EnqueueCases DEF rowVars
  <2>2. CASE Leaves(s)
      BY <1>0, <2>1, <2>2, LeavesFrame, Kinds DEF Unused
  <2>3. CASE ExecutesInProcess(s)
      BY <1>0, <2>1, <2>3, InProcessFrame, Kinds DEF Unused
  <2> QED
      BY <1>0, <1>3, <2>2, <2>3, EnqueueCases
<1>4. ASSUME NEW q \in Runs, RunJob(q) PROVE Unused(r)'
    BY <1>0, <1>4, Kinds DEF RunJob, rowVars, Unused, LocalsOK
<1>5. ASSUME NEW e \in Executors, Finish(e) PROVE Unused(r)'
  <2>1. CASE Writes(e) /\ pc' = [pc EXCEPT ![e] = "notify"] /\ UNCHANGED localVars
    <3>1. row'[r] = "none" => row[r] = "none"
        BY <1>0, <1>5, <2>1, FinishCases DEF Writes, RowsOK, Ended
    <3>2. \A p \in Procs : pc'[p] \in Holding => pc[p] \in Holding /\ run'[p] = run[p]
        BY <1>0, <1>5, <2>1, FinishCases, Kinds DEF localVars, LocalsOK
    <3> QED
        BY <1>0, <1>5, <3>1, <3>2, FinishCases DEF Unused
  <2> QED
      BY <1>0, <1>1, <1>5, <2>1, FinishCases
<1>6. ASSUME NEW t \in Tests, DeleteTest(t) PROVE Unused(r)'
    BY <1>0, <1>6 DEF DeleteTest, localVars, Unused, LocalsOK, RowsOK
<1>7. ASSUME Crash PROVE Unused(r)'
    BY <1>0, <1>7, Kinds DEF Crash, Fails, Unused, LocalsOK
<1> QED
    BY <1>0, <1>1, <1>2, <1>3, <1>4, <1>5, <1>6, <1>7, CalmStep, CreateCases DEF HandOver

\* A holder stays alone when nothing is handed over.
LEMMA AloneKept ==
    ASSUME Calm, NEW p \in Procs, Alone(p), pc'[p] \in Holding
    PROVE  Alone(p)'
    BY DEF Calm, CalmLocals, Alone

\* Every step keeps Created: the creator of a row is the only one to know it, and
\* gives it away whole.
LEMMA CreatedStep == IInv /\ [Next]_vars => \A s \in Starters : Created(s)'
<1> SUFFICES ASSUME IInv, [Next]_vars, NEW q \in Starters, pc'[q] \in Creating
             PROVE  /\ Alone(q)'
                    /\ testOf'[run'[q]] = test'[q]
                    /\ row'[run'[q]] = IF test'[q] \in stored' THEN "RUNNING" ELSE "gone"
    BY DEF Created
<1> USE DEF Creating, Start, Execution, Holding
<1> DEFINE Goal == /\ Alone(q)'
                   /\ testOf'[run'[q]] = test'[q]
                   /\ row'[run'[q]] = IF test'[q] \in stored' THEN "RUNNING" ELSE "gone"
<1>0. /\ TypeInv /\ LocalsOK /\ RowsOK
      /\ Created(q) /\ StarterPlaced(q)
    BY TypeParts DEF IInv, TypeInv
<1>1. CASE Calm
    BY <1>0, <1>1, AloneKept, Kinds DEF Calm, CalmLocals, Created
<1>2. ASSUME NEW s \in Starters, NEW r \in Runs, CreatesRow(s, r) PROVE Goal
  <2>1. r \notin queue /\ \A p \in Procs : pc[p] \in Holding => run[p] # r
      BY <1>2 DEF IInv, Unused, CreatesRow
  <2>2. CASE q = s
    <3>1. Alone(q)'
        BY <1>0, <1>2, <2>1, <2>2, Kinds DEF CreatesRow, Alone, LocalsOK
    <3> QED
        BY <1>0, <1>2, <2>2, <3>1, Kinds DEF CreatesRow, LocalsOK, RowsOK
  <2>3. CASE q # s
    <3>1. pc[q] \in Creating /\ run'[q] = run[q] /\ test'[q] = test[q] /\ run[q] # r
        BY <1>0, <1>2, <2>1, <2>3, Kinds DEF CreatesRow, LocalsOK
    <3>2. Alone(q)'
        BY <1>0, <1>2, <2>3, <3>1, Kinds DEF CreatesRow, Created, Alone, LocalsOK
    <3> QED
        BY <1>0, <1>2, <3>1, <3>2, Kinds DEF CreatesRow, Created, LocalsOK, RowsOK
  <2> QED
      BY <2>2, <2>3
<1>3. ASSUME NEW s \in Starters, Enqueue(s) \/ EnqueueFails(s) PROVE Goal
  <2>1. /\ UNCHANGED <<stored, row, testOf>> /\ run[s] \in Runs
        /\ queue' \subseteq queue \cup {run[s]} /\ pc[s] \in Holding
      BY <1>0, <1>3, EnqueueCases DEF rowVars
  <2>2. CASE Leaves(s)
      BY <1>0, <2>1, <2>2, LeavesFrame, Kinds DEF Created, Alone
  <2>3. CASE ExecutesInProcess(s)
      BY <1>0, <2>1, <2>3, InProcessFrame, Kinds DEF Created, Alone
  <2> QED
      BY <1>0, <1>3, <2>2, <2>3, EnqueueCases
<1>4. ASSUME NEW r \in Runs, RunJob(r) PROVE Goal
  <2>1. q # Worker /\ pc[q] \in Creating /\ run'[q] = run[q] /\ test' = test
      BY <1>0, <1>4, Kinds DEF RunJob, LocalsOK
  <2>2. run[q] # r
      BY <1>0, <1>4, <2>1 DEF RunJob, Created, Alone
  <2>3. Alone(q)'
      BY <1>0, <1>4, <2>1, <2>2, Kinds DEF RunJob, Created, Alone, LocalsOK
  <2> QED
      BY <1>0, <1>4, <2>1, <2>3 DEF RunJob, rowVars, Created
<1>5. ASSUME NEW e \in Executors, Finish(e) PROVE Goal
  <2>1. CASE Writes(e) /\ pc' = [pc EXCEPT ![e] = "notify"] /\ UNCHANGED localVars
    <3>1. q # e /\ pc[q] \in Creating /\ run' = run /\ test' = test /\ pc[e] \in Holding
        BY <1>0, <1>5, <2>1, FinishCases, Kinds DEF localVars, LocalsOK
    <3>2. run[q] # run[e] /\ run[q] \in Runs
        BY <1>0, <3>1, Kinds DEF Created, Alone, StarterPlaced
    <3>3. Alone(q)'
        BY <1>0, <1>5, <2>1, <3>1, FinishCases, Kinds DEF Created, Alone, LocalsOK
    <3> QED
        BY <1>0, <1>5, <2>1, <3>1, <3>2, <3>3, FinishCases DEF Writes, Created, RowsOK
  <2> QED
      BY <1>0, <1>1, <1>5, <2>1, FinishCases
<1>6. ASSUME NEW t \in Tests, DeleteTest(t) PROVE Goal
  <2>1. pc[q] \in Creating /\ UNCHANGED <<pc, run, test, queue, testOf>> /\ run[q] \in Runs
      BY <1>0, <1>6 DEF DeleteTest, localVars, StarterPlaced
  <2>2. Alone(q)'
      BY <1>0, <2>1 DEF Created, Alone
  <2> QED
      BY <1>0, <1>6, <2>1, <2>2 DEF DeleteTest, Created, RowsOK
<1>7. ASSUME Crash PROVE Goal
    BY <1>7, Kinds DEF Crash
<1> QED
    BY <1>0, <1>1, <1>2, <1>3, <1>4, <1>5, <1>6, <1>7, CalmStep, CreateCases DEF HandOver

-----------------------------------------------------------------------------
\* The running rows of t after a step.
RunningNext(t) == {r \in Runs : testOf'[r] = t /\ row'[r] = "RUNNING"}

\* No run of t begins to be RUNNING unless Create makes it.
LEMMA RunningKept ==
    ASSUME UNCHANGED <<row, testOf>>, NEW t
    PROVE  RunningNext(t) = Running(t)
    BY DEF Running, RunningNext

\* A row that finish ends takes the status of its test with it.
LEMMA FinishRunning ==
    ASSUME TypeInv, NEW e \in Executors, Finish(e), NEW t
    PROVE  /\ RunningNext(t) \subseteq Running(t)
           /\ RunningNext(t) # Running(t) =>
                  testOf[run[e]] = t /\ (t \in Tests => lastStatus'[t] = verdict[e])
<1>1. TypeInv /\ RowsOK
    BY TypeParts DEF TypeInv
<1>2. CASE Writes(e)
  <2>1. row' = [row EXCEPT ![run[e]] = verdict[e]] /\ testOf' = testOf
        /\ verdict[e] # "RUNNING"
      BY <1>1, <1>2, FinishCases DEF Writes, Ended
  <2>2. RunningNext(t) \subseteq Running(t) /\ (testOf[run[e]] # t => RunningNext(t) = Running(t))
      BY <1>1, <2>1 DEF Running, RunningNext, RowsOK
  <2> QED
      BY <1>1, <1>2, <2>2 DEF Writes, RowsOK
<1>3. CASE Calm
    BY <1>3, RunningKept DEF Calm
<1> QED
    BY <1>1, <1>2, <1>3, FinishCases

\* Every step keeps Looked: a row that appears between the look and the creation
\* marks the starter as overtaken.
LEMMA LookedStep == IInv /\ [Next]_vars => \A s \in Starters : Looked(s)'
<1> SUFFICES ASSUME IInv, [Next]_vars, NEW q \in Starters, pc'[q] = "create"
             PROVE  q \in raced' \/ RunningNext(test'[q]) = {}
    BY DEF Looked, Running, RunningNext
<1> USE DEF Creating, Start, Execution
<1> DEFINE Goal == q \in raced' \/ RunningNext(test'[q]) = {}
<1>0. TypeInv /\ LocalsOK /\ RowsOK /\ Looked(q)
    BY TypeParts DEF IInv, TypeInv
<1>1. ASSUME pc[q] = "create", test'[q] = test[q], raced' = raced,
             RunningNext(test[q]) \subseteq Running(test[q])
      PROVE  Goal
    BY <1>0, <1>1 DEF Looked
<1>2. ASSUME UNCHANGED <<pc, test, raced, row, testOf>> PROVE Goal
    BY <1>1, <1>2, RunningKept
<1>3. ASSUME NEW s \in Starters, Leaves(s), UNCHANGED <<row, testOf>> PROVE Goal
  <2>1. q # s /\ pc[q] = "create" /\ test'[q] = test[q] /\ raced' = raced \ {s}
      BY <1>0, <1>3, LeavesFrame, Kinds
  <2> QED
      BY <1>0, <1>3, <2>1, RunningKept DEF Looked
<1>4. ASSUME NEW e \in Executors, Throws(e) \/ Ends(e), UNCHANGED <<raced, row, testOf>>
      PROVE  Goal
  <2>1. pc[q] = "create" /\ test' = test
      BY <1>0, <1>4, ThrowsFrame, Kinds
  <2> QED
      BY <1>1, <1>4, <2>1, RunningKept
<1>5. ASSUME NEW s \in Starters, NEW t \in Tests, Begins(s, t) PROVE Goal
  <2>1. pc[q] = "create" /\ test'[q] = test[q]
      BY <1>0, <1>5, Kinds DEF Begins, LocalsOK
  <2> QED
      BY <1>1, <1>5, <2>1, RunningKept DEF Begins, rowVars
<1>6. ASSUME NEW s \in Crons, CronLists(s) \/ CronSkips(s) PROVE Goal
  <2>1. pc[q] = "create"
      BY <1>0, <1>6, Kinds DEF CronLists, CronSkips, LocalsOK
  <2> QED
      BY <1>1, <1>6, <2>1, RunningKept DEF CronLists, CronSkips, rowVars
<1>7. ASSUME NEW s \in Starters, Find(s) PROVE Goal
  <2>1. CASE Running(test[s]) = {} /\ pc' = [pc EXCEPT ![s] = "create"]
             /\ UNCHANGED <<localVars, raced>>
    <3>1. CASE q = s
        BY <1>7, <2>1, <3>1, RunningKept DEF Find, rowVars, localVars
    <3>2. CASE q # s
        BY <1>0, <1>1, <1>7, <2>1, <3>2, RunningKept, Kinds DEF Find, rowVars, localVars,
           LocalsOK
    <3> QED
        BY <3>1, <3>2
  <2> QED
      BY <1>3, <1>7, <2>1 DEF Find, rowVars
<1>8. ASSUME NEW s \in Starters, Create(s) PROVE Goal
  <2>1. ASSUME NEW r \in Runs, CreatesRow(s, r) PROVE Goal
    <3>1. q # s /\ pc[q] = "create" /\ test' = test
        BY <1>0, <2>1, Kinds DEF CreatesRow, LocalsOK
    <3>2. CASE test[q] = test[s]
        BY <2>1, <3>1, <3>2 DEF CreatesRow
    <3>3. CASE test[q] # test[s]
      <4>1. RunningNext(test[q]) \subseteq Running(test[q])
          BY <1>0, <2>1, <3>3 DEF CreatesRow, Running, RunningNext, RowsOK
      <4>2. q \in raced => q \in raced'
          BY <2>1, <3>1 DEF CreatesRow
      <4> QED
          BY <1>0, <3>1, <4>1, <4>2 DEF Looked
    <3> QED
        BY <3>2, <3>3
  <2> QED
      BY <1>0, <1>3, <1>8, <2>1, CreateCases DEF Calm
<1>9. ASSUME NEW s \in Starters, Update(s) PROVE Goal
  <2>1. CASE pc' = [pc EXCEPT ![s] = "enqueue"] /\ UNCHANGED <<localVars, raced>>
      BY <1>0, <1>1, <1>9, <2>1, RunningKept, Kinds DEF Update, localVars, LocalsOK
  <2> QED
      BY <1>3, <1>9, <2>1 DEF Update
<1>10. ASSUME NEW s \in Starters, Enqueue(s) \/ EnqueueFails(s) PROVE Goal
  <2>1. UNCHANGED <<row, testOf>> /\ run[s] \in Runs
      BY <1>0, <1>10, EnqueueCases DEF rowVars
  <2>2. CASE ExecutesInProcess(s)
    <3>1. pc[q] = "create" /\ test'[q] = test[q] /\ raced' = raced
        BY <1>0, <2>1, <2>2, InProcessFrame, Kinds
    <3> QED
        BY <1>1, <2>1, <3>1, RunningKept
  <2> QED
      BY <1>0, <1>3, <1>10, <2>1, <2>2, EnqueueCases
<1>11. ASSUME NEW s \in Starters, StarterFails(s) PROVE Goal
    BY <1>3, <1>11 DEF StarterFails
<1>12. ASSUME NEW r \in Runs, RunJob(r) PROVE Goal
  <2>1. pc[q] = "create"
      BY <1>0, <1>12, Kinds DEF RunJob, LocalsOK
  <2> QED
      BY <1>1, <1>12, <2>1, RunningKept DEF RunJob, rowVars
<1>13. ASSUME NEW e \in Executors, Read(e) PROVE Goal
  <2>1. CASE pc' = [pc EXCEPT ![e] = "k6"] /\ UNCHANGED localVars
      BY <1>0, <1>1, <1>13, <2>1, RunningKept, Kinds DEF Read, rowVars, localVars, LocalsOK
  <2> QED
      BY <1>4, <1>13, <2>1 DEF Read, rowVars
<1>14. ASSUME NEW e \in Executors, K6(e) PROVE Goal
  <2>1. pc[q] = "create"
      BY <1>0, <1>14, Kinds DEF K6, LocalsOK
  <2> QED
      BY <1>1, <1>14, <2>1, RunningKept DEF K6, rowVars
<1>15. ASSUME NEW e \in Executors, Finish(e) PROVE Goal
  <2>1. CASE pc' = [pc EXCEPT ![e] = "notify"] /\ UNCHANGED localVars
    <3>1. pc[q] = "create" /\ test' = test
        BY <1>0, <2>1, Kinds DEF localVars, LocalsOK
    <3> QED
        BY <1>0, <1>1, <1>15, <3>1, FinishRunning, FinishCases
  <2>2. CASE Throws(e) /\ Calm
      BY <1>0, <1>4, <1>15, <2>2, FinishCases DEF Calm
  <2> QED
      BY <1>0, <1>15, <2>1, <2>2, FinishCases
<1>16. ASSUME NEW e \in Executors, Notify(e) \/ ExecutorFails(e) PROVE Goal
    BY <1>4, <1>16 DEF Notify, ExecutorFails, rowVars
<1>17. ASSUME Crash PROVE Goal
    BY <1>17, Kinds DEF Crash
<1>18. ASSUME NEW t \in Tests, DeleteTest(t) PROVE Goal
  <2>1. RunningNext(test[q]) \subseteq Running(test[q])
      BY <1>0, <1>18 DEF DeleteTest, Running, RunningNext, RowsOK
  <2> QED
      BY <1>1, <1>18, <2>1 DEF DeleteTest, localVars
<1>19. ASSUME NEW t \in Tests, EditSchedule(t) PROVE Goal
    BY <1>2, <1>19 DEF EditSchedule, localVars, rowVars
<1>20. CASE UNCHANGED vars
    BY <1>2, <1>20 DEF vars, localVars, rowVars
<1> QED
    BY <1>5, <1>6, <1>7, <1>8, <1>9, <1>10, <1>11, <1>12, <1>13, <1>14, <1>15, <1>16, <1>17,
       <1>18, <1>19, <1>20, Kinds
    DEF Next, CronStep, CronStarts, StartStep, ExecuteStep, RequestRun, ScheduleJob, Starters

\* Only Update, Finish and DeleteTest write lastStatus, and a calm step keeps the
\* rows.
LEMMA StatusKept ==
    ASSUME [Next]_vars
    PROVE  \/ lastStatus' = lastStatus
           \/ \E s \in Starters : Update(s)
           \/ \E e \in Executors : Finish(e)
           \/ \E t \in Tests : DeleteTest(t)
<1>1. ASSUME NEW s \in Starters, NEW t \in Tests, Begins(s, t) PROVE lastStatus' = lastStatus
    BY <1>1 DEF Begins, rowVars
<1>2. ASSUME NEW s \in Crons, CronLists(s) \/ CronSkips(s) PROVE lastStatus' = lastStatus
    BY <1>2 DEF CronLists, CronSkips, rowVars
<1>3. ASSUME NEW s \in Starters,
             Find(s) \/ Create(s) \/ Enqueue(s) \/ StarterFails(s) \/ EnqueueFails(s)
      PROVE  lastStatus' = lastStatus
    BY <1>3 DEF Find, Create, Enqueue, StarterFails, EnqueueFails, rowVars
<1>4. ASSUME NEW r \in Runs, RunJob(r) PROVE lastStatus' = lastStatus
    BY <1>4 DEF RunJob, rowVars
<1>5. ASSUME NEW e \in Executors, Read(e) \/ K6(e) \/ Notify(e) \/ ExecutorFails(e)
      PROVE  lastStatus' = lastStatus
    BY <1>5 DEF Read, K6, Notify, ExecutorFails, rowVars
<1>6. ASSUME NEW t \in Tests, EditSchedule(t) PROVE lastStatus' = lastStatus
    BY <1>6 DEF EditSchedule, rowVars
<1>7. CASE Crash
    BY <1>7 DEF Crash
<1>8. CASE UNCHANGED vars
    BY <1>8 DEF vars, rowVars
<1> QED
    BY <1>1, <1>2, <1>3, <1>4, <1>5, <1>6, <1>7, <1>8, Kinds
    DEF Next, CronStep, CronStarts, StartStep, ExecuteStep, RequestRun, ScheduleJob, Starters

\* Every step keeps RunningMeansRunning: a test becomes RUNNING with a row that its
\* starter holds, and when a row ends its test ends with it.
LEMMA RunningStep == IInv /\ [Next]_vars => RunningMeansRunning'
<1>a. ASSUME IInv, [Next]_vars PROVE stored' \subseteq Tests
  <2>1. TypeInv'
      BY <1>a, TypeStep DEF IInv
  <2> QED
      BY <2>1 DEF TypeInv, TypeOK
<1> SUFFICES ASSUME IInv, [Next]_vars, NEW t \in Tests, t \in stored',
                    lastStatus'[t] = "RUNNING"
             PROVE  RunningNext(t) # {}
    BY <1>a DEF RunningMeansRunning, Running, RunningNext
<1>0. TypeInv /\ LocalsOK /\ RowsOK
      /\ (t \in stored /\ lastStatus[t] = "RUNNING" => Running(t) # {})
    BY TypeParts DEF IInv, TypeInv, RunningMeansRunning
<1>1. ASSUME t \in stored, lastStatus' = lastStatus, UNCHANGED <<row, testOf>>
      PROVE  RunningNext(t) # {}
    BY <1>0, <1>1, RunningKept
<1>2. ASSUME NEW s \in Starters, Update(s) PROVE RunningNext(t) # {}
  <2>1. stored' = stored /\ row' = row /\ testOf' = testOf
      BY <1>2 DEF Update
  <2>2. CASE lastStatus' = lastStatus
      BY <1>1, <2>1, <2>2
  <2>3. CASE test[s] \in stored /\ lastStatus' = [lastStatus EXCEPT ![test[s]] = "RUNNING"]
    <3>1. CASE t = test[s]
      <4>1. run[s] \in Runs /\ testOf[run[s]] = test[s] /\ row[run[s]] = "RUNNING"
          BY <1>0, <1>2, <2>3 DEF Update, IInv, Created, Creating, TypeInv, StarterPlaced
      <4> QED
          BY <2>1, <3>1, <4>1 DEF RunningNext
    <3>2. CASE t # test[s]
        BY <1>0, <2>1, <2>3, <3>2, RunningKept DEF RowsOK
    <3> QED
        BY <3>1, <3>2
  <2> QED
      BY <1>2, <2>2, <2>3 DEF Update
<1>3. ASSUME NEW e \in Executors, Finish(e) PROVE RunningNext(t) # {}
  <2>1. stored' = stored
      BY <1>0, <1>3, FinishCases
  <2>2. CASE RunningNext(t) # Running(t)
      BY <1>0, <1>3, <2>2, FinishRunning, FinishCases DEF Ended
  <2>3. CASE RunningNext(t) = Running(t)
    <3>1. lastStatus[t] = "RUNNING"
        BY <1>0, <1>3, FinishCases DEF Writes, RowsOK, Ended
    <3> QED
        BY <1>0, <2>1, <2>3, <3>1
  <2> QED
      BY <2>2, <2>3
<1>4. ASSUME NEW u \in Tests, DeleteTest(u) PROVE RunningNext(t) # {}
  <2>1. t # u /\ t \in stored /\ lastStatus[t] = "RUNNING"
      BY <1>0, <1>4 DEF DeleteTest, RowsOK
  <2>2. RunningNext(t) = Running(t)
      BY <1>0, <1>4, <2>1 DEF DeleteTest, Running, RunningNext, RowsOK
  <2> QED
      BY <1>0, <2>1, <2>2
<1>5. ASSUME NEW s \in Starters, NEW r \in Runs, CreatesRow(s, r) PROVE RunningNext(t) # {}
  <2>1. Running(t) \subseteq RunningNext(t)
      BY <1>0, <1>5 DEF CreatesRow, Running, RunningNext, RowsOK
  <2> QED
      BY <1>0, <1>5, <2>1 DEF CreatesRow
<1>6. ASSUME lastStatus' = lastStatus,
             ~ \E e \in Executors : Finish(e), ~ \E u \in Tests : DeleteTest(u)
      PROVE  RunningNext(t) # {}
  <2>1. CASE Calm
      BY <1>1, <1>6, <2>1 DEF Calm
  <2>2. ASSUME NEW s \in Starters, Enqueue(s) \/ EnqueueFails(s) PROVE RunningNext(t) # {}
      BY <1>0, <1>1, <2>2, EnqueueCases DEF rowVars
  <2>3. ASSUME NEW r \in Runs, RunJob(r) PROVE RunningNext(t) # {}
      BY <1>1, <2>3 DEF RunJob, rowVars
  <2>4. ASSUME Crash PROVE RunningNext(t) # {}
      BY <1>1, <2>4 DEF Crash, Fails
  <2> QED
      BY <1>0, <1>5, <1>6, <2>1, <2>2, <2>3, <2>4, CalmStep, CreateCases DEF HandOver
<1> QED
    BY <1>2, <1>3, <1>4, <1>6, StatusKept

-----------------------------------------------------------------------------
\* A lost reply of the queue is never forgotten, and only a queue that failed to
\* answer casts doubt on a run.
LEMMA DoubtStays ==
    ASSUME [Next]_vars
    PROVE  doubt' = doubt \/ \E s \in Starters : EnqueueFails(s) /\ doubt' = doubt \cup {run[s]}
<1>1. ASSUME NEW s \in Starters, NEW t \in Tests, Begins(s, t) PROVE doubt' = doubt
    BY <1>1 DEF Begins
<1>2. ASSUME NEW s \in Crons, CronLists(s) \/ CronSkips(s) PROVE doubt' = doubt
    BY <1>2 DEF CronLists, CronSkips
<1>3. ASSUME NEW s \in Starters, Find(s) \/ Create(s) \/ Update(s) \/ Enqueue(s)
      PROVE  doubt' = doubt
    BY <1>3 DEF Find, Create, Update, Enqueue
<1>4. ASSUME NEW s \in Starters, EnqueueFails(s)
      PROVE  doubt' = doubt \/ doubt' = doubt \cup {run[s]}
    BY <1>4 DEF EnqueueFails
<1>5. ASSUME NEW s \in Starters, StarterFails(s) PROVE doubt' = doubt
    BY <1>5 DEF StarterFails
<1>6. ASSUME NEW r \in Runs, RunJob(r) PROVE doubt' = doubt
    BY <1>6 DEF RunJob
<1>7. ASSUME NEW e \in Executors, ExecuteStep(e) \/ ExecutorFails(e) PROVE doubt' = doubt
    BY <1>7 DEF ExecuteStep, Read, K6, Finish, Notify, ExecutorFails
<1>8. ASSUME NEW t \in Tests, DeleteTest(t) \/ EditSchedule(t) PROVE doubt' = doubt
    BY <1>8 DEF DeleteTest, EditSchedule
<1>9. CASE Crash
    BY <1>9 DEF Crash
<1>10. CASE UNCHANGED vars
    BY <1>10 DEF vars
<1> QED
    BY <1>1, <1>2, <1>3, <1>4, <1>5, <1>6, <1>7, <1>8, <1>9, <1>10, Kinds
    DEF Next, CronStep, CronStarts, StartStep, RequestRun, ScheduleJob, Starters

\* The locals of an execution stay as they are.
Same(e) == pc'[e] = pc[e] /\ run'[e] = run[e] /\ verdict'[e] = verdict[e]

\* An execution is moved by its own steps only, and only notify tells.
LEMMA OthersStep ==
    ASSUME TypeInv, [Next]_vars, NEW e \in Executors, pc'[e] \in Execution
    PROVE  \/ HandOver
           \/ Same(e) /\ told' = told
           \/ \E d \in Executors \ {e} : Notify(d) /\ Same(e)
           \/ Read(e) \/ K6(e) \/ ExecutorFails(e)
<1> USE DEF Execution
<1> DEFINE Goal == \/ HandOver
                   \/ Same(e) /\ told' = told
                   \/ \E d \in Executors \ {e} : Notify(d) /\ Same(e)
                   \/ Read(e) \/ K6(e) \/ ExecutorFails(e)
<1>0. LocalsOK
    BY TypeParts DEF TypeInv
<1>1. ASSUME NEW s \in Starters, Leaves(s), told' = told PROVE Goal
    BY <1>0, <1>1, LeavesFrame, Kinds DEF Same
<1>2. ASSUME NEW s \in Starters, NEW t \in Tests, Begins(s, t) PROVE Goal
    BY <1>0, <1>2, Kinds DEF Begins, LocalsOK, Same
<1>3. ASSUME NEW s \in Crons, CronLists(s) \/ CronSkips(s) PROVE Goal
    BY <1>0, <1>3, Kinds DEF CronLists, CronSkips, LocalsOK, Same
<1>4. ASSUME NEW s \in Starters, Find(s) PROVE Goal
  <2>1. CASE pc' = [pc EXCEPT ![s] = "create"] /\ UNCHANGED localVars
      BY <1>0, <1>4, <2>1, Kinds DEF Find, LocalsOK, localVars, Same
  <2> QED
      BY <1>1, <1>4, <2>1 DEF Find
<1>5. ASSUME NEW s \in Starters, Update(s) PROVE Goal
  <2>1. CASE pc' = [pc EXCEPT ![s] = "enqueue"] /\ UNCHANGED localVars
      BY <1>0, <1>5, <2>1, Kinds DEF Update, LocalsOK, localVars, Same
  <2> QED
      BY <1>1, <1>5, <2>1 DEF Update
<1>6. ASSUME NEW s \in Starters, StarterFails(s) PROVE Goal
    BY <1>1, <1>6 DEF StarterFails
<1>7. ASSUME NEW d \in Executors, Read(d) PROVE Goal
  <2>1. CASE pc' = [pc EXCEPT ![d] = "k6"] /\ UNCHANGED localVars
      BY <1>0, <1>7, <2>1, Kinds DEF Read, LocalsOK, localVars, Same
  <2> QED
      BY <1>0, <1>7, <2>1, ThrowsFrame, Kinds DEF Read, Same
<1>8. ASSUME NEW d \in Executors, K6(d) PROVE Goal
    BY <1>0, <1>8, Kinds DEF K6, LocalsOK, Same
<1>9. ASSUME NEW d \in Executors, Notify(d) PROVE Goal
  <2>1. CASE d = e
      BY <1>0, <1>9, <2>1, Kinds DEF Notify, Ends, LocalsOK
  <2> QED
      BY <1>0, <1>9, <2>1, ThrowsFrame, Kinds DEF Notify, Same
<1>10. ASSUME NEW d \in Executors, ExecutorFails(d) PROVE Goal
    BY <1>0, <1>10, ThrowsFrame, Kinds DEF ExecutorFails, Same
<1>11. ASSUME NEW t \in Tests, EditSchedule(t) PROVE Goal
    BY <1>11 DEF EditSchedule, localVars, Same
<1>12. CASE UNCHANGED vars
    BY <1>12 DEF vars, localVars, Same
<1> QED
    BY <1>2, <1>3, <1>4, <1>5, <1>6, <1>7, <1>8, <1>9, <1>10, <1>11, <1>12, Kinds
    DEF Next, CronStep, CronStarts, StartStep, ExecuteStep, RequestRun, ScheduleJob, Starters,
        HandOver

\* Only finish leads to notify.
LEMMA NotifyByFinish ==
    ASSUME TypeInv, [Next]_vars, NEW e \in Executors, pc'[e] = "notify", ~ HandOver
    PROVE  pc[e] = "notify" /\ Same(e)
<1>0. LocalsOK /\ pc'[e] \in Execution
    BY TypeParts DEF TypeInv, Execution
<1>1. CASE Read(e)
    BY <1>0, <1>1, Kinds DEF Read, Ends, LocalsOK
<1>2. CASE K6(e)
    BY <1>0, <1>2, Kinds DEF K6, LocalsOK
<1>3. CASE ExecutorFails(e)
    BY <1>0, <1>3, ThrowsFrame DEF ExecutorFails
<1> QED
    BY <1>0, <1>1, <1>2, <1>3, OthersStep DEF Same

\* An execution that is not moved stays what it was, if its row is not written by
\* another one.
LEMMA ExecutingKept ==
    ASSUME NEW e \in Executors, Executing(e), Same(e), told'[run[e]] = told[run[e]],
           doubt \subseteq doubt',
           pc[e] \in Execution => row'[run[e]] \in {row[run[e]], "gone"} /\ Alone(e)'
    PROVE  Executing(e)'
    BY DEF Executing, Same

\* Every step keeps Written: finish writes before notify, and what is written is
\* written over by another result at most, or goes.
LEMMA WrittenStep == IInv /\ [Next]_vars => \A e \in Executors : Written(e)'
<1> USE DEF Creating, Execution, Holding
<1> SUFFICES ASSUME IInv, [Next]_vars, NEW e \in Executors, pc'[e] = "notify"
             PROVE  row'[run'[e]] \in Ended \cup {"gone"}
    BY DEF Written
<1>0. TypeInv /\ LocalsOK /\ RowsOK /\ Written(e) /\ ExecutorPlaced(e)
    BY TypeParts DEF IInv, TypeInv
<1>1. ASSUME pc[e] = "notify", run'[e] = run[e],
             row[run[e]] \in Ended \cup {"gone"} => row'[run[e]] \in Ended \cup {"gone"}
      PROVE  row'[run'[e]] \in Ended \cup {"gone"}
    BY <1>0, <1>1 DEF Written
<1>2. ASSUME NEW d \in Executors, Finish(d) PROVE row'[run'[e]] \in Ended \cup {"gone"}
  <2>1. CASE Writes(d) /\ pc' = [pc EXCEPT ![d] = "notify"] /\ UNCHANGED localVars
    <3>1. row'[run[d]] \in Ended /\ run' = run
          /\ \A r \in Runs \ {run[d]} : row'[r] = row[r]
        BY <1>0, <1>2, <2>1, FinishCases DEF Writes, RowsOK, localVars
    <3>2. pc[e] = "notify" \/ e = d
        BY <1>0, <2>1, Kinds DEF LocalsOK
    <3> QED
        BY <1>0, <3>1, <3>2 DEF Written, ExecutorPlaced
  <2>2. CASE Throws(d) /\ Calm
    <3>1. pc[e] = "notify" /\ run'[e] = run[e]
        BY <1>0, <2>2, ThrowsFrame, Kinds
    <3> QED
        BY <1>1, <2>2, <3>1 DEF Calm
  <2> QED
      BY <1>0, <1>2, <2>1, <2>2, FinishCases
<1>3. ASSUME NEW s \in Starters, NEW r \in Runs, CreatesRow(s, r)
      PROVE  row'[run'[e]] \in Ended \cup {"gone"}
  <2>1. pc[e] = "notify" /\ run'[e] = run[e]
      BY <1>0, <1>3, Kinds DEF CreatesRow, LocalsOK
  <2> QED
      BY <1>0, <1>1, <1>3, <2>1 DEF CreatesRow, RowsOK, Ended, ExecutorPlaced
<1>4. ASSUME NEW s \in Starters, Enqueue(s) \/ EnqueueFails(s)
      PROVE  row'[run'[e]] \in Ended \cup {"gone"}
  <2>1. row' = row /\ run[s] \in Runs
      BY <1>0, <1>4, EnqueueCases DEF rowVars
  <2>2. pc[e] = "notify" /\ run'[e] = run[e]
    <3>1. CASE Leaves(s)
        BY <1>0, <3>1, LeavesFrame, Kinds
    <3>2. CASE ExecutesInProcess(s)
        BY <1>0, <2>1, <3>2, InProcessFrame, Kinds
    <3> QED
        BY <1>0, <1>4, <3>1, <3>2, EnqueueCases
  <2> QED
      BY <1>1, <2>1, <2>2
<1>5. ASSUME NEW r \in Runs, RunJob(r) PROVE row'[run'[e]] \in Ended \cup {"gone"}
    BY <1>0, <1>1, <1>5, Kinds DEF RunJob, LocalsOK, rowVars
<1>6. ASSUME NEW t \in Tests, DeleteTest(t) PROVE row'[run'[e]] \in Ended \cup {"gone"}
    BY <1>0, <1>1, <1>6 DEF DeleteTest, localVars, ExecutorPlaced
<1>7. CASE Crash
    BY <1>7, Kinds DEF Crash
<1>8. CASE Calm /\ ~ HandOver
  <2>1. pc[e] = "notify"
      BY <1>0, <1>8, NotifyByFinish DEF HandOver
  <2> QED
      BY <1>1, <1>8, <2>1, Kinds DEF Calm, CalmLocals
<1>9. ASSUME NEW s \in Starters, Calm, Leaves(s)
      PROVE  row'[run'[e]] \in Ended \cup {"gone"}
  <2>1. pc[e] = "notify" /\ run'[e] = run[e]
      BY <1>0, <1>9, LeavesFrame, Kinds
  <2> QED
      BY <1>1, <1>9, <2>1 DEF Calm
<1> QED
    BY <1>0, <1>2, <1>3, <1>4, <1>5, <1>6, <1>7, <1>8, <1>9, CalmStep, CreateCases DEF HandOver

\* Every step keeps Executing: a run is handed over by the only one who held it.
LEMMA ExecutingStep == IInv /\ [Next]_vars => \A e \in Executors : Executing(e)'
<1> SUFFICES ASSUME IInv, [Next]_vars, NEW e \in Executors,
                    pc'[e] \in Execution, run'[e] \notin doubt'
             PROVE  Executing(e)'
    BY DEF Executing
<1> USE DEF Creating, Execution, Holding
<1>0. /\ TypeInv /\ LocalsOK /\ RowsOK /\ HistoryOK
      /\ \A d \in Executors : Executing(d) /\ ExecutorPlaced(d)
      /\ \A s \in Starters : Created(s) /\ StarterPlaced(s)
      /\ \A p \in Procs : Proper(p)
      /\ ToldAsWritten
      /\ run'[e] \notin doubt /\ doubt \subseteq doubt'
    BY TypeParts, DoubtStays DEF IInv, TypeInv
<1>1. CASE Calm /\ ~ HandOver
  <2>1. Alone(e) => Alone(e)'
      BY <1>1, AloneKept, Kinds
  <2>2. CASE Same(e) /\ told' = told
      BY <1>0, <1>1, <2>1, <2>2, ExecutingKept DEF Calm, Executing, Same
  <2>3. ASSUME NEW d \in Executors \ {e}, Notify(d), Same(e) PROVE Executing(e)'
    <3>1. run[d] # run[e] /\ run[e] \in Runs
        BY <1>0, <2>3, Kinds DEF Executing, Alone, Notify, Same, ExecutorPlaced
    <3>2. told'[run[e]] = told[run[e]]
        BY <1>0, <2>3, <3>1 DEF Notify, HistoryOK
    <3> QED
        BY <1>0, <1>1, <2>1, <2>3, <3>2, ExecutingKept DEF Calm, Executing, Same
  <2>4. CASE Read(e)
    <3>1. /\ pc[e] = "read" /\ run'[e] = run[e] /\ pc'[e] = "k6"
          /\ row[run[e]] = "RUNNING" /\ told' = told /\ row' = row
        BY <1>0, <2>4, Kinds DEF Read, Ends, LocalsOK, localVars, rowVars
    <3>2. run[e] \in Runs /\ told[run[e]] = << >>
        BY <1>0, <3>1 DEF ExecutorPlaced, ToldAsWritten, Ended
    <3> QED
        BY <1>0, <2>1, <3>1, <3>2 DEF Executing
  <2>5. CASE K6(e)
    <3>1. pc[e] = "k6" /\ pc'[e] \in {"finish", "finishFailed"}
          /\ run' = run /\ told' = told /\ row' = row
        BY <1>0, <2>5, Kinds DEF K6, LocalsOK, rowVars
    <3> QED
        BY <1>0, <2>1, <3>1 DEF Executing
  <2>6. CASE ExecutorFails(e)
    <3>1. pc[e] = "finish" /\ pc'[e] = "finishFailed" /\ run'[e] = run[e]
          /\ told' = told /\ row' = row
        BY <1>0, <2>6, ThrowsFrame DEF ExecutorFails
    <3> QED
        BY <1>0, <2>1, <3>1 DEF Executing
  <2> QED
      BY <1>0, <1>1, <2>2, <2>3, <2>4, <2>5, <2>6, OthersStep
<1>2. ASSUME NEW s \in Starters, Create(s) PROVE Executing(e)'
  <2>1. CASE Calm /\ UNCHANGED told /\ Leaves(s)
    <3>1. Same(e)
        BY <1>0, <2>1, LeavesFrame, Kinds DEF Same
    <3> QED
        BY <1>0, <2>1, <3>1, AloneKept, ExecutingKept, Kinds DEF Calm, Executing, Same
  <2>2. ASSUME NEW r \in Runs, CreatesRow(s, r) PROVE Executing(e)'
    <3>1. r \notin queue /\ \A p \in Procs : pc[p] \in Holding => run[p] # r
        BY <2>2 DEF IInv, Unused, CreatesRow
    <3>2. Same(e) /\ e # s
        BY <1>0, <2>2, Kinds DEF CreatesRow, LocalsOK, Same
    <3>3. pc[e] \in Execution => Alone(e)'
        BY <1>0, <2>2, <3>1, <3>2, Kinds DEF CreatesRow, LocalsOK, Executing, Alone
    <3>4. pc[e] \in Execution => row'[run[e]] = row[run[e]]
        BY <1>0, <2>2, <3>1, <3>2, Kinds DEF CreatesRow, RowsOK
    <3> QED
        BY <1>0, <2>2, <3>2, <3>3, <3>4, ExecutingKept DEF CreatesRow
  <2> QED
      BY <1>0, <1>2, <2>1, <2>2, CreateCases
<1>3. ASSUME NEW s \in Starters, Enqueue(s) \/ EnqueueFails(s) PROVE Executing(e)'
  <2>1. /\ UNCHANGED <<row, told>> /\ run[s] \in Runs /\ pc[s] = "enqueue"
        /\ queue' \subseteq queue \cup {run[s]} /\ Alone(s)
      BY <1>0, <1>3, EnqueueCases DEF rowVars, Created
  <2>2. CASE Leaves(s)
    <3>1. Same(e) /\ e # s
        BY <1>0, <2>2, LeavesFrame, Kinds DEF Same
    <3>2. pc[e] \in Execution => Alone(e)'
        BY <1>0, <2>1, <2>2, <3>1, LeavesFrame, Kinds DEF Executing, Alone, Same
    <3> QED
        BY <1>0, <2>1, <3>1, <3>2, ExecutingKept
  <2>3. CASE ExecutesInProcess(s) /\ (queue' = queue \/ run[s] \in doubt')
    <3>1. CASE e = run[s]
      <4>1. pc'[e] = "read" /\ run'[e] = run[s]
          BY <1>0, <2>1, <2>3, <3>1, InProcessFrame
      <4>2. Alone(e)'
          BY <1>0, <2>1, <2>3, <3>1, <4>1, InProcessFrame, Kinds DEF Alone
      <4> QED
          BY <4>1, <4>2 DEF Executing
    <3>2. CASE e # run[s]
      <4>1. Same(e) /\ e # s
          BY <1>0, <2>1, <2>3, <3>2, InProcessFrame, Kinds DEF Same
      <4>2. pc[e] \in Execution => Alone(e)'
          BY <1>0, <2>1, <2>3, <3>2, <4>1, InProcessFrame, Kinds DEF Executing, Alone, Same
      <4> QED
          BY <1>0, <2>1, <4>1, <4>2, ExecutingKept
    <3> QED
        BY <3>1, <3>2
  <2> QED
      BY <1>0, <1>3, <2>2, <2>3, EnqueueCases
<1>4. ASSUME NEW r \in Runs, RunJob(r) PROVE Executing(e)'
  <2>1. UNCHANGED <<row, told, verdict>> /\ queue' = queue \ {r} /\ r \in queue
      BY <1>4 DEF RunJob, rowVars
  <2>2. \A p \in Procs : pc[p] \in Holding /\ run[p] \notin doubt => run[p] # r
      BY <1>0, <2>1, Kinds DEF Proper, Start, Procs, Created, Executing, Alone
  <2>3. CASE e = Worker
    <3>1. pc'[e] = "read" /\ run'[e] = r
        BY <1>0, <1>4, <2>3, Kinds DEF RunJob, LocalsOK
    <3>2. Alone(e)'
        BY <1>0, <1>4, <2>1, <2>2, <2>3, <3>1, Kinds DEF RunJob, LocalsOK, Alone
    <3> QED
        BY <3>1, <3>2 DEF Executing
  <2>4. CASE e # Worker
    <3>1. Same(e)
        BY <1>0, <1>4, <2>1, <2>4, Kinds DEF RunJob, LocalsOK, Same
    <3>2. pc[e] \in Execution => Alone(e)'
        BY <1>0, <1>4, <2>1, <2>2, <2>4, <3>1, Kinds DEF RunJob, LocalsOK, Executing, Alone,
           Same
    <3> QED
        BY <1>0, <2>1, <3>1, <3>2, ExecutingKept
  <2> QED
      BY <2>3, <2>4
<1>5. ASSUME NEW d \in Executors, Finish(d) PROVE Executing(e)'
  <2>0. told' = told /\ queue' = queue /\ run[d] \in Runs /\ pc[d] \in {"finish", "finishFailed"}
      BY <1>0, <1>5, FinishCases
  <2>1. CASE Writes(d) /\ pc' = [pc EXCEPT ![d] = "notify"] /\ UNCHANGED localVars
    <3>1. run' = run /\ verdict' = verdict /\ row' = [row EXCEPT ![run[d]] = verdict[d]]
        BY <2>1 DEF localVars, Writes
    <3>2. \A p \in Procs : (pc'[p] \in Holding <=> pc[p] \in Holding)
        BY <1>0, <2>0, <2>1, Kinds DEF LocalsOK
    <3>3. pc[e] \in Execution => Alone(e)'
        BY <1>0, <2>0, <3>1, <3>2, Kinds DEF Executing, Alone
    <3>4. CASE e = d
        BY <1>0, <2>0, <2>1, <3>1, <3>3, <3>4, Kinds DEF LocalsOK, RowsOK, Executing
    <3>5. CASE e # d
      <4>1. Same(e) /\ (pc[e] \in Execution => run[e] # run[d])
          BY <1>0, <2>0, <2>1, <3>1, <3>5, Kinds DEF LocalsOK, Same, Executing, Alone
      <4>2. pc[e] \in Execution => row'[run[e]] = row[run[e]]
          BY <1>0, <3>1, <4>1 DEF RowsOK, ExecutorPlaced
      <4> QED
          BY <1>0, <2>0, <3>3, <4>1, <4>2, ExecutingKept
    <3> QED
        BY <3>4, <3>5
  <2>2. CASE Throws(d) /\ Calm
    <3>1. Alone(e) => Alone(e)'
        BY <2>2, AloneKept, Kinds
    <3>2. CASE e = d
      <4>1. pc[e] = "finish" /\ pc'[e] = "finishFailed" /\ run'[e] = run[e] /\ row' = row
          BY <1>0, <2>2, <3>2, ThrowsFrame DEF Calm
      <4> QED
          BY <1>0, <2>0, <3>1, <4>1 DEF Executing
    <3>3. CASE e # d
      <4>1. Same(e)
          BY <1>0, <2>2, <3>3, ThrowsFrame, Kinds DEF Same
      <4> QED
          BY <1>0, <2>0, <2>2, <3>1, <4>1, ExecutingKept DEF Calm, Executing, Same
    <3> QED
        BY <3>2, <3>3
  <2> QED
      BY <1>0, <1>5, <2>1, <2>2, FinishCases
<1>6. ASSUME NEW t \in Tests, DeleteTest(t) PROVE Executing(e)'
  <2>1. UNCHANGED <<pc, run, verdict, told, queue>>
      BY <1>6 DEF DeleteTest, localVars
  <2>2. Same(e) /\ (pc[e] \in Execution => Alone(e)')
      BY <1>0, <2>1 DEF Same, Executing, Alone
  <2>3. pc[e] \in Execution => row'[run[e]] \in {row[run[e]], "gone"}
      BY <1>0, <1>6 DEF DeleteTest, ExecutorPlaced
  <2> QED
      BY <1>0, <2>1, <2>2, <2>3, ExecutingKept
<1>7. ASSUME Crash PROVE Executing(e)'
    BY <1>7, Kinds DEF Crash
<1> QED
    BY <1>0, <1>1, <1>2, <1>3, <1>4, <1>5, <1>6, <1>7, CalmStep DEF HandOver

\* Only notify tells, and what it tells is its verdict.
LEMMA ToldKept ==
    ASSUME [Next]_vars
    PROVE  told' = told \/ \E e \in Executors : Notify(e)
<1>1. ASSUME NEW s \in Starters, NEW t \in Tests, Begins(s, t) PROVE told' = told
    BY <1>1 DEF Begins
<1>2. ASSUME NEW s \in Crons, CronLists(s) \/ CronSkips(s) PROVE told' = told
    BY <1>2 DEF CronLists, CronSkips
<1>3. ASSUME NEW s \in Starters, StartStep(s) \/ StarterFails(s) \/ EnqueueFails(s)
      PROVE  told' = told
    BY <1>3 DEF StartStep, Find, Create, Update, Enqueue, StarterFails, EnqueueFails
<1>4. ASSUME NEW r \in Runs, RunJob(r) PROVE told' = told
    BY <1>4 DEF RunJob
<1>5. ASSUME NEW e \in Executors, Read(e) \/ K6(e) \/ Finish(e) \/ ExecutorFails(e)
      PROVE  told' = told
    BY <1>5 DEF Read, K6, Finish, ExecutorFails
<1>6. ASSUME NEW t \in Tests, DeleteTest(t) \/ EditSchedule(t) PROVE told' = told
    BY <1>6 DEF DeleteTest, EditSchedule
<1>7. CASE Crash
    BY <1>7 DEF Crash
<1>8. CASE UNCHANGED vars
    BY <1>8 DEF vars
<1> QED
    BY <1>1, <1>2, <1>3, <1>4, <1>5, <1>6, <1>7, <1>8, Kinds
    DEF Next, CronStep, CronStarts, ExecuteStep, RequestRun, ScheduleJob, Starters

\* The row of a run that has ended stays as it is, or goes with its test.
LEMMA RowKept ==
    ASSUME IInv, [Next]_vars, NEW r \in Runs, r \notin doubt', row[r] \in Ended \cup {"gone"}
    PROVE  row'[r] \in {row[r], "gone"}
<1>0. TypeInv /\ RowsOK /\ r \notin doubt /\ \A e \in Executors : Executing(e)
    BY TypeParts, DoubtStays DEF IInv, TypeInv
<1>1. ASSUME NEW s \in Starters, NEW q \in Runs, CreatesRow(s, q)
      PROVE  row'[r] \in {row[r], "gone"}
    BY <1>0, <1>1 DEF CreatesRow, RowsOK, Ended
<1>2. ASSUME NEW s \in Starters, Enqueue(s) \/ EnqueueFails(s)
      PROVE  row'[r] \in {row[r], "gone"}
    BY <1>0, <1>2, EnqueueCases DEF rowVars
<1>3. ASSUME NEW q \in Runs, RunJob(q) PROVE row'[r] \in {row[r], "gone"}
    BY <1>3 DEF RunJob, rowVars
<1>4. ASSUME NEW e \in Executors, Finish(e) PROVE row'[r] \in {row[r], "gone"}
  <2>1. CASE Writes(e) /\ row[run[e]] # "gone"
    <3>1. run[e] \in Runs /\ (run[e] \notin doubt => row[run[e]] = "RUNNING")
        BY <1>0, <1>4, <2>1, FinishCases DEF Executing, Execution
    <3>2. run[e] # r
        BY <1>0, <3>1 DEF Ended
    <3> QED
        BY <1>0, <2>1, <3>1, <3>2 DEF Writes, RowsOK
  <2> QED
      BY <1>0, <1>4, <2>1, FinishCases DEF Calm
<1>5. ASSUME NEW t \in Tests, DeleteTest(t) PROVE row'[r] \in {row[r], "gone"}
    BY <1>0, <1>5 DEF DeleteTest
<1>6. CASE Crash
    BY <1>6 DEF Crash
<1>7. CASE Calm
    BY <1>7 DEF Calm
<1> QED
    BY <1>0, <1>1, <1>2, <1>3, <1>4, <1>5, <1>6, <1>7, CalmStep, CreateCases DEF HandOver, Calm

\* Every step keeps ToldAsWritten: notify tells what its execution wrote, once.
LEMMA ToldStep == IInv /\ [Next]_vars => ToldAsWritten'
<1> SUFFICES ASSUME IInv, [Next]_vars, NEW r \in Runs, r \notin doubt'
             PROVE  /\ told'[r] \in {<< >>} \cup {<<a>> : a \in Ended}
                    /\ told'[r] # << >> => row'[r] \in {told'[r][1], "gone"}
    BY DEF ToldAsWritten
<1>a. r \notin doubt
    BY DoubtStays
<1>0. /\ TypeInv /\ HistoryOK /\ RowsOK
      /\ \A e \in Executors : Executing(e)
      /\ told[r] \in {<< >>} \cup {<<a>> : a \in Ended}
      /\ told[r] # << >> => row[r] \in {told[r][1], "gone"}
    BY <1>a, TypeParts DEF IInv, TypeInv, ToldAsWritten
<1>1. CASE told' = told
  <2>1. \A a \in Ended : told[r] = <<a>> => told[r][1] \in Ended
      OBVIOUS
  <2>2. told[r] # << >> => row[r] \in Ended \cup {"gone"}
      BY <1>0, <2>1
  <2> QED
      BY <1>0, <1>1, <2>2, RowKept
<1>2. ASSUME NEW e \in Executors, Notify(e) PROVE
             /\ told'[r] \in {<< >>} \cup {<<a>> : a \in Ended}
             /\ told'[r] # << >> => row'[r] \in {told'[r][1], "gone"}
  <2>1. run[e] \in Runs /\ verdict[e] \in Ended /\ row' = row
      BY <1>0, <1>2 DEF Notify, Execution, TypeInv, ExecutorPlaced, rowVars
  <2>2. told' = [told EXCEPT ![run[e]] = <<verdict[e]>> \o told[run[e]]]
      BY <1>2 DEF Notify
  <2>4. CASE r = run[e]
    <3>a. row[run[e]] \in {verdict[e], "gone"} /\ told[run[e]] = << >>
        BY <1>a, <1>0, <1>2, <2>4 DEF Notify, Executing, Execution
    <3>b. <<verdict[e]>> \o told[run[e]] = <<verdict[e]>>
        BY <2>1, <3>a, ToldType DEF HistoryOK
    <3>1. told'[r] = <<verdict[e]>>
        BY <1>0, <2>1, <2>2, <2>4, <3>b DEF HistoryOK
    <3>2. told'[r][1] = verdict[e]
        BY <3>1
    <3> QED
        BY <2>1, <2>4, <3>a, <3>1, <3>2
  <2>5. CASE r # run[e]
    <3>1. told'[r] = told[r]
        BY <1>0, <2>2, <2>5 DEF HistoryOK
    <3> QED
        BY <1>0, <2>1, <3>1
  <2> QED
      BY <2>4, <2>5
<1> QED
    BY <1>1, <1>2, ToldKept

-----------------------------------------------------------------------------
\* Every step of the specification keeps the inductive invariant.
LEMMA StepInv == IInv /\ [Next]_vars => IInv'
    BY TypeStep, UnusedStep, CreatedStep, LookedStep, RunningStep, WrittenStep, ExecutingStep,
       ToldStep
    DEF IInv

\* The inductive invariant holds in every state of startRun and execute.
THEOREM Invariance == Spec => []IInv
    BY InitInv, StepInv, PTL DEF Spec

\* The variables keep their types, whatever fails in startRun and execute.
THEOREM TypeCorrect == Spec => []TypeOK
<1>1. IInv => TypeOK
    BY DEF IInv, TypeInv
<1> QED
    BY Invariance, <1>1, PTL

\* lastStatus RUNNING means that a run is RUNNING, for any number of starters
\* that overlap in startRun and of executions that finish.
THEOREM RunningIsMeant == Spec => []RunningMeansRunning
<1>1. IInv => RunningMeansRunning
    BY DEF IInv
<1> QED
    BY Invariance, <1>1, PTL

\* execute runs once at a time for a run, over crashes and the in-process
\* execution that replaces a queue that refuses.
THEOREM ExecutedAlone == Spec => []ExecutedOnce
<1>1. IInv => ExecutedOnce
  <2> SUFFICES ASSUME IInv, NEW d \in Executors, NEW e \in Executors,
                      pc[d] \in Execution, run[d] \notin doubt
               PROVE  /\ pc[e] \in Execution /\ run[d] = run[e] => d = e
                      /\ run[d] \notin queue
      BY DEF ExecutedOnce
  <2> QED
      BY Kinds, Places DEF IInv, Executing, Alone
<1> QED
    BY Invariance, <1>1, PTL

\* notify tells a run at most once, and what its row says.
THEOREM ToldRight == Spec => []ToldAsWritten
<1>1. IInv => ToldAsWritten
    BY DEF IInv
<1> QED
    BY Invariance, <1>1, PTL

\* What finish has written is not written over.
THEOREM ResultsAreFinal == Spec => ResultIsFinal
<1>1. IInv /\ [Next]_vars =>
          [\A r \in Runs \ doubt' : row[r] \in Ended => row'[r] \in {row[r], "gone"}]_vars
    BY RowKept
<1> QED
    BY Invariance, <1>1, PTL DEF Spec, ResultIsFinal

\* startRun creates a row next to a running one only when it was overtaken
\* between its look and its row.
THEOREM OverlapByRace == Spec => OverlapOnlyByRace
<1>1. IInv /\ [Next]_vars =>
          [\A s \in Starters :
              pc[s] = "create" /\ pc'[s] = "update" /\ Running(test[s]) # {}
                  => s \in raced]_vars
    BY DEF IInv, Looked
<1> QED
    BY Invariance, <1>1, PTL DEF Spec, OverlapOnlyByRace

-----------------------------------------------------------------------------
\* The process that is moved to a run of its own was not executing: the in-process
\* execution of a run exists once.
LEMMA FreshExecutor ==
    ASSUME IInv, NEW s \in Starters, pc[s] = "enqueue"
    PROVE  run[s] \in Runs /\ pc[run[s]] \notin Execution
<1>1. Created(s) /\ StarterPlaced(s) /\ run[s] \in Runs
    BY DEF IInv, TypeInv, StarterPlaced, Creating
<1>2. run[s] \in Executors /\ run[s] # s /\ run[s] \in Procs
    BY <1>1, Kinds
<1>3. ExecutorPlaced(run[s])
    BY <1>2 DEF IInv, TypeInv
<1> QED
    BY <1>1, <1>2, <1>3 DEF Created, Alone, Creating, Holding, ExecutorPlaced

\* Whoever stays where a run is held holds it still.
LEMMA HandsKept ==
    ASSUME NEW r, InHands(r), queue \subseteq queue',
           \A p \in Procs : pc[p] \in Holding /\ run[p] = r =>
               /\ run'[p] = r
               /\ pc[p] \in Creating => pc'[p] \in Creating
               /\ pc[p] \in Execution => pc'[p] \in Execution
    PROVE  InHands(r)'
<1>1. \A s \in Starters : s \in Procs
    BY Kinds
<1>2. \A e \in Executors : e \in Procs
    BY Kinds
<1> QED
    BY <1>1, <1>2 DEF InHands, Creating, Holding

\* No other step than a crash or a failed database call of its holder takes a
\* running run out of all hands.
LEMMA HandsStep ==
    ASSUME IInv, [Next]_vars, NEW r \in Runs, InHands(r),
           row[r] = "RUNNING", row'[r] = "RUNNING",
           ~ Crash,
           \A s \in Starters : ~ (StarterFails(s) /\ run[s] = r),
           \A e \in Executors : ~ (ExecutorFails(e) /\ run[e] = r)
    PROVE  InHands(r)'
<1> USE DEF Creating, Start, Execution, Holding
<1>0. /\ TypeInv /\ LocalsOK
      /\ \A s \in Starters : Created(s)
      /\ \A e \in Executors : Written(e)
    BY TypeParts DEF IInv, TypeInv
<1>1. ASSUME UNCHANGED <<queue, pc, run>> PROVE InHands(r)'
    BY <1>1 DEF InHands
<1>2. ASSUME NEW s \in Starters, Leaves(s), queue \subseteq queue',
             pc[s] \in Holding => run[s] # r \/ r \in queue'
      PROVE  InHands(r)'
  <2>1. CASE r \in queue'
      BY <2>1 DEF InHands
  <2>2. CASE r \notin queue'
      BY <1>0, <1>2, <2>2, HandsKept, LeavesFrame
  <2> QED
      BY <2>1, <2>2
<1>3. ASSUME NEW e \in Executors, Throws(e) \/ Ends(e), run[e] # r, queue' = queue
      PROVE  InHands(r)'
    BY <1>0, <1>3, HandsKept, ThrowsFrame
<1>4. ASSUME NEW s \in Starters, pc[s] \notin Holding,
             NEW t \in Tests, Begins(s, t)
      PROVE  InHands(r)'
    BY <1>0, <1>4, HandsKept, Kinds DEF Begins, LocalsOK
<1>5. ASSUME NEW s \in Requests, NEW t \in Tests, RequestRun(s, t) PROVE InHands(r)'
    BY <1>4, <1>5 DEF RequestRun, Starters
<1>6. ASSUME NEW s \in Crons, NEW t \in Tests, CronStarts(s, t) PROVE InHands(r)'
    BY <1>4, <1>6, Kinds DEF CronStarts
<1>7. ASSUME NEW t \in Tests, ScheduleJob(t) PROVE InHands(r)'
    BY <1>4, <1>7, Kinds DEF ScheduleJob
<1>8. ASSUME NEW s \in Crons, CronLists(s) \/ CronSkips(s) PROVE InHands(r)'
    BY <1>0, <1>8, HandsKept, Kinds DEF CronLists, CronSkips, LocalsOK
<1>9. ASSUME NEW s \in Starters, Find(s) PROVE InHands(r)'
  <2>1. CASE pc' = [pc EXCEPT ![s] = "create"] /\ UNCHANGED localVars
      BY <1>0, <1>9, <2>1, HandsKept, Kinds DEF Find, localVars, LocalsOK
  <2> QED
      BY <1>2, <1>9, <2>1 DEF Find
<1>10. ASSUME NEW s \in Starters, Create(s) PROVE InHands(r)'
  <2>1. CASE test[s] \in stored
      BY <1>0, <1>10, <2>1, HandsKept, Kinds DEF Create, LocalsOK
  <2> QED
      BY <1>2, <1>10, <2>1 DEF Create
<1>11. ASSUME NEW s \in Starters, Update(s) PROVE InHands(r)'
  <2>1. CASE test[s] \in stored
      BY <1>0, <1>11, <2>1, HandsKept, Kinds DEF Update, localVars, LocalsOK
  <2>2. CASE test[s] \notin stored
    <3>1. run[s] # r
        BY <1>0, <1>11, <2>2 DEF Update, Created
    <3> QED
        BY <1>2, <1>11, <2>2, <3>1 DEF Update
  <2> QED
      BY <2>1, <2>2
<1>12. ASSUME NEW s \in Starters, Enqueue(s) \/ EnqueueFails(s) PROVE InHands(r)'
  <2>1. /\ run[s] \in Runs /\ pc[s] = "enqueue" /\ pc[run[s]] \notin Execution
        /\ queue \subseteq queue'
      BY <1>0, <1>12, EnqueueCases, FreshExecutor
  <2>2. CASE Leaves(s) /\ queue' = queue \cup {run[s]}
      BY <1>2, <2>2
  <2>3. CASE ExecutesInProcess(s)
    <3>1. CASE run[s] = r
      <4>1. r \in Executors /\ pc'[r] = "read" /\ run'[r] = r
          BY <1>0, <2>1, <2>3, <3>1, InProcessFrame, Kinds
      <4> QED
          BY <4>1 DEF InHands
    <3>2. CASE run[s] # r
      <4>1. run[s] \notin Starters
          BY <2>1, Kinds
      <4>2. pc[run[s]] \notin Holding
          BY <1>0, <2>1, <4>1, Kinds DEF TypeInv, Proper
      <4> QED
          BY <1>0, <2>1, <2>3, <3>2, <4>2, InProcessFrame, HandsKept
    <3> QED
        BY <3>1, <3>2
  <2> QED
      BY <1>0, <1>12, <2>2, <2>3, EnqueueCases
<1>13. ASSUME NEW s \in Starters, StarterFails(s) PROVE InHands(r)'
    BY <1>2, <1>13 DEF StarterFails
<1>14. ASSUME NEW q \in Runs, RunJob(q) PROVE InHands(r)'
  <2>1. CASE q = r
    <3>1. pc'[Worker] = "read" /\ run'[Worker] = r
        BY <1>0, <1>14, <2>1, Kinds DEF RunJob, LocalsOK
    <3> QED
        BY <3>1, Kinds DEF InHands
  <2>2. CASE q # r /\ r \in queue
      BY <1>14, <2>2 DEF RunJob, InHands
  <2>3. CASE r \notin queue
      BY <1>0, <1>14, <2>3, Kinds DEF RunJob, LocalsOK, InHands
  <2> QED
      BY <2>1, <2>2, <2>3
<1>15. ASSUME NEW e \in Executors, Read(e) PROVE InHands(r)'
  <2>1. CASE row[run[e]] = "RUNNING"
      BY <1>0, <1>15, <2>1, HandsKept, Kinds DEF Read, localVars, LocalsOK
  <2> QED
      BY <1>3, <1>15, <2>1 DEF Read
<1>16. ASSUME NEW e \in Executors, K6(e) PROVE InHands(r)'
    BY <1>0, <1>16, HandsKept, Kinds DEF K6, LocalsOK
<1>17. ASSUME NEW e \in Executors, Finish(e) PROVE InHands(r)'
  <2>1. CASE row[run[e]] # "gone"
      BY <1>0, <1>17, <2>1, HandsKept, Kinds DEF Finish, localVars, LocalsOK
  <2> QED
      BY <1>3, <1>17, <2>1 DEF Finish
<1>18. ASSUME NEW e \in Executors, Notify(e) PROVE InHands(r)'
  <2>1. run[e] # r
      BY <1>0, <1>18 DEF Notify, Written, Ended
  <2> QED
      BY <1>3, <1>18, <2>1 DEF Notify
<1>19. ASSUME NEW e \in Executors, ExecutorFails(e) PROVE InHands(r)'
    BY <1>3, <1>19 DEF ExecutorFails
<1>20. ASSUME NEW t \in Tests, DeleteTest(t) \/ EditSchedule(t) PROVE InHands(r)'
    BY <1>1, <1>20 DEF DeleteTest, EditSchedule, localVars
<1>21. CASE UNCHANGED vars
    BY <1>1, <1>21 DEF vars, localVars
<1> QED
    BY <1>5, <1>6, <1>7, <1>8, <1>9, <1>10, <1>11, <1>12, <1>13, <1>14, <1>15, <1>16, <1>17,
       <1>18, <1>19, <1>20, <1>21
    DEF Next, CronStep, StartStep, ExecuteStep

\* A row that begins to be RUNNING is in the hands of the starter that created it.
LEMMA BeginsInHands ==
    ASSUME IInv, [Next]_vars, NEW r \in Runs, row[r] # "RUNNING", row'[r] = "RUNNING"
    PROVE  InHands(r)'
<1>0. TypeInv /\ LocalsOK /\ RowsOK
    BY TypeParts DEF IInv, TypeInv
<1>1. ASSUME NEW s \in Starters, NEW q \in Runs, CreatesRow(s, q) PROVE InHands(r)'
  <2>1. q = r /\ pc'[s] = "update" /\ run'[s] = r
      BY <1>0, <1>1, Kinds DEF CreatesRow, LocalsOK, RowsOK
  <2> QED
      BY <2>1 DEF InHands
<1>2. ASSUME NEW e \in Executors, Finish(e) PROVE FALSE
    BY <1>0, <1>2, FinishCases DEF Writes, Calm, RowsOK, Ended
<1>3. ASSUME NEW s \in Starters, Enqueue(s) \/ EnqueueFails(s) PROVE FALSE
    BY <1>0, <1>3, EnqueueCases DEF rowVars
<1>4. ASSUME NEW q \in Runs, RunJob(q) PROVE FALSE
    BY <1>4 DEF RunJob, rowVars
<1>5. ASSUME NEW t \in Tests, DeleteTest(t) PROVE FALSE
    BY <1>5 DEF DeleteTest
<1>6. CASE Crash
    BY <1>6 DEF Crash
<1>7. CASE Calm
    BY <1>7 DEF Calm
<1> QED
    BY <1>0, <1>1, <1>2, <1>3, <1>4, <1>5, <1>6, <1>7, CalmStep, CreateCases DEF HandOver

\* A run is orphaned by a crash or a failed database call only: what startRun and
\* execute do when the queue refuses, a reply is lost or a test is deleted leaves
\* every running run in somebody's hands.
THEOREM OrphansByFailure == Spec => OrphanedOnlyByFailure
<1>1. ASSUME IInv, [Next]_vars, NEW r \in Runs, Orphan(r)', ~ Orphan(r)
      PROVE  \/ Crash
             \/ \E s \in Starters : StarterFails(s) /\ run[s] = r
             \/ \E e \in Executors : ExecutorFails(e) /\ run[e] = r
    BY <1>1, HandsStep, BeginsInHands DEF Orphan
<1>2. IInv /\ [Next]_vars =>
          [\A r \in Runs : Orphan(r)' /\ ~ Orphan(r) =>
               \/ Crash
               \/ \E s \in Starters : StarterFails(s) /\ run[s] = r
               \/ \E e \in Executors : ExecutorFails(e) /\ run[e] = r]_vars
    BY <1>1
<1> QED
    BY Invariance, <1>2, PTL DEF Spec, OrphanedOnlyByFailure

-----------------------------------------------------------------------------
\* What is owed stays owed, or is lost, when no execution reaches notify and those
\* that are there stay what they are or leave.
LEMMA OwedKept ==
    ASSUME \A e \in Executors : pc'[e] = "notify" =>
               pc[e] = "notify" /\ run'[e] = run[e] /\ verdict'[e] = verdict[e]
    PROVE  Owed' \in SUBSET Owed
    BY DEF Owed

\* A step that writes no row and tells nobody is no step of the ledger, or a notice
\* lost.
LEMMA LosesOrStutters ==
    ASSUME UNCHANGED <<row, told, doubt>>, Owed' \in SUBSET Owed
    PROVE  Ledger!Next
    BY DEF Ledger!Next, Ledger!Lose

\* startRun returning or throwing, a new execution and a step that is calm and does
\* not tell leave what is owed alone.
LEMMA OwedSteps ==
    ASSUME IInv, [Next]_vars
    PROVE  /\ ~ HandOver /\ (\A e \in Executors : ~ Notify(e)) => Owed' \in SUBSET Owed
           /\ \A s \in Starters : Leaves(s) => Owed' \in SUBSET Owed
           /\ \A s \in Starters :
                 pc[s] = "enqueue" /\ ExecutesInProcess(s) => Owed' = Owed
           /\ \A e \in Executors : Throws(e) \/ Ends(e) => Owed' \in SUBSET Owed
<1>0. TypeInv /\ LocalsOK
    BY TypeParts DEF IInv, TypeInv
<1>1. ASSUME ~ HandOver PROVE Owed' \in SUBSET Owed
    BY <1>0, <1>1, NotifyByFinish, OwedKept DEF Same
<1>2. ASSUME NEW s \in Starters, Leaves(s) PROVE Owed' \in SUBSET Owed
    BY <1>0, <1>2, LeavesFrame, OwedKept, Kinds
<1>3. ASSUME NEW s \in Starters, pc[s] = "enqueue", ExecutesInProcess(s) PROVE Owed' = Owed
  <2>1. run[s] \in Runs /\ pc[run[s]] # "notify"
      BY <1>3, FreshExecutor DEF Execution
  <2>2. \A e \in Executors :
            /\ pc'[e] = "notify" <=> pc[e] = "notify"
            /\ pc[e] = "notify" => run'[e] = run[e] /\ verdict'[e] = verdict[e]
      BY <1>0, <1>3, <2>1, InProcessFrame, Kinds
  <2> QED
      BY <2>2 DEF Owed
<1>4. ASSUME NEW e \in Executors, Throws(e) \/ Ends(e) PROVE Owed' \in SUBSET Owed
    BY <1>0, <1>4, ThrowsFrame, OwedKept, Kinds
<1> QED
    BY <1>1, <1>2, <1>3, <1>4

\* notify tells what is owed, and owes it no longer; another execution may owe the
\* same about a run in doubt.
LEMMA NotifyTells ==
    ASSUME IInv, [Next]_vars, NEW e \in Executors, Notify(e)
    PROVE  Ledger!Tell(run[e])
<1> DEFINE notice == <<run[e], verdict[e]>>
<1>0. /\ TypeInv /\ LocalsOK /\ run[e] \in Runs /\ verdict[e] \in {"PASSED", "FAILED"}
      /\ pc[e] = "notify" /\ Executing(e)
    BY TypeParts DEF IInv, TypeInv, ExecutorPlaced, Notify, Execution, Ended
<1>1. UNCHANGED <<row, doubt>> /\ told' = [told EXCEPT ![run[e]] = <<verdict[e]>> \o @]
    BY DEF Notify, rowVars
<1>2. told[run[e]] = << >> \/ run[e] \in doubt
    BY <1>0 DEF Executing, Execution
<1>3. /\ pc'[e] = "idle"
      /\ \A d \in Executors \ {e} :
             pc'[d] = pc[d] /\ run'[d] = run[d] /\ verdict'[d] = verdict[d]
    BY <1>0, Kinds DEF Notify, Ends, LocalsOK
<1>4. notice \in Owed /\ Owed \ {notice} \subseteq Owed' /\ Owed' \subseteq Owed
    BY <1>0, <1>3 DEF Owed
<1>5. run[e] \notin doubt => notice \notin Owed'
  <2> SUFFICES ASSUME run[e] \notin doubt, NEW d \in Executors, pc'[d] = "notify",
                      <<run'[d], verdict'[d]>> = notice
               PROVE  FALSE
      BY DEF Owed
  <2>1. d # e /\ pc[d] = "notify" /\ run[d] = run[e]
      BY <1>3
  <2> QED
      BY <1>0, <2>1, Kinds DEF Executing, Alone, Execution, Holding
<1>6. Owed' = Owed \ {notice} \/ (run[e] \in doubt /\ Owed' = Owed)
    BY <1>4, <1>5
<1> QED
    BY <1>0, <1>1, <1>2, <1>4, <1>6 DEF Ledger!Tell, Ledger!Results

\* finish writes a result and owes it.
LEMMA FinishOwes ==
    ASSUME IInv, [Next]_vars, NEW e \in Executors, Finish(e)
    PROVE  Ledger!Next
<1>0. /\ TypeInv /\ LocalsOK /\ RowsOK /\ run[e] \in Runs /\ Executing(e)
      /\ pc[e] \in {"finish", "finishFailed"} /\ verdict[e] \in {"PASSED", "FAILED"}
      /\ UNCHANGED <<told, doubt>>
    BY FinishCases, TypeParts DEF IInv, TypeInv, Ended
<1>1. CASE /\ row[run[e]] # "gone" /\ Writes(e)
           /\ pc' = [pc EXCEPT ![e] = "notify"] /\ UNCHANGED localVars
  <2>1. row[run[e]] # "none"
      BY <1>0, Kinds DEF IInv, Unused, Execution, Holding
  <2>2. row[run[e]] = "RUNNING"
        \/ (run[e] \in doubt /\ row[run[e]] \in {"PASSED", "FAILED"})
      BY <1>0, <1>1, <2>1 DEF Executing, Execution, RowsOK, Ended
  <2>3. Owed' = Owed \cup {<<run[e], verdict[e]>>}
    <3>1. /\ pc'[e] = "notify" /\ pc[e] # "notify" /\ run' = run /\ verdict' = verdict
          /\ \A d \in Executors \ {e} : pc'[d] = pc[d]
        BY <1>0, <1>1, Kinds DEF LocalsOK, localVars
    <3> QED
        BY <3>1 DEF Owed
  <2>4. Ledger!Result(run[e])
      BY <1>0, <1>1, <2>2, <2>3 DEF Writes, Ledger!Result, Ledger!Results
  <2> QED
      BY <1>0, <2>4 DEF Ledger!Next
<1>2. CASE row[run[e]] = "gone" /\ Throws(e) /\ Calm
    BY <1>0, <1>2, OwedSteps, LosesOrStutters DEF Calm
<1> QED
    BY <1>0, <1>1, <1>2, FinishCases

\* Enqueue and its failures: only a lost reply casts doubt, and on a run without a
\* result.
LEMMA EnqueueDoubts ==
    ASSUME IInv, [Next]_vars, NEW s \in Starters, Enqueue(s) \/ EnqueueFails(s)
    PROVE  Ledger!Next
<1>0. /\ TypeInv /\ run[s] \in Runs /\ pc[s] = "enqueue" /\ UNCHANGED <<row, told>>
      /\ row[run[s]] \in {"RUNNING", "gone"}
    BY EnqueueCases DEF IInv, rowVars, Created, Creating
<1>1. CASE doubt' = doubt
    BY <1>0, <1>1, EnqueueCases, OwedSteps, LosesOrStutters
<1>2. CASE ExecutesInProcess(s) /\ doubt' = doubt \cup {run[s]}
  <2>1. Ledger!Doubt(run[s])
      BY <1>0, <1>2, OwedSteps DEF Ledger!Doubt
  <2> QED
      BY <1>0, <2>1 DEF Ledger!Next
<1> QED
    BY <1>0, <1>1, <1>2, EnqueueCases

\* Every step of startRun and execute is a step of the ledger or leaves it alone.
LEMMA LedgerStep == IInv /\ [Next]_vars => [Ledger!Next]_Ledger!vars
<1> SUFFICES ASSUME IInv, [Next]_vars PROVE Ledger!Next
    OBVIOUS
<1>0. TypeInv /\ LocalsOK /\ RowsOK
    BY TypeParts DEF IInv, TypeInv
<1>1. CASE ~ HandOver /\ ~ \E e \in Executors : Notify(e)
  <2>1. UNCHANGED <<row, told, doubt>>
      BY <1>0, <1>1, CalmStep, ToldKept, DoubtStays DEF Calm, HandOver
  <2> QED
      BY <1>1, <2>1, OwedSteps, LosesOrStutters
<1>2. ASSUME NEW e \in Executors, Notify(e) PROVE Ledger!Next
  <2>1. run[e] \in Runs
      BY <1>0, <1>2 DEF TypeInv, ExecutorPlaced, Notify, Execution
  <2> QED
      BY <1>2, <2>1, NotifyTells DEF Ledger!Next
<1>3. ASSUME NEW s \in Starters, Create(s) PROVE Ledger!Next
  <2>1. ASSUME NEW r \in Runs, CreatesRow(s, r) PROVE Ledger!Next
    <3>1. \A e \in Executors :
              /\ pc'[e] = "notify" <=> pc[e] = "notify"
              /\ pc[e] = "notify" => run'[e] = run[e] /\ verdict'[e] = verdict[e]
        BY <1>0, <1>3, <2>1, Kinds DEF Create, CreatesRow, LocalsOK
    <3>2. Owed' = Owed
        BY <3>1 DEF Owed
    <3>3. Ledger!Begin(r)
        BY <2>1, <3>2 DEF CreatesRow, Ledger!Begin
    <3> QED
        BY <3>3 DEF Ledger!Next
  <2>2. CASE Calm /\ UNCHANGED <<lastStatus, told, doubt>> /\ Leaves(s)
      BY <2>2, OwedSteps, LosesOrStutters DEF Calm
  <2> QED
      BY <1>0, <1>3, <2>1, <2>2, CreateCases
<1>4. ASSUME NEW r \in Runs, RunJob(r) PROVE Ledger!Next
  <2>1. \A e \in Executors : pc'[e] = "notify" =>
            pc[e] = "notify" /\ run'[e] = run[e] /\ verdict'[e] = verdict[e]
      BY <1>0, <1>4, Kinds DEF RunJob, LocalsOK
  <2> QED
      BY <1>4, <2>1, OwedKept, LosesOrStutters DEF RunJob, rowVars
<1>5. ASSUME NEW t \in Tests, DeleteTest(t) PROVE Ledger!Next
  <2> DEFINE R == {r \in Runs : testOf[r] = t}
  <2>1. \A r \in R : row[r] # "none"
      BY StressAssumption DEF IInv, Unused
  <2>2. row' = [r \in Runs |-> IF r \in R THEN "gone" ELSE row[r]]
      BY <1>5 DEF DeleteTest
  <2>3. Owed' = Owed /\ UNCHANGED <<told, doubt>>
      BY <1>5 DEF DeleteTest, localVars, Owed
  <2>4. Ledger!Delete(R)
      BY <2>1, <2>2, <2>3 DEF Ledger!Delete
  <2> QED
      BY <2>4 DEF Ledger!Next
<1>6. CASE Crash
  <2>1. \A e \in Executors : pc'[e] # "notify"
      BY <1>6, Kinds DEF Crash
  <2> QED
      BY <1>6, <2>1, OwedKept, LosesOrStutters DEF Crash
<1> QED
    BY <1>1, <1>2, <1>3, <1>4, <1>5, <1>6, FinishOwes, EnqueueDoubts DEF HandOver

\* startRun and execute implement the ledger: each run has one result, which is owed
\* from its transaction on and told once by notify, whatever happens to other runs.
THEOREM RefinesRunLedger == Spec => ImplementsRunLedger
<1>1. Init => Ledger!Init
  <2> SUFFICES ASSUME Init PROVE Ledger!Init
      OBVIOUS
  <2>1. Owed = {}
      BY Kinds DEF Init, Owed
  <2> QED
      BY <2>1 DEF Init, Ledger!Init
<1> QED
    BY <1>1, Invariance, LedgerStep, PTL DEF Spec, ImplementsRunLedger, Ledger!Spec
=============================================================================
