---------------------------- MODULE JobSchedulers ----------------------------
(***************************************************************************)
(* Two records of what is to be done periodically: the rows of the database *)
(* and the job schedulers BullMQ keeps in Redis.  MonitorService writes the *)
(* row and then calls syncJob; MonitorJobsSyncService makes the schedulers  *)
(* follow the rows when the process starts; MonitorCheckProcessor removes   *)
(* the scheduler of a monitor it finds gone or disabled.  StressTestService, *)
(* StressTestJobsSyncService and StressTestProcessor do the same with tests *)
(* and their schedules, but for the removal.                                *)
(***************************************************************************)
EXTENDS Naturals, FiniteSets

CONSTANTS
    Monitors, Tests,
    Editors,     \* mutations that may be open at the same time
    Workers,     \* slots of the worker of the monitor check queue
    TestWorkers, \* and of the stress test queue
    Intervals,   \* values of intervalSec and scheduleIntervalSec
    None,        \* no monitor and no test
    MaxEdits,    \* bound: mutations
    MaxFaults    \* bound: failed calls of Redis or the database, and crashes

ASSUME JobsAssumption ==
    /\ Editors \cap (Workers \cup TestWorkers) = {}
    /\ Workers \cap TestWorkers = {}
    /\ Monitors \cap Tests = {}
    /\ Intervals \subseteq Nat \ {0}
    /\ None \notin Monitors \cup Tests
    /\ MaxEdits \in Nat
    /\ MaxFaults \in Nat

Items    == Monitors \cup Tests
Takers   == Workers \cup TestWorkers
Procs    == Editors \cup Takers

VARIABLES
    life, enabled, intervalSec,  \* the rows: new, stored or deleted
    every,    \* the schedulers: the interval of each, 0 when there is none
    waiting,  \* items a job of whose scheduler waits in its queue
    boot,     \* the process: down, starting (onModuleInit), up
    todo,     \* local of onModuleInit: items it has not come to
    pc, item, \* where each mutation and worker slot is, what it is about
    decided,  \* what it is going to set the scheduler to, 0 for none
    crossed,  \* history: items of which a decision was lost, or overtaken by
              \* another one, since the last that came in time
    edits, faults

rowVars == <<life, enabled, intervalSec>>
locals  == <<pc, item, decided>>
vars    == <<rowVars, every, waiting, boot, todo, locals, crossed, edits,
             faults>>

TypeOK ==
    /\ life \in [Items -> {"new", "stored", "deleted"}]
    /\ enabled \in [Items -> BOOLEAN]
    /\ intervalSec \in [Items -> Intervals \cup {0}]
    /\ every \in [Items -> Intervals \cup {0}]
    /\ waiting \subseteq Items
    /\ boot \in {"down", "starting", "up"}
    /\ todo \subseteq Items
    /\ pc \in [Procs -> {"idle", "sync", "lookup", "run"}]
    /\ item \in [Procs -> Items \cup {None}]
    /\ decided \in [Procs -> Intervals \cup {0}]
    /\ crossed \subseteq Items
    /\ edits \in 0..MaxEdits
    /\ faults \in 0..MaxFaults

Init ==
    /\ life = [i \in Items |-> "new"]
    /\ enabled = [i \in Items |-> FALSE]
    /\ intervalSec = [i \in Items |-> 0]
    /\ every = [i \in Items |-> 0]
    /\ waiting = {}
    /\ boot = "down"
    /\ todo = {}
    /\ pc = [p \in Procs |-> "idle"]
    /\ item = [p \in Procs |-> None]
    /\ decided = [p \in Procs |-> 0]
    /\ crossed = {}
    /\ edits = 0
    /\ faults = 0

\* The worker slots of the queue that has the jobs of i.
SlotsOf(i) == IF i \in Monitors THEN Workers ELSE TestWorkers

Stored(i) == life[i] = "stored"

\* What syncJob makes of a row: upsertJobScheduler with its interval when it is
\* enabled, else removeJobScheduler.
Wanted(on, sec) == IF on THEN sec ELSE 0

\* What the row of i asks for now.
Plan(i) == IF Stored(i) THEN Wanted(enabled[i], intervalSec[i]) ELSE 0

\* What is on its way to Redis about i.
OnTheWay(i) == {p \in Procs : pc[p] = "sync" /\ item[p] = i}

\* The row of i is written, and asks for d now: decisions on the way that say
\* otherwise have been overtaken.
Overtakes(i, d) ==
    crossed' = IF \A p \in OnTheWay(i) : decided[p] = d THEN crossed ELSE crossed \cup {i}

Goes(p, where, i, d) ==
    /\ pc' = [pc EXCEPT ![p] = where]
    /\ item' = [item EXCEPT ![p] = i]
    /\ decided' = [decided EXCEPT ![p] = d]

Returns(p) == Goes(p, "idle", None, 0)

-----------------------------------------------------------------------------
(* Mutations, once the process is up. *)

Edits(e) ==
    /\ boot = "up"
    /\ pc[e] = "idle"
    /\ edits < MaxEdits
    /\ edits' = edits + 1
    /\ UNCHANGED <<every, waiting, boot, todo, faults>>

Puts(e, i) == \E on \in BOOLEAN, sec \in Intervals :
    /\ life' = [life EXCEPT ![i] = "stored"]
    /\ enabled' = [enabled EXCEPT ![i] = on]
    /\ intervalSec' = [intervalSec EXCEPT ![i] = sec]
    /\ Goes(e, "sync", i, Wanted(on, sec))
    /\ Overtakes(i, Wanted(on, sec))

\* createForUser up to the call of syncJob
Create(e, i) ==
    /\ Edits(e)
    /\ life[i] = "new"
    /\ Puts(e, i)

\* Mutation of Update: syncJob only when the edit mentions enabled.
UpdateSyncingSometimes(e, i) ==
    /\ Edits(e)
    /\ Stored(i)
    /\ \E sec \in Intervals : intervalSec' = [intervalSec EXCEPT ![i] = sec]
    /\ UNCHANGED <<life, enabled, locals, crossed>>

\* updateForUser: a column its input leaves out is written back as it was read
\* some time before, so any value may be written.
Update(e, i) ==
    /\ Edits(e)
    /\ Stored(i)
    /\ Puts(e, i)

\* Mutation of Delete: the row only.
DeleteRowOnly(e, i) ==
    /\ Edits(e)
    /\ Stored(i)
    /\ life' = [life EXCEPT ![i] = "deleted"]
    /\ enabled' = [enabled EXCEPT ![i] = FALSE]
    /\ intervalSec' = [intervalSec EXCEPT ![i] = 0]
    /\ UNCHANGED <<locals, crossed>>

\* deleteForUser up to the removal of the scheduler
Delete(e, i) ==
    /\ Edits(e)
    /\ Stored(i)
    /\ life' = [life EXCEPT ![i] = "deleted"]
    /\ enabled' = [enabled EXCEPT ![i] = FALSE]
    /\ intervalSec' = [intervalSec EXCEPT ![i] = 0]
    /\ Goes(e, "sync", i, 0)
    /\ Overtakes(i, 0)

\* Redis does what syncJob, or the processor, asked for.  A job that is already
\* waiting stays.
Sync(p) ==
    /\ pc[p] = "sync"
    /\ every' = [every EXCEPT ![item[p]] = decided[p]]
    /\ Returns(p)
    /\ crossed' = IF \A q \in OnTheWay(item[p]) : decided[q] = Plan(item[p])
                  THEN crossed \ {item[p]} ELSE crossed
    /\ UNCHANGED <<rowVars, waiting, boot, todo, edits, faults>>

-----------------------------------------------------------------------------
(* The worker. *)

\* BullMQ: a scheduler produces its next job.
Produce(i) ==
    /\ every[i] # 0
    /\ i \notin waiting
    /\ waiting' = waiting \cup {i}
    /\ UNCHANGED <<rowVars, every, boot, todo, locals, crossed, edits, faults>>

Take(w, i) ==
    /\ w \in SlotsOf(i)
    /\ boot # "down"
    /\ pc[w] = "idle"
    /\ i \in waiting
    /\ waiting' = waiting \ {i}
    /\ Goes(w, "lookup", i, 0)
    /\ UNCHANGED <<rowVars, every, boot, todo, crossed, edits, faults>>

\* Mutation of Lookup: the job of a monitor that is gone or disabled is dropped.
LookupReturning(w) ==
    /\ pc[w] = "lookup"
    /\ IF Plan(item[w]) # 0 THEN Goes(w, "run", item[w], 0) ELSE Returns(w)
    /\ UNCHANGED <<rowVars, every, waiting, boot, todo, crossed, edits, faults>>

\* process, or runScheduled for a test: findUnique, and what to do about its
\* answer.  Nothing removes the scheduler of a test.
Lookup(w) ==
    /\ pc[w] = "lookup"
    /\ \/ /\ Plan(item[w]) # 0
          /\ Goes(w, "run", item[w], 0)
       \/ /\ Plan(item[w]) = 0 /\ w \in Workers
          /\ Goes(w, "sync", item[w], 0)
       \/ /\ Plan(item[w]) = 0 /\ w \in TestWorkers
          /\ Returns(w)
    /\ UNCHANGED <<rowVars, every, waiting, boot, todo, crossed, edits, faults>>

\* runner.run, or startRun, the subject of other modules
Run(w) ==
    /\ pc[w] = "run"
    /\ Returns(w)
    /\ UNCHANGED <<rowVars, every, waiting, boot, todo, crossed, edits, faults>>

-----------------------------------------------------------------------------
(* The life of the process. *)

\* onModuleInit lists the rows.  The server does not listen yet, so the list
\* does not grow old; the worker, however, may be at work.
BootLists ==
    /\ boot = "down"
    /\ boot' = "starting"
    /\ todo' = {i \in Items : Stored(i)}
    /\ UNCHANGED <<rowVars, every, waiting, locals, crossed, edits, faults>>

\* Mutation of BootSyncs: it schedules and never unschedules.
BootSchedules(i) ==
    /\ boot = "starting"
    /\ i \in todo
    /\ every' = [every EXCEPT ![i] = IF Plan(i) # 0 THEN Plan(i) ELSE @]
    /\ todo' = todo \ {i}
    /\ crossed' = crossed \ {i}
    /\ UNCHANGED <<rowVars, waiting, boot, locals, edits, faults>>

BootSyncs(i) ==
    /\ boot = "starting"
    /\ i \in todo
    /\ every' = [every EXCEPT ![i] = Plan(i)]
    /\ todo' = todo \ {i}
    /\ crossed' = crossed \ {i}
    /\ UNCHANGED <<rowVars, waiting, boot, locals, edits, faults>>

BootEnds ==
    /\ boot = "starting"
    /\ todo = {}
    /\ boot' = "up"
    /\ UNCHANGED <<rowVars, every, waiting, todo, locals, crossed, edits, faults>>

Fault == faults < MaxFaults /\ faults' = faults + 1

\* A call of Redis or the database throws and the mutation, or the job, with it:
\* the row stays written.
CallFails(p) ==
    /\ pc[p] \in {"sync", "lookup"}
    /\ Fault
    /\ Returns(p)
    /\ crossed' = IF pc[p] = "sync" THEN crossed \cup {item[p]} ELSE crossed
    /\ UNCHANGED <<rowVars, every, waiting, boot, todo, edits>>

\* The process dies, or fails to start because a call of onModuleInit threw.
\* BullMQ hands out the job of a dead worker again.
Crash ==
    /\ boot # "down"
    /\ Fault
    /\ boot' = "down"
    /\ todo' = {}
    /\ pc' = [p \in Procs |-> "idle"]
    /\ item' = [p \in Procs |-> None]
    /\ decided' = [p \in Procs |-> 0]
    /\ waiting' = waiting \cup {item[w] : w \in {v \in Takers : pc[v] # "idle"}}
    /\ crossed' = crossed \cup {i \in Items : OnTheWay(i) # {}}
    /\ UNCHANGED <<rowVars, every, edits>>

-----------------------------------------------------------------------------
Boot == BootLists \/ BootEnds \/ \E i \in Items : BootSyncs(i)

Work(w) == Lookup(w) \/ Run(w) \/ Sync(w)

Next ==
    \/ \E e \in Editors, i \in Items : Create(e, i) \/ Update(e, i) \/ Delete(e, i)
    \/ \E e \in Editors : Sync(e)
    \/ \E i \in Items : Produce(i)
    \/ \E w \in Takers : Work(w) \/ \E i \in Items : Take(w, i)
    \/ \E p \in Procs : CallFails(p)
    \/ Boot
    \/ Crash

Spec == Init /\ [][Next]_vars

\* The process is started again, calls answer or fail, schedulers produce and
\* the queue is served in turn.  Users owe nothing.
Fairness ==
    /\ WF_vars(Boot)
    /\ \A e \in Editors : WF_vars(Sync(e))
    /\ \A w \in Takers : WF_vars(Work(w))
    /\ \A i \in Items : WF_vars(Produce(i)) /\ SF_vars(\E w \in Takers : Take(w, i))

FairSpec == Spec /\ Fairness

-----------------------------------------------------------------------------
(* Properties. *)

Agrees(i) == every[i] = Plan(i)

\* A decision about i that its row has overtaken, or that is about to be taken
\* to Redis as the row asks.
Pending(i, d) == \E p \in OnTheWay(i) : decided[p] = d

\* Every monitor and test has the scheduler its row asks for, or is about to get
\* it, unless the last decision about it was lost or crossed with another one: a
\* scheduler that survives its test, or is missing, tells of nothing else.
SchedulesAsPlanned == \A i \in Items \ crossed : Agrees(i) \/ Pending(i, Plan(i))

\* A scheduler that agrees with its row ceases to in two ways only: the row is
\* written, and then its own decision is on the way; or a decision arrives that
\* was taken on a row that is no longer so.  Neither the start of the process,
\* nor its death, nor a failed call adds a third.
DriftsOnlyByLateSync ==
    [][\A i \in Items : Agrees(i) /\ ~ Agrees(i)' =>
          \/ every'[i] = every[i] /\ Pending(i, Plan(i))'
          \/ \E p \in Procs : /\ pc[p] = "sync" /\ pc'[p] = "idle" /\ item[p] = i
                              /\ every'[i] = decided[p] /\ decided[p] # Plan(i)]_vars

\* When the process has started every monitor and test has the scheduler its
\* row asks for, whatever the last process left behind and whatever the worker
\* did meanwhile.
BootRepairs ==
    [][boot # "up" /\ boot' = "up" => \A i \in Items : Stored(i) => Agrees(i)']_vars

\* A scheduler left behind by a failed call, a crash or two crossing edits goes
\* away: each of its jobs finds the monitor gone or disabled and removes it.  (The
\* jobs of tests do not.)
LeftoversGo ==
    \A i \in Monitors : []<>(every[i] # 0 => Plan(i) # 0)

\* "schedules enabled monitors and unschedules disabled ones": with the process
\* up and nothing open, an enabled monitor has its scheduler.
EnabledIsScheduled ==
    boot = "up" /\ (\A p \in Procs : pc[p] = "idle") =>
        \A i \in Monitors : Plan(i) # 0 => every[i] = Plan(i)
===============================================================================
