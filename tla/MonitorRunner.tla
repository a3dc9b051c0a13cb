---------------------------- MODULE MonitorRunner ----------------------------
(***************************************************************************)
(* Checking a monitor: MonitorRunnerService (src/src/monitor/               *)
(* monitor-runner.service.ts) with the alert policy it asks                 *)
(* (monitor-alert.service.ts) and its three kinds of caller: overlapping    *)
(* runs of the 10-second cron (checkDue), BullMQ workers                    *)
(* (monitor-check.processor.ts) and forced checks of a user (checkForUser). *)
(*                                                                          *)
(* The callers share the database row of each monitor and the in-memory set *)
(* inFlight.  Code between two awaits runs alone: one action is one database *)
(* access with the code that follows it up to the next await, or, where that *)
(* code looks at inFlight, one of the two.                                  *)
(* Time is a count of ticks from 1; 0 stands for a null Date.               *)
(***************************************************************************)
EXTENDS Integers, FiniteSets

CONSTANTS
    Monitors,
    Workers,      \* executions of the cron handler, or BullMQ worker slots
    Requests,     \* forced checks that may be open at the same time
    None,         \* no monitor
    INTERVAL,     \* intervalSec of a monitor, in ticks
    COOLDOWN,     \* ALERT_COOLDOWN_SEC, in ticks
    PrefChoices,  \* alert preferences the settings may hold when they are read
    MaxTime,      \* bound of the clock
    MaxFaults,    \* bound: failed database calls and crashes
    MaxEdits      \* bound: edits of a monitor by its user

Callers == Workers \cup Requests
Status  == {"UNKNOWN", "UP", "DOWN"}
Event   == {"down", "recover"}
Time    == Nat
Prefs   == [onDown : BOOLEAN, onRecover : BOOLEAN, fleetMuted : BOOLEAN, until : Time]

ASSUME RunnerAssumption ==
    /\ Workers \cap Requests = {}
    /\ None \notin Monitors
    /\ INTERVAL \in Nat
    /\ COOLDOWN \in Nat
    /\ PrefChoices \subseteq Prefs
    /\ MaxTime \in Nat \ {0}
    /\ MaxFaults \in Nat
    /\ MaxEdits \in Nat

VARIABLES
    now,          \* the wall clock
    jobsEnabled,  \* areJobsEnabled(): BullMQ workers instead of the cron
    life,         \* the monitor's row: not created yet, stored, deleted
    enabled, alertsMuted, lastStatus, lastCheckedAt,  \* its columns
    notifiedAt,   \* lastDownNotifiedAt and lastRecoverNotifiedAt
    newest,       \* checkedAt of the newest MonitorCheck row, 0 when there is none
    inFlight,     \* MonitorRunnerService.inFlight
    pc,           \* where each caller is
    mon, prev, result, at,  \* locals of run: id, previousStatus, status, checkedAt
    updated,      \* local of run: what the alert policy looks at in the updated row
    todo, seen,   \* locals of checkDue: monitors left, lastCheckedAt as listed
    from, told,   \* history: the status before the current one, alerts sent since
    unstamped,    \* history: kinds of alert created and not (yet) recorded in the row
    faults, edits \* counters of the bounds

userVars  == <<enabled, alertsMuted>>
checkVars == <<lastStatus, lastCheckedAt, notifiedAt, newest>>
callVars  == <<mon, prev, result, at, updated>>
tickVars  == <<todo, seen>>
alertVars == <<from, told, unstamped>>
vars == <<now, jobsEnabled, life, userVars, checkVars, inFlight, pc, callVars,
          tickVars, alertVars, faults, edits>>

\* run holds its monitor in inFlight in exactly these places.
Running == {"load", "probe", "write", "record", "settings", "create", "stamp",
            "return"}

TypeOK ==
    /\ now \in Time
    /\ jobsEnabled \in BOOLEAN
    /\ life \in [Monitors -> {"new", "stored", "deleted"}]
    /\ enabled \in [Monitors -> BOOLEAN]
    /\ alertsMuted \in [Monitors -> BOOLEAN]
    /\ lastStatus \in [Monitors -> Status]
    /\ lastCheckedAt \in [Monitors -> Time]
    /\ notifiedAt \in [Monitors -> [Event -> Time]]
    /\ newest \in [Monitors -> Time]
    /\ inFlight \subseteq Monitors
    /\ pc \in [Callers -> {"idle", "loop", "start"} \cup Running]
    /\ mon \in [Callers -> Monitors \cup {None}]
    /\ prev \in [Callers -> Status]
    /\ result \in [Callers -> Status]
    /\ at \in [Callers -> Time]
    /\ updated \in [Callers -> [muted : BOOLEAN, notifiedAt : [Event -> Time]]]
    /\ todo \in [Workers -> SUBSET Monitors]
    /\ seen \in [Workers -> [Monitors -> Time]]
    /\ from \in [Monitors -> Status]
    /\ told \in [Monitors -> Nat]
    /\ unstamped \in [Monitors -> SUBSET Event]
    /\ faults \in 0..MaxFaults
    /\ edits \in 0..MaxEdits

Never   == [e \in Event |-> 0]
NoRow   == [muted |-> FALSE, notifiedAt |-> Never]

Init ==
    /\ now = 1
    /\ jobsEnabled \in BOOLEAN
    /\ life = [m \in Monitors |-> "new"]
    /\ enabled = [m \in Monitors |-> FALSE]
    /\ alertsMuted = [m \in Monitors |-> FALSE]
    /\ lastStatus = [m \in Monitors |-> "UNKNOWN"]
    /\ lastCheckedAt = [m \in Monitors |-> 0]
    /\ notifiedAt = [m \in Monitors |-> Never]
    /\ newest = [m \in Monitors |-> 0]
    /\ inFlight = {}
    /\ pc = [c \in Callers |-> "idle"]
    /\ mon = [c \in Callers |-> None]
    /\ prev = [c \in Callers |-> "UNKNOWN"]
    /\ result = [c \in Callers |-> "UNKNOWN"]
    /\ at = [c \in Callers |-> 0]
    /\ updated = [c \in Callers |-> NoRow]
    /\ todo = [w \in Workers |-> {}]
    /\ seen = [w \in Workers |-> [m \in Monitors |-> 0]]
    /\ from = [m \in Monitors |-> "UNKNOWN"]
    /\ told = [m \in Monitors |-> 0]
    /\ unstamped = [m \in Monitors |-> {}]
    /\ faults = 0
    /\ edits = 0

Stored(m) == life[m] = "stored"

\* isMonitorDue, on whatever value of lastCheckedAt the caller holds
Due(checkedAt) == checkedAt = 0 \/ checkedAt + INTERVAL <= now

\* Mutation of EventOf: without the exception for the first answer.
EventOfAnyChange(previous, next) ==
    CASE previous = next -> "none"
      [] next = "DOWN"   -> "down"
      [] OTHER           -> "recover"

\* The event notifyStatusChange sees in a change of status, if any: the first
\* answer of a healthy monitor is none.
EventOf(previous, next) ==
    CASE previous # next /\ next = "DOWN"           -> "down"
      [] previous = "DOWN" /\ next = "UP"           -> "recover"
      [] OTHER                                      -> "none"

\* Mutation of MayNotify: the cooldown of the other kind of alert.
MayNotifyOtherCooldown(prefs, r, event) ==
    LET other == IF event = "down" THEN "recover" ELSE "down"
    IN  /\ IF event = "down" THEN prefs.onDown ELSE prefs.onRecover
        /\ ~ r.muted
        /\ ~ prefs.fleetMuted
        /\ prefs.until <= now
        /\ \/ r.notifiedAt[other] = 0
           \/ now - r.notifiedAt[other] >= COOLDOWN

\* Mutation of MayNotify: > for >= at the end of the cooldown.
MayNotifyStrict(prefs, r, event) ==
    /\ IF event = "down" THEN prefs.onDown ELSE prefs.onRecover
    /\ ~ r.muted
    /\ ~ prefs.fleetMuted
    /\ prefs.until <= now
    /\ \/ r.notifiedAt[event] = 0
       \/ now - r.notifiedAt[event] > COOLDOWN

\* notifyOnDown / notifyOnRecover, then MonitorAlertService.shouldNotify
MayNotify(prefs, r, event) ==
    /\ IF event = "down" THEN prefs.onDown ELSE prefs.onRecover
    /\ ~ r.muted
    /\ ~ prefs.fleetMuted
    /\ prefs.until <= now
    /\ \/ r.notifiedAt[event] = 0
       \/ now - r.notifiedAt[event] >= COOLDOWN

-----------------------------------------------------------------------------
(* Who calls run. *)

\* A call of run for m begins, or c has no call open.
Calls(c, m, t) ==
    /\ mon' = [mon EXCEPT ![c] = m]
    /\ at' = [at EXCEPT ![c] = t]
    /\ UNCHANGED <<prev, result, updated>>

Forgets(c) ==
    /\ mon' = [mon EXCEPT ![c] = None]
    /\ prev' = [prev EXCEPT ![c] = "UNKNOWN"]
    /\ result' = [result EXCEPT ![c] = "UNKNOWN"]
    /\ at' = [at EXCEPT ![c] = 0]
    /\ updated' = [updated EXCEPT ![c] = NoRow]

\* checkDue lists the enabled monitors ...
TickLists(w) ==
    LET listed == {m \in Monitors : Stored(m) /\ enabled[m]}
    IN  /\ ~ jobsEnabled
        /\ pc[w] = "idle"
        /\ pc' = [pc EXCEPT ![w] = "loop"]
        /\ todo' = [todo EXCEPT ![w] = listed]
        /\ seen' = [seen EXCEPT ![w] =
               [m \in Monitors |-> IF m \in listed THEN lastCheckedAt[m] ELSE 0]]
        /\ UNCHANGED <<now, jobsEnabled, life, userVars, checkVars, inFlight, callVars,
                       alertVars, faults, edits>>

\* ... and takes them one by one, in the order the database returned: one that
\* was not due when it was listed, or is being checked, is passed over ...
TickSkips(w) == \E m \in todo[w] :
    /\ pc[w] = "loop"
    /\ ~ Due(seen[w][m]) \/ m \in inFlight
    /\ todo' = [todo EXCEPT ![w] = @ \ {m}]
    /\ UNCHANGED <<now, jobsEnabled, life, userVars, checkVars, inFlight, pc, callVars,
                   seen, alertVars, faults, edits>>

\* ... any other is run; no await separates this from the first line of run.
TickRuns(w) == \E m \in todo[w] :
    /\ pc[w] = "loop"
    /\ Due(seen[w][m])
    /\ m \notin inFlight
    /\ todo' = [todo EXCEPT ![w] = @ \ {m}]
    /\ inFlight' = inFlight \cup {m}
    /\ pc' = [pc EXCEPT ![w] = "load"]
    /\ Calls(w, m, 0)
    /\ UNCHANGED <<now, jobsEnabled, life, userVars, checkVars, seen, alertVars, faults,
                   edits>>

TickEnds(w) ==
    /\ pc[w] = "loop"
    /\ todo[w] = {}
    /\ pc' = [pc EXCEPT ![w] = "idle"]
    /\ seen' = [seen EXCEPT ![w] = [m \in Monitors |-> 0]]
    /\ UNCHANGED <<now, jobsEnabled, life, userVars, checkVars, inFlight, callVars, todo,
                   alertVars, faults, edits>>

\* The BullMQ worker looks the monitor up, whatever became of it since the job
\* was queued; the job of one that is gone or disabled ends here (with the
\* removal of its scheduler, which module JobSchedulers models).
JobLookup(w, m) ==
    /\ jobsEnabled
    /\ pc[w] = "idle"
    /\ Stored(m) /\ enabled[m]
    /\ pc' = [pc EXCEPT ![w] = "start"]
    /\ Calls(w, m, 0)
    /\ UNCHANGED <<now, jobsEnabled, life, userVars, checkVars, inFlight, tickVars,
                   alertVars, faults, edits>>

\* checkForUser: requireOwned, enabled or not.  at is when it was asked for.
RequestCheck(c, m) ==
    /\ pc[c] = "idle"
    /\ Stored(m)
    /\ pc' = [pc EXCEPT ![c] = "start"]
    /\ Calls(c, m, now)
    /\ UNCHANGED <<now, jobsEnabled, life, userVars, checkVars, inFlight, tickVars,
                   alertVars, faults, edits>>

-----------------------------------------------------------------------------
(* run. *)

\* What a caller goes back to when its call of run is over.
Home(c) == IF c \in Workers /\ ~ jobsEnabled THEN "loop" ELSE "idle"

\* Mutation of StartRun: without the look at inFlight.
StartRunUnguarded(c) ==
    /\ pc[c] = "start"
    /\ inFlight' = inFlight \cup {mon[c]}
    /\ pc' = [pc EXCEPT ![c] = "load"]
    /\ UNCHANGED <<now, jobsEnabled, life, userVars, checkVars, callVars, tickVars,
                   alertVars, faults, edits>>

StartRun(c) ==
    /\ pc[c] = "start"
    /\ mon[c] \notin inFlight
    /\ inFlight' = inFlight \cup {mon[c]}
    /\ pc' = [pc EXCEPT ![c] = "load"]
    /\ UNCHANGED <<now, jobsEnabled, life, userVars, checkVars, callVars, tickVars,
                   alertVars, faults, edits>>

\* Somebody else is checking it: the call reads the row and returns it as it is
\* (or throws, when there is none).
JoinRun(c) ==
    /\ pc[c] = "start"
    /\ mon[c] \in inFlight
    /\ pc' = [pc EXCEPT ![c] = "idle"]
    /\ Forgets(c)
    /\ UNCHANGED <<now, jobsEnabled, life, userVars, checkVars, inFlight, tickVars,
                   alertVars, faults, edits>>

\* requireById; NotFoundException goes to the finally block.
Load(c) ==
    /\ pc[c] = "load"
    /\ IF Stored(mon[c])
       THEN /\ prev' = [prev EXCEPT ![c] = lastStatus[mon[c]]]
            /\ pc' = [pc EXCEPT ![c] = "probe"]
       ELSE /\ pc' = [pc EXCEPT ![c] = "return"]
            /\ UNCHANGED prev
    /\ UNCHANGED <<now, jobsEnabled, life, userVars, checkVars, inFlight, mon, result,
                   at, updated, tickVars, alertVars, faults, edits>>

\* The probe answers UP or DOWN, it never throws; checkedAt is taken then.
Probe(c) == \E s \in {"UP", "DOWN"} :
    /\ pc[c] = "probe"
    /\ result' = [result EXCEPT ![c] = s]
    /\ at' = [at EXCEPT ![c] = now]
    /\ pc' = [pc EXCEPT ![c] = "write"]
    /\ UNCHANGED <<now, jobsEnabled, life, userVars, checkVars, inFlight, mon, prev,
                   updated, tickVars, alertVars, faults, edits>>

\* monitor.update returns the row it wrote, which the alert policy will be asked
\* about; it throws when the row is gone.
Write(c) ==
    LET m == mon[c]
    IN  /\ pc[c] = "write"
        /\ IF Stored(m)
           THEN /\ lastStatus' = [lastStatus EXCEPT ![m] = result[c]]
                /\ lastCheckedAt' = [lastCheckedAt EXCEPT ![m] = at[c]]
                /\ updated' = [updated EXCEPT ![c] =
                       [muted |-> alertsMuted[m], notifiedAt |-> notifiedAt[m]]]
                /\ IF lastStatus[m] = result[c] THEN UNCHANGED <<from, told>>
                   ELSE /\ from' = [from EXCEPT ![m] = lastStatus[m]]
                        /\ told' = [told EXCEPT ![m] = 0]
                /\ pc' = [pc EXCEPT ![c] = "record"]
           ELSE /\ pc' = [pc EXCEPT ![c] = "return"]
                /\ UNCHANGED <<lastStatus, lastCheckedAt, updated, from, told>>
        /\ UNCHANGED <<now, jobsEnabled, life, userVars, notifiedAt, newest, inFlight,
                       mon, prev, result, at, tickVars, unstamped, faults, edits>>

\* Mutation of Record: the history is written only when there is news.
RecordOnlyNews(c) ==
    LET news == Stored(mon[c]) /\ EventOf(prev[c], result[c]) # "none"
    IN  /\ pc[c] = "record"
        /\ newest' = IF news THEN [newest EXCEPT ![mon[c]] = at[c]] ELSE newest
        /\ pc' = [pc EXCEPT ![c] = IF news THEN "settings" ELSE "return"]
        /\ UNCHANGED <<now, jobsEnabled, life, userVars, lastStatus, lastCheckedAt,
                       notifiedAt, inFlight, callVars, tickVars, alertVars, faults, edits>>

\* history.record, which throws on the foreign key of a deleted monitor; then
\* the publication and the early returns of notifyStatusChange.
Record(c) ==
    LET m == mon[c]
    IN  /\ pc[c] = "record"
        /\ newest' = IF Stored(m) /\ at[c] > newest[m]
                     THEN [newest EXCEPT ![m] = at[c]] ELSE newest
        /\ pc' = [pc EXCEPT ![c] =
                     IF Stored(m) /\ EventOf(prev[c], result[c]) # "none"
                     THEN "settings" ELSE "return"]
        /\ UNCHANGED <<now, jobsEnabled, life, userVars, lastStatus, lastCheckedAt,
                       notifiedAt, inFlight, callVars, tickVars, alertVars, faults, edits>>

\* settings.getForUser answers and the policy is asked about the row of Write.
Decide(c) == \E prefs \in PrefChoices :
    /\ pc[c] = "settings"
    /\ pc' = [pc EXCEPT ![c] =
                 IF MayNotify(prefs, updated[c], EventOf(prev[c], result[c]))
                 THEN "create" ELSE "return"]
    /\ UNCHANGED <<now, jobsEnabled, life, userVars, checkVars, inFlight, callVars,
                   tickVars, alertVars, faults, edits>>

\* notifications.createForUser: the alert exists from here on.  A notification
\* has no foreign key to the monitor, so it is made for a deleted one as well.
\* alertDelivery.deliver comes next, settles every channel and never throws.
CreateAlert(c) ==
    LET m == mon[c]
        e == EventOf(prev[c], result[c])
    IN  /\ pc[c] = "create"
        /\ IF Stored(m)
           THEN /\ told' = [told EXCEPT ![m] = @ + 1]
                /\ unstamped' = [unstamped EXCEPT ![m] = @ \cup {e}]
           ELSE UNCHANGED <<told, unstamped>>
        /\ pc' = [pc EXCEPT ![c] = "stamp"]
        /\ UNCHANGED <<now, jobsEnabled, life, userVars, checkVars, inFlight, callVars,
                       tickVars, from, faults, edits>>

\* alertPolicy.recordNotified; on a deleted row it throws and is caught.
Stamp(c) ==
    LET m == mon[c]
        e == EventOf(prev[c], result[c])
    IN  /\ pc[c] = "stamp"
        /\ IF Stored(m)
           THEN /\ notifiedAt' = [notifiedAt EXCEPT ![m] = [@ EXCEPT ![e] = now]]
                /\ unstamped' = [unstamped EXCEPT ![m] = @ \ {e}]
           ELSE UNCHANGED <<notifiedAt, unstamped>>
        /\ pc' = [pc EXCEPT ![c] = "return"]
        /\ UNCHANGED <<now, jobsEnabled, life, userVars, lastStatus, lastCheckedAt, newest,
                       inFlight, callVars, tickVars, from, told, faults, edits>>

\* Mutation of Return: the monitor stays in inFlight.
ReturnKeepingLock(c) ==
    /\ pc[c] = "return"
    /\ pc' = [pc EXCEPT ![c] = Home(c)]
    /\ Forgets(c)
    /\ UNCHANGED <<now, jobsEnabled, life, userVars, checkVars, inFlight, tickVars,
                   alertVars, faults, edits>>

\* The finally block; checkDue swallows what run threw and goes on.
Return(c) ==
    /\ pc[c] = "return"
    /\ inFlight' = inFlight \ {mon[c]}
    /\ pc' = [pc EXCEPT ![c] = Home(c)]
    /\ Forgets(c)
    /\ UNCHANGED <<now, jobsEnabled, life, userVars, checkVars, tickVars, alertVars,
                   faults, edits>>

-----------------------------------------------------------------------------
(* The environment. *)

\* Mutation of DatabaseFails: inFlight.delete after the last line, not in finally.
DatabaseFailsWithoutFinally(c) ==
    /\ faults < MaxFaults
    /\ pc[c] \in {"load", "write", "record", "settings", "create", "stamp"}
    /\ faults' = faults + 1
    /\ pc' = [pc EXCEPT ![c] = Home(c)]
    /\ Forgets(c)
    /\ UNCHANGED <<now, jobsEnabled, life, userVars, checkVars, inFlight, tickVars,
                   alertVars, edits>>

\* A database call of run fails: it throws, whatever the place, and whether
\* notifyStatusChange catches it or not the finally block comes next.  Of the
\* calls of history.record the first may have succeeded.
DatabaseFails(c) ==
    /\ faults < MaxFaults
    /\ pc[c] \in {"load", "write", "record", "settings", "create", "stamp"}
    /\ faults' = faults + 1
    /\ pc' = [pc EXCEPT ![c] = "return"]
    /\ \/ newest' = newest
       \/ /\ pc[c] = "record" /\ Stored(mon[c])
          /\ newest' = [newest EXCEPT ![mon[c]] = at[c]]
    /\ UNCHANGED <<now, jobsEnabled, life, userVars, lastStatus, lastCheckedAt,
                   notifiedAt, inFlight, callVars, tickVars, alertVars, edits>>

\* The process dies; everything in memory is gone, the database stays.
Restart ==
    /\ faults < MaxFaults
    /\ faults' = faults + 1
    /\ inFlight' = {}
    /\ pc' = [c \in Callers |-> "idle"]
    /\ mon' = [c \in Callers |-> None]
    /\ prev' = [c \in Callers |-> "UNKNOWN"]
    /\ result' = [c \in Callers |-> "UNKNOWN"]
    /\ at' = [c \in Callers |-> 0]
    /\ updated' = [c \in Callers |-> NoRow]
    /\ todo' = [w \in Workers |-> {}]
    /\ seen' = [w \in Workers |-> [m \in Monitors |-> 0]]
    /\ UNCHANGED <<now, jobsEnabled, life, userVars, checkVars, alertVars, edits>>

CreateMonitor(m) == \E on \in BOOLEAN :
    /\ life[m] = "new"
    /\ life' = [life EXCEPT ![m] = "stored"]
    /\ enabled' = [enabled EXCEPT ![m] = on]
    /\ UNCHANGED <<now, jobsEnabled, alertsMuted, checkVars, inFlight, pc, callVars,
                   tickVars, alertVars, faults, edits>>

\* updateForUser writes these two columns with the others of the form; it never
\* touches those a check writes.
EditMonitor(m) == \E on \in BOOLEAN, mute \in BOOLEAN :
    /\ edits < MaxEdits
    /\ edits' = edits + 1
    /\ Stored(m)
    /\ enabled' = [enabled EXCEPT ![m] = on]
    /\ alertsMuted' = [alertsMuted EXCEPT ![m] = mute]
    /\ UNCHANGED <<now, jobsEnabled, life, checkVars, inFlight, pc, callVars, tickVars,
                   alertVars, faults>>

\* The row goes, and its check rows with it (onDelete: Cascade).
DeleteMonitor(m) ==
    /\ edits < MaxEdits
    /\ edits' = edits + 1
    /\ Stored(m)
    /\ life' = [life EXCEPT ![m] = "deleted"]
    /\ enabled' = [enabled EXCEPT ![m] = FALSE]
    /\ alertsMuted' = [alertsMuted EXCEPT ![m] = FALSE]
    /\ lastStatus' = [lastStatus EXCEPT ![m] = "UNKNOWN"]
    /\ lastCheckedAt' = [lastCheckedAt EXCEPT ![m] = 0]
    /\ notifiedAt' = [notifiedAt EXCEPT ![m] = Never]
    /\ newest' = [newest EXCEPT ![m] = 0]
    /\ from' = [from EXCEPT ![m] = "UNKNOWN"]
    /\ told' = [told EXCEPT ![m] = 0]
    /\ unstamped' = [unstamped EXCEPT ![m] = {}]
    /\ UNCHANGED <<now, jobsEnabled, inFlight, pc, callVars, tickVars, faults>>

Tick ==
    /\ now < MaxTime
    /\ now' = now + 1
    /\ UNCHANGED <<jobsEnabled, life, userVars, checkVars, inFlight, pc, callVars,
                   tickVars, alertVars, faults, edits>>

-----------------------------------------------------------------------------
TickStep(w) == TickSkips(w) \/ TickRuns(w) \/ TickEnds(w)

RunStep(c) ==
    \/ StartRun(c) \/ JoinRun(c) \/ Load(c) \/ Probe(c) \/ Write(c) \/ Record(c)
    \/ Decide(c) \/ CreateAlert(c) \/ Stamp(c) \/ Return(c)

Next ==
    \/ \E w \in Workers : TickLists(w) \/ TickStep(w)
    \/ \E w \in Workers, m \in Monitors : JobLookup(w, m)
    \/ \E c \in Requests, m \in Monitors : RequestCheck(c, m)
    \/ \E c \in Callers : RunStep(c) \/ DatabaseFails(c)
    \/ \E m \in Monitors : CreateMonitor(m) \/ EditMonitor(m) \/ DeleteMonitor(m)
    \/ Restart
    \/ Tick

Spec == Init /\ [][Next]_vars

\* Every await of run ends (probes are bounded by their timeout), the cron fires
\* again and again, and BullMQ goes on producing a job for each scheduled
\* monitor and hands jobs out in turn, whence the strong fairness: a slot taken
\* by another job is free again later.  Users owe nothing, and the clock may
\* stand still.
Fairness ==
    /\ \A c \in Callers : WF_vars(RunStep(c))
    /\ \A w \in Workers : WF_vars(TickLists(w)) /\ WF_vars(TickStep(w))
    /\ \A w \in Workers, m \in Monitors : SF_vars(JobLookup(w, m))

FairSpec == Spec /\ Fairness

-----------------------------------------------------------------------------
(* Properties. *)

Holds(c, m) == pc[c] \in Running /\ mon[c] = m

\* inFlight is exact, whatever throws or dies: it holds the monitors somebody
\* is checking, each on behalf of one caller, and nothing else, so that no
\* monitor is checked twice at a time and none is locked out.
InFlightExact ==
    /\ \A m \in Monitors : m \in inFlight <=> \E c \in Callers : Holds(c, m)
    /\ \A m \in Monitors, c \in Callers, d \in Callers :
           Holds(c, m) /\ Holds(d, m) => c = d

\* The row holds the latest probe result: a check that finishes late never
\* writes over a newer one.
LatestResultStands ==
    [][\A m \in Monitors :
          Stored(m)' => lastCheckedAt'[m] >= lastCheckedAt[m]]_vars

\* Alerts follow the ledger: from the moment a check reads the previous status
\* to the moment it creates its alert nobody changes the status, so each change
\* is told at most once and only while it holds, through joins, edits,
\* deletions, failed calls and restarts.
Ledger == INSTANCE StatusLedger WITH status <- lastStatus
ImplementsLedger == Ledger!Spec

\* ALERT_COOLDOWN_SEC lies between the recorded alert of a kind and the next of
\* that kind, by the row as it is when the alert is created and not only as it
\* was when the policy was asked; and an earlier alert goes unrecorded only if a
\* failure came between the alert and its stamp.
AlertsSpaced ==
    [][\A m \in Monitors : told'[m] > told[m] =>
          LET e == EventOf(from[m], lastStatus[m])
          IN  /\ \/ notifiedAt[m][e] = 0
                 \/ now - notifiedAt[m][e] >= COOLDOWN
              /\ e \in unstamped[m] => faults > 0]_vars

\* The history never knows of a check the row does not reflect, and once nobody
\* is checking the monitor it knows of the last one, unless a failure came
\* between the two writes.
HistoryAgreesWithRow ==
    \A m \in Monitors : Stored(m) =>
        /\ newest[m] <= lastCheckedAt[m]
        /\ m \notin inFlight /\ faults = 0 => newest[m] = lastCheckedAt[m]

\* An enabled monitor that is due is checked (or edited) sooner or later, by
\* the cron as well as by the workers: no path through run keeps it in inFlight.
DueIsChecked ==
    \A m \in Monitors : []<>~(Stored(m) /\ enabled[m] /\ Due(lastCheckedAt[m]))

\* With alerts on, no cooldown and no failure, every outage and every recovery
\* is told.
NewsIsTold ==
    \A m \in Monitors : []<>~(EventOf(from[m], lastStatus[m]) # "none" /\ told[m] = 0)
=============================================================================
