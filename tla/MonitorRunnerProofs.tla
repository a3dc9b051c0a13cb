------------------------- MODULE MonitorRunnerProofs -------------------------
(***************************************************************************)
(* Proofs about MonitorRunner, for any monitors, callers and bounds.        *)
(*                                                                          *)
(* The argument is one of ownership.  A caller between StartRun (or         *)
(* TickRuns) and Return owns its monitor: inFlight holds it, and no other   *)
(* caller is at a place that writes the columns of a check.  Hence what the *)
(* owner read stays true until it writes, and what it wrote stays true      *)
(* until it returns.  Users edit other columns, or delete the whole row.    *)
(***************************************************************************)
EXTENDS MonitorRunner, TLAPS

\* A call past the first line of run names a monitor, and what the policy is
\* asked about is an event.
CallNamed(c) == pc[c] \in Running \cup {"start"} => mon[c] \in Monitors

NewsPending(c) ==
    pc[c] \in {"settings", "create", "stamp"} => EventOf(prev[c], result[c]) \in Event

ProbeAnswered(c) ==
    pc[c] = "write" => result[c] \in {"UP", "DOWN"} /\ at[c] <= now

\* What an owner knows of the row of its monitor, while that exists.
OwnerKnows(c, m) ==
    Holds(c, m) /\ Stored(m) =>
        /\ pc[c] \in {"probe", "write"} => lastStatus[m] = prev[c]
        /\ pc[c] = "write" => lastCheckedAt[m] <= at[c]
        /\ pc[c] \in {"record", "settings", "create", "stamp"} =>
               lastStatus[m] = result[c] /\ lastCheckedAt[m] = at[c]
        /\ pc[c] \in {"record", "settings", "create"} =>
               /\ updated[c].notifiedAt = notifiedAt[m]
               /\ prev[c] # result[c] => from[m] = prev[c] /\ told[m] = 0
        /\ pc[c] = "create" =>
               \/ notifiedAt[m][EventOf(prev[c], result[c])] = 0
               \/ now - notifiedAt[m][EventOf(prev[c], result[c])] >= COOLDOWN

\* lastCheckedAt is never in the future.
ClockBound(m) == Stored(m) => lastCheckedAt[m] <= now

\* The history is behind the row only while a check is being recorded, or after
\* a failure.
HistoryKept(m) ==
    Stored(m) =>
        /\ newest[m] <= lastCheckedAt[m]
        /\ \/ newest[m] = lastCheckedAt[m]
           \/ faults > 0
           \/ \E c \in Callers : pc[c] = "record" /\ mon[c] = m

\* An alert is missing in the row only while it is being stamped, or after a
\* failure.
AlertsStamped(m) ==
    Stored(m) =>
        \/ unstamped[m] = {}
        \/ faults > 0
        \/ \E c \in Callers : /\ pc[c] = "stamp" /\ mon[c] = m
                              /\ unstamped[m] = {EventOf(prev[c], result[c])}

\* Nobody has heard of a monitor that is not created yet.
Untouched(m) ==
    life[m] = "new" =>
        /\ lastCheckedAt[m] = 0 /\ newest[m] = 0 /\ unstamped[m] = {}
        /\ \A c \in Callers : mon[c] # m
        /\ \A w \in Workers : m \notin todo[w]

\* Types, with what the places of run imply of the locals.
TypeInv == TypeOK /\ \A c \in Callers : CallNamed(c) /\ NewsPending(c)

\* The inductive invariant.
IInv ==
    /\ TypeInv
    /\ InFlightExact
    /\ \A c \in Callers : ProbeAnswered(c)
    /\ \A c \in Callers, m \in Monitors : OwnerKnows(c, m)
    /\ \A m \in Monitors :
           Untouched(m) /\ ClockBound(m) /\ HistoryKept(m) /\ AlertsStamped(m)

-----------------------------------------------------------------------------
\* EventOf (the conditions of notifyStatusChange) yields an event or "none", and
\* an event only for a change.
LEMMA EventOfType ==
    ASSUME NEW p \in Status, NEW n \in Status
    PROVE  /\ EventOf(p, n) \in Event \cup {"none"}
           /\ EventOf(p, n) \in Event => p # n
    BY DEF EventOf, Status, Event

\* Every step keeps the types: what a caller reads it may hold, what it holds it
\* may write.
LEMMA TypeStep == TypeInv /\ [Next]_vars => TypeInv'
<1> SUFFICES ASSUME TypeInv, [Next]_vars
             PROVE  TypeInv'
    OBVIOUS
<1> USE RunnerAssumption
<1>1. ASSUME NEW w \in Workers, TickLists(w)
       PROVE  TypeInv'
    BY <1>1 DEF TypeInv, TypeOK, CallNamed, NewsPending, Callers, Running, Status, Time,
           Event, TickLists, Stored, userVars, checkVars, callVars, tickVars, alertVars
<1>2. ASSUME NEW w \in Workers, TickSkips(w)
       PROVE  TypeInv'
    BY <1>2 DEF TypeInv, TypeOK, CallNamed, NewsPending, Callers, Running, Status, Time,
           Event, TickSkips, Stored, userVars, checkVars, callVars, tickVars, alertVars,
           Due
<1>3. ASSUME NEW w \in Workers, TickRuns(w)
       PROVE  TypeInv'
    <2>1. TypeOK'
        BY <1>3 DEF TypeInv, TypeOK, Callers, Running, Status, Time, TickRuns, Calls,
               userVars, checkVars, callVars, tickVars, alertVars
    <2>2. ASSUME NEW d \in Callers
          PROVE  CallNamed(d)' /\ NewsPending(d)'
        BY <1>3 DEF TypeInv, TypeOK, CallNamed, NewsPending, Callers, Running, TickRuns,
               Calls
    <2> QED  BY <2>1, <2>2 DEF TypeInv
<1>4. ASSUME NEW w \in Workers, TickEnds(w)
       PROVE  TypeInv'
    BY <1>4 DEF TypeInv, TypeOK, CallNamed, NewsPending, Callers, Running, Status, Time,
           Event, TickEnds, Stored, userVars, checkVars, callVars, tickVars, alertVars
<1>5. ASSUME NEW w \in Workers, NEW m \in Monitors, JobLookup(w, m)
       PROVE  TypeInv'
    BY <1>5 DEF TypeInv, TypeOK, CallNamed, NewsPending, Callers, Running, Status, Time,
           Event, JobLookup, Stored, userVars, checkVars, callVars, tickVars, alertVars,
           Calls
<1>6. ASSUME NEW c \in Requests, NEW m \in Monitors, RequestCheck(c, m)
       PROVE  TypeInv'
    BY <1>6 DEF TypeInv, TypeOK, CallNamed, NewsPending, Callers, Running, Status, Time,
           Event, RequestCheck, Stored, userVars, checkVars, callVars, tickVars,
           alertVars, Calls
<1>7. ASSUME NEW c \in Callers, StartRun(c)
       PROVE  TypeInv'
    BY <1>7 DEF TypeInv, TypeOK, CallNamed, NewsPending, Callers, Running, Status, Time,
           Event, StartRun, Stored, userVars, checkVars, callVars, tickVars, alertVars
<1>8. ASSUME NEW c \in Callers, JoinRun(c)
       PROVE  TypeInv'
    BY <1>8 DEF TypeInv, TypeOK, CallNamed, NewsPending, Callers, Running, Status, Time,
           Event, JoinRun, Stored, userVars, checkVars, callVars, tickVars, alertVars,
           Forgets, NoRow, Never
<1>9. ASSUME NEW c \in Callers, Load(c)
       PROVE  TypeInv'
    <2>1. mon[c] \in Monitors
        BY <1>9 DEF TypeInv, CallNamed, Running, Load
    <2>2. /\ prev \in [Callers -> Status]
          /\ lastStatus \in [Monitors -> Status]
        BY DEF TypeInv, TypeOK
    <2>3. CASE Stored(mon[c])
        <3>1. prev' \in [Callers -> Status]
            BY <1>9, <2>1, <2>2, <2>3 DEF Load
        <3> QED
            BY <1>9, <2>1, <2>3, <3>1 DEF TypeInv, TypeOK, CallNamed, NewsPending,
                   Callers, Running, Load, userVars, checkVars, callVars, tickVars,
                   alertVars
    <2>4. CASE ~ Stored(mon[c])
        BY <1>9, <2>1, <2>4 DEF TypeInv, TypeOK, CallNamed, NewsPending, Callers,
               Running, Load, userVars, checkVars, callVars, tickVars, alertVars
    <2> QED  BY <2>3, <2>4
<1>10. ASSUME NEW c \in Callers, Probe(c)
       PROVE  TypeInv'
    <2>1. TypeOK'
        BY <1>10 DEF TypeInv, TypeOK, Callers, Running, Status, Time, Probe, userVars,
               checkVars, callVars, tickVars, alertVars
    <2>2. ASSUME NEW d \in Callers
          PROVE  CallNamed(d)' /\ NewsPending(d)'
        BY <1>10 DEF TypeInv, TypeOK, CallNamed, NewsPending, Callers, Running, Probe
    <2> QED  BY <2>1, <2>2 DEF TypeInv
<1>11. ASSUME NEW c \in Callers, Write(c)
       PROVE  TypeInv'
    <2>1. mon[c] \in Monitors
        BY <1>11 DEF TypeInv, CallNamed, Running, Write
    <2>2. /\ lastStatus \in [Monitors -> Status] /\ lastCheckedAt \in [Monitors -> Time]
          /\ alertsMuted \in [Monitors -> BOOLEAN] /\ notifiedAt \in [Monitors -> [Event -> Time]]
          /\ result \in [Callers -> Status] /\ at \in [Callers -> Time]
          /\ updated \in [Callers -> [muted : BOOLEAN, notifiedAt : [Event -> Time]]]
          /\ from \in [Monitors -> Status] /\ told \in [Monitors -> Nat]
        BY DEF TypeInv, TypeOK
    <2>3. CASE Stored(mon[c])
        <3>1. lastStatus' \in [Monitors -> Status]
            BY <1>11, <2>1, <2>2, <2>3 DEF Write
        <3>2. lastCheckedAt' \in [Monitors -> Time]
            BY <1>11, <2>1, <2>2, <2>3 DEF Write
        <3>a. [muted |-> alertsMuted[mon[c]], notifiedAt |-> notifiedAt[mon[c]]]
                 \in [muted : BOOLEAN, notifiedAt : [Event -> Time]]
            BY <2>1, <2>2
        <3>b. updated' = [updated EXCEPT ![c] =
                 [muted |-> alertsMuted[mon[c]], notifiedAt |-> notifiedAt[mon[c]]]]
            BY <1>11, <2>3 DEF Write
        <3>3. updated' \in [Callers -> [muted : BOOLEAN, notifiedAt : [Event -> Time]]]
            BY <2>2, <3>a, <3>b
        <3>c. from' = from \/ from' = [from EXCEPT ![mon[c]] = lastStatus[mon[c]]]
            BY <1>11, <2>3 DEF Write
        <3>4. from' \in [Monitors -> Status]
            BY <2>1, <2>2, <3>c
        <3>5. told' \in [Monitors -> Nat]
            BY <1>11, <2>1, <2>2, <2>3 DEF Write
        <3> QED
            BY <1>11, <2>1, <2>3, <3>1, <3>2, <3>3, <3>4, <3>5 DEF TypeInv, TypeOK,
                   CallNamed, NewsPending, Callers, Running, Write, userVars, checkVars,
                   callVars, tickVars, alertVars
    <2>4. CASE ~ Stored(mon[c])
        BY <1>11, <2>1, <2>4 DEF TypeInv, TypeOK, CallNamed, NewsPending, Callers,
               Running, Write, userVars, checkVars, callVars, tickVars, alertVars
    <2> QED  BY <2>3, <2>4
<1>12. ASSUME NEW c \in Callers, Record(c)
       PROVE  TypeInv'
    <2>1. mon[c] \in Monitors /\ EventOf(prev[c], result[c]) \in Event \cup {"none"}
        BY <1>12, EventOfType DEF TypeInv, TypeOK, CallNamed, Running, Record
    <2>2. TypeOK'
        BY <1>12, <2>1 DEF TypeInv, TypeOK, Running, Record, userVars, callVars,
               tickVars, alertVars
    <2>3. ASSUME NEW d \in Callers
          PROVE  CallNamed(d)' /\ NewsPending(d)'
        BY <1>12, <2>1 DEF TypeInv, TypeOK, CallNamed, NewsPending, Running, Event,
               EventOf, Record, callVars
    <2> QED  BY <2>2, <2>3 DEF TypeInv
<1>13. ASSUME NEW c \in Callers, Decide(c)
       PROVE  TypeInv'
    BY <1>13 DEF TypeInv, TypeOK, CallNamed, NewsPending, Callers, Running, Status,
           Time, Event, Decide, Stored, userVars, checkVars, callVars, tickVars,
           alertVars, MayNotify
<1>14. ASSUME NEW c \in Callers, CreateAlert(c)
       PROVE  TypeInv'
    <2>1. mon[c] \in Monitors
        BY <1>14 DEF TypeInv, CallNamed, Running, CreateAlert
    <2>2. /\ told \in [Monitors -> Nat]
          /\ unstamped \in [Monitors -> SUBSET Event]
          /\ EventOf(prev[c], result[c]) \in Event
        BY <1>14 DEF TypeInv, TypeOK, NewsPending, CreateAlert
    <2>3. CASE Stored(mon[c])
        <3>1. told' \in [Monitors -> Nat]
            BY <1>14, <2>1, <2>2, <2>3 DEF CreateAlert
        <3>2. unstamped' \in [Monitors -> SUBSET Event]
            BY <1>14, <2>1, <2>2, <2>3 DEF CreateAlert
        <3> QED
            BY <1>14, <2>1, <2>3, <3>1, <3>2 DEF TypeInv, TypeOK, CallNamed,
                   NewsPending, Callers, Running, CreateAlert, userVars, checkVars,
                   callVars, tickVars, alertVars
    <2>4. CASE ~ Stored(mon[c])
        BY <1>14, <2>1, <2>4 DEF TypeInv, TypeOK, CallNamed, NewsPending, Callers,
               Running, CreateAlert, userVars, checkVars, callVars, tickVars, alertVars
    <2> QED  BY <2>3, <2>4
<1>15. ASSUME NEW c \in Callers, Stamp(c)
       PROVE  TypeInv'
    <2>1. mon[c] \in Monitors
        BY <1>15 DEF TypeInv, CallNamed, Running, Stamp
    <2>2. /\ now \in Time
          /\ notifiedAt \in [Monitors -> [Event -> Time]]
          /\ unstamped \in [Monitors -> SUBSET Event]
        BY DEF TypeInv, TypeOK
    <2>3. CASE Stored(mon[c])
        <3>1. notifiedAt' \in [Monitors -> [Event -> Time]]
            BY <1>15, <2>1, <2>2, <2>3 DEF Stamp
        <3>2. unstamped' \in [Monitors -> SUBSET Event]
            BY <1>15, <2>1, <2>2, <2>3 DEF Stamp
        <3> QED
            BY <1>15, <2>1, <2>3, <3>1, <3>2 DEF TypeInv, TypeOK, CallNamed,
                   NewsPending, Callers, Running, Stamp, userVars, checkVars, callVars,
                   tickVars, alertVars
    <2>4. CASE ~ Stored(mon[c])
        BY <1>15, <2>1, <2>4 DEF TypeInv, TypeOK, CallNamed, NewsPending, Callers,
               Running, Stamp, userVars, checkVars, callVars, tickVars, alertVars
    <2> QED  BY <2>3, <2>4
<1>16. ASSUME NEW c \in Callers, Return(c)
       PROVE  TypeInv'
    BY <1>16 DEF TypeInv, TypeOK, CallNamed, NewsPending, Callers, Running, Status,
           Time, Event, Return, Stored, userVars, checkVars, callVars, tickVars,
           alertVars, Forgets, NoRow, Never, Home
<1>17. ASSUME NEW c \in Callers, DatabaseFails(c)
       PROVE  TypeInv'
    BY <1>17 DEF TypeInv, TypeOK, CallNamed, NewsPending, Callers, Running, Status,
           Time, Event, DatabaseFails, Stored, userVars, checkVars, callVars, tickVars,
           alertVars
<1>18. CASE Restart
    BY <1>18 DEF TypeInv, TypeOK, CallNamed, NewsPending, Callers, Running, Status,
           Time, Event, Restart, Stored, userVars, checkVars, callVars, tickVars,
           alertVars, NoRow, Never
<1>19. ASSUME NEW m \in Monitors, CreateMonitor(m)
       PROVE  TypeInv'
    BY <1>19 DEF TypeInv, TypeOK, CallNamed, NewsPending, Callers, Running, Status,
           Time, Event, CreateMonitor, Stored, userVars, checkVars, callVars, tickVars,
           alertVars
<1>20. ASSUME NEW m \in Monitors, EditMonitor(m)
       PROVE  TypeInv'
    BY <1>20 DEF TypeInv, TypeOK, CallNamed, NewsPending, Callers, Running, Status,
           Time, Event, EditMonitor, Stored, userVars, checkVars, callVars, tickVars,
           alertVars
<1>21. ASSUME NEW m \in Monitors, DeleteMonitor(m)
       PROVE  TypeInv'
    BY <1>21 DEF TypeInv, TypeOK, CallNamed, NewsPending, Callers, Running, Status,
           Time, Event, DeleteMonitor, Stored, userVars, checkVars, callVars, tickVars,
           alertVars, Never
<1>22. CASE Tick
    BY <1>22 DEF TypeInv, TypeOK, CallNamed, NewsPending, Callers, Running, Status,
           Time, Event, Tick, Stored, userVars, checkVars, callVars, tickVars, alertVars
<1>23. CASE UNCHANGED vars
    BY <1>23 DEF TypeInv, TypeOK, CallNamed, NewsPending, vars, userVars, checkVars,
           callVars, tickVars, alertVars
<1> QED
    BY <1>1, <1>2, <1>3, <1>4, <1>5, <1>6, <1>7, <1>8, <1>9, <1>10, <1>11, <1>12, <1>13,
           <1>14, <1>15, <1>16, <1>17, <1>18, <1>19, <1>20, <1>21, <1>22, <1>23
           DEF Next, TickStep, RunStep, Callers

\* The places and the monitors of the callers, without the rest of the state.
LEMMA CallTypes ==
    ASSUME TypeInv
    PROVE  /\ pc \in [Callers -> {"idle", "loop", "start"} \cup Running]
           /\ mon \in [Callers -> Monitors \cup {None}]
           /\ inFlight \subseteq Monitors
           /\ Workers \subseteq Callers
           /\ todo \in [Workers -> SUBSET Monitors]
           /\ \A m \in Monitors : m # None
    BY RunnerAssumption DEF TypeInv, TypeOK, Callers

\* What a caller keeps of its call, and the columns a check writes.
LEMMA LocalTypes ==
    ASSUME TypeInv
    PROVE  /\ now \in Nat /\ faults \in Nat
           /\ prev \in [Callers -> Status] /\ result \in [Callers -> Status]
           /\ at \in [Callers -> Nat]
           /\ updated \in [Callers -> [muted : BOOLEAN, notifiedAt : [Event -> Nat]]]
    BY RunnerAssumption DEF TypeInv, TypeOK, Time

\* The columns of the row that a check reads and writes.
LEMMA RowTypes ==
    ASSUME TypeInv
    PROVE  /\ lastStatus \in [Monitors -> Status] /\ from \in [Monitors -> Status]
           /\ lastCheckedAt \in [Monitors -> Nat] /\ newest \in [Monitors -> Nat]
           /\ notifiedAt \in [Monitors -> [Event -> Nat]]
           /\ told \in [Monitors -> Nat]
           /\ unstamped \in [Monitors -> SUBSET Event]
           /\ life \in [Monitors -> {"new", "stored", "deleted"}]
    BY DEF TypeInv, TypeOK, Time

\* A step that neither starts nor ends a call of run keeps inFlight exact.
LEMMA HoldersKept ==
    ASSUME InFlightExact, inFlight' = inFlight,
           \A c \in Callers, m \in Monitors : Holds(c, m)' <=> Holds(c, m)
    PROVE  InFlightExact'
    BY DEF InFlightExact

\* Ownership: what takes a monitor adds it to inFlight, what gives it up removes
\* it, and both are guarded.
LEMMA ExactStep == TypeInv /\ InFlightExact /\ [Next]_vars => InFlightExact'
<1> SUFFICES ASSUME TypeInv, InFlightExact, [Next]_vars
             PROVE  InFlightExact'
    OBVIOUS
<1>1. ASSUME NEW w \in Workers, TickLists(w)
       PROVE  InFlightExact'
    <2>1. \A d \in Callers, m \in Monitors : Holds(d, m)' <=> Holds(d, m)
        BY <1>1, CallTypes, RunnerAssumption DEF Holds, Running, TickLists, callVars
    <2> QED  BY <1>1, <2>1, HoldersKept DEF TickLists
<1>2. ASSUME NEW w \in Workers, TickSkips(w)
       PROVE  InFlightExact'
    BY <1>2 DEF TypeInv, TypeOK, InFlightExact, Holds, CallNamed, Callers, Running,
           TickSkips, Due, callVars
<1>3. ASSUME NEW w \in Workers, TickRuns(w)
       PROVE  InFlightExact'
    <2>1. PICK m \in todo[w] : /\ m \notin inFlight /\ inFlight' = inFlight \cup {m}
                               /\ pc[w] = "loop" /\ pc' = [pc EXCEPT ![w] = "load"]
                               /\ mon' = [mon EXCEPT ![w] = m]
        BY <1>3 DEF TickRuns, Calls
    <2>2. \A d \in Callers, n \in Monitors :
              Holds(d, n)' <=> Holds(d, n) \/ (d = w /\ n = m)
        BY <2>1, CallTypes DEF Holds, Running
    <2> QED  BY <2>1, <2>2, CallTypes DEF InFlightExact
<1>4. ASSUME NEW w \in Workers, TickEnds(w)
       PROVE  InFlightExact'
    <2>1. \A d \in Callers, m \in Monitors : Holds(d, m)' <=> Holds(d, m)
        BY <1>4, CallTypes, RunnerAssumption DEF Holds, Running, TickEnds, callVars
    <2> QED  BY <1>4, <2>1, HoldersKept DEF TickEnds
<1>5. ASSUME NEW w \in Workers, NEW m \in Monitors, JobLookup(w, m)
       PROVE  InFlightExact'
    BY <1>5 DEF TypeInv, TypeOK, InFlightExact, Holds, CallNamed, Callers, Running,
           JobLookup, Calls, callVars
<1>6. ASSUME NEW c \in Requests, NEW m \in Monitors, RequestCheck(c, m)
       PROVE  InFlightExact'
    BY <1>6 DEF TypeInv, TypeOK, InFlightExact, Holds, CallNamed, Callers, Running,
           RequestCheck, Calls, callVars
<1>7. ASSUME NEW c \in Callers, StartRun(c)
       PROVE  InFlightExact'
    BY <1>7 DEF TypeInv, TypeOK, InFlightExact, Holds, CallNamed, Callers, Running,
           StartRun, callVars
<1>8. ASSUME NEW c \in Callers, JoinRun(c)
       PROVE  InFlightExact'
    <2>1. \A d \in Callers, m \in Monitors : Holds(d, m)' <=> Holds(d, m)
        BY <1>8, CallTypes, RunnerAssumption DEF Holds, Running, JoinRun, Forgets
    <2> QED  BY <1>8, <2>1, HoldersKept DEF JoinRun
<1>9. ASSUME NEW c \in Callers, Load(c)
       PROVE  InFlightExact'
    <2>1. \A d \in Callers, m \in Monitors : Holds(d, m)' <=> Holds(d, m)
        BY <1>9, CallTypes, RunnerAssumption DEF Holds, Running, Load
    <2> QED  BY <1>9, <2>1, HoldersKept DEF Load
<1>10. ASSUME NEW c \in Callers, Probe(c)
       PROVE  InFlightExact'
    BY <1>10 DEF TypeInv, TypeOK, InFlightExact, Holds, CallNamed, Callers, Running,
           Probe, callVars
<1>11. ASSUME NEW c \in Callers, Write(c)
       PROVE  InFlightExact'
    <2>1. \A d \in Callers, m \in Monitors : Holds(d, m)' <=> Holds(d, m)
        BY <1>11, CallTypes, RunnerAssumption DEF Holds, Running, Write
    <2> QED  BY <1>11, <2>1, HoldersKept DEF Write
<1>12. ASSUME NEW c \in Callers, Record(c)
       PROVE  InFlightExact'
    BY <1>12 DEF TypeInv, TypeOK, InFlightExact, Holds, CallNamed, Callers, Running,
           Record, callVars
<1>13. ASSUME NEW c \in Callers, Decide(c)
       PROVE  InFlightExact'
    BY <1>13 DEF TypeInv, TypeOK, InFlightExact, Holds, CallNamed, Callers, Running,
           Decide, callVars
<1>14. ASSUME NEW c \in Callers, CreateAlert(c)
       PROVE  InFlightExact'
    BY <1>14 DEF TypeInv, TypeOK, InFlightExact, Holds, CallNamed, Callers, Running,
           CreateAlert, callVars
<1>15. ASSUME NEW c \in Callers, Stamp(c)
       PROVE  InFlightExact'
    BY <1>15 DEF TypeInv, TypeOK, InFlightExact, Holds, CallNamed, Callers, Running,
           Stamp, callVars
<1>16. ASSUME NEW c \in Callers, Return(c)
       PROVE  InFlightExact'
    BY <1>16 DEF TypeInv, TypeOK, InFlightExact, Holds, CallNamed, Callers, Running,
           Return, Forgets, NoRow, Never, Home, callVars
<1>17. ASSUME NEW c \in Callers, DatabaseFails(c)
       PROVE  InFlightExact'
    BY <1>17 DEF TypeInv, TypeOK, InFlightExact, Holds, CallNamed, Callers, Running,
           DatabaseFails, callVars
<1>18. CASE Restart
    BY <1>18 DEF TypeInv, TypeOK, InFlightExact, Holds, CallNamed, Callers, Running,
           Restart, NoRow, Never, callVars
<1>19. ASSUME NEW m \in Monitors, CreateMonitor(m)
       PROVE  InFlightExact'
    BY <1>19 DEF TypeInv, TypeOK, InFlightExact, Holds, CallNamed, Callers, Running,
           CreateMonitor, callVars
<1>20. ASSUME NEW m \in Monitors, EditMonitor(m)
       PROVE  InFlightExact'
    BY <1>20 DEF TypeInv, TypeOK, InFlightExact, Holds, CallNamed, Callers, Running,
           EditMonitor, callVars
<1>21. ASSUME NEW m \in Monitors, DeleteMonitor(m)
       PROVE  InFlightExact'
    BY <1>21 DEF TypeInv, TypeOK, InFlightExact, Holds, CallNamed, Callers, Running,
           DeleteMonitor, Never, callVars
<1>22. CASE Tick
    BY <1>22 DEF TypeInv, TypeOK, InFlightExact, Holds, CallNamed, Callers, Running,
           Tick, callVars
<1>23. CASE UNCHANGED vars
    BY <1>23 DEF InFlightExact, Holds, vars, callVars
<1> QED
    BY <1>1, <1>2, <1>3, <1>4, <1>5, <1>6, <1>7, <1>8, <1>9, <1>10, <1>11, <1>12, <1>13,
           <1>14, <1>15, <1>16, <1>17, <1>18, <1>19, <1>20, <1>21, <1>22, <1>23
           DEF Next, TickStep, RunStep, Callers

\* No step reaches a monitor before it is created.
LEMMA UntouchedStep ==
    ASSUME TypeInv, NEW n \in Monitors, Untouched(n), [Next]_vars
    PROVE  Untouched(n)'
<1>1. ASSUME NEW w \in Workers, TickLists(w)
       PROVE  Untouched(n)'
    BY <1>1, CallTypes DEF Untouched, Stored, TickLists, checkVars, callVars, tickVars,
           alertVars
<1>2. ASSUME NEW w \in Workers, TickSkips(w)
       PROVE  Untouched(n)'
    BY <1>2, CallTypes DEF Untouched, Stored, TickSkips, Due, checkVars, callVars,
           tickVars, alertVars
<1>3. ASSUME NEW w \in Workers, TickRuns(w)
       PROVE  Untouched(n)'
    BY <1>3, CallTypes DEF Untouched, Stored, TickRuns, Calls, checkVars, callVars,
           tickVars, alertVars
<1>4. ASSUME NEW w \in Workers, TickEnds(w)
       PROVE  Untouched(n)'
    BY <1>4, CallTypes DEF Untouched, Stored, TickEnds, checkVars, callVars, tickVars,
           alertVars
<1>5. ASSUME NEW w \in Workers, NEW o \in Monitors, JobLookup(w, o)
       PROVE  Untouched(n)'
    BY <1>5, CallTypes DEF Untouched, Stored, JobLookup, Calls, checkVars, callVars,
           tickVars, alertVars
<1>6. ASSUME NEW c \in Requests, NEW o \in Monitors, RequestCheck(c, o)
       PROVE  Untouched(n)'
    BY <1>6, CallTypes DEF Untouched, Stored, RequestCheck, Calls, checkVars, callVars,
           tickVars, alertVars
<1>7. ASSUME NEW c \in Callers, StartRun(c)
       PROVE  Untouched(n)'
    BY <1>7, CallTypes DEF Untouched, Stored, StartRun, checkVars, callVars, tickVars,
           alertVars
<1>8. ASSUME NEW c \in Callers, JoinRun(c)
       PROVE  Untouched(n)'
    BY <1>8, CallTypes DEF Untouched, Stored, JoinRun, Forgets, NoRow, Never, checkVars,
           callVars, tickVars, alertVars
<1>9. ASSUME NEW c \in Callers, Load(c)
       PROVE  Untouched(n)'
    BY <1>9, CallTypes DEF Untouched, Stored, Load, checkVars, callVars, tickVars,
           alertVars
<1>10. ASSUME NEW c \in Callers, Probe(c)
       PROVE  Untouched(n)'
    BY <1>10, CallTypes DEF Untouched, Stored, Probe, checkVars, callVars, tickVars,
           alertVars
<1>11. ASSUME NEW c \in Callers, Write(c)
       PROVE  Untouched(n)'
    <2>1. life' = life /\ mon' = mon /\ todo' = todo
        BY <1>11 DEF Write, callVars, tickVars
    <2>2. life[n] = "new" => lastCheckedAt'[n] = lastCheckedAt[n]
        BY <1>11, CallTypes, RowTypes DEF Write, Stored, checkVars, alertVars
    <2> QED  BY <1>11, <2>1, <2>2 DEF Untouched, Write, checkVars, alertVars
<1>12. ASSUME NEW c \in Callers, Record(c)
       PROVE  Untouched(n)'
    BY <1>12, CallTypes DEF Untouched, Stored, Record, checkVars, callVars, tickVars,
           alertVars
<1>13. ASSUME NEW c \in Callers, Decide(c)
       PROVE  Untouched(n)'
    BY <1>13, CallTypes DEF Untouched, Stored, Decide, checkVars, callVars, tickVars,
           alertVars
<1>14. ASSUME NEW c \in Callers, CreateAlert(c)
       PROVE  Untouched(n)'
    <2>1. life' = life /\ mon' = mon /\ todo' = todo
        BY <1>14 DEF CreateAlert, callVars, tickVars
    <2>2. life[n] = "new" => unstamped'[n] = unstamped[n]
        BY <1>14, CallTypes, RowTypes DEF CreateAlert, Stored, checkVars, alertVars
    <2> QED  BY <1>14, <2>1, <2>2 DEF Untouched, CreateAlert, checkVars, alertVars
<1>15. ASSUME NEW c \in Callers, Stamp(c)
       PROVE  Untouched(n)'
    <2>1. life' = life /\ mon' = mon /\ todo' = todo
        BY <1>15 DEF Stamp, callVars, tickVars
    <2>2. life[n] = "new" => unstamped'[n] = unstamped[n]
        BY <1>15, CallTypes, RowTypes DEF Stamp, Stored, checkVars, alertVars
    <2> QED  BY <1>15, <2>1, <2>2 DEF Untouched, Stamp, checkVars, alertVars
<1>16. ASSUME NEW c \in Callers, Return(c)
       PROVE  Untouched(n)'
    BY <1>16, CallTypes DEF Untouched, Stored, Return, Forgets, NoRow, Never, Home,
           checkVars, callVars, tickVars, alertVars
<1>17. ASSUME NEW c \in Callers, DatabaseFails(c)
       PROVE  Untouched(n)'
    <2>1. life' = life /\ mon' = mon /\ todo' = todo
        BY <1>17 DEF DatabaseFails, callVars, tickVars
    <2>2. life[n] = "new" => newest'[n] = newest[n]
        BY <1>17, CallTypes, RowTypes DEF DatabaseFails, Stored, checkVars, alertVars
    <2> QED  BY <1>17, <2>1, <2>2 DEF Untouched, DatabaseFails, checkVars, alertVars
<1>18. CASE Restart
    BY <1>18, CallTypes DEF Untouched, Stored, Restart, NoRow, Never, checkVars,
           callVars, tickVars, alertVars
<1>19. ASSUME NEW o \in Monitors, CreateMonitor(o)
       PROVE  Untouched(n)'
    BY <1>19, CallTypes DEF Untouched, Stored, CreateMonitor, checkVars, callVars,
           tickVars, alertVars
<1>20. ASSUME NEW o \in Monitors, EditMonitor(o)
       PROVE  Untouched(n)'
    BY <1>20, CallTypes DEF Untouched, Stored, EditMonitor, checkVars, callVars,
           tickVars, alertVars
<1>21. ASSUME NEW o \in Monitors, DeleteMonitor(o)
       PROVE  Untouched(n)'
    BY <1>21, CallTypes DEF Untouched, Stored, DeleteMonitor, Never, checkVars,
           callVars, tickVars, alertVars
<1>22. CASE Tick
    BY <1>22, CallTypes DEF Untouched, Stored, Tick, checkVars, callVars, tickVars,
           alertVars
<1>23. CASE UNCHANGED vars
    BY <1>23 DEF Untouched, Stored, vars, checkVars, callVars, tickVars, alertVars
<1> QED
    BY <1>1, <1>2, <1>3, <1>4, <1>5, <1>6, <1>7, <1>8, <1>9, <1>10, <1>11, <1>12, <1>13,
           <1>14, <1>15, <1>16, <1>17, <1>18, <1>19, <1>20, <1>21, <1>22, <1>23
           DEF Next, TickStep, RunStep, Callers

\* A caller about to write holds an answer that is not from the future.
LEMMA ProbedStep ==
    ASSUME TypeInv, NEW d \in Callers, ProbeAnswered(d), [Next]_vars
    PROVE  ProbeAnswered(d)'
<1>1. ASSUME NEW w \in Workers, TickLists(w)
       PROVE  ProbeAnswered(d)'
    BY <1>1, CallTypes, LocalTypes DEF ProbeAnswered, TickLists, callVars
<1>2. ASSUME NEW w \in Workers, TickSkips(w)
       PROVE  ProbeAnswered(d)'
    BY <1>2, CallTypes, LocalTypes DEF ProbeAnswered, TickSkips, Due, callVars
<1>3. ASSUME NEW w \in Workers, TickRuns(w)
       PROVE  ProbeAnswered(d)'
    BY <1>3, CallTypes, LocalTypes DEF ProbeAnswered, TickRuns, Calls, callVars
<1>4. ASSUME NEW w \in Workers, TickEnds(w)
       PROVE  ProbeAnswered(d)'
    BY <1>4, CallTypes, LocalTypes DEF ProbeAnswered, TickEnds, callVars
<1>5. ASSUME NEW w \in Workers, NEW o \in Monitors, JobLookup(w, o)
       PROVE  ProbeAnswered(d)'
    BY <1>5, CallTypes, LocalTypes DEF ProbeAnswered, JobLookup, Calls, callVars
<1>6. ASSUME NEW c \in Requests, NEW o \in Monitors, RequestCheck(c, o)
       PROVE  ProbeAnswered(d)'
    BY <1>6, CallTypes, LocalTypes DEF ProbeAnswered, RequestCheck, Calls, callVars
<1>7. ASSUME NEW c \in Callers, StartRun(c)
       PROVE  ProbeAnswered(d)'
    BY <1>7, CallTypes, LocalTypes DEF ProbeAnswered, StartRun, callVars
<1>8. ASSUME NEW c \in Callers, JoinRun(c)
       PROVE  ProbeAnswered(d)'
    BY <1>8, CallTypes, LocalTypes DEF ProbeAnswered, JoinRun, Forgets, NoRow, Never,
           callVars
<1>9. ASSUME NEW c \in Callers, Load(c)
       PROVE  ProbeAnswered(d)'
    BY <1>9, CallTypes, LocalTypes DEF ProbeAnswered, Load, callVars
<1>10. ASSUME NEW c \in Callers, Probe(c)
       PROVE  ProbeAnswered(d)'
    BY <1>10, CallTypes, LocalTypes DEF ProbeAnswered, Probe, callVars
<1>11. ASSUME NEW c \in Callers, Write(c)
       PROVE  ProbeAnswered(d)'
    BY <1>11, CallTypes, LocalTypes DEF ProbeAnswered, Write, callVars
<1>12. ASSUME NEW c \in Callers, Record(c)
       PROVE  ProbeAnswered(d)'
    BY <1>12, CallTypes, LocalTypes DEF ProbeAnswered, Record, callVars
<1>13. ASSUME NEW c \in Callers, Decide(c)
       PROVE  ProbeAnswered(d)'
    BY <1>13, CallTypes, LocalTypes DEF ProbeAnswered, Decide, callVars
<1>14. ASSUME NEW c \in Callers, CreateAlert(c)
       PROVE  ProbeAnswered(d)'
    BY <1>14, CallTypes, LocalTypes DEF ProbeAnswered, CreateAlert, callVars
<1>15. ASSUME NEW c \in Callers, Stamp(c)
       PROVE  ProbeAnswered(d)'
    BY <1>15, CallTypes, LocalTypes DEF ProbeAnswered, Stamp, callVars
<1>16. ASSUME NEW c \in Callers, Return(c)
       PROVE  ProbeAnswered(d)'
    BY <1>16, CallTypes, LocalTypes DEF ProbeAnswered, Return, Forgets, NoRow, Never,
           Home, callVars
<1>17. ASSUME NEW c \in Callers, DatabaseFails(c)
       PROVE  ProbeAnswered(d)'
    BY <1>17, CallTypes, LocalTypes DEF ProbeAnswered, DatabaseFails, callVars
<1>18. CASE Restart
    BY <1>18, CallTypes, LocalTypes DEF ProbeAnswered, Restart, NoRow, Never, callVars
<1>19. ASSUME NEW o \in Monitors, CreateMonitor(o)
       PROVE  ProbeAnswered(d)'
    BY <1>19, CallTypes, LocalTypes DEF ProbeAnswered, CreateMonitor, callVars
<1>20. ASSUME NEW o \in Monitors, EditMonitor(o)
       PROVE  ProbeAnswered(d)'
    BY <1>20, CallTypes, LocalTypes DEF ProbeAnswered, EditMonitor, callVars
<1>21. ASSUME NEW o \in Monitors, DeleteMonitor(o)
       PROVE  ProbeAnswered(d)'
    BY <1>21, CallTypes, LocalTypes DEF ProbeAnswered, DeleteMonitor, Never, callVars
<1>22. CASE Tick
    BY <1>22, CallTypes, LocalTypes DEF ProbeAnswered, Tick, callVars
<1>23. CASE UNCHANGED vars
    BY <1>23 DEF ProbeAnswered, vars, callVars
<1> QED
    BY <1>1, <1>2, <1>3, <1>4, <1>5, <1>6, <1>7, <1>8, <1>9, <1>10, <1>11, <1>12, <1>13,
           <1>14, <1>15, <1>16, <1>17, <1>18, <1>19, <1>20, <1>21, <1>22, <1>23
           DEF Next, TickStep, RunStep, Callers

\* Write stores a checkedAt that was taken earlier.
LEMMA BoundStep ==
    ASSUME TypeInv, NEW n \in Monitors, Untouched(n), ClockBound(n),
           \A d \in Callers : ProbeAnswered(d), [Next]_vars
    PROVE  ClockBound(n)'
<1>1. ASSUME NEW w \in Workers, TickLists(w)
       PROVE  ClockBound(n)'
    BY <1>1, CallTypes, LocalTypes, RowTypes DEF ClockBound, Stored, Untouched,
           ProbeAnswered, TickLists, checkVars, callVars, tickVars, alertVars
<1>2. ASSUME NEW w \in Workers, TickSkips(w)
       PROVE  ClockBound(n)'
    BY <1>2, CallTypes, LocalTypes, RowTypes DEF ClockBound, Stored, Untouched,
           ProbeAnswered, TickSkips, Due, checkVars, callVars, tickVars, alertVars
<1>3. ASSUME NEW w \in Workers, TickRuns(w)
       PROVE  ClockBound(n)'
    BY <1>3, CallTypes, LocalTypes, RowTypes DEF ClockBound, Stored, Untouched,
           ProbeAnswered, TickRuns, Calls, checkVars, callVars, tickVars, alertVars
<1>4. ASSUME NEW w \in Workers, TickEnds(w)
       PROVE  ClockBound(n)'
    BY <1>4, CallTypes, LocalTypes, RowTypes DEF ClockBound, Stored, Untouched,
           ProbeAnswered, TickEnds, checkVars, callVars, tickVars, alertVars
<1>5. ASSUME NEW w \in Workers, NEW o \in Monitors, JobLookup(w, o)
       PROVE  ClockBound(n)'
    BY <1>5, CallTypes, LocalTypes, RowTypes DEF ClockBound, Stored, Untouched,
           ProbeAnswered, JobLookup, Calls, checkVars, callVars, tickVars, alertVars
<1>6. ASSUME NEW c \in Requests, NEW o \in Monitors, RequestCheck(c, o)
       PROVE  ClockBound(n)'
    BY <1>6, CallTypes, LocalTypes, RowTypes DEF ClockBound, Stored, Untouched,
           ProbeAnswered, RequestCheck, Calls, checkVars, callVars, tickVars, alertVars
<1>7. ASSUME NEW c \in Callers, StartRun(c)
       PROVE  ClockBound(n)'
    BY <1>7, CallTypes, LocalTypes, RowTypes DEF ClockBound, Stored, Untouched,
           ProbeAnswered, StartRun, checkVars, callVars, tickVars, alertVars
<1>8. ASSUME NEW c \in Callers, JoinRun(c)
       PROVE  ClockBound(n)'
    BY <1>8, CallTypes, LocalTypes, RowTypes DEF ClockBound, Stored, Untouched,
           ProbeAnswered, JoinRun, Forgets, NoRow, Never, checkVars, callVars, tickVars,
           alertVars
<1>9. ASSUME NEW c \in Callers, Load(c)
       PROVE  ClockBound(n)'
    BY <1>9, CallTypes, LocalTypes, RowTypes DEF ClockBound, Stored, Untouched,
           ProbeAnswered, Load, checkVars, callVars, tickVars, alertVars
<1>10. ASSUME NEW c \in Callers, Probe(c)
       PROVE  ClockBound(n)'
    BY <1>10, CallTypes, LocalTypes, RowTypes DEF ClockBound, Stored, Untouched,
           ProbeAnswered, Probe, checkVars, callVars, tickVars, alertVars
<1>11. ASSUME NEW c \in Callers, Write(c)
       PROVE  ClockBound(n)'
    BY <1>11, CallTypes, LocalTypes, RowTypes DEF ClockBound, Stored, Untouched,
           ProbeAnswered, Write, checkVars, callVars, tickVars, alertVars
<1>12. ASSUME NEW c \in Callers, Record(c)
       PROVE  ClockBound(n)'
    BY <1>12, CallTypes, LocalTypes, RowTypes DEF ClockBound, Stored, Untouched,
           ProbeAnswered, Record, checkVars, callVars, tickVars, alertVars
<1>13. ASSUME NEW c \in Callers, Decide(c)
       PROVE  ClockBound(n)'
    BY <1>13, CallTypes, LocalTypes, RowTypes DEF ClockBound, Stored, Untouched,
           ProbeAnswered, Decide, checkVars, callVars, tickVars, alertVars
<1>14. ASSUME NEW c \in Callers, CreateAlert(c)
       PROVE  ClockBound(n)'
    BY <1>14, CallTypes, LocalTypes, RowTypes DEF ClockBound, Stored, Untouched,
           ProbeAnswered, CreateAlert, checkVars, callVars, tickVars, alertVars
<1>15. ASSUME NEW c \in Callers, Stamp(c)
       PROVE  ClockBound(n)'
    BY <1>15, CallTypes, LocalTypes, RowTypes DEF ClockBound, Stored, Untouched,
           ProbeAnswered, Stamp, checkVars, callVars, tickVars, alertVars
<1>16. ASSUME NEW c \in Callers, Return(c)
       PROVE  ClockBound(n)'
    BY <1>16, CallTypes, LocalTypes, RowTypes DEF ClockBound, Stored, Untouched,
           ProbeAnswered, Return, Forgets, NoRow, Never, Home, checkVars, callVars,
           tickVars, alertVars
<1>17. ASSUME NEW c \in Callers, DatabaseFails(c)
       PROVE  ClockBound(n)'
    BY <1>17, CallTypes, LocalTypes, RowTypes DEF ClockBound, Stored, Untouched,
           ProbeAnswered, DatabaseFails, checkVars, callVars, tickVars, alertVars
<1>18. CASE Restart
    BY <1>18, CallTypes, LocalTypes, RowTypes DEF ClockBound, Stored, Untouched,
           ProbeAnswered, Restart, NoRow, Never, checkVars, callVars, tickVars,
           alertVars
<1>19. ASSUME NEW o \in Monitors, CreateMonitor(o)
       PROVE  ClockBound(n)'
    BY <1>19, CallTypes, LocalTypes, RowTypes DEF ClockBound, Stored, Untouched,
           ProbeAnswered, CreateMonitor, checkVars, callVars, tickVars, alertVars
<1>20. ASSUME NEW o \in Monitors, EditMonitor(o)
       PROVE  ClockBound(n)'
    BY <1>20, CallTypes, LocalTypes, RowTypes DEF ClockBound, Stored, Untouched,
           ProbeAnswered, EditMonitor, checkVars, callVars, tickVars, alertVars
<1>21. ASSUME NEW o \in Monitors, DeleteMonitor(o)
       PROVE  ClockBound(n)'
    BY <1>21, CallTypes, LocalTypes, RowTypes DEF ClockBound, Stored, Untouched,
           ProbeAnswered, DeleteMonitor, Never, checkVars, callVars, tickVars, alertVars
<1>22. CASE Tick
    BY <1>22, CallTypes, LocalTypes, RowTypes DEF ClockBound, Stored, Untouched,
           ProbeAnswered, Tick, checkVars, callVars, tickVars, alertVars
<1>23. CASE UNCHANGED vars
    BY <1>23 DEF ClockBound, Stored, Untouched, ProbeAnswered, vars, checkVars,
           callVars, tickVars, alertVars
<1> QED
    BY <1>1, <1>2, <1>3, <1>4, <1>5, <1>6, <1>7, <1>8, <1>9, <1>10, <1>11, <1>12, <1>13,
           <1>14, <1>15, <1>16, <1>17, <1>18, <1>19, <1>20, <1>21, <1>22, <1>23
           DEF Next, TickStep, RunStep, Callers

\* What an owner knows is not disturbed by a step that leaves it, its locals and
\* the columns alone.
LEMMA OwnerKept ==
    ASSUME NEW c \in Callers, NEW m \in Monitors, OwnerKnows(c, m),
           pc'[c] = pc[c], mon'[c] = mon[c], prev'[c] = prev[c],
           result'[c] = result[c], at'[c] = at[c], updated'[c] = updated[c],
           Stored(m)' => Stored(m), now' = now,
           lastStatus'[m] = lastStatus[m], lastCheckedAt'[m] = lastCheckedAt[m],
           notifiedAt'[m] = notifiedAt[m], from'[m] = from[m], told'[m] = told[m]
    PROVE  OwnerKnows(c, m)'
    BY DEF OwnerKnows, Holds

\* What an owner knows stays true: others own other monitors, users write other
\* columns or delete the row, and a monitor created now has no owner.
LEMMA OwnerStep ==
    ASSUME TypeInv, InFlightExact, NEW k \in Callers, NEW n \in Monitors,
           OwnerKnows(k, n), Untouched(n), ClockBound(n), ProbeAnswered(k), [Next]_vars
    PROVE  OwnerKnows(k, n)'
<1>1. ASSUME NEW w \in Workers, TickLists(w)
       PROVE  OwnerKnows(k, n)'
    BY <1>1, CallTypes DEF OwnerKnows, Holds, Running, Stored, TickLists, checkVars,
           callVars, tickVars, alertVars
<1>2. ASSUME NEW w \in Workers, TickSkips(w)
       PROVE  OwnerKnows(k, n)'
    BY <1>2, CallTypes DEF OwnerKnows, Holds, Running, Stored, TickSkips, Due,
           checkVars, callVars, tickVars, alertVars
<1>3. ASSUME NEW w \in Workers, TickRuns(w)
       PROVE  OwnerKnows(k, n)'
    BY <1>3, CallTypes DEF OwnerKnows, Holds, Running, Stored, TickRuns, Calls,
           checkVars, callVars, tickVars, alertVars
<1>4. ASSUME NEW w \in Workers, TickEnds(w)
       PROVE  OwnerKnows(k, n)'
    BY <1>4, CallTypes DEF OwnerKnows, Holds, Running, Stored, TickEnds, checkVars,
           callVars, tickVars, alertVars
<1>5. ASSUME NEW w \in Workers, NEW o \in Monitors, JobLookup(w, o)
       PROVE  OwnerKnows(k, n)'
    BY <1>5, CallTypes DEF OwnerKnows, Holds, Running, Stored, JobLookup, Calls,
           checkVars, callVars, tickVars, alertVars
<1>6. ASSUME NEW c \in Requests, NEW o \in Monitors, RequestCheck(c, o)
       PROVE  OwnerKnows(k, n)'
    BY <1>6, CallTypes DEF OwnerKnows, Holds, Running, Stored, RequestCheck, Calls,
           checkVars, callVars, tickVars, alertVars
<1>7. ASSUME NEW c \in Callers, StartRun(c)
       PROVE  OwnerKnows(k, n)'
    BY <1>7, CallTypes DEF OwnerKnows, Holds, Running, Stored, StartRun, checkVars,
           callVars, tickVars, alertVars
<1>8. ASSUME NEW c \in Callers, JoinRun(c)
       PROVE  OwnerKnows(k, n)'
    BY <1>8, CallTypes DEF OwnerKnows, Holds, Running, Stored, JoinRun, Forgets, NoRow,
           Never, checkVars, callVars, tickVars, alertVars
<1>9. ASSUME NEW c \in Callers, Load(c)
       PROVE  OwnerKnows(k, n)'
    <2>1. CASE c # k
        BY <1>9, <2>1, OwnerKept, CallTypes, LocalTypes DEF Load, Stored, checkVars,
               callVars, alertVars
    <2>2. CASE c = k
        BY <1>9, <2>2, CallTypes, LocalTypes, RowTypes DEF OwnerKnows, Holds, Running,
               Stored, ClockBound, Load, checkVars, callVars, alertVars
    <2> QED  BY <2>1, <2>2
<1>10. ASSUME NEW c \in Callers, Probe(c)
       PROVE  OwnerKnows(k, n)'
    <2>1. CASE c # k
        BY <1>10, <2>1, OwnerKept, CallTypes, LocalTypes DEF Probe, Stored, checkVars,
               callVars, alertVars
    <2>2. CASE c = k
        BY <1>10, <2>2, CallTypes, LocalTypes, RowTypes DEF OwnerKnows, Holds, Running,
               Stored, ClockBound, Probe, checkVars, callVars, alertVars
    <2> QED  BY <2>1, <2>2
<1>11. ASSUME NEW c \in Callers, Write(c)
       PROVE  OwnerKnows(k, n)'
    <2>1. CASE mon[c] # n
        <3>1. CASE c # k
            BY <1>11, <2>1, <3>1, OwnerKept, CallTypes, LocalTypes, RowTypes DEF Write,
                   Stored, checkVars, callVars, alertVars
        <3>2. CASE c = k
            BY <1>11, <2>1, <3>2 DEF OwnerKnows, Holds, Write, checkVars, callVars,
                   alertVars
        <3> QED  BY <3>1, <3>2
    <2>2. CASE mon[c] = n /\ c # k
        <3>1. ~ Holds(k, n)
            BY <1>11, <2>2 DEF InFlightExact, Holds, Running, Write
        <3>2. ~ Holds(k, n)'
            BY <1>11, <2>2, <3>1, CallTypes DEF Holds, Write, checkVars, callVars,
                   alertVars
        <3> QED  BY <3>2 DEF OwnerKnows
    <2>3. CASE mon[c] = n /\ c = k
        BY <1>11, <2>3, CallTypes, LocalTypes, RowTypes DEF OwnerKnows, Holds, Running,
               Stored, ProbeAnswered, Write, checkVars, callVars, alertVars
    <2> QED  BY <2>1, <2>2, <2>3
<1>12. ASSUME NEW c \in Callers, Record(c)
       PROVE  OwnerKnows(k, n)'
    BY <1>12, CallTypes DEF OwnerKnows, Holds, Running, Stored, Record, checkVars,
           callVars, tickVars, alertVars
<1>13. ASSUME NEW c \in Callers, Decide(c)
       PROVE  OwnerKnows(k, n)'
    <2>1. PICK prefs \in PrefChoices :
              pc' = [pc EXCEPT ![c] =
                        IF MayNotify(prefs, updated[c], EventOf(prev[c], result[c]))
                        THEN "create" ELSE "return"]
        BY <1>13 DEF Decide
    <2>2. CASE c # k
        BY <1>13, <2>2, OwnerKept, CallTypes, LocalTypes DEF Decide, Stored, checkVars,
               callVars, alertVars
    <2>3. CASE c = k
        BY <1>13, <2>1, <2>3, CallTypes DEF OwnerKnows, Holds, Running, Stored,
               MayNotify, Decide, checkVars, callVars, alertVars
    <2> QED  BY <2>2, <2>3
<1>14. ASSUME NEW c \in Callers, CreateAlert(c)
       PROVE  OwnerKnows(k, n)'
    <2>1. CASE mon[c] # n
        <3>1. CASE c # k
            BY <1>14, <2>1, <3>1, OwnerKept, CallTypes, LocalTypes, RowTypes
                   DEF CreateAlert, Stored, checkVars, callVars, alertVars
        <3>2. CASE c = k
            BY <1>14, <2>1, <3>2 DEF OwnerKnows, Holds, CreateAlert, checkVars,
                   callVars, alertVars
        <3> QED  BY <3>1, <3>2
    <2>2. CASE mon[c] = n /\ c # k
        <3>1. ~ Holds(k, n)
            BY <1>14, <2>2 DEF InFlightExact, Holds, Running, CreateAlert
        <3>2. ~ Holds(k, n)'
            BY <1>14, <2>2, <3>1, CallTypes DEF Holds, CreateAlert, checkVars, callVars,
                   alertVars
        <3> QED  BY <3>2 DEF OwnerKnows
    <2>3. CASE mon[c] = n /\ c = k
        BY <1>14, <2>3, CallTypes, LocalTypes, RowTypes DEF OwnerKnows, Holds, Running,
               Stored, ProbeAnswered, CreateAlert, checkVars, callVars, alertVars
    <2> QED  BY <2>1, <2>2, <2>3
<1>15. ASSUME NEW c \in Callers, Stamp(c)
       PROVE  OwnerKnows(k, n)'
    <2>1. CASE mon[c] # n
        <3>1. CASE c # k
            BY <1>15, <2>1, <3>1, OwnerKept, CallTypes, LocalTypes, RowTypes DEF Stamp,
                   Stored, checkVars, callVars, alertVars
        <3>2. CASE c = k
            BY <1>15, <2>1, <3>2 DEF OwnerKnows, Holds, Stamp, checkVars, callVars,
                   alertVars
        <3> QED  BY <3>1, <3>2
    <2>2. CASE mon[c] = n /\ c # k
        <3>1. ~ Holds(k, n)
            BY <1>15, <2>2 DEF InFlightExact, Holds, Running, Stamp
        <3>2. ~ Holds(k, n)'
            BY <1>15, <2>2, <3>1, CallTypes DEF Holds, Stamp, checkVars, callVars,
                   alertVars
        <3> QED  BY <3>2 DEF OwnerKnows
    <2>3. CASE mon[c] = n /\ c = k
        BY <1>15, <2>3, CallTypes, LocalTypes, RowTypes DEF OwnerKnows, Holds, Running,
               Stored, ProbeAnswered, Stamp, checkVars, callVars, alertVars
    <2> QED  BY <2>1, <2>2, <2>3
<1>16. ASSUME NEW c \in Callers, Return(c)
       PROVE  OwnerKnows(k, n)'
    BY <1>16, CallTypes DEF OwnerKnows, Holds, Running, Stored, Return, Forgets, NoRow,
           Never, Home, checkVars, callVars, tickVars, alertVars
<1>17. ASSUME NEW c \in Callers, DatabaseFails(c)
       PROVE  OwnerKnows(k, n)'
    BY <1>17, CallTypes DEF OwnerKnows, Holds, Running, Stored, DatabaseFails,
           checkVars, callVars, tickVars, alertVars
<1>18. CASE Restart
    BY <1>18, CallTypes DEF OwnerKnows, Holds, Running, Stored, Restart, NoRow, Never,
           checkVars, callVars, tickVars, alertVars
<1>19. ASSUME NEW o \in Monitors, CreateMonitor(o)
       PROVE  OwnerKnows(k, n)'
    <2>1. CASE o # n
        BY <1>19, <2>1, OwnerKept, RowTypes DEF CreateMonitor, Stored, checkVars,
               callVars, alertVars
    <2>2. CASE o = n
        BY <1>19, <2>2 DEF Untouched, OwnerKnows, Holds, CreateMonitor, callVars
    <2> QED  BY <2>1, <2>2
<1>20. ASSUME NEW o \in Monitors, EditMonitor(o)
       PROVE  OwnerKnows(k, n)'
    BY <1>20, CallTypes DEF OwnerKnows, Holds, Running, Stored, EditMonitor, checkVars,
           callVars, tickVars, alertVars
<1>21. ASSUME NEW o \in Monitors, DeleteMonitor(o)
       PROVE  OwnerKnows(k, n)'
    <2>1. CASE o # n
        BY <1>21, <2>1, OwnerKept, RowTypes DEF DeleteMonitor, Stored, checkVars,
               callVars, alertVars
    <2>2. CASE o = n
        BY <1>21, <2>2, RowTypes DEF OwnerKnows, Stored, DeleteMonitor
    <2> QED  BY <2>1, <2>2
<1>22. CASE Tick
    <2>1. pc[k] = "create" => EventOf(prev[k], result[k]) \in Event
        BY DEF TypeInv, NewsPending
    <2>2. now' = now + 1 /\ UNCHANGED <<life, pc, mon, prev, result, at, updated, lastStatus,
              lastCheckedAt, notifiedAt, from, told>>
        BY <1>22 DEF Tick, checkVars, callVars, alertVars
    <2> QED
        BY <2>1, <2>2, LocalTypes, RowTypes, RunnerAssumption DEF OwnerKnows, Holds,
               Running, Stored
<1>23. CASE UNCHANGED vars
    BY <1>23 DEF OwnerKnows, Holds, Running, Stored, vars, checkVars, callVars,
           tickVars, alertVars
<1> QED
    BY <1>1, <1>2, <1>3, <1>4, <1>5, <1>6, <1>7, <1>8, <1>9, <1>10, <1>11, <1>12, <1>13,
           <1>14, <1>15, <1>16, <1>17, <1>18, <1>19, <1>20, <1>21, <1>22, <1>23
           DEF Next, TickStep, RunStep, Callers

\* The history follows the row: Write opens the gap, Record closes it, and what
\* leaves it open counts as a fault.
LEMMA HistoryStep ==
    ASSUME TypeInv, NEW n \in Monitors, Untouched(n), HistoryKept(n),
           \A d \in Callers : OwnerKnows(d, n), [Next]_vars
    PROVE  HistoryKept(n)'
<1>1. ASSUME NEW w \in Workers, TickLists(w)
       PROVE  HistoryKept(n)'
    BY <1>1, CallTypes DEF HistoryKept, Stored, Running, TickLists, checkVars, callVars,
           tickVars, alertVars
<1>2. ASSUME NEW w \in Workers, TickSkips(w)
       PROVE  HistoryKept(n)'
    BY <1>2, CallTypes DEF HistoryKept, Stored, Running, TickSkips, Due, checkVars,
           callVars, tickVars, alertVars
<1>3. ASSUME NEW w \in Workers, TickRuns(w)
       PROVE  HistoryKept(n)'
    BY <1>3, CallTypes DEF HistoryKept, Stored, Running, TickRuns, Calls, checkVars,
           callVars, tickVars, alertVars
<1>4. ASSUME NEW w \in Workers, TickEnds(w)
       PROVE  HistoryKept(n)'
    BY <1>4, CallTypes DEF HistoryKept, Stored, Running, TickEnds, checkVars, callVars,
           tickVars, alertVars
<1>5. ASSUME NEW w \in Workers, NEW o \in Monitors, JobLookup(w, o)
       PROVE  HistoryKept(n)'
    BY <1>5, CallTypes DEF HistoryKept, Stored, Running, JobLookup, Calls, checkVars,
           callVars, tickVars, alertVars
<1>6. ASSUME NEW c \in Requests, NEW o \in Monitors, RequestCheck(c, o)
       PROVE  HistoryKept(n)'
    BY <1>6, CallTypes DEF HistoryKept, Stored, Running, RequestCheck, Calls, checkVars,
           callVars, tickVars, alertVars
<1>7. ASSUME NEW c \in Callers, StartRun(c)
       PROVE  HistoryKept(n)'
    BY <1>7, CallTypes DEF HistoryKept, Stored, Running, StartRun, checkVars, callVars,
           tickVars, alertVars
<1>8. ASSUME NEW c \in Callers, JoinRun(c)
       PROVE  HistoryKept(n)'
    BY <1>8, CallTypes DEF HistoryKept, Stored, Running, JoinRun, Forgets, NoRow, Never,
           checkVars, callVars, tickVars, alertVars
<1>9. ASSUME NEW c \in Callers, Load(c)
       PROVE  HistoryKept(n)'
    BY <1>9, CallTypes DEF HistoryKept, Stored, Running, Load, checkVars, callVars,
           tickVars, alertVars
<1>10. ASSUME NEW c \in Callers, Probe(c)
       PROVE  HistoryKept(n)'
    BY <1>10, CallTypes DEF HistoryKept, Stored, Running, Probe, checkVars, callVars,
           tickVars, alertVars
<1>11. ASSUME NEW c \in Callers, Write(c)
       PROVE  HistoryKept(n)'
    <2>1. CASE mon[c] # n
        BY <1>11, <2>1, CallTypes, RowTypes DEF HistoryKept, Stored, Write, checkVars,
               callVars, alertVars
    <2>2. CASE mon[c] = n /\ Stored(n)
        <3>1. lastCheckedAt[n] <= at[c] /\ newest[n] <= lastCheckedAt[n]
            BY <1>11, <2>2 DEF HistoryKept, OwnerKnows, Holds, Running, Write
        <3>2. newest' = newest /\ lastCheckedAt'[n] = at[c] /\ pc'[c] = "record" /\ mon' = mon
            BY <1>11, <2>2, CallTypes, RowTypes DEF Stored, Write
        <3> QED
            BY <2>2, <3>1, <3>2, RowTypes, LocalTypes DEF HistoryKept
    <2>3. CASE ~ Stored(n)
        BY <1>11, <2>3 DEF HistoryKept, Stored, Write
    <2> QED  BY <2>1, <2>2, <2>3
<1>12. ASSUME NEW c \in Callers, Record(c)
       PROVE  HistoryKept(n)'
    <2>1. CASE mon[c] # n
        BY <1>12, <2>1, CallTypes, RowTypes DEF HistoryKept, Stored, Record, checkVars,
               callVars, alertVars
    <2>2. CASE mon[c] = n /\ Stored(n)
        <3>1. lastCheckedAt[n] = at[c] /\ newest[n] <= lastCheckedAt[n]
            BY <1>12, <2>2 DEF HistoryKept, OwnerKnows, Holds, Running, Record
        <3>2. lastCheckedAt' = lastCheckedAt
            BY <1>12 DEF Record
        <3>3. newest' = IF at[c] > newest[n] THEN [newest EXCEPT ![n] = at[c]] ELSE newest
            BY <1>12, <2>2 DEF Record
        <3>4. newest'[n] = at[c]
            <4>1. newest[n] \in Nat /\ at[c] \in Nat /\ newest \in [Monitors -> Nat]
                BY RowTypes, LocalTypes
            <4> QED  BY <3>1, <3>3, <4>1
        <3> QED
            BY <2>2, <3>1, <3>2, <3>4, RowTypes, LocalTypes DEF HistoryKept
    <2>3. CASE ~ Stored(n)
        BY <1>12, <2>3 DEF HistoryKept, Stored, Record
    <2> QED  BY <2>1, <2>2, <2>3
<1>13. ASSUME NEW c \in Callers, Decide(c)
       PROVE  HistoryKept(n)'
    BY <1>13, CallTypes DEF HistoryKept, Stored, Running, Decide, checkVars, callVars,
           tickVars, alertVars
<1>14. ASSUME NEW c \in Callers, CreateAlert(c)
       PROVE  HistoryKept(n)'
    BY <1>14, CallTypes DEF HistoryKept, Stored, Running, CreateAlert, checkVars,
           callVars, tickVars, alertVars
<1>15. ASSUME NEW c \in Callers, Stamp(c)
       PROVE  HistoryKept(n)'
    BY <1>15, CallTypes DEF HistoryKept, Stored, Running, Stamp, checkVars, callVars,
           tickVars, alertVars
<1>16. ASSUME NEW c \in Callers, Return(c)
       PROVE  HistoryKept(n)'
    BY <1>16, CallTypes DEF HistoryKept, Stored, Running, Return, Forgets, NoRow, Never,
           Home, checkVars, callVars, tickVars, alertVars
<1>17. ASSUME NEW c \in Callers, DatabaseFails(c)
       PROVE  HistoryKept(n)'
    <2>1. faults' > 0
        BY <1>17, LocalTypes DEF DatabaseFails
    <2>2. Stored(n) => newest'[n] <= lastCheckedAt[n]
        BY <1>17, RowTypes, LocalTypes DEF HistoryKept, OwnerKnows, Holds, Running,
               DatabaseFails
    <2> QED
        BY <1>17, <2>1, <2>2 DEF HistoryKept, Stored, DatabaseFails
<1>18. CASE Restart
    BY <1>18, LocalTypes DEF HistoryKept, Stored, Restart, checkVars
<1>19. ASSUME NEW o \in Monitors, CreateMonitor(o)
       PROVE  HistoryKept(n)'
    <2>1. CASE o # n
        BY <1>19, <2>1, RowTypes DEF HistoryKept, Stored, CreateMonitor, checkVars,
               callVars, alertVars
    <2>2. CASE o = n
        BY <1>19, <2>2, RowTypes DEF HistoryKept, Stored, Untouched, CreateMonitor,
               checkVars, callVars, alertVars
    <2> QED  BY <2>1, <2>2
<1>20. ASSUME NEW o \in Monitors, EditMonitor(o)
       PROVE  HistoryKept(n)'
    BY <1>20, CallTypes DEF HistoryKept, Stored, Running, EditMonitor, checkVars,
           callVars, tickVars, alertVars
<1>21. ASSUME NEW o \in Monitors, DeleteMonitor(o)
       PROVE  HistoryKept(n)'
    <2>1. CASE o # n
        BY <1>21, <2>1, RowTypes DEF HistoryKept, Stored, DeleteMonitor, checkVars,
               callVars, alertVars
    <2>2. CASE o = n
        BY <1>21, <2>2, RowTypes DEF HistoryKept, Stored, Untouched, DeleteMonitor,
               checkVars, callVars, alertVars
    <2> QED  BY <2>1, <2>2
<1>22. CASE Tick
    BY <1>22, CallTypes DEF HistoryKept, Stored, Running, Tick, checkVars, callVars,
           tickVars, alertVars
<1>23. CASE UNCHANGED vars
    BY <1>23 DEF HistoryKept, Stored, Running, vars, checkVars, callVars, tickVars,
           alertVars
<1> QED
    BY <1>1, <1>2, <1>3, <1>4, <1>5, <1>6, <1>7, <1>8, <1>9, <1>10, <1>11, <1>12, <1>13,
           <1>14, <1>15, <1>16, <1>17, <1>18, <1>19, <1>20, <1>21, <1>22, <1>23
           DEF Next, TickStep, RunStep, Callers

\* CreateAlert opens a gap that Stamp closes, or a fault leaves open.
LEMMA StampedStep ==
    ASSUME TypeInv, InFlightExact, NEW n \in Monitors, Untouched(n), AlertsStamped(n), [Next]_vars
    PROVE  AlertsStamped(n)'
<1>1. ASSUME NEW w \in Workers, TickLists(w)
       PROVE  AlertsStamped(n)'
    BY <1>1, CallTypes DEF AlertsStamped, Stored, Running, TickLists, checkVars,
           callVars, tickVars, alertVars
<1>2. ASSUME NEW w \in Workers, TickSkips(w)
       PROVE  AlertsStamped(n)'
    BY <1>2, CallTypes DEF AlertsStamped, Stored, Running, TickSkips, Due, checkVars,
           callVars, tickVars, alertVars
<1>3. ASSUME NEW w \in Workers, TickRuns(w)
       PROVE  AlertsStamped(n)'
    BY <1>3, CallTypes DEF AlertsStamped, Stored, Running, TickRuns, Calls, checkVars,
           callVars, tickVars, alertVars
<1>4. ASSUME NEW w \in Workers, TickEnds(w)
       PROVE  AlertsStamped(n)'
    BY <1>4, CallTypes DEF AlertsStamped, Stored, Running, TickEnds, checkVars,
           callVars, tickVars, alertVars
<1>5. ASSUME NEW w \in Workers, NEW o \in Monitors, JobLookup(w, o)
       PROVE  AlertsStamped(n)'
    BY <1>5, CallTypes DEF AlertsStamped, Stored, Running, JobLookup, Calls, checkVars,
           callVars, tickVars, alertVars
<1>6. ASSUME NEW c \in Requests, NEW o \in Monitors, RequestCheck(c, o)
       PROVE  AlertsStamped(n)'
    BY <1>6, CallTypes DEF AlertsStamped, Stored, Running, RequestCheck, Calls,
           checkVars, callVars, tickVars, alertVars
<1>7. ASSUME NEW c \in Callers, StartRun(c)
       PROVE  AlertsStamped(n)'
    BY <1>7, CallTypes DEF AlertsStamped, Stored, Running, StartRun, checkVars,
           callVars, tickVars, alertVars
<1>8. ASSUME NEW c \in Callers, JoinRun(c)
       PROVE  AlertsStamped(n)'
    BY <1>8, CallTypes DEF AlertsStamped, Stored, Running, JoinRun, Forgets, NoRow,
           Never, checkVars, callVars, tickVars, alertVars
<1>9. ASSUME NEW c \in Callers, Load(c)
       PROVE  AlertsStamped(n)'
    <2>1. life' = life /\ unstamped' = unstamped /\ faults' = faults
        BY <1>9 DEF Load, alertVars
    <2>2. \A d \in Callers : pc[d] = "stamp" =>
              /\ pc'[d] = "stamp" /\ mon'[d] = mon[d]
              /\ prev'[d] = prev[d] /\ result'[d] = result[d]
        BY <1>9, CallTypes, LocalTypes DEF Load
    <2> QED  BY <2>1, <2>2 DEF AlertsStamped, Stored
<1>10. ASSUME NEW c \in Callers, Probe(c)
       PROVE  AlertsStamped(n)'
    BY <1>10, CallTypes DEF AlertsStamped, Stored, Running, Probe, checkVars, callVars,
           tickVars, alertVars
<1>11. ASSUME NEW c \in Callers, Write(c)
       PROVE  AlertsStamped(n)'
    BY <1>11, CallTypes DEF AlertsStamped, Stored, Running, Write, checkVars, callVars,
           tickVars, alertVars
<1>12. ASSUME NEW c \in Callers, Record(c)
       PROVE  AlertsStamped(n)'
    BY <1>12, CallTypes DEF AlertsStamped, Stored, Running, Record, checkVars, callVars,
           tickVars, alertVars
<1>13. ASSUME NEW c \in Callers, Decide(c)
       PROVE  AlertsStamped(n)'
    BY <1>13, CallTypes DEF AlertsStamped, Stored, Running, Decide, checkVars, callVars,
           tickVars, alertVars
<1>14. ASSUME NEW c \in Callers, CreateAlert(c)
       PROVE  AlertsStamped(n)'
    <2>1. CASE mon[c] # n
        BY <1>14, <2>1, CallTypes, RowTypes DEF AlertsStamped, Stored, CreateAlert,
               checkVars, callVars, alertVars
    <2>2. CASE mon[c] = n /\ Stored(n)
        <3>1. unstamped[n] = {} \/ faults > 0
            BY <1>14, <2>2 DEF AlertsStamped, InFlightExact, Holds, Running, CreateAlert
        <3>2. UNCHANGED <<life, faults, mon, prev, result>>
            BY <1>14 DEF CreateAlert, callVars
        <3>3. unstamped'[n] = unstamped[n] \cup {EventOf(prev[c], result[c])}
            BY <1>14, <2>2, RowTypes DEF Stored, CreateAlert
        <3>4. pc'[c] = "stamp"
            BY <1>14, CallTypes DEF CreateAlert
        <3> QED  BY <2>2, <3>1, <3>2, <3>3, <3>4 DEF AlertsStamped
    <2>3. CASE ~ Stored(n)
        BY <1>14, <2>3 DEF AlertsStamped, Stored, CreateAlert
    <2> QED  BY <2>1, <2>2, <2>3
<1>15. ASSUME NEW c \in Callers, Stamp(c)
       PROVE  AlertsStamped(n)'
    <2>1. CASE mon[c] # n
        BY <1>15, <2>1, CallTypes, RowTypes DEF AlertsStamped, Stored, Stamp, checkVars,
               callVars, alertVars
    <2>2. CASE mon[c] = n /\ Stored(n)
        <3>1. unstamped[n] = {} \/ faults > 0
              \/ unstamped[n] = {EventOf(prev[c], result[c])}
            BY <1>15, <2>2 DEF AlertsStamped, InFlightExact, Holds, Running, Stamp
        <3>2. UNCHANGED <<life, faults, mon, prev, result>>
            BY <1>15 DEF Stamp, callVars
        <3>3. unstamped'[n] = unstamped[n] \ {EventOf(prev[c], result[c])}
            BY <1>15, <2>2, RowTypes DEF Stored, Stamp
        <3> QED  BY <2>2, <3>1, <3>2, <3>3 DEF AlertsStamped
    <2>3. CASE ~ Stored(n)
        BY <1>15, <2>3 DEF AlertsStamped, Stored, Stamp
    <2> QED  BY <2>1, <2>2, <2>3
<1>16. ASSUME NEW c \in Callers, Return(c)
       PROVE  AlertsStamped(n)'
    BY <1>16, CallTypes DEF AlertsStamped, Stored, Running, Return, Forgets, NoRow,
           Never, Home, checkVars, callVars, tickVars, alertVars
<1>17. ASSUME NEW c \in Callers, DatabaseFails(c)
       PROVE  AlertsStamped(n)'
    <2>1. faults' > 0
        BY <1>17, LocalTypes DEF DatabaseFails
    <2> QED  BY <2>1 DEF AlertsStamped
<1>18. CASE Restart
    <2>1. faults' > 0
        BY <1>18, LocalTypes DEF Restart
    <2> QED  BY <2>1 DEF AlertsStamped
<1>19. ASSUME NEW o \in Monitors, CreateMonitor(o)
       PROVE  AlertsStamped(n)'
    <2>1. CASE o # n
        BY <1>19, <2>1, RowTypes DEF AlertsStamped, Stored, CreateMonitor, checkVars,
               callVars, alertVars
    <2>2. CASE o = n
        BY <1>19, <2>2, RowTypes DEF AlertsStamped, Stored, Untouched, CreateMonitor,
               checkVars, callVars, alertVars
    <2> QED  BY <2>1, <2>2
<1>20. ASSUME NEW o \in Monitors, EditMonitor(o)
       PROVE  AlertsStamped(n)'
    BY <1>20, CallTypes DEF AlertsStamped, Stored, Running, EditMonitor, checkVars,
           callVars, tickVars, alertVars
<1>21. ASSUME NEW o \in Monitors, DeleteMonitor(o)
       PROVE  AlertsStamped(n)'
    BY <1>21, CallTypes DEF AlertsStamped, Stored, Running, DeleteMonitor, Never,
           checkVars, callVars, tickVars, alertVars
<1>22. CASE Tick
    BY <1>22, CallTypes DEF AlertsStamped, Stored, Running, Tick, checkVars, callVars,
           tickVars, alertVars
<1>23. CASE UNCHANGED vars
    BY <1>23 DEF AlertsStamped, Stored, Running, vars, checkVars, callVars, tickVars,
           alertVars
<1> QED
    BY <1>1, <1>2, <1>3, <1>4, <1>5, <1>6, <1>7, <1>8, <1>9, <1>10, <1>11, <1>12, <1>13,
           <1>14, <1>15, <1>16, <1>17, <1>18, <1>19, <1>20, <1>21, <1>22, <1>23
           DEF Next, TickStep, RunStep, Callers

-----------------------------------------------------------------------------

\* The invariant holds of an empty database and a process just started.
LEMMA InitInv == Init => IInv
<1> SUFFICES ASSUME Init  PROVE IInv
    OBVIOUS
<1>1. TypeInv
    BY RunnerAssumption DEF Init, TypeInv, TypeOK, CallNamed, NewsPending, Never, NoRow,
           Callers, Running, Status, Time
<1>2. \A c \in Callers : pc[c] = "idle" /\ mon[c] = None
    BY DEF Init
<1>3. InFlightExact /\ \A c \in Callers : ProbeAnswered(c)
    BY <1>2 DEF Init, InFlightExact, ProbeAnswered, Holds, Running
<1>4. \A c \in Callers, m \in Monitors : OwnerKnows(c, m)
    BY <1>2 DEF OwnerKnows, Holds, Running
<1>5. \A m \in Monitors : Untouched(m) /\ ClockBound(m) /\ HistoryKept(m) /\ AlertsStamped(m)
    BY <1>2, RunnerAssumption DEF Init, Untouched, ClockBound, HistoryKept,
           AlertsStamped, Stored
<1> QED  BY <1>1, <1>3, <1>4, <1>5 DEF IInv

\* The invariant is inductive.
LEMMA StepInv == IInv /\ [Next]_vars => IInv'
<1> SUFFICES ASSUME IInv, [Next]_vars  PROVE IInv'
    OBVIOUS
<1>1. TypeInv'
    BY TypeStep DEF IInv
<1>2. InFlightExact'
    BY ExactStep DEF IInv
<1>3. \A c \in Callers : ProbeAnswered(c)'
    BY ProbedStep DEF IInv
<1>4. \A c \in Callers, m \in Monitors : OwnerKnows(c, m)'
    BY OwnerStep DEF IInv
<1>5. \A m \in Monitors : Untouched(m)' /\ ClockBound(m)'
    BY UntouchedStep, BoundStep DEF IInv
<1>6. \A m \in Monitors : HistoryKept(m)' /\ AlertsStamped(m)'
    BY HistoryStep, StampedStep DEF IInv
<1> QED  BY <1>1, <1>2, <1>3, <1>4, <1>5, <1>6 DEF IInv

\* The invariant of the module holds of every behaviour of the code.
THEOREM Invariance == Spec => []IInv
    BY InitInv, StepInv, PTL DEF Spec

\* Type correctness: every place of run leaves its locals and the row's columns
\* with values of their types.
THEOREM TypeCorrect == Spec => []TypeOK
<1>1. IInv => TypeOK
    BY DEF IInv, TypeInv
<1> QED  BY <1>1, Invariance, PTL

\* inFlight is exact for any number of overlapping ticks, workers, forced checks,
\* failures and restarts: two callers never check one monitor at a time.
THEOREM InFlightIsExact == Spec => []InFlightExact
<1>1. IInv => InFlightExact
    BY DEF IInv
<1> QED  BY <1>1, Invariance, PTL

\* The two writes of a check (the row, then the history) agree whenever nobody is
\* between them.
THEOREM HistoryAgrees == Spec => []HistoryAgreesWithRow
<1>1. ASSUME IInv  PROVE HistoryAgreesWithRow
    <2> SUFFICES ASSUME NEW m \in Monitors, Stored(m)
                 PROVE  /\ newest[m] <= lastCheckedAt[m]
                        /\ m \notin inFlight /\ faults = 0 => newest[m] = lastCheckedAt[m]
        BY DEF HistoryAgreesWithRow
    <2>1. HistoryKept(m)
        BY <1>1 DEF IInv
    <2>2. m \notin inFlight => \A c \in Callers : ~ (pc[c] = "record" /\ mon[c] = m)
        BY <1>1 DEF IInv, InFlightExact, Holds, Running
    <2> QED  BY <2>1, <2>2 DEF HistoryKept
<1> QED  BY <1>1, Invariance, PTL

-----------------------------------------------------------------------------
(* Action properties and the refinement. *)

\* Only three steps touch the status of a monitor, its history or its alerts.
LEMMA QuietStep ==
    ASSUME [Next]_vars
    PROVE  \/ \E c \in Callers : Write(c) \/ CreateAlert(c)
           \/ \E m \in Monitors : DeleteMonitor(m)
           \/ UNCHANGED <<lastStatus, lastCheckedAt, from, told>>
<1> DEFINE Quiet == UNCHANGED <<lastStatus, lastCheckedAt, from, told>>
<1>1. ASSUME NEW w \in Workers, TickLists(w) \/ TickStep(w)  PROVE Quiet
    BY <1>1 DEF TickStep, TickLists, TickSkips, TickRuns, TickEnds, checkVars, alertVars
<1>2. ASSUME NEW w \in Workers, NEW m \in Monitors, JobLookup(w, m)  PROVE Quiet
    BY <1>2 DEF JobLookup, checkVars, alertVars
<1>3. ASSUME NEW c \in Requests, NEW m \in Monitors, RequestCheck(c, m)  PROVE Quiet
    BY <1>3 DEF RequestCheck, checkVars, alertVars
<1>4. ASSUME NEW c \in Callers, RunStep(c) \/ DatabaseFails(c)
      PROVE  Write(c) \/ CreateAlert(c) \/ Quiet
    <2>1. CASE StartRun(c) \/ JoinRun(c) \/ Load(c) \/ Probe(c) \/ Record(c)
        BY <2>1 DEF StartRun, JoinRun, Load, Probe, Record, checkVars, alertVars
    <2>2. CASE Decide(c) \/ Stamp(c) \/ Return(c) \/ DatabaseFails(c)
        BY <2>2 DEF Decide, Stamp, Return, DatabaseFails, checkVars, alertVars
    <2> QED  BY <1>4, <2>1, <2>2 DEF RunStep
<1>5. ASSUME NEW m \in Monitors, CreateMonitor(m) \/ EditMonitor(m)  PROVE Quiet
    BY <1>5 DEF CreateMonitor, EditMonitor, checkVars, alertVars
<1>6. CASE Restart \/ Tick
    BY <1>6 DEF Restart, Tick, checkVars, alertVars
<1>7. CASE UNCHANGED vars
    BY <1>7 DEF vars, checkVars, alertVars
<1> QED  BY <1>1, <1>2, <1>3, <1>4, <1>5, <1>6, <1>7 DEF Next

\* A check that finishes late never writes over a newer result.
THEOREM LatestStands == Spec => LatestResultStands
<1> DEFINE Stands == \A m \in Monitors : Stored(m)' => lastCheckedAt'[m] >= lastCheckedAt[m]
<1>1. ASSUME IInv, [Next]_vars  PROVE [Stands]_vars
    <2> SUFFICES ASSUME NEW m \in Monitors, Stored(m)'
                 PROVE  lastCheckedAt'[m] >= lastCheckedAt[m]
        OBVIOUS
    <2>t. TypeInv /\ lastCheckedAt \in [Monitors -> Nat] /\ at \in [Callers -> Nat]
        BY <1>1, RowTypes, LocalTypes DEF IInv
    <2>1. ASSUME NEW c \in Callers, Write(c)  PROVE lastCheckedAt'[m] >= lastCheckedAt[m]
        <3>1. CASE mon[c] = m /\ Stored(m)
            <4>1. lastCheckedAt[m] <= at[c]
                BY <1>1, <2>1, <3>1 DEF IInv, OwnerKnows, Holds, Running, Write
            <4>2. lastCheckedAt'[m] = at[c]
                BY <2>1, <2>t, <3>1 DEF Write
            <4> QED  BY <2>t, <4>1, <4>2
        <3>2. CASE ~ (mon[c] = m /\ Stored(m))
            <4>1. lastCheckedAt'[m] = lastCheckedAt[m]
                BY <2>1, <2>t, <3>2 DEF Write
            <4> QED  BY <2>t, <4>1
        <3> QED  BY <3>1, <3>2
    <2>2. ASSUME NEW c \in Callers, CreateAlert(c)  PROVE lastCheckedAt'[m] >= lastCheckedAt[m]
        BY <2>2, <2>t DEF CreateAlert, checkVars
    <2>3. ASSUME NEW o \in Monitors, DeleteMonitor(o)
          PROVE  lastCheckedAt'[m] >= lastCheckedAt[m]
        <3>1. o # m
            BY <1>1, <2>3, RowTypes DEF IInv, DeleteMonitor, Stored
        <3> QED  BY <2>3, <2>t, <3>1 DEF DeleteMonitor
    <2>4. CASE UNCHANGED <<lastStatus, lastCheckedAt, from, told>>
        BY <2>t, <2>4
    <2> QED  BY <1>1, <2>1, <2>2, <2>3, <2>4, QuietStep
<1> QED  BY <1>1, Invariance, PTL DEF Spec, LatestResultStands

\* An owner about to create its alert knows what there is to know of it.
LEMMA AlertFacts ==
    ASSUME IInv, NEW c \in Callers, CreateAlert(c), Stored(mon[c])
    PROVE  LET m == mon[c]
               e == EventOf(from[m], lastStatus[m])
           IN  /\ m \in Monitors
               /\ e = EventOf(prev[c], result[c]) /\ e \in Event
               /\ told[m] = 0
               /\ \/ notifiedAt[m][e] = 0
                  \/ now - notifiedAt[m][e] >= COOLDOWN
               /\ e \in unstamped[m] => faults > 0
<1> DEFINE m == mon[c]
<1>1. m \in Monitors /\ Holds(c, m) /\ EventOf(prev[c], result[c]) \in Event
    BY DEF IInv, TypeInv, CallNamed, NewsPending, Holds, Running, CreateAlert
<1>2. prev[c] # result[c]
    BY <1>1, EventOfType, LocalTypes DEF IInv
<1>3. from[m] = prev[c] /\ lastStatus[m] = result[c] /\ told[m] = 0
    BY <1>1, <1>2 DEF IInv, OwnerKnows, CreateAlert
<1>4. LET e == EventOf(prev[c], result[c])
      IN  notifiedAt[m][e] = 0 \/ now - notifiedAt[m][e] >= COOLDOWN
    BY <1>1 DEF IInv, OwnerKnows, CreateAlert
<1>5. unstamped[m] = {} \/ faults > 0
    BY <1>1 DEF IInv, AlertsStamped, InFlightExact, Holds, Running, CreateAlert
<1> QED  BY <1>1, <1>3, <1>4, <1>5

\* Two alerts of a kind are a cooldown apart, by the row as it is when the second
\* is created.
THEOREM AlertsAreSpaced == Spec => AlertsSpaced
<1> DEFINE Spaced ==
      \A m \in Monitors : told'[m] > told[m] =>
          LET e == EventOf(from[m], lastStatus[m])
          IN  /\ \/ notifiedAt[m][e] = 0
                 \/ now - notifiedAt[m][e] >= COOLDOWN
              /\ e \in unstamped[m] => faults > 0
<1>1. ASSUME IInv, [Next]_vars  PROVE [Spaced]_vars
    <2> SUFFICES ASSUME NEW m \in Monitors, told'[m] > told[m]
                 PROVE  LET e == EventOf(from[m], lastStatus[m])
                        IN  /\ \/ notifiedAt[m][e] = 0
                               \/ now - notifiedAt[m][e] >= COOLDOWN
                            /\ e \in unstamped[m] => faults > 0
        OBVIOUS
    <2>1. told \in [Monitors -> Nat]
        BY <1>1, RowTypes DEF IInv
    <2>2. ASSUME NEW c \in Callers, CreateAlert(c)
          PROVE  mon[c] = m /\ Stored(mon[c])
        BY <2>1, <2>2 DEF CreateAlert
    <2>3. ASSUME NEW c \in Callers, Write(c)  PROVE FALSE
        BY <2>1, <2>3 DEF Write
    <2>4. ASSUME NEW o \in Monitors, DeleteMonitor(o)  PROVE FALSE
        BY <2>1, <2>4 DEF DeleteMonitor
    <2>5. PICK c \in Callers : CreateAlert(c)
        BY <1>1, <2>1, <2>3, <2>4, QuietStep
    <2> QED  BY <1>1, <2>2, <2>5, AlertFacts
<1> QED  BY <1>1, Invariance, PTL DEF Spec, AlertsSpaced

\* The runner implements the ledger of statuses and alerts.
THEOREM LedgerRefined == Spec => ImplementsLedger
<1>1. Init => Ledger!Init
    BY DEF Init, Ledger!Init
<1>2. ASSUME IInv, [Next]_vars  PROVE [Ledger!Next]_(Ledger!vars)
    <2>t. /\ lastStatus \in [Monitors -> Status] /\ result \in [Callers -> Status]
          /\ told \in [Monitors -> Nat]
        BY <1>2, RowTypes, LocalTypes DEF IInv
    <2>1. ASSUME NEW c \in Callers, Write(c)  PROVE [Ledger!Next]_(Ledger!vars)
        <3>1. mon[c] \in Monitors /\ result[c] \in {"UP", "DOWN"}
            BY <1>2, <2>1 DEF IInv, TypeInv, CallNamed, Running, ProbeAnswered, Write
        <3>2. CASE Stored(mon[c]) /\ lastStatus[mon[c]] # result[c]
            <4>1. Ledger!Change(mon[c])
                BY <2>1, <3>1, <3>2 DEF Write, Ledger!Change
            <4> QED  BY <3>1, <4>1 DEF Ledger!Next
        <3>3. CASE Stored(mon[c]) /\ lastStatus[mon[c]] = result[c]
            <4>1. lastStatus' = lastStatus
                BY <2>1, <2>t, <3>1, <3>3 DEF Write
            <4> QED  BY <2>1, <3>3, <4>1 DEF Write, Ledger!vars
        <3>4. CASE ~ Stored(mon[c])
            BY <2>1, <3>4 DEF Write, Ledger!vars
        <3> QED  BY <3>2, <3>3, <3>4
    <2>2. ASSUME NEW c \in Callers, CreateAlert(c)  PROVE [Ledger!Next]_(Ledger!vars)
        <3>1. CASE Stored(mon[c])
            <4>1. LET m == mon[c]
                  IN  /\ m \in Monitors /\ told[m] = 0
                      /\ EventOf(from[m], lastStatus[m]) \in Event
                BY <1>2, <2>2, <3>1, AlertFacts
            <4>2. Ledger!News(mon[c])
                BY <4>1 DEF EventOf, Event, Ledger!News
            <4>3. told' = [told EXCEPT ![mon[c]] = 1] /\ UNCHANGED <<lastStatus, from>>
                BY <2>2, <2>t, <3>1, <4>1 DEF CreateAlert, checkVars
            <4> QED  BY <4>1, <4>2, <4>3 DEF Ledger!Next, Ledger!Tell
        <3>2. CASE ~ Stored(mon[c])
            BY <2>2, <3>2 DEF CreateAlert, checkVars, Ledger!vars
        <3> QED  BY <3>1, <3>2
    <2>3. ASSUME NEW m \in Monitors, DeleteMonitor(m)  PROVE [Ledger!Next]_(Ledger!vars)
        BY <2>3 DEF DeleteMonitor, Ledger!Next, Ledger!Forget
    <2>4. CASE UNCHANGED <<lastStatus, lastCheckedAt, from, told>>
        BY <2>4 DEF Ledger!vars
    <2> QED  BY <1>2, <2>1, <2>2, <2>3, <2>4, QuietStep
<1> QED  BY <1>1, <1>2, Invariance, PTL DEF Spec, ImplementsLedger, Ledger!Spec
=============================================================================
