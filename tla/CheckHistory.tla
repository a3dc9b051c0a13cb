---------------------------- MODULE CheckHistory -----------------------------
(***************************************************************************)
(* The stored checks of one monitor: MonitorCheckHistoryService.record      *)
(* writes a row, deletes the expired ones and trims the rest to the cap in  *)
(* three calls; the queries read a window of them.  The runner records one  *)
(* check of a monitor at a time (MonitorRunner), but the database may fail  *)
(* at every call and the monitor may be deleted between any two.            *)
(***************************************************************************)
EXTENDS Integers, FiniteSets

CONSTANTS
    MaxChecks,   \* MAX_CHECKS_PER_MONITOR
    Retention,   \* CHECK_RETENTION_DAYS, in ticks
    Window,      \* the hours a query asks for, in ticks
    Limit,       \* the most rows the list query returns
    MaxRecords,  \* bound: checks recorded
    MaxNow       \* bound: the clock

ASSUME HistoryAssumption ==
    /\ MaxChecks \in Nat \ {0} /\ Retention \in Nat /\ Window \in Nat
    /\ Limit \in Nat \ {0} /\ MaxRecords \in Nat /\ MaxNow \in Nat

VARIABLES
    checks,    \* the rows: [id, checkedAt, up]
    recorded,  \* how many were ever written
    owned,     \* the monitor exists
    recording, \* where record stands: "idle", "created", "pruned", "counted", "chosen"
    excess,    \* the count it has read
    doomed,    \* the ids it is about to delete
    now        \* the clock

historyVars == <<checks, recorded, owned, recording, excess, doomed, now>>

HistoryInit ==
    /\ checks = {}
    /\ recorded = 0
    /\ owned = TRUE
    /\ recording = "idle"
    /\ excess = 0
    /\ doomed = {}
    /\ now = 0

\* Checks may share a moment of the clock: order by checkedAt leaves them open.
Tick ==
    /\ now < MaxNow
    /\ now' = now + 1
    /\ UNCHANGED <<checks, recorded, owned, recording, excess, doomed>>

RecordCheck ==
    /\ recording = "idle" /\ owned /\ recorded < MaxRecords
    /\ \E up \in BOOLEAN :
          checks' = checks \cup {[id |-> recorded + 1, checkedAt |-> now, up |-> up]}
    /\ recorded' = recorded + 1
    /\ recording' = "created"
    /\ UNCHANGED <<owned, excess, doomed, now>>

PruneExpired ==
    /\ recording = "created"
    /\ checks' = {c \in checks : c.checkedAt >= now - Retention}
    /\ recording' = "pruned"
    /\ UNCHANGED <<recorded, owned, excess, doomed, now>>

\* At the cap or below, record is done.
CountChecks ==
    /\ recording = "pruned"
    /\ excess' = Cardinality(checks)
    /\ recording' = IF Cardinality(checks) > MaxChecks THEN "counted" ELSE "idle"
    /\ UNCHANGED <<checks, recorded, owned, doomed, now>>

\* Mutation of Oldest: orderBy checkedAt desc.
Newest(rows, n) ==
    {S \in SUBSET rows :
        /\ Cardinality(S) = IF n < Cardinality(rows) THEN n ELSE Cardinality(rows)
        /\ \A r \in S, s \in rows \ S : r.checkedAt >= s.checkedAt}

\* orderBy checkedAt asc, take n: any n rows (all, if there are fewer) such that
\* none left out is older.
Oldest(rows, n) ==
    {S \in SUBSET rows :
        /\ Cardinality(S) = IF n < Cardinality(rows) THEN n ELSE Cardinality(rows)
        /\ \A r \in S, s \in rows \ S : r.checkedAt <= s.checkedAt}

FindOldest ==
    /\ recording = "counted"
    /\ \E S \in Oldest(checks, excess - MaxChecks) : doomed' = {r.id : r \in S}
    /\ recording' = "chosen"
    /\ UNCHANGED <<checks, recorded, owned, excess, now>>

RemoveOldest ==
    /\ recording = "chosen"
    /\ checks' = {c \in checks : c.id \notin doomed}
    /\ recording' = "idle"
    /\ UNCHANGED <<recorded, owned, excess, doomed, now>>

\* A call of the database fails; what it would have done is left undone.
RecordFails ==
    /\ recording # "idle"
    /\ recording' = "idle"
    /\ UNCHANGED <<checks, recorded, owned, excess, doomed, now>>

\* The monitor is deleted, and its checks with it.
DeleteMonitor ==
    /\ owned
    /\ owned' = FALSE
    /\ checks' = {}
    /\ UNCHANGED <<recorded, recording, excess, doomed, now>>

HistoryNext ==
    \/ Tick
    \/ RecordCheck \/ PruneExpired \/ CountChecks \/ FindOldest \/ RemoveOldest
    \/ RecordFails \/ DeleteMonitor

HistorySpec == HistoryInit /\ [][HistoryNext]_historyVars

(***************************************************************************)
(* The queries.                                                             *)
(***************************************************************************)
Recent == {c \in checks : c.checkedAt >= now - Window}

\* What monitorChecks may return.
ListForMonitor == Oldest(Recent, Limit)

\* The percentage in tenths: Math.round(x) is floor(x + 1/2), and of no checks the
\* percentage is 100.
UptimeTenths(up, total) ==
    IF total = 0 THEN 1000 ELSE (2000 * up + total) \div (2 * total)

UptimeForMonitor ==
    UptimeTenths(Cardinality({c \in Recent : c.up}), Cardinality(Recent))

(***************************************************************************)
(* Properties.                                                              *)
(***************************************************************************)
HistoryTypeOK ==
    /\ checks \subseteq [id : 1..MaxRecords, checkedAt : 0..MaxNow, up : BOOLEAN]
    /\ recorded \in 0..MaxRecords
    /\ owned \in BOOLEAN
    /\ recording \in {"idle", "created", "pruned", "counted", "chosen"}
    /\ excess \in Nat
    /\ doomed \subseteq 1..MaxRecords
    /\ now \in 0..MaxNow

\* While its monitor exists a check is lost only when it has expired or when at
\* least MaxChecks checks that are not older remain; and a trim that comes to its
\* end leaves no more than MaxChecks, whatever earlier ones left undone.
TrimKeepsNewest ==
    [][/\ \A c \in checks \ checks' :
             \/ ~owned'
             \/ c.checkedAt < now - Retention
             \/ Cardinality({d \in checks' : d.checkedAt >= c.checkedAt}) >= MaxChecks
       /\ RemoveOldest => Cardinality(checks') <= MaxChecks]_historyVars

\* The list of recent checks holds one of the latest.
ListShowsLatest ==
    \A shown \in ListForMonitor :
        Recent # {} =>
            \E c \in shown : \A d \in Recent : c.checkedAt >= d.checkedAt
==============================================================================
