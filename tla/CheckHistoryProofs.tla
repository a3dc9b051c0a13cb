------------------------- MODULE CheckHistoryProofs -------------------------
(***************************************************************************)
(* Proofs about CheckHistory, for any cap, retention, window and bounds.    *)
(* Between the count and the deletion nobody else writes checks of the      *)
(* monitor but its deletion: what the count says stays true of what is      *)
(* listed, and the rows that were chosen are the oldest of those there are. *)
(***************************************************************************)
EXTENDS CheckHistory, FiniteSetTheorems, TLAPS

\* What is kept when the chosen rows go.
Kept == {c \in checks : c.id \notin doomed}

\* The rows: of a finite number, each with an id of its own.
RowsOK ==
    /\ IsFiniteSet(checks)
    /\ \A c \in checks : c.id <= recorded
    /\ \A c, d \in checks : c.id = d.id => c = d
    /\ ~owned => checks = {}

\* What record knows of them between its calls.
CountOK ==
    recording = "counted" => /\ excess > MaxChecks
                             /\ owned => excess = Cardinality(checks)

ChoiceOK ==
    recording = "chosen" =>
        /\ owned => Cardinality(Kept) = MaxChecks
        /\ \A c \in checks \ Kept, d \in Kept : c.checkedAt <= d.checkedAt

\* The inductive invariant.
HistoryInv == HistoryTypeOK /\ RowsOK /\ CountOK /\ ChoiceOK

-----------------------------------------------------------------------------
\* The shape of a row.
LEMMA RowTypes ==
    ASSUME HistoryTypeOK
    PROVE  \A c \in checks : c.id \in Nat /\ c.checkedAt \in Nat
    BY HistoryAssumption DEF HistoryTypeOK

\* Fewer rows of a finite set are a finite set.
LEMMA FewerRows ==
    ASSUME RowsOK, NEW S \in SUBSET checks
    PROVE  IsFiniteSet(S) /\ Cardinality(S) \in Nat /\ Cardinality(S) <= Cardinality(checks)
    BY FS_Subset, FS_CardinalityType DEF RowsOK

\* It holds before the first check.
LEMMA InitHistory == HistoryInit => HistoryInv
    BY HistoryAssumption, FS_EmptySet
    DEF HistoryInit, HistoryInv, HistoryTypeOK, RowsOK, CountOK, ChoiceOK

\* When as many of the oldest rows go as there are above the cap, the cap is what
\* is left, and it is the newest.
LEMMA OldestLeavesCap ==
    ASSUME HistoryInv, owned, recording = "counted",
           NEW S \in Oldest(checks, excess - MaxChecks),
           doomed' = {r.id : r \in S}, checks' = checks
    PROVE  /\ Cardinality(Kept') = MaxChecks
           /\ \A c \in checks \ Kept', d \in Kept' : c.checkedAt <= d.checkedAt
<1>1. S \subseteq checks /\ \A r \in S, s \in checks \ S : r.checkedAt <= s.checkedAt
    BY DEF Oldest
<1>2. Kept' = checks \ S
    <2>1. \A c \in checks : c \in S <=> c.id \in {r.id : r \in S}
        BY <1>1 DEF HistoryInv, RowsOK
    <2> QED BY <2>1 DEF Kept
<1>3. excess = Cardinality(checks) /\ excess > MaxChecks /\ excess \in Nat /\ MaxChecks \in Nat
    BY HistoryAssumption DEF HistoryInv, HistoryTypeOK, CountOK
<1>4. Cardinality(S) = excess - MaxChecks
    BY <1>3 DEF Oldest
<1>5. IsFiniteSet(checks) /\ IsFiniteSet(S)
    BY <1>1, FewerRows DEF HistoryInv, RowsOK
<1>6. Cardinality(checks \ S) = Cardinality(checks) - Cardinality(S)
    <2>1. Cardinality(checks \ S) = Cardinality(checks) - Cardinality(checks \cap S)
        BY <1>5, FS_Difference
    <2>2. checks \cap S = S
        BY <1>1
    <2> QED BY <2>1, <2>2
<1>7. Cardinality(Kept') = MaxChecks
    BY <1>2, <1>3, <1>4, <1>6
<1>8. checks \ Kept' = S
    BY <1>1, <1>2
<1> QED BY <1>1, <1>2, <1>7, <1>8

\* Every step of record, of the clock and of the owner keeps the invariant.
LEMMA StepHistory == HistoryInv /\ [HistoryNext]_historyVars => HistoryInv'
<1> SUFFICES ASSUME HistoryInv, [HistoryNext]_historyVars PROVE HistoryInv'
    OBVIOUS
<1> USE HistoryAssumption DEF HistoryInv
<1>1. CASE Tick
    BY <1>1 DEF Tick, HistoryTypeOK, RowsOK, CountOK, ChoiceOK, Kept
<1>2. CASE RecordCheck
    <2> PICK up \in BOOLEAN :
            checks' = checks \cup {[id |-> recorded + 1, checkedAt |-> now, up |-> up]}
        BY <1>2 DEF RecordCheck
    <2> DEFINE row == [id |-> recorded + 1, checkedAt |-> now, up |-> up]
    <2>1. row \in [id : 1..MaxRecords, checkedAt : 0..MaxNow, up : BOOLEAN]
        BY <1>2 DEF RecordCheck, HistoryTypeOK
    <2>2. HistoryTypeOK'
        BY <1>2, <2>1 DEF RecordCheck, HistoryTypeOK
    <2>3. IsFiniteSet(checks')
        BY FS_AddElement DEF RowsOK
    <2>4. \A c \in checks : c.id # recorded + 1 /\ c.id <= recorded + 1
        BY RowTypes DEF RowsOK, HistoryTypeOK
    <2>5. \A c \in checks' : c \in checks \/ (c = row /\ c.id = recorded + 1)
        OBVIOUS
    <2>6. recorded' = recorded + 1 /\ recorded \in Nat /\ owned /\ owned'
        BY <1>2 DEF RecordCheck, HistoryTypeOK
    <2>7. \A c \in checks' : c.id <= recorded'
        BY <2>4, <2>5, <2>6
    <2>8. \A c, d \in checks' : c.id = d.id => c = d
        BY <2>4, <2>5 DEF RowsOK
    <2>9. RowsOK'
        BY <2>3, <2>6, <2>7, <2>8 DEF RowsOK
    <2>10. CountOK' /\ ChoiceOK'
        BY <1>2 DEF RecordCheck, CountOK, ChoiceOK
    <2> QED BY <2>2, <2>9, <2>10
<1>3. CASE PruneExpired
    <2>1. checks' \subseteq checks
        BY <1>3 DEF PruneExpired
    <2>2. IsFiniteSet(checks')
        BY <2>1, FewerRows
    <2>3. HistoryTypeOK' /\ RowsOK'
        BY <1>3, <2>1, <2>2 DEF PruneExpired, HistoryTypeOK, RowsOK
    <2>4. CountOK' /\ ChoiceOK'
        BY <1>3 DEF PruneExpired, CountOK, ChoiceOK
    <2> QED BY <2>3, <2>4
<1>4. CASE CountChecks
    <2>1. Cardinality(checks) \in Nat
        BY FewerRows
    <2>2. HistoryTypeOK' /\ RowsOK'
        BY <1>4, <2>1 DEF CountChecks, HistoryTypeOK, RowsOK
    <2>3. CountOK' /\ ChoiceOK'
        BY <1>4 DEF CountChecks, CountOK, ChoiceOK
    <2> QED BY <2>2, <2>3
<1>5. CASE FindOldest
    <2>1. PICK S \in Oldest(checks, excess - MaxChecks) : doomed' = {r.id : r \in S}
        BY <1>5 DEF FindOldest
    <2>2. \A r \in S : r.id \in 1..MaxRecords
        BY <2>1 DEF Oldest, HistoryTypeOK
    <2>3. HistoryTypeOK' /\ RowsOK'
        BY <1>5, <2>1, <2>2 DEF FindOldest, HistoryTypeOK, RowsOK
    <2>4. checks' = checks /\ owned' = owned /\ recording = "counted"
        BY <1>5 DEF FindOldest
    <2>5. CASE owned
        BY <2>1, <2>3, <2>4, <2>5, <1>5, OldestLeavesCap DEF FindOldest, CountOK, ChoiceOK
    <2>6. CASE ~owned
        BY <2>3, <2>4, <2>6, <1>5 DEF FindOldest, CountOK, ChoiceOK, RowsOK, Kept
    <2> QED BY <2>5, <2>6
<1>6. CASE RemoveOldest
    <2>1. checks' \subseteq checks
        BY <1>6 DEF RemoveOldest
    <2>2. IsFiniteSet(checks')
        BY <2>1, FewerRows
    <2>3. HistoryTypeOK' /\ RowsOK'
        BY <1>6, <2>1, <2>2 DEF RemoveOldest, HistoryTypeOK, RowsOK
    <2>4. CountOK' /\ ChoiceOK'
        BY <1>6 DEF RemoveOldest, CountOK, ChoiceOK
    <2> QED BY <2>3, <2>4
<1>7. CASE RecordFails
    BY <1>7 DEF RecordFails, HistoryTypeOK, RowsOK, CountOK, ChoiceOK
<1>8. CASE DeleteMonitor
    BY <1>8, FS_EmptySet DEF DeleteMonitor, HistoryTypeOK, RowsOK, CountOK, ChoiceOK, Kept
<1>9. CASE UNCHANGED historyVars
    BY <1>9 DEF historyVars, HistoryTypeOK, RowsOK, CountOK, ChoiceOK, Kept
<1> QED
    BY <1>1, <1>2, <1>3, <1>4, <1>5, <1>6, <1>7, <1>8, <1>9 DEF HistoryNext

\* The inductive invariant holds of the history of any monitor.
THEOREM HistoryInvariance == HistorySpec => []HistoryInv
    BY InitHistory, StepHistory, PTL DEF HistorySpec

\* Type correctness of rows and locals.
THEOREM HistoryTypeCorrect == HistorySpec => []HistoryTypeOK
<1>1. HistoryInv => HistoryTypeOK
    BY DEF HistoryInv
<1> QED BY <1>1, HistoryInvariance, PTL

\* A check that has not expired goes only when the cap's worth of checks that are
\* not older stay, and a trim that comes to its end leaves no more than the cap:
\* whatever calls failed before, and whatever checks share a moment of the clock.
THEOREM KeepsNewest == HistorySpec => TrimKeepsNewest
<1> DEFINE Step ==
        /\ \A c \in checks \ checks' :
              \/ ~owned'
              \/ c.checkedAt < now - Retention
              \/ Cardinality({d \in checks' : d.checkedAt >= c.checkedAt}) >= MaxChecks
        /\ RemoveOldest => Cardinality(checks') <= MaxChecks
<1>1. ASSUME HistoryInv, [HistoryNext]_historyVars PROVE [Step]_historyVars
    <2> USE <1>1 DEF HistoryInv
    <2>1. CASE RemoveOldest
        <3>1. checks' = Kept /\ owned' = owned /\ recording = "chosen"
            BY <2>1 DEF RemoveOldest, Kept
        <3>2. CASE owned
            <4>1. Cardinality(checks') = MaxChecks
                BY <3>1, <3>2 DEF ChoiceOK
            <4>2. ASSUME NEW c \in checks \ checks'
                  PROVE  {d \in checks' : d.checkedAt >= c.checkedAt} = checks'
                <5>1. \A d \in checks' : c.checkedAt <= d.checkedAt
                    BY <3>1, <4>2 DEF ChoiceOK
                <5>2. \A d \in checks' : d.checkedAt \in Nat /\ c.checkedAt \in Nat
                    BY <3>1, <4>2, RowTypes DEF Kept
                <5> QED BY <5>1, <5>2
            <4>3. \A c \in checks \ checks' :
                      Cardinality({d \in checks' : d.checkedAt >= c.checkedAt}) >= MaxChecks
                <5> SUFFICES ASSUME NEW c \in checks \ checks'
                             PROVE  Cardinality({d \in checks' : d.checkedAt >= c.checkedAt})
                                        >= MaxChecks
                    OBVIOUS
                <5>1. Cardinality({d \in checks' : d.checkedAt >= c.checkedAt})
                          = Cardinality(checks')
                    BY <4>2, Zenon
                <5>2. Cardinality(checks') >= MaxChecks
                    BY <4>1, HistoryAssumption
                <5> QED BY <5>1, <5>2
            <4> QED BY <4>1, <4>3, HistoryAssumption
        <3>3. CASE ~owned
            <4>1. checks' = {} /\ checks = {}
                BY <3>1, <3>3 DEF RowsOK, Kept
            <4> QED BY <4>1, FS_EmptySet, HistoryAssumption
        <3> QED BY <3>2, <3>3
    <2>2. CASE ~RemoveOldest /\ HistoryNext
        <3>1. CASE PruneExpired
            <4>1. \A c \in checks \ checks' : c.checkedAt < now - Retention
                BY <3>1, RowTypes, HistoryAssumption DEF PruneExpired, HistoryTypeOK
            <4> QED BY <4>1, <2>2
        <3>2. CASE DeleteMonitor
            BY <3>2, <2>2 DEF DeleteMonitor
        <3>3. CASE ~PruneExpired /\ ~DeleteMonitor
            <4>1. checks \subseteq checks'
                BY <2>2, <3>3
                DEF HistoryNext, Tick, RecordCheck, CountChecks, FindOldest, RecordFails
            <4> QED BY <4>1, <2>2
        <3> QED BY <3>1, <3>2, <3>3
    <2>3. CASE UNCHANGED historyVars
        BY <2>3
    <2> QED BY <2>1, <2>2, <2>3
<1>2. TrimKeepsNewest <=> [][Step]_historyVars
    BY DEF TrimKeepsNewest
<1> QED BY <1>1, <1>2, HistoryInvariance, PTL DEF HistorySpec

-----------------------------------------------------------------------------
\* Below 2000 checks a failure always shows: the percentage that is rounded to one
\* decimal is 100 only when every check was up.
THEOREM FailureShows ==
    ASSUME NEW total \in 1..1999, NEW up \in 0..(total - 1)
    PROVE  UptimeTenths(up, total) < 1000
<1>1. 2000 * up + total < 1000 * (2 * total)
    OBVIOUS
<1>2. ASSUME NEW n \in Nat, NEW d \in Nat \ {0}, n < 1000 * d
      PROVE  n \div d < 1000
    <2>1. n = d * (n \div d) + (n % d) /\ 0 <= n % d /\ n \div d \in Int
        OBVIOUS
    <2> QED BY <2>1, <1>2
<1> QED BY <1>1, <1>2 DEF UptimeTenths

\* At MAX_CHECKS_PER_MONITOR it no longer does: one failure among 2000 checks is
\* shown as 100 %.
THEOREM FailureHidden == UptimeTenths(1999, 2000) = 1000
    BY DEF UptimeTenths
=============================================================================
