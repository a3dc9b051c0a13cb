-------------------------- MODULE K6ProcessProofs --------------------------
(***************************************************************************)
(* Proofs about K6Process, for any exit codes.  The timers are armed while  *)
(* the child runs or its 'close' event is awaited, and finish takes both    *)
(* back; a code 0 that has been read is the exit code of a child that is    *)
(* gone, and a child that was signalled has marked the run as timed out.    *)
(***************************************************************************)
EXTENDS K6Process, TLAPS

\* The child and the timers, by the stage of the run.
ChildByStage ==
    /\ stage \in {"idle", "writing", "spawning"} => k6 = "none"
    /\ stage = "running" => k6 # "none"
    /\ stage \in {"reading", "removing", "returned"} => k6 # "running"
    /\ limit \/ killer => stage = "running"
    /\ heir => k6 = "gone"

\* What the verdict rests on.
VerdictGrounded ==
    /\ signalled => timedOut
    /\ stage \in {"idle", "writing", "spawning", "running"} => code = BySignal
    /\ stage \in {"reading", "removing", "returned"} /\ code = 0 => exitCode = 0
    /\ outcome = "passed" => /\ ~timedOut /\ code = 0
                             /\ stage \in {"removing", "returned"}

\* The directory is gone, or rm has failed.
DirAccounted ==
    /\ stage = "idle" => ~dir
    /\ stage = "returned" /\ dir => outcome = "error"

\* K6TypeOK by the kind of its variables.
StagesOK ==
    /\ stage \in {"idle", "writing", "spawning", "running", "reading", "removing",
                  "returned"}
    /\ k6 \in {"none", "running", "gone"}
    /\ exitCode \in ExitCodes \cup {BySignal}
    /\ code \in ExitCodes \cup {BySignal, 1}
    /\ outcome \in {"none", "passed", "failed", "missing", "error"}

FlagsOK ==
    /\ heir \in BOOLEAN /\ limit \in BOOLEAN /\ killer \in BOOLEAN
    /\ signalled \in BOOLEAN /\ timedOut \in BOOLEAN /\ dir \in BOOLEAN

\* The inductive invariant.
K6Inv == StagesOK /\ FlagsOK /\ ChildByStage /\ VerdictGrounded /\ DirAccounted

-----------------------------------------------------------------------------
\* No code is the mark of a signal.
LEMMA SignalIsNoCode == BySignal \notin ExitCodes /\ BySignal # 0
    BY K6Assumption DEF BySignal

\* It holds before the run.
LEMMA InitK6 == K6Init => K6Inv
    BY SignalIsNoCode DEF K6Init, K6Inv, StagesOK, FlagsOK, ChildByStage, VerdictGrounded, DirAccounted

\* Every step of the code and of the child keeps the invariant.
LEMMA StepK6 == K6Inv /\ [K6Next]_k6Vars => K6Inv'
<1> SUFFICES ASSUME K6Inv, [K6Next]_k6Vars PROVE K6Inv'
    OBVIOUS
<1> USE DEF K6Inv
<1>1. CASE MakeDir
    <2>1. StagesOK'
        BY <1>1, SignalIsNoCode DEF StagesOK, MakeDir, Child
    <2>2. FlagsOK'
        BY <1>1 DEF FlagsOK, MakeDir, Child
    <2>3. ChildByStage'
        BY <1>1 DEF ChildByStage, MakeDir, Child
    <2>4. VerdictGrounded'
        BY <1>1, SignalIsNoCode DEF ChildByStage, VerdictGrounded, MakeDir, Child
    <2>5. DirAccounted'
        BY <1>1 DEF DirAccounted, MakeDir, Child
    <2> QED BY <2>1, <2>2, <2>3, <2>4, <2>5
<1>2. CASE WriteScript
    <2>1. StagesOK'
        BY <1>2, SignalIsNoCode DEF StagesOK, WriteScript, Child
    <2>2. FlagsOK'
        BY <1>2 DEF FlagsOK, WriteScript, Child
    <2>3. ChildByStage'
        BY <1>2 DEF ChildByStage, WriteScript, Child
    <2>4. VerdictGrounded'
        BY <1>2, SignalIsNoCode DEF ChildByStage, VerdictGrounded, WriteScript, Child
    <2>5. DirAccounted'
        BY <1>2 DEF DirAccounted, WriteScript, Child
    <2> QED BY <2>1, <2>2, <2>3, <2>4, <2>5
<1>3. CASE Spawn
    <2>1. StagesOK'
        BY <1>3, SignalIsNoCode DEF StagesOK, Spawn
    <2>2. FlagsOK'
        BY <1>3 DEF FlagsOK, Spawn
    <2>3. ChildByStage'
        BY <1>3 DEF ChildByStage, Spawn
    <2>4. VerdictGrounded'
        BY <1>3, SignalIsNoCode DEF ChildByStage, VerdictGrounded, Spawn
    <2>5. DirAccounted'
        BY <1>3 DEF DirAccounted, Spawn
    <2> QED BY <2>1, <2>2, <2>3, <2>4, <2>5
<1>4. CASE SpawnFails
    <2>1. StagesOK'
        BY <1>4, SignalIsNoCode DEF StagesOK, SpawnFails, Child
    <2>2. FlagsOK'
        BY <1>4 DEF FlagsOK, SpawnFails, Child
    <2>3. ChildByStage'
        BY <1>4 DEF ChildByStage, SpawnFails, Child
    <2>4. VerdictGrounded'
        BY <1>4, SignalIsNoCode DEF ChildByStage, VerdictGrounded, SpawnFails, Child
    <2>5. DirAccounted'
        BY <1>4 DEF DirAccounted, SpawnFails, Child
    <2> QED BY <2>1, <2>2, <2>3, <2>4, <2>5
<1>5. CASE K6Exits
    <2>1. StagesOK'
        BY <1>5, SignalIsNoCode DEF StagesOK, K6Exits
    <2>2. FlagsOK'
        BY <1>5 DEF FlagsOK, K6Exits
    <2>3. ChildByStage'
        BY <1>5 DEF ChildByStage, K6Exits
    <2>4. VerdictGrounded'
        BY <1>5, SignalIsNoCode DEF ChildByStage, VerdictGrounded, K6Exits
    <2>5. DirAccounted'
        BY <1>5 DEF DirAccounted, K6Exits
    <2> QED BY <2>1, <2>2, <2>3, <2>4, <2>5
<1>6. CASE HeirEnds
    <2>1. StagesOK'
        BY <1>6, SignalIsNoCode DEF StagesOK, HeirEnds
    <2>2. FlagsOK'
        BY <1>6 DEF FlagsOK, HeirEnds
    <2>3. ChildByStage'
        BY <1>6 DEF ChildByStage, HeirEnds
    <2>4. VerdictGrounded'
        BY <1>6, SignalIsNoCode DEF ChildByStage, VerdictGrounded, HeirEnds
    <2>5. DirAccounted'
        BY <1>6 DEF DirAccounted, HeirEnds
    <2> QED BY <2>1, <2>2, <2>3, <2>4, <2>5
<1>7. CASE LimitPasses
    <2>1. StagesOK'
        BY <1>7, SignalIsNoCode DEF StagesOK, LimitPasses
    <2>2. FlagsOK'
        BY <1>7 DEF FlagsOK, LimitPasses
    <2>3. ChildByStage'
        BY <1>7 DEF ChildByStage, LimitPasses
    <2>4. VerdictGrounded'
        BY <1>7, SignalIsNoCode DEF ChildByStage, VerdictGrounded, LimitPasses
    <2>5. DirAccounted'
        BY <1>7 DEF DirAccounted, LimitPasses
    <2> QED BY <2>1, <2>2, <2>3, <2>4, <2>5
<1>8. CASE KillerFires
    <2>1. StagesOK'
        BY <1>8, SignalIsNoCode DEF StagesOK, KillerFires
    <2>2. FlagsOK'
        BY <1>8 DEF FlagsOK, KillerFires
    <2>3. ChildByStage'
        BY <1>8 DEF ChildByStage, KillerFires
    <2>4. VerdictGrounded'
        BY <1>8, SignalIsNoCode DEF ChildByStage, VerdictGrounded, KillerFires
    <2>5. DirAccounted'
        BY <1>8 DEF DirAccounted, KillerFires
    <2> QED BY <2>1, <2>2, <2>3, <2>4, <2>5
<1>9. CASE Close
    <2>1. StagesOK'
        BY <1>9, SignalIsNoCode DEF StagesOK, Close
    <2>2. FlagsOK'
        BY <1>9 DEF FlagsOK, Close
    <2>3. ChildByStage'
        BY <1>9 DEF ChildByStage, Close
    <2>4. VerdictGrounded'
        BY <1>9, SignalIsNoCode DEF ChildByStage, VerdictGrounded, Close
    <2>5. DirAccounted'
        BY <1>9 DEF DirAccounted, Close
    <2> QED BY <2>1, <2>2, <2>3, <2>4, <2>5
<1>10. CASE ReadSummary
    <2>1. StagesOK'
        BY <1>10, SignalIsNoCode DEF StagesOK, ReadSummary, Passed, Child
    <2>2. FlagsOK'
        BY <1>10 DEF FlagsOK, ReadSummary, Passed, Child
    <2>3. ChildByStage'
        BY <1>10 DEF ChildByStage, ReadSummary, Passed, Child
    <2>4. VerdictGrounded'
        BY <1>10, SignalIsNoCode DEF ChildByStage, VerdictGrounded, ReadSummary, Passed, Child
    <2>5. DirAccounted'
        BY <1>10 DEF DirAccounted, ReadSummary, Passed, Child
    <2> QED BY <2>1, <2>2, <2>3, <2>4, <2>5
<1>11. CASE Remove
    <2>1. StagesOK'
        BY <1>11, SignalIsNoCode DEF StagesOK, Remove, Child
    <2>2. FlagsOK'
        BY <1>11 DEF FlagsOK, Remove, Child
    <2>3. ChildByStage'
        BY <1>11 DEF ChildByStage, Remove, Child
    <2>4. VerdictGrounded'
        BY <1>11, SignalIsNoCode DEF ChildByStage, VerdictGrounded, Remove, Child
    <2>5. DirAccounted'
        BY <1>11 DEF DirAccounted, Remove, Child
    <2> QED BY <2>1, <2>2, <2>3, <2>4, <2>5
<1>12. CASE UNCHANGED k6Vars
    BY <1>12 DEF k6Vars, StagesOK, FlagsOK, ChildByStage, VerdictGrounded, DirAccounted
<1> QED
    BY <1>1, <1>2, <1>3, <1>4, <1>5, <1>6, <1>7, <1>8, <1>9, <1>10, <1>11, <1>12
    DEF K6Next, K6Code

\* The inductive invariant holds of every run of k6.
THEOREM K6Invariance == K6Spec => []K6Inv
    BY InitK6, StepK6, PTL DEF K6Spec

\* Type correctness of the child, the timers and the run.
THEOREM K6TypeCorrect == K6Spec => []K6TypeOK
<1>1. K6Inv => K6TypeOK
    BY DEF K6Inv, K6TypeOK, StagesOK, FlagsOK
<1> QED BY <1>1, K6Invariance, PTL

\* Whatever the child does and whichever calls fail, a run that has returned leaves
\* no process and no timer, and a directory only with an error.
THEOREM LeavesNothing == K6Spec => []NothingLeftBehind
<1>1. K6Inv => NothingLeftBehind
    BY DEF K6Inv, ChildByStage, DirAccounted, NothingLeftBehind
<1> QED BY <1>1, K6Invariance, PTL

\* A run that passed is one whose child exited by itself with 0, even when that
\* happens just as a timer fires.
THEOREM PassesUnsignalled == K6Spec => []KilledNeverPasses
<1>1. K6Inv => KilledNeverPasses
    BY DEF K6Inv, VerdictGrounded, KilledNeverPasses
<1> QED BY <1>1, K6Invariance, PTL

-----------------------------------------------------------------------------
(* The safety half of termination: the child is always on a timer, no step   *)
(* is ever taken twice, and a run that has not returned has a step that is   *)
(* the code's to take, unless it waits for the heir of a dead child.         *)

\* The time limit has not passed before there is a child.
FreshLimit == stage \in {"idle", "writing", "spawning"} => ~timedOut

\* Every step leaves the child on its timer.
LEMMA TimedStep ==
    ASSUME K6Inv, FreshLimit, ChildIsTimed, [K6Next]_k6Vars
    PROVE  FreshLimit' /\ ChildIsTimed'
<1> USE DEF K6Inv, StagesOK, FlagsOK, ChildByStage, FreshLimit, ChildIsTimed, Child
<1>1. CASE MakeDir \/ WriteScript \/ SpawnFails \/ ReadSummary \/ Remove
    BY <1>1 DEF MakeDir, WriteScript, SpawnFails, ReadSummary, Remove
<1>2. CASE Spawn
    BY <1>2 DEF Spawn
<1>3. CASE K6Exits \/ HeirEnds
    BY <1>3 DEF K6Exits, HeirEnds
<1>4. CASE LimitPasses
    BY <1>4 DEF LimitPasses
<1>5. CASE KillerFires
    BY <1>5 DEF KillerFires
<1>6. CASE Close
    BY <1>6 DEF Close
<1>7. CASE UNCHANGED k6Vars
    BY <1>7 DEF k6Vars
<1> QED BY <1>1, <1>2, <1>3, <1>4, <1>5, <1>6, <1>7 DEF K6Next, K6Code

\* A running k6 is on a timer that ends it, whatever it does with SIGTERM.
THEOREM ChildStaysTimed == K6Spec => []ChildIsTimed
<1>1. K6Init => FreshLimit /\ ChildIsTimed
    BY DEF K6Init, FreshLimit, ChildIsTimed
<1>2. K6Inv /\ FreshLimit /\ ChildIsTimed /\ [K6Next]_k6Vars => (FreshLimit /\ ChildIsTimed)'
    BY TimedStep
<1> QED BY <1>1, <1>2, K6Invariance, PTL DEF K6Spec

\* What is left to do: the stages ahead, and what may still happen to the child
\* and the timers beside them.
StagesAhead ==
    CASE stage = "idle"     -> 6 [] stage = "writing" -> 5 [] stage = "spawning" -> 4
      [] stage = "running"  -> 3 [] stage = "reading" -> 2 [] stage = "removing" -> 1
      [] stage = "returned" -> 0
One(b) == IF b THEN 1 ELSE 0
ChildAhead == 2 * One(k6 = "running") + One(heir) + 2 * One(limit) + One(killer)
K6Work == 5 * StagesAhead + ChildAhead

\* The work is a number of at most 30.
LEMMA WorkBounded ==
    ASSUME K6Inv
    PROVE  /\ StagesAhead \in 0..6 /\ ChildAhead \in 0..6
           /\ stage \in {"idle", "writing", "spawning"} => ChildAhead = 0
           /\ K6Work \in 0..30
<1>1. StagesAhead \in 0..6
    BY DEF K6Inv, StagesOK, StagesAhead
<1>2. ChildAhead \in 0..6
    BY DEF ChildAhead, One
<1>3. stage \in {"idle", "writing", "spawning"} => ChildAhead = 0
    BY DEF K6Inv, FlagsOK, ChildByStage, ChildAhead, One
<1>4. /\ stage = "writing" => StagesAhead = 5
      /\ stage = "spawning" => StagesAhead = 4
      /\ stage \notin {"idle", "writing", "spawning"} => StagesAhead \in 0..3
    BY DEF K6Inv, StagesOK, StagesAhead
<1> QED BY <1>1, <1>2, <1>3, <1>4 DEF K6Work

\* How the two parts of the work weigh: a stage is worth what it may start.
LEMMA Weighs ==
    ASSUME NEW a \in 0..6, NEW b \in 0..6, NEW c \in 0..6, NEW d \in 0..6,
           \/ a < c /\ (b <= d \/ b <= 4)
           \/ a = c /\ b < d
    PROVE  5 * a + b < 5 * c + d
    OBVIOUS

\* Every step, of the code, of the child or of what it started, is work done.
LEMMA WorkDone ==
    ASSUME K6Inv, K6Next
    PROVE  K6Work' < K6Work
<1>a. /\ StagesAhead \in 0..6 /\ ChildAhead \in 0..6
      /\ stage \in {"idle", "writing", "spawning"} => ChildAhead = 0
    BY WorkBounded
<1>b. StagesAhead' \in 0..6 /\ ChildAhead' \in 0..6
    <2>1. K6Inv'
        BY StepK6
    <2>2. (stage \in {"idle", "writing", "spawning", "running", "reading", "removing",
                       "returned"})'
        BY <2>1 DEF K6Inv, StagesOK
    <2> QED BY <2>2 DEF StagesAhead, ChildAhead, One
<1>c. K6Work = 5 * StagesAhead + ChildAhead /\ K6Work' = 5 * StagesAhead' + ChildAhead'
    BY DEF K6Work
<1>1. CASE MakeDir \/ WriteScript \/ SpawnFails \/ ReadSummary \/ Remove
    <2>1. StagesAhead' < StagesAhead
        BY <1>1 DEF MakeDir, WriteScript, SpawnFails, ReadSummary, Remove, StagesAhead
    <2>2. ChildAhead' <= ChildAhead
        BY <1>1 DEF MakeDir, WriteScript, SpawnFails, ReadSummary, Remove, Child, ChildAhead, One
    <2> QED BY <1>a, <1>b, <1>c, <2>1, <2>2, Weighs
<1>2. CASE Spawn
    <2>1. StagesAhead' < StagesAhead
        BY <1>2 DEF Spawn, StagesAhead
    <2>2. ChildAhead' <= 4
        BY <1>2 DEF Spawn, ChildAhead, One, K6Inv, FlagsOK, ChildByStage
    <2> QED BY <1>a, <1>b, <1>c, <2>1, <2>2, Weighs
<1>3. CASE K6Exits \/ HeirEnds \/ LimitPasses \/ KillerFires
    <2>1. StagesAhead' = StagesAhead
        BY <1>3 DEF K6Exits, HeirEnds, LimitPasses, KillerFires, StagesAhead
    <2>2. heir => k6 = "gone"
        BY DEF K6Inv, ChildByStage
    <2>3. ChildAhead' < ChildAhead
        BY <1>3, <2>2 DEF K6Exits, HeirEnds, LimitPasses, KillerFires, ChildAhead, One, K6Inv,
                          FlagsOK
    <2> QED BY <1>a, <1>b, <1>c, <2>1, <2>3, Weighs
<1>4. CASE Close
    <2>1. StagesAhead' < StagesAhead
        BY <1>4 DEF Close, StagesAhead
    <2>2. ChildAhead' <= ChildAhead
        BY <1>4 DEF Close, ChildAhead, One, K6Inv, FlagsOK
    <2> QED BY <1>a, <1>b, <1>c, <2>1, <2>2, Weighs
<1> QED BY <1>1, <1>2, <1>3, <1>4 DEF K6Next, K6Code

\* A run of k6 is over after thirty steps at most, timers and child included: no
\* order of exits, signals and failures makes it go on.
THEOREM K6RunIsFinite ==
    K6Spec => [](K6Work \in 0..30) /\ [][K6Work' < K6Work]_k6Vars
<1>1. K6Inv => K6Work \in 0..30
    BY WorkBounded
<1>2. K6Inv /\ [K6Next]_k6Vars => [K6Work' < K6Work]_k6Vars
    BY WorkDone
<1> QED BY <1>1, <1>2, K6Invariance, PTL DEF K6Spec

\* The steps the code can take: what K6Fairness obliges the event loop to do.
CodeHasAStep ==
    \/ stage \in {"writing", "spawning", "reading", "removing"}
    \/ limit \/ killer
    \/ stage = "running" /\ k6 = "gone" /\ ~heir

\* And it is never over too early: a run that has begun and has not returned has
\* such a step, unless it waits for what a dead child has left behind.
THEOREM WaitsOnlyForHeir ==
    K6Spec => [](stage \notin {"idle", "returned"} => CodeHasAStep \/ (k6 = "gone" /\ heir))
<1>1. ASSUME K6Inv, ChildIsTimed, stage \notin {"idle", "returned"}
      PROVE  CodeHasAStep \/ (k6 = "gone" /\ heir)
    <2>1. k6 = "running" => limit \/ killer
        BY <1>1, Zenon DEF ChildIsTimed
    <2>2. stage = "running" => k6 \in {"running", "gone"}
        BY <1>1 DEF K6Inv, StagesOK, ChildByStage
    <2> QED BY <1>1, <2>1, <2>2 DEF K6Inv, StagesOK, FlagsOK, CodeHasAStep
<1> QED BY <1>1, K6Invariance, ChildStaysTimed, PTL

=============================================================================
