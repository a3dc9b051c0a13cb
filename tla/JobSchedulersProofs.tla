------------------------- MODULE JobSchedulersProofs -------------------------
(***************************************************************************)
(* Proofs about JobSchedulers, for any monitors, tests, intervals, workers  *)
(* and bounds.                                                              *)
(*                                                                          *)
(* While the process starts nobody edits, and all a worker can be about to  *)
(* do is to remove the scheduler of an item whose row asks for none; so     *)
(* what onModuleInit has put right stays right until it is done.            *)
(***************************************************************************)
EXTENDS JobSchedulers, TLAPS

USE JobsAssumption

\* Whoever is somewhere is there about an item.
OpenAboutItem == \A p \in Procs : pc[p] # "idle" => item[p] \in Items

\* No mutation is open while the process is down or starting.
NobodyEdits == boot # "up" => \A e \in Editors : pc[e] = "idle"

\* What a worker takes to Redis then is the removal its row asks for.
WorkersOnlyClean ==
    boot # "up" => \A w \in Takers : pc[w] = "sync" => Plan(item[w]) = 0 /\ decided[w] = 0

\* onModuleInit has put right what is no longer on its list.
DoneIsRight ==
    boot = "starting" => \A i \in Items : Stored(i) /\ i \notin todo => Agrees(i)

\* What is on its way about an item that is not crossed is what its row asks for,
\* and when nothing is its scheduler agrees.
Straight(i) ==
    /\ \A p \in OnTheWay(i) : decided[p] = Plan(i)
    /\ Agrees(i) \/ OnTheWay(i) # {}

IInv ==
    /\ TypeOK /\ OpenAboutItem /\ NobodyEdits /\ WorkersOnlyClean /\ DoneIsRight
    /\ \A i \in Items \ crossed : Straight(i)

\* The initial state: nothing is stored, nobody is anywhere.
LEMMA InitIInv == Init => IInv
<1> SUFFICES ASSUME Init PROVE IInv
    OBVIOUS
<1>1. TypeOK /\ OpenAboutItem /\ NobodyEdits /\ WorkersOnlyClean /\ DoneIsRight
    BY DEF Init, TypeOK, OpenAboutItem, NobodyEdits, WorkersOnlyClean, DoneIsRight, Takers, Procs
<1>2. \A i \in Items : Agrees(i) /\ OnTheWay(i) = {}
    BY DEF Init, Agrees, Plan, Stored, OnTheWay
<1> QED
    BY <1>1, <1>2 DEF IInv, Straight

\* What a row asks for is an interval or none.
LEMMA PlanType == ASSUME TypeOK, NEW i \in Items PROVE Plan(i) \in Intervals \cup {0}
  BY DEF TypeOK, Plan, Wanted

\* Every step keeps the types.
LEMMA TypeStep == TypeOK /\ OpenAboutItem /\ [Next]_vars => TypeOK'
<1> SUFFICES ASSUME TypeOK, OpenAboutItem, [Next]_vars PROVE TypeOK'
    OBVIOUS
<1>1. ASSUME NEW e \in Editors, NEW i \in Items, Create(e, i) PROVE TypeOK'
    BY <1>1 DEF TypeOK, Create, Edits, Puts, Goes, Wanted, Procs, Overtakes
<1>2. ASSUME NEW e \in Editors, NEW i \in Items, Update(e, i) PROVE TypeOK'
    BY <1>2 DEF TypeOK, Update, Edits, Puts, Goes, Wanted, Procs, Overtakes
<1>3. ASSUME NEW e \in Editors, NEW i \in Items, Delete(e, i) PROVE TypeOK'
    BY <1>3 DEF TypeOK, Delete, Edits, Goes, Procs, Overtakes
<1>4. ASSUME NEW p \in Procs, Sync(p) PROVE TypeOK'
    BY <1>4 DEF TypeOK, Sync, Returns, Goes, rowVars
<1>5. ASSUME NEW i \in Items, Produce(i) PROVE TypeOK'
    BY <1>5 DEF TypeOK, Produce, rowVars, locals
<1>6. ASSUME NEW w \in Takers, NEW i \in Items, Take(w, i) PROVE TypeOK'
    BY <1>6 DEF TypeOK, Take, Goes, rowVars, Procs
<1>7. ASSUME NEW w \in Takers, Lookup(w) \/ Run(w) PROVE TypeOK'
    BY <1>7 DEF TypeOK, Lookup, Run, Returns, Goes, rowVars, Procs
<1>8. ASSUME NEW p \in Procs, CallFails(p) PROVE TypeOK'
    BY <1>8 DEF TypeOK, OpenAboutItem, CallFails, Fault, Returns, Goes, rowVars
<1>9. ASSUME NEW i \in Items, BootSyncs(i) PROVE TypeOK'
    BY <1>9, PlanType DEF TypeOK, BootSyncs, rowVars, locals
<1>10. ASSUME BootLists \/ BootEnds PROVE TypeOK'
    BY <1>10 DEF TypeOK, BootLists, BootEnds, rowVars, locals
<1>11. ASSUME Crash PROVE TypeOK'
  <2>1. {item[w] : w \in {v \in Takers : pc[v] # "idle"}} \subseteq Items
      BY DEF OpenAboutItem, Procs
  <2> QED
      BY <1>11, <2>1 DEF TypeOK, Crash, Fault, rowVars, Procs
<1>12. CASE UNCHANGED vars
    BY <1>12 DEF TypeOK, vars, rowVars, locals
<1> QED
    BY <1>1, <1>2, <1>3, <1>4, <1>5, <1>6, <1>7, <1>8, <1>9, <1>10, <1>11, <1>12
    DEF Next, Work, Boot, Procs

\* Every step keeps OpenAboutItem.
LEMMA OpenStep == TypeOK /\ OpenAboutItem /\ [Next]_vars => OpenAboutItem'
<1> SUFFICES ASSUME TypeOK, OpenAboutItem, [Next]_vars PROVE OpenAboutItem'
    OBVIOUS
<1>1. ASSUME NEW p \in Procs, NEW q \in {"idle", "sync", "lookup", "run"},
             NEW i \in Items, NEW d, Goes(p, q, i, d)
      PROVE OpenAboutItem'
    BY <1>1 DEF TypeOK, OpenAboutItem, Goes
<1>2. ASSUME NEW p \in Procs, Returns(p) PROVE OpenAboutItem'
    BY <1>2 DEF TypeOK, OpenAboutItem, Returns, Goes
<1>3. ASSUME UNCHANGED locals PROVE OpenAboutItem'
    BY <1>3 DEF OpenAboutItem, locals
<1>4. ASSUME NEW e \in Editors, NEW i \in Items,
             Create(e, i) \/ Update(e, i) \/ Delete(e, i)
      PROVE OpenAboutItem'
    BY <1>1, <1>4 DEF Create, Update, Delete, Puts, Procs
<1>5. ASSUME NEW w \in Takers, NEW i \in Items, Take(w, i) PROVE OpenAboutItem'
    BY <1>1, <1>5 DEF Take, Procs
<1>6. ASSUME NEW w \in Takers, Lookup(w) PROVE OpenAboutItem'
  <2>1. item[w] \in Items
      BY <1>6 DEF Lookup, OpenAboutItem, Procs
  <2> QED
      BY <1>1, <1>2, <1>6, <2>1 DEF Lookup, Procs
<1>7. ASSUME NEW p \in Procs, Sync(p) \/ Run(p) \/ CallFails(p) PROVE OpenAboutItem'
    BY <1>2, <1>7 DEF Sync, Run, CallFails
<1>8. ASSUME Crash PROVE OpenAboutItem'
    BY <1>8 DEF Crash, OpenAboutItem
<1>9. ASSUME NEW i \in Items, Produce(i) \/ BootSyncs(i) PROVE OpenAboutItem'
    BY <1>3, <1>9 DEF Produce, BootSyncs
<1>10. ASSUME BootLists \/ BootEnds PROVE OpenAboutItem'
    BY <1>3, <1>10 DEF BootLists, BootEnds
<1>11. CASE UNCHANGED vars
    BY <1>3, <1>11 DEF vars
<1> QED
    BY <1>4, <1>5, <1>6, <1>7, <1>8, <1>9, <1>10, <1>11 DEF Next, Work, Boot, Procs

\* What a row asks for changes with the row only.
LEMMA PlanKept == ASSUME UNCHANGED rowVars, NEW i PROVE Plan(i)' = Plan(i) /\ Stored(i)' = Stored(i)
  BY DEF rowVars, Plan, Stored, Wanted

\* Edits happen while the process is up, and leave it up.
LEMMA EditsWhenUp ==
    ASSUME NEW e \in Editors, NEW i \in Items, Create(e, i) \/ Update(e, i) \/ Delete(e, i)
    PROVE  boot = "up" /\ boot' = "up"
  BY DEF Create, Update, Delete, Edits

\* Every step keeps NobodyEdits.
LEMMA NobodyEditsStep == IInv /\ [Next]_vars => NobodyEdits'
<1> SUFFICES ASSUME IInv, [Next]_vars, boot' # "up", NEW e \in Editors PROVE pc'[e] = "idle"
    BY DEF NobodyEdits
<1> USE DEF IInv
<1>1. ASSUME NEW p \in Procs, Sync(p) \/ CallFails(p) PROVE pc'[e] = "idle"
    BY <1>1 DEF TypeOK, NobodyEdits, Sync, CallFails, Returns, Goes, Procs
<1>2. ASSUME NEW w \in Takers, NEW i \in Items, Take(w, i) PROVE pc'[e] = "idle"
    BY <1>2 DEF TypeOK, NobodyEdits, Take, Goes, Procs, Takers
<1>3. ASSUME NEW w \in Takers, Lookup(w) \/ Run(w) PROVE pc'[e] = "idle"
    BY <1>3 DEF TypeOK, NobodyEdits, Lookup, Run, Returns, Goes, Procs, Takers
<1>4. ASSUME Crash PROVE pc'[e] = "idle"
    BY <1>4 DEF Crash, Procs
<1>5. ASSUME NEW i \in Items, Produce(i) \/ BootSyncs(i) PROVE pc'[e] = "idle"
    BY <1>5 DEF NobodyEdits, Produce, BootSyncs, locals
<1>6. ASSUME BootLists \/ BootEnds PROVE pc'[e] = "idle"
    BY <1>6 DEF NobodyEdits, BootLists, BootEnds, locals
<1>7. CASE UNCHANGED vars
    BY <1>7 DEF NobodyEdits, vars, locals
<1> QED
    BY <1>1, <1>2, <1>3, <1>4, <1>5, <1>6, <1>7, EditsWhenUp DEF Next, Work, Boot, Procs

\* Every step keeps WorkersOnlyClean.
LEMMA WorkersOnlyCleanStep == IInv /\ [Next]_vars => WorkersOnlyClean'
<1> SUFFICES ASSUME IInv, [Next]_vars, boot' # "up", NEW w \in Takers, pc'[w] = "sync"
             PROVE  (Plan(item[w]) = 0)' /\ decided'[w] = 0
    BY DEF WorkersOnlyClean
<1> USE DEF IInv
<1>1. ASSUME UNCHANGED rowVars, boot # "up", pc[w] = "sync", item'[w] = item[w],
             decided'[w] = decided[w]
      PROVE  (Plan(item[w]) = 0)' /\ decided'[w] = 0
  <2>1. Plan(item[w])' = Plan(item[w])
      BY <1>1 DEF rowVars, Plan, Stored, Wanted
  <2> QED
      BY <1>1, <2>1 DEF WorkersOnlyClean
<1>2. ASSUME NEW p \in Procs, Sync(p) \/ CallFails(p) \/ Run(p)
      PROVE  (Plan(item[w]) = 0)' /\ decided'[w] = 0
  <2>1. pc[w] = "sync" /\ item'[w] = item[w] /\ decided'[w] = decided[w]
      BY <1>2 DEF TypeOK, Sync, CallFails, Run, Returns, Goes, Procs
  <2> QED
      BY <1>1, <1>2, <2>1 DEF Sync, CallFails, Run
<1>3. ASSUME NEW v \in Takers, NEW i \in Items, Take(v, i)
      PROVE  (Plan(item[w]) = 0)' /\ decided'[w] = 0
  <2>1. pc[w] = "sync" /\ item'[w] = item[w] /\ decided'[w] = decided[w]
      BY <1>3 DEF TypeOK, Take, Goes, Procs
  <2> QED
      BY <1>1, <1>3, <2>1 DEF Take
<1>4. ASSUME NEW v \in Takers, Lookup(v)
      PROVE  (Plan(item[w]) = 0)' /\ decided'[w] = 0
  <2>1. CASE v # w
    <3>1. pc[w] = "sync" /\ item'[w] = item[w] /\ decided'[w] = decided[w]
        BY <1>4, <2>1 DEF TypeOK, Lookup, Returns, Goes, Procs
    <3> QED
        BY <1>1, <1>4, <3>1 DEF Lookup
  <2>2. CASE v = w
    <3>1. Plan(item[w]) = 0 /\ item'[w] = item[w] /\ decided'[w] = 0
        BY <1>4, <2>2 DEF TypeOK, Lookup, Returns, Goes, Procs
    <3>2. Plan(item[w])' = Plan(item[w])
        BY <1>4, <3>1 DEF Lookup, rowVars, Plan, Stored, Wanted
    <3> QED
        BY <3>1, <3>2
  <2> QED
      BY <2>1, <2>2
<1>5. ASSUME Crash PROVE FALSE
    BY <1>5 DEF Crash, Procs
<1>6. ASSUME NEW i \in Items, Produce(i) \/ BootSyncs(i)
      PROVE  (Plan(item[w]) = 0)' /\ decided'[w] = 0
    BY <1>1, <1>6 DEF Produce, BootSyncs, locals
<1>7. ASSUME BootLists \/ BootEnds
      PROVE  (Plan(item[w]) = 0)' /\ decided'[w] = 0
    BY <1>1, <1>7 DEF BootLists, BootEnds, locals
<1>8. CASE UNCHANGED vars
    BY <1>1, <1>8 DEF vars, locals
<1> QED
    BY <1>2, <1>3, <1>4, <1>5, <1>6, <1>7, <1>8, EditsWhenUp DEF Next, Work, Boot, Procs

\* Every step keeps DoneIsRight.
LEMMA DoneIsRightStep == IInv /\ [Next]_vars => DoneIsRight'
<1> SUFFICES ASSUME IInv, [Next]_vars, boot' = "starting", NEW i \in Items, Stored(i)',
                    i \notin todo'
             PROVE  Agrees(i)'
    BY DEF DoneIsRight
<1> USE DEF IInv
<1>1. ASSUME UNCHANGED <<rowVars, every, boot, todo>> PROVE Agrees(i)'
    BY <1>1, PlanKept DEF DoneIsRight, Agrees
<1>2. ASSUME NEW p \in Procs, Sync(p) PROVE Agrees(i)'
  <2>1. boot = "starting" /\ Plan(i)' = Plan(i) /\ every[i] = Plan(i)
      BY <1>2, PlanKept DEF Sync, DoneIsRight, Agrees
  <2>2. p \in Takers
      BY <1>2, <2>1 DEF Sync, NobodyEdits, Procs
  <2>3. decided[p] = 0 /\ Plan(item[p]) = 0
      BY <1>2, <2>1, <2>2 DEF Sync, WorkersOnlyClean
  <2>4. every'[i] = every[i] \/ (item[p] = i /\ every'[i] = 0)
      BY <1>2, <2>3 DEF Sync, TypeOK
  <2> QED
      BY <2>1, <2>3, <2>4 DEF Agrees
<1>3. ASSUME NEW j \in Items, BootSyncs(j) PROVE Agrees(i)'
  <2>1. Plan(i)' = Plan(i) /\ Stored(i)
      BY <1>3, PlanKept DEF BootSyncs
  <2>2. CASE i = j
      BY <1>3, <2>1, <2>2 DEF BootSyncs, Agrees, TypeOK
  <2>3. CASE i # j
    <3>1. every'[i] = every[i] /\ i \notin todo /\ boot = "starting"
        BY <1>3, <2>3 DEF BootSyncs, TypeOK
    <3> QED
        BY <2>1, <3>1 DEF DoneIsRight, Agrees
  <2> QED
      BY <2>2, <2>3
<1>4. ASSUME BootLists PROVE FALSE
    BY <1>4, PlanKept DEF BootLists
<1>5. ASSUME BootEnds \/ Crash PROVE FALSE
    BY <1>5 DEF BootEnds, Crash
<1>6. ASSUME NEW j \in Items, Produce(j) PROVE Agrees(i)'
    BY <1>1, <1>6 DEF Produce
<1>7. ASSUME NEW w \in Takers, NEW j \in Items, Take(w, j) PROVE Agrees(i)'
    BY <1>1, <1>7 DEF Take
<1>8. ASSUME NEW w \in Takers, Lookup(w) \/ Run(w) PROVE Agrees(i)'
    BY <1>1, <1>8 DEF Lookup, Run
<1>9. ASSUME NEW p \in Procs, CallFails(p) PROVE Agrees(i)'
    BY <1>1, <1>9 DEF CallFails
<1>10. CASE UNCHANGED vars
    BY <1>1, <1>10 DEF vars
<1> QED
    BY <1>2, <1>3, <1>4, <1>5, <1>6, <1>7, <1>8, <1>9, <1>10, EditsWhenUp
    DEF Next, Work, Boot, Procs

\* A step that writes no row, sets no scheduler and decides nothing that reaches
\* Redis keeps an item straight.
LEMMA StraightKept ==
    ASSUME UNCHANGED <<rowVars, every>>, NEW i, Straight(i), OnTheWay(i)' = OnTheWay(i),
           \A p \in OnTheWay(i) : decided'[p] = decided[p]
    PROVE  Straight(i)'
<1>1. Plan(i)' = Plan(i)
    BY PlanKept
<1> QED
    BY <1>1 DEF Straight, Agrees

\* What is on its way about i after p has gone somewhere about j.
LEMMA GoesOnTheWay ==
    ASSUME TypeOK, NEW p \in Procs, NEW q, NEW j, NEW d, Goes(p, q, j, d), NEW i
    PROVE  /\ OnTheWay(i)' = (OnTheWay(i) \ {p}) \cup (IF q = "sync" /\ j = i THEN {p} ELSE {})
           /\ p \notin OnTheWay(i) /\ ~ (q = "sync" /\ j = i) => OnTheWay(i)' = OnTheWay(i)
           /\ \A r \in OnTheWay(i) \ {p} : decided'[r] = decided[r]
           /\ decided'[p] = d
  BY DEF TypeOK, Goes, OnTheWay

\* Every step keeps the items that are not crossed straight: a decision is overtaken
\* by a write or lost by a failure, or it arrives.
LEMMA StraightStep == IInv /\ [Next]_vars => \A i \in Items \ crossed' : Straight(i)'
<1> SUFFICES ASSUME IInv, [Next]_vars, NEW i \in Items, i \notin crossed'
             PROVE  Straight(i)'
    OBVIOUS
<1>0. TypeOK /\ OpenAboutItem /\ WorkersOnlyClean /\ NobodyEdits
      /\ (i \notin crossed => Straight(i))
    BY DEF IInv
<1>1. ASSUME UNCHANGED <<rowVars, every, locals, crossed>> PROVE Straight(i)'
  <2>1. OnTheWay(i)' = OnTheWay(i) /\ decided' = decided
      BY <1>1 DEF OnTheWay, locals
  <2> QED
      BY <1>0, <1>1, <2>1, StraightKept
<1>2. ASSUME NEW w \in Procs, pc[w] # "sync", UNCHANGED <<rowVars, every, crossed>>,
             NEW q, q # "sync", NEW j, NEW d, Goes(w, q, j, d)
      PROVE  Straight(i)'
  <2>1. w \notin OnTheWay(i)
      BY <1>2 DEF OnTheWay
  <2>2. OnTheWay(i)' = OnTheWay(i) /\ \A p \in OnTheWay(i) : decided'[p] = decided[p]
      BY <1>0, <1>2, <2>1, GoesOnTheWay
  <2> QED
      BY <1>0, <1>2, <2>2, StraightKept
<1>3. ASSUME NEW e \in Editors, NEW j \in Items, NEW d, pc[e] = "idle",
             Goes(e, "sync", j, d), Overtakes(j, d), every' = every,
             Plan(j)' = d, i # j => Plan(i)' = Plan(i)
      PROVE  Straight(i)'
  <2>1. e \notin OnTheWay(i) /\ e \in Procs
      BY <1>3 DEF OnTheWay, Procs
  <2>2. CASE i # j
    <3>1. OnTheWay(i)' = OnTheWay(i) /\ \A p \in OnTheWay(i) : decided'[p] = decided[p]
        BY <1>0, <1>3, <2>1, <2>2, GoesOnTheWay
    <3>2. i \notin crossed
        BY <1>3, <2>2 DEF Overtakes
    <3> QED
        BY <1>0, <1>3, <2>2, <3>1, <3>2 DEF Straight, Agrees
  <2>3. CASE i = j
    <3>1. OnTheWay(i)' = OnTheWay(i) \cup {e} /\ decided'[e] = d
          /\ \A p \in OnTheWay(i) : decided'[p] = decided[p]
        BY <1>0, <1>3, <2>1, <2>3, GoesOnTheWay
    <3>2. \A p \in OnTheWay(i) : decided[p] = d
        BY <1>3, <2>3 DEF Overtakes
    <3> QED
        BY <1>3, <2>3, <3>1, <3>2 DEF Straight
  <2> QED
      BY <2>2, <2>3
<1>4. ASSUME NEW e \in Editors, NEW j \in Items, Create(e, j) \/ Update(e, j)
      PROVE  Straight(i)'
  <2>1. PICK on \in BOOLEAN, sec \in Intervals :
            /\ life' = [life EXCEPT ![j] = "stored"]
            /\ enabled' = [enabled EXCEPT ![j] = on]
            /\ intervalSec' = [intervalSec EXCEPT ![j] = sec]
            /\ Goes(e, "sync", j, Wanted(on, sec))
            /\ Overtakes(j, Wanted(on, sec))
      BY <1>4 DEF Create, Update, Puts
  <2>2. Plan(j)' = Wanted(on, sec) /\ (i # j => Plan(i)' = Plan(i))
      BY <1>0, <2>1 DEF TypeOK, Plan, Stored, Wanted
  <2>3. pc[e] = "idle" /\ every' = every
      BY <1>4 DEF Create, Update, Edits
  <2> QED
      BY <1>3, <2>1, <2>2, <2>3
<1>5. ASSUME NEW e \in Editors, NEW j \in Items, Delete(e, j) PROVE Straight(i)'
  <2>1. Plan(j)' = 0 /\ (i # j => Plan(i)' = Plan(i))
      BY <1>0, <1>5 DEF TypeOK, Delete, Plan, Stored, Wanted
  <2> QED
      BY <1>3, <1>5, <2>1 DEF Delete, Edits
<1>6. ASSUME NEW p \in Procs, Sync(p) PROVE Straight(i)'
  <2>1. /\ p \in OnTheWay(item[p]) /\ Plan(i)' = Plan(i) /\ item[p] \in Items
        /\ every' = [every EXCEPT ![item[p]] = decided[p]]
      BY <1>0, <1>6, PlanKept DEF Sync, OnTheWay, OpenAboutItem
  <2>2. OnTheWay(i)' = OnTheWay(i) \ {p} /\ \A q \in OnTheWay(i) \ {p} : decided'[q] = decided[q]
      BY <1>0, <1>6, GoesOnTheWay DEF Sync, Returns
  <2>3. CASE i = item[p]
    <3>1. \A q \in OnTheWay(i) : decided[q] = Plan(i)
        BY <1>0, <1>6, <2>3 DEF Sync, Straight
    <3>2. every'[i] = Plan(i)
        BY <1>0, <2>1, <2>3, <3>1 DEF TypeOK
    <3> QED
        BY <2>1, <2>2, <3>1, <3>2 DEF Straight, Agrees
  <2>4. CASE i # item[p]
    <3>1. i \notin crossed /\ p \notin OnTheWay(i) /\ every'[i] = every[i]
        BY <1>0, <1>6, <2>1, <2>4 DEF Sync, OnTheWay, TypeOK
    <3> QED
        BY <1>0, <2>1, <2>2, <3>1 DEF Straight, Agrees
  <2> QED
      BY <2>3, <2>4
<1>7. ASSUME NEW w \in Takers, NEW j \in Items, Take(w, j) PROVE Straight(i)'
    BY <1>2, <1>7 DEF Take, Procs
<1>8. ASSUME NEW w \in Takers, Lookup(w) PROVE Straight(i)'
  <2>1. CASE Goes(w, "run", item[w], 0) \/ Returns(w)
      BY <1>2, <1>8, <2>1 DEF Lookup, Returns, Procs
  <2>2. CASE Plan(item[w]) = 0 /\ Goes(w, "sync", item[w], 0)
    <3>1. /\ Plan(i)' = Plan(i) /\ UNCHANGED <<every, crossed>>
          /\ w \notin OnTheWay(i) /\ w \in Procs
        BY <1>8, PlanKept DEF Lookup, OnTheWay, Procs
    <3>2. /\ OnTheWay(i)' = OnTheWay(i) \cup (IF item[w] = i THEN {w} ELSE {})
          /\ \A p \in OnTheWay(i) : decided'[p] = decided[p]
          /\ decided'[w] = 0
        BY <1>0, <2>2, <3>1, GoesOnTheWay
    <3> QED
        BY <1>0, <2>2, <3>1, <3>2 DEF Straight, Agrees
  <2> QED
      BY <1>8, <2>1, <2>2 DEF Lookup
<1>9. ASSUME NEW w \in Takers, Run(w) PROVE Straight(i)'
    BY <1>2, <1>9 DEF Run, Returns, Procs
<1>10. ASSUME NEW p \in Procs, CallFails(p) PROVE Straight(i)'
  <2>1. CASE pc[p] = "lookup"
      BY <1>2, <1>10, <2>1 DEF CallFails, Returns
  <2>2. CASE pc[p] = "sync"
    <3>1. i \notin crossed /\ p \notin OnTheWay(i) /\ UNCHANGED <<rowVars, every>>
        BY <1>10, <2>2 DEF CallFails, OnTheWay
    <3>2. OnTheWay(i)' = OnTheWay(i) /\ \A q \in OnTheWay(i) : decided'[q] = decided[q]
        BY <1>0, <1>10, <3>1, GoesOnTheWay DEF CallFails, Returns
    <3> QED
        BY <1>0, <3>1, <3>2, StraightKept
  <2> QED
      BY <1>10, <2>1, <2>2 DEF CallFails
<1>11. ASSUME Crash PROVE Straight(i)'
  <2>1. OnTheWay(i) = {} /\ i \notin crossed /\ UNCHANGED <<rowVars, every>>
      BY <1>11 DEF Crash
  <2>2. OnTheWay(i)' = {}
      BY <1>11 DEF Crash, OnTheWay
  <2> QED
      BY <1>0, <2>1, <2>2, StraightKept
<1>12. ASSUME NEW j \in Items, BootSyncs(j) PROVE Straight(i)'
  <2>1. /\ Plan(i)' = Plan(i) /\ OnTheWay(i)' = OnTheWay(i) /\ decided' = decided
        /\ boot = "starting" /\ every' = [every EXCEPT ![j] = Plan(j)]
      BY <1>12, PlanKept DEF BootSyncs, OnTheWay, locals
  <2>2. CASE i # j
    <3>1. i \notin crossed /\ every'[i] = every[i]
        BY <1>0, <1>12, <2>1, <2>2 DEF BootSyncs, TypeOK
    <3> QED
        BY <1>0, <2>1, <3>1 DEF Straight, Agrees
  <2>3. CASE i = j
    <3>1. every'[i] = Plan(i)
        BY <1>0, <2>1, <2>3 DEF TypeOK
    <3>2. \A p \in OnTheWay(i) : decided[p] = Plan(i)
        BY <1>0, <2>1 DEF OnTheWay, NobodyEdits, WorkersOnlyClean, Procs
    <3> QED
        BY <2>1, <3>1, <3>2 DEF Straight, Agrees
  <2> QED
      BY <2>2, <2>3
<1>13. ASSUME NEW j \in Items, Produce(j) PROVE Straight(i)'
    BY <1>1, <1>13 DEF Produce
<1>14. ASSUME BootLists \/ BootEnds PROVE Straight(i)'
    BY <1>1, <1>14 DEF BootLists, BootEnds
<1>15. CASE UNCHANGED vars
    BY <1>1, <1>15 DEF vars
<1> QED
    BY <1>4, <1>5, <1>6, <1>7, <1>8, <1>9, <1>10, <1>11, <1>12, <1>13, <1>14, <1>15
    DEF Next, Work, Boot, Procs

\* The inductive invariant: while the process starts, everything that happens
\* to the schedulers brings them nearer to the rows.
THEOREM Invariance == Spec => []IInv
<1>1. IInv /\ [Next]_vars => IInv'
    BY TypeStep, OpenStep, NobodyEditsStep, WorkersOnlyCleanStep, DoneIsRightStep, StraightStep
    DEF IInv
<1> QED
    BY InitIInv, <1>1, PTL DEF Spec

\* Rows, schedulers and the places of mutations and workers keep their types.
THEOREM TypeCorrect == Spec => []TypeOK
  BY Invariance, PTL DEF IInv

\* The process has started (onModuleInit of both sync services is over): every
\* monitor and test there is has the scheduler its row asks for.
THEOREM BootRepairsAll == Spec => BootRepairs
<1>1. ASSUME IInv, [Next]_vars, boot # "up", boot' = "up", NEW i \in Items, Stored(i)
      PROVE  Agrees(i)'
  <2>1. BootEnds
      BY <1>1, EditsWhenUp DEF Next, Work, Boot, vars, Sync, Produce, Take, Lookup, Run,
         CallFails, BootLists, BootSyncs, Crash
  <2>2. Agrees(i)
      BY <1>1, <2>1 DEF BootEnds, IInv, DoneIsRight
  <2> QED
      BY <2>1, <2>2, PlanKept DEF BootEnds, Agrees
<1>2. IInv /\ [Next]_vars => [boot # "up" /\ boot' = "up" =>
                                 \A i \in Items : Stored(i) => Agrees(i)']_vars
    BY <1>1
<1> QED
    BY Invariance, <1>2, PTL DEF Spec, BootRepairs

\* A monitor or test that lacks its scheduler, or has one it should not have, was
\* crossed: syncJob failed for it, died, or arrived late.
THEOREM PlansAreKept == Spec => []SchedulesAsPlanned
<1>1. IInv => SchedulesAsPlanned
    BY DEF IInv, Straight, SchedulesAsPlanned, Pending
<1> QED
    BY Invariance, <1>1, PTL

\* A scheduler goes wrong only by the write of its row, whose own decision is
\* then on the way, or by a decision the row has overtaken.
THEOREM DriftIsLate == Spec => DriftsOnlyByLateSync
<1> DEFINE Late(i) ==
        \/ every'[i] = every[i] /\ Pending(i, Plan(i))'
        \/ \E p \in Procs : /\ pc[p] = "sync" /\ pc'[p] = "idle" /\ item[p] = i
                            /\ every'[i] = decided[p] /\ decided[p] # Plan(i)
<1>1. ASSUME IInv, [Next]_vars, NEW i \in Items, Agrees(i), ~ Agrees(i)'
      PROVE  Late(i)
  <2>1. ASSUME UNCHANGED <<rowVars, every>> PROVE FALSE
      BY <1>1, <2>1, PlanKept DEF Agrees
  <2>2. ASSUME NEW e \in Editors, NEW j \in Items,
               Create(e, j) \/ Update(e, j) \/ Delete(e, j)
        PROVE  Late(i)
    <3>1. every' = every
        BY <2>2 DEF Create, Update, Delete, Edits
    <3>2. i = j
      <4>1. ASSUME i # j PROVE Plan(i)' = Plan(i)
          BY <1>1, <2>2, <4>1 DEF IInv, TypeOK, Create, Update, Delete, Puts, Plan, Stored,
             Wanted
      <4> QED
          BY <1>1, <3>1, <4>1 DEF Agrees
    <3>3. pc'[e] = "sync" /\ item'[e] = i /\ decided'[e] = Plan(i)'
        BY <1>1, <2>2, <3>2 DEF IInv, TypeOK, Create, Update, Delete, Puts, Goes, Plan, Stored,
           Wanted, Procs
    <3> QED
        BY <3>1, <3>3 DEF Pending, OnTheWay, Procs
  <2>3. ASSUME NEW p \in Procs, Sync(p) PROVE Late(i)
    <3>1. Plan(i)' = Plan(i)
        BY <2>3, PlanKept DEF Sync
    <3>2. every'[i] # every[i]
        BY <1>1, <3>1 DEF Agrees
    <3>3. item[p] = i /\ every'[i] = decided[p] /\ pc[p] = "sync" /\ pc'[p] = "idle"
        BY <1>1, <2>3, <3>2 DEF IInv, TypeOK, Sync, Returns, Goes
    <3> QED
        BY <1>1, <3>1, <3>3 DEF Agrees
  <2>4. ASSUME NEW j \in Items, BootSyncs(j) PROVE FALSE
    <3>1. Plan(i)' = Plan(i)
        BY <2>4, PlanKept DEF BootSyncs
    <3>2. every'[i] = Plan(i) \/ every'[i] = every[i]
        BY <1>1, <2>4 DEF IInv, TypeOK, BootSyncs
    <3> QED
        BY <1>1, <3>1, <3>2 DEF Agrees
  <2>5. ASSUME BootLists \/ BootEnds \/ Crash PROVE FALSE
      BY <2>1, <2>5 DEF BootLists, BootEnds, Crash
  <2>6. ASSUME NEW j \in Items, Produce(j) PROVE FALSE
      BY <2>1, <2>6 DEF Produce
  <2>7. ASSUME NEW w \in Takers, NEW j \in Items, Take(w, j) PROVE FALSE
      BY <2>1, <2>7 DEF Take
  <2>8. ASSUME NEW w \in Takers, Lookup(w) \/ Run(w) PROVE FALSE
      BY <2>1, <2>8 DEF Lookup, Run
  <2>9. ASSUME NEW p \in Procs, CallFails(p) PROVE FALSE
      BY <2>1, <2>9 DEF CallFails
  <2>10. ASSUME UNCHANGED vars PROVE FALSE
      BY <2>1, <2>10 DEF vars
  <2> QED
      BY <1>1, <2>2, <2>3, <2>4, <2>5, <2>6, <2>7, <2>8, <2>9, <2>10
      DEF Next, Work, Boot, Procs
<1>2. IInv /\ [Next]_vars => [\A i \in Items : Agrees(i) /\ ~ Agrees(i)' => Late(i)]_vars
    BY <1>1
<1> QED
    BY Invariance, <1>2, PTL DEF Spec, DriftsOnlyByLateSync
==============================================================================
