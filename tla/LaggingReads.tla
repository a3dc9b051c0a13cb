---------------------------- MODULE LaggingReads -----------------------------
(***************************************************************************)
(* What the readers of a cache may rely on: each key is read as if from a    *)
(* replica of its own that follows the database at its leisure.  It may lag  *)
(* behind for as long as it likes, but it never goes back and never shows    *)
(* what was not committed.  No store, no promise and no time to live here.   *)
(***************************************************************************)
EXTENDS Integers

CONSTANTS Keys, Groups, GroupOf

VARIABLES
    db,    \* committed version of each group of rows
    seen   \* newest version of each key its readers have been given

Init ==
    /\ db = [g \in Groups |-> 0]
    /\ seen = [k \in Keys |-> 0]

Commit(g) ==
    /\ db' = [db EXCEPT ![g] = @ + 1]
    /\ UNCHANGED seen

Give(k) ==
    /\ \E v \in seen[k]..db[GroupOf[k]] : seen' = [seen EXCEPT ![k] = v]
    /\ UNCHANGED db

Next ==
    \/ \E g \in Groups : Commit(g)
    \/ \E k \in Keys : Give(k)

Spec == Init /\ [][Next]_<<db, seen>>
==============================================================================
