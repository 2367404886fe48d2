------------------------------ MODULE MCMemory ------------------------------
(* Instances of Memory for TLC: first_task and two other slots, on a small    *)
(* and on a large machine.                                                    *)
EXTENDS Memory, TLC

CONSTANTS t0, t1, t2, SmallSize

MCTask == {t0, t1, t2}
MCPhysSizes == {SmallSize, 20}
MCProgSize == {1, 3}
Symm == Permutations({t1, t2})

(* On the small machine a fork, a second fork and an execve cannot all have  *)
(* their pages: everything is explored, every order of the steps of the three *)
(* tasks and all that follows when memory ran out.  On the large one two      *)
(* forks and an execve of each child can; there the calls are taken one after *)
(* the other, two forks in all, one execve for each child and a second one    *)
(* for an only child, and up to the end of the call that finds no memory.     *)
InCall ==
  {t \in Task :
     task[t].phase \notin {"none", "new", "user", "zombie", "reaped", "broken"}}

(* The new directory of a second execve is below the first one's, where the  *)
(* first execve freed pages; that of a third is above again.                 *)
SecondExec(t) ==
  /\ task[t].own /\ task[t].heap = Unit + 3 /\ task[t].dir < task[t].cr3
  /\ \A u \in Task \ {t, First} : task[u].phase = "none"

Bounded ==
  \/ mem.size = SmallSize
  \/ /\ Cardinality(InCall) <= 1
     /\ Cardinality(LostPages) <= 2
     /\ \A t \in Task : task[t].phase = "load" /\ task[t].heap # 0 => SecondExec(t)
     /\ mem.oom => InCall # {}
=============================================================================
