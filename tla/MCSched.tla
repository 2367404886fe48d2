------------------------------ MODULE MCSched ------------------------------
(***************************************************************************)
(* Instance of Sched, with the history SchedClock adds, and of the lists    *)
(* under it, one of them chosen by the initial state: three tasks and the   *)
(* idle task, or four nodes that move between two lists.  Neither tasks nor *)
(* nodes are symmetric, because liveness is checked.                        *)
(***************************************************************************)
EXTENDS SchedClock, LinkedList

CONSTANTS t1, t2, t3, n1, n2, n3, n4, ready_list, sleep_list

VARIABLE explored
mcVars == <<allVars, listVars, explored>>

MCTask == {t1, t2, t3}
MCNode == {n1, n2, n3, n4}
MCList == {ready_list, sleep_list}

MCInit == ClockInit /\ ListInit /\ explored \in {"tasks", "lists"}

AtTasks(A) == explored = "tasks" /\ A /\ UNCHANGED <<listVars, explored>>
AtLists(A) == explored = "lists" /\ A /\ UNCHANGED <<allVars, explored>>

(* With the fairness of FairClockSpec. *)
MCSpec ==
  /\ MCInit /\ [][AtTasks(ClockNext) \/ AtLists(ListNext)]_mcVars
  /\ WF_mcVars(AtTasks(ClockHandler))
=============================================================================
