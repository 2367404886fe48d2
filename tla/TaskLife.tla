------------------------------ MODULE TaskLife ------------------------------
(***************************************************************************)
(* The life of a process in core/task.c: sys_fork, sys_exit and sys_wait    *)
(* over task_table and its mutex.  A step is what a task does between two   *)
(* points where an interrupt may switch it out: the loops over task_table   *)
(* go slot by slot, and the sections under irq_enter_protection are one     *)
(* step.  The mutex is used through what it promises, QueueLock, which Ipc  *)
(* implements.                                                              *)
(* A loop index or flag that is dead goes back to its first value.          *)
(***************************************************************************)
EXTENDS Integers, Sequences, FiniteSets, Functions

CONSTANTS
  NSlot,       \* TASK_NR, the size of task_table
  Renames      \* the slots whose processes call execve

ASSUME SlotAssumption == NSlot \in Nat \ {0}

Slot == 1 .. NSlot
First == 0        \* task_manager.first_task, outside the table
NoTask == -1      \* a null task_t pointer
Task == Slot \cup {First}

VARIABLES
  named,   \* name[0] of each slot is not 0: the slot is in use
  parent,  \* task_t.parent of each slot
  state,   \* task_t.state, as far as fork, exit and wait read or write it
  pc,      \* where each task is in its system call
  idx,     \* the loop index of a scan of task_table
  pick,    \* the slot alloc_task returned to a task in sys_fork
  moved,   \* move_child of a task in sys_exit
  line,    \* task_table_mutex: its owner, then its waiters
  missed,  \* history: tasks that got a zombie between looking and blocking
  clashed  \* history: a fork was given a slot that was not free

vars == <<named, parent, state, pc, idx, pick, moved, line, missed, clashed>>

Table == INSTANCE QueueLock WITH Client <- Task, Lock <- {"task_table"}, line <- line

Join(t) == Table!Enter(t, "task_table")
Leave == Table!Leave("task_table")
Holds(t) == line["task_table"] # <<>> /\ Head(line["task_table"]) = t

Goto(t, place) == pc' = [pc EXCEPT ![t] = place]

Alive == {t \in Task : state[t] \in {"ready", "waiting"}}

Init ==
  /\ named = [s \in Slot |-> FALSE]
  /\ parent = [s \in Slot |-> NoTask]
  /\ state = [t \in Task |-> IF t = First THEN "ready" ELSE "created"]
  /\ pc = [t \in Task |-> IF t = First THEN "user" ELSE "none"]
  /\ idx = [t \in Task |-> 1]
  /\ pick = [t \in Task |-> NoTask]
  /\ moved = [t \in Task |-> FALSE]
  /\ Table!LockInit
  /\ missed = {}
  /\ clashed = FALSE

-----------------------------------------------------------------------------
(* sys_fork *)
ForkCall(t) ==
  /\ pc[t] = "user"
  /\ Join(t)
  /\ Goto(t, "forkAlloc")
  /\ UNCHANGED <<named, parent, state, idx, pick, moved, missed, clashed>>

Scanning(t, place) == pc[t] = place /\ Holds(t)

(* alloc_task: a slot with a name is passed, the first without one taken.   *)
(* That is not to say that it is free: another fork may be building its     *)
(* child there, or its process may have lost its name (ExecName).           *)
AllocSkip(t) ==
  /\ Scanning(t, "forkAlloc")
  /\ idx[t] \in Slot
  /\ named[idx[t]]
  /\ idx' = [idx EXCEPT ![t] = @ + 1]
  /\ UNCHANGED <<named, parent, state, pc, pick, moved, line, missed, clashed>>

(* Faulty variant of AllocTake: the slot is taken without a look at its name. *)
AllocTakeAny(t) ==
  /\ Scanning(t, "forkAlloc")
  /\ idx[t] \in Slot
  /\ pick' = [pick EXCEPT ![t] = idx[t]]
  /\ clashed' = (state[idx[t]] # "created" \/ \E u \in Task : pick[u] = idx[t])
  /\ Leave
  /\ Goto(t, "forkInit")
  /\ idx' = [idx EXCEPT ![t] = 1]
  /\ UNCHANGED <<named, parent, state, moved, missed>>

AllocTake(t) ==
  /\ Scanning(t, "forkAlloc")
  /\ idx[t] \in Slot
  /\ ~ named[idx[t]]
  /\ pick' = [pick EXCEPT ![t] = idx[t]]
  /\ clashed' = (state[idx[t]] # "created" \/ \E u \in Task : pick[u] = idx[t])
  /\ Leave
  /\ Goto(t, "forkInit")
  /\ idx' = [idx EXCEPT ![t] = 1]
  /\ UNCHANGED <<named, parent, state, moved, missed>>

AllocNone(t) ==
  /\ Scanning(t, "forkAlloc")
  /\ idx[t] = NSlot + 1
  /\ Leave
  /\ Goto(t, "user")
  /\ idx' = [idx EXCEPT ![t] = 1]
  /\ UNCHANGED <<named, parent, state, pick, moved, missed, clashed>>

(* task_init gives the slot the name of the parent, long after alloc_task   *)
(* chose it.                                                                *)
TaskInit(t) ==
  /\ pc[t] = "forkInit"
  /\ named' = [named EXCEPT ![pick[t]] = t = First \/ named[t]]
  /\ state' = [state EXCEPT ![pick[t]] = "created"]
  /\ parent' = [parent EXCEPT ![pick[t]] = NoTask]
  /\ Goto(t, "forkLink")
  /\ UNCHANGED <<idx, pick, moved, line, missed, clashed>>

ForkLink(t) ==
  /\ pc[t] = "forkLink"
  /\ parent' = [parent EXCEPT ![pick[t]] = t]
  /\ Goto(t, "forkStart")
  /\ UNCHANGED <<named, state, idx, pick, moved, line, missed, clashed>>

(* task_start: the child begins as a copy of the parent, in user code. *)
ForkStart(t) ==
  /\ pc[t] = "forkStart"
  /\ state' = [state EXCEPT ![pick[t]] = "ready"]
  /\ pc' = [pc EXCEPT ![pick[t]] = "user", ![t] = "user"]
  /\ pick' = [pick EXCEPT ![t] = NoTask]
  /\ UNCHANGED <<named, parent, idx, moved, line, missed, clashed>>

(* sys_execve writes task->name first of all, without the mutex, and keeps  *)
(* it when it fails; get_file_name of a path that ends with a slash is      *)
(* empty.  The first task does not call execve.                             *)
ExecName(t) ==
  /\ t # First /\ t \in Renames
  /\ pc[t] = "user"
  /\ \E name \in BOOLEAN : named' = [named EXCEPT ![t] = name]
  /\ UNCHANGED <<parent, state, pc, idx, pick, moved, line, missed, clashed>>

-----------------------------------------------------------------------------
(* sys_wait *)
WaitCall(t) ==
  /\ pc[t] = "user"
  /\ Join(t)
  /\ Goto(t, "waitScan")
  /\ missed' = missed \ {t}
  /\ UNCHANGED <<named, parent, state, idx, pick, moved, clashed>>

WaitSkip(t) ==
  /\ Scanning(t, "waitScan")
  /\ idx[t] \in Slot
  /\ ~ (parent[idx[t]] = t /\ state[idx[t]] = "zombie")
  /\ idx' = [idx EXCEPT ![t] = @ + 1]
  /\ UNCHANGED <<named, parent, state, pc, pick, moved, line, missed, clashed>>

(* The slot of a zombie child is cleared (kernel_memset) and its pid and    *)
(* status are returned.                                                     *)
WaitReap(t) ==
  /\ Scanning(t, "waitScan")
  /\ idx[t] \in Slot
  /\ parent[idx[t]] = t
  /\ state[idx[t]] = "zombie"
  /\ named' = [named EXCEPT ![idx[t]] = FALSE]
  /\ parent' = [parent EXCEPT ![idx[t]] = NoTask]
  /\ state' = [state EXCEPT ![idx[t]] = "created"]
  /\ pc' = [pc EXCEPT ![t] = "user", ![idx[t]] = "none"]
  /\ Leave
  /\ idx' = [idx EXCEPT ![t] = 1]
  /\ UNCHANGED <<pick, moved, missed, clashed>>

(* Faulty variant of WaitMiss: the mutex is not released. *)
WaitMissKeepsLock(t) ==
  /\ Scanning(t, "waitScan")
  /\ idx[t] = NSlot + 1
  /\ Goto(t, "waitBlock")
  /\ idx' = [idx EXCEPT ![t] = 1]
  /\ UNCHANGED <<named, parent, state, pick, moved, line, missed, clashed>>

WaitMiss(t) ==
  /\ Scanning(t, "waitScan")
  /\ idx[t] = NSlot + 1
  /\ Leave
  /\ Goto(t, "waitBlock")
  /\ idx' = [idx EXCEPT ![t] = 1]
  /\ UNCHANGED <<named, parent, state, pick, moved, missed, clashed>>

(* Only now are interrupts disabled and the task marked TASK_WAITING. *)
WaitBlock(t) ==
  /\ pc[t] = "waitBlock"
  /\ state' = [state EXCEPT ![t] = "waiting"]
  /\ Goto(t, "waitBlocked")
  /\ UNCHANGED <<named, parent, idx, pick, moved, line, missed, clashed>>

(* Made ready by an exiting task, it scans again. *)
WaitAgain(t) ==
  /\ pc[t] = "waitBlocked"
  /\ state[t] = "ready"
  /\ Join(t)
  /\ Goto(t, "waitScan")
  /\ missed' = missed \ {t}
  /\ UNCHANGED <<named, parent, state, idx, pick, moved, clashed>>

-----------------------------------------------------------------------------
(* sys_exit, after it closed the files.  The first task does not exit.      *)
ExitCall(t) ==
  /\ t # First
  /\ pc[t] = "user"
  /\ Join(t)
  /\ Goto(t, "exitScan")
  /\ UNCHANGED <<named, parent, state, idx, pick, moved, missed, clashed>>

(* A task between the start of its scan and its block is not woken. *)
Looking(t) == pc[t] \in {"waitScan", "waitBlock"}
Missing(p) == IF p # NoTask /\ Looking(p) THEN {p} ELSE {}

(* Faulty variant of ExitAdopt: children keep their parent. *)
ExitAdoptNot(t) ==
  /\ Scanning(t, "exitScan")
  /\ idx[t] \in Slot
  /\ idx' = [idx EXCEPT ![t] = @ + 1]
  /\ UNCHANGED <<named, parent, state, pc, pick, moved, line, missed, clashed>>

(* Faulty variant of ExitAdopt: move_child is never set. *)
ExitAdoptUnmarked(t) ==
  /\ Scanning(t, "exitScan")
  /\ idx[t] \in Slot
  /\ IF parent[idx[t]] = t
       THEN parent' = [parent EXCEPT ![idx[t]] = First]
       ELSE UNCHANGED parent
  /\ idx' = [idx EXCEPT ![t] = @ + 1]
  /\ UNCHANGED <<named, state, pc, pick, moved, line, missed, clashed>>

(* One slot of the loop that gives the children to the first task. *)
ExitAdopt(t) ==
  /\ Scanning(t, "exitScan")
  /\ idx[t] \in Slot
  /\ IF parent[idx[t]] = t
       THEN /\ parent' = [parent EXCEPT ![idx[t]] = First]
            /\ moved' = [moved EXCEPT ![t] = @ \/ state[idx[t]] = "zombie"]
            /\ missed' = missed \cup IF state[idx[t]] = "zombie" THEN Missing(First) ELSE {}
       ELSE UNCHANGED <<parent, moved, missed>>
  /\ idx' = [idx EXCEPT ![t] = @ + 1]
  /\ UNCHANGED <<named, state, pc, pick, line, clashed>>

ExitUnlock(t) ==
  /\ Scanning(t, "exitScan")
  /\ idx[t] = NSlot + 1
  /\ Leave
  /\ Goto(t, "exitEnd")
  /\ idx' = [idx EXCEPT ![t] = 1]
  /\ UNCHANGED <<named, parent, state, pick, moved, missed, clashed>>

(* The protected end: wake the first task if it inherited a zombie, wake    *)
(* the parent, become a zombie and never run again.                         *)
Woken(t) ==
  {p \in {parent[t]} \cup (IF moved[t] THEN {First} ELSE {}) :
     p # NoTask /\ state[p] = "waiting"}

ExitEnd(t) ==
  /\ pc[t] = "exitEnd"
  /\ state' = [u \in Task |-> IF u = t THEN "zombie"
                              ELSE IF u \in Woken(t) THEN "ready" ELSE state[u]]
  /\ Goto(t, "gone")
  /\ missed' = missed \cup Missing(parent[t])
  /\ moved' = [moved EXCEPT ![t] = FALSE]
  /\ UNCHANGED <<named, parent, idx, pick, line, clashed>>

-----------------------------------------------------------------------------
(* What a task does once its call has begun, and the calls. *)
OtherStep(t) ==
  \/ AllocSkip(t) \/ AllocTake(t) \/ AllocNone(t) \/ ForkLink(t) \/ ForkStart(t)
  \/ WaitSkip(t) \/ WaitMiss(t) \/ WaitBlock(t) \/ WaitAgain(t)
  \/ ExitAdopt(t) \/ ExitUnlock(t) \/ ExitEnd(t)

Step(t) == TaskInit(t) \/ WaitReap(t) \/ OtherStep(t)

(* Calls that a program makes when it likes. *)
Call(t) == ForkCall(t) \/ WaitCall(t) \/ ExitCall(t) \/ ExecName(t)

(* A fork that builds its child in a slot that is not free leaves the task  *)
(* table broken and links one task twice in a list: the model stops there.  *)
Next == ~ clashed /\ \E t \in Task : Step(t) \/ Call(t)

Spec == Init /\ [][Next]_vars

(* Every task that can run does run (EveryTaskRuns of Sched); programs need *)
(* not call anything.                                                       *)
FairSpec == Spec /\ \A t \in Task : WF_vars(~ clashed /\ Step(t))

-----------------------------------------------------------------------------
Places == {"none", "user", "forkAlloc", "forkInit", "forkLink", "forkStart",
           "waitScan", "waitBlock", "waitBlocked", "exitScan", "exitEnd", "gone"}

TypeOK ==
  /\ named \in [Slot -> BOOLEAN]
  /\ parent \in [Slot -> Task \cup {NoTask}]
  /\ state \in [Task -> {"created", "ready", "waiting", "zombie"}]
  /\ pc \in [Task -> Places]
  /\ idx \in [Task -> 1 .. NSlot + 1]
  /\ pick \in [Task -> Slot \cup {NoTask}]
  /\ moved \in [Task -> BOOLEAN]
  /\ line["task_table"] \in Seq(Task)
  /\ missed \subseteq Task /\ clashed \in BOOLEAN

(* A live or dead child always has a parent that is alive and can still     *)
(* wait for it: a task that goes away gives its children to the first task  *)
(* before its slot can be reused, so no zombie is left without a reaper and *)
(* no child is inherited by a stranger that was given its parent's slot.    *)
ParentAlive ==
  \A s \in Slot :
    /\ state[s] \in {"ready", "waiting", "zombie"} =>
         parent[s] # NoTask /\ parent[s] \in Alive
    /\ parent[s] # NoTask => pc[parent[s]] # "exitEnd"

(* A task that is blocked in sys_wait while it has a zombie child is one    *)
(* that child could not see waiting, or the zombie is just being handed to  *)
(* the first task by an exiting task that will wake it: there is no other   *)
(* way to lose the wake-up.                                                 *)
BlockedOnlyIfMissed ==
  \A s \in Slot :
    state[s] = "zombie" /\ state[parent[s]] = "waiting" =>
      \/ parent[s] \in missed
      \/ parent[s] = First /\ \E t \in Slot :
           moved[t] /\ pc[t] \in {"exitScan", "exitEnd"}

(* A fork is given a slot that is not free in two ways only: two forks both  *)
(* chose it and have not written its name yet, or a live process has no      *)
(* name, which execve can take from it and its children then do not get.     *)
ClashedOnlyIfUnnamed ==
  clashed =>
    \/ \E t, u \in Task : /\ t # u /\ pick[t] # NoTask /\ pick[t] = pick[u]
                          /\ pc[t] = "forkInit" /\ pc[u] = "forkInit"
    \/ \E s \in Slot : state[s] # "created" /\ ~ named[s]

(* wait() waits for a child process (README.md:48): when a child is a       *)
(* zombie, its parent's wait returns.                                       *)
WaitReturns ==
  \A s \in Slot, p \in Task :
    parent[s] = p /\ state[s] = "zombie" /\ pc[p] \in {"waitScan", "waitBlock", "waitBlocked"}
      ~> clashed \/ pc[p] = "user"

=============================================================================
