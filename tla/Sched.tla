------------------------------- MODULE Sched -------------------------------
(***************************************************************************)
(* The single-CPU round-robin scheduler of core/task.c: the ready list,     *)
(* the sleep list, the running task and the clock interrupt.                *)
(*                                                                          *)
(* The running task stays linked in ready_list; task_dispatch makes the     *)
(* head of that list the running task.  The hardware task switch inside     *)
(* task_dispatch freezes the calling handler: when the clock handler        *)
(* preempts a task at task.c:346, the rest of that handler (the scan of the *)
(* sleep list and the final dispatch) is run only when the preempted task   *)
(* is switched to again.  `tail' is the set of tasks frozen at that point,  *)
(* `cursor' the position of the scan that is running now (0: none).  A scan *)
(* runs with interrupts off, so every other action needs cursor = 0.        *)
(*                                                                          *)
(* Tasks that other parts of the kernel took off the ready list (a mutex or *)
(* semaphore wait list, a parent waiting for a child) are in `blocked'.     *)
(***************************************************************************)
EXTENDS Naturals, Sequences, FiniteSets, Functions

CONSTANTS
  Task,       \* task_table and first_task: what can be linked in a run list
  First,      \* task_manager.first_task, the one task linked at start
  Idle,       \* task_manager.idle_task, run when ready_list is empty
  TimeSlice,  \* TASK_TIME_SLICE_DEFAULT
  MaxSleep    \* bound: the longest sleep asked for, in ticks

ASSUME TaskAssumption == First \in Task /\ Idle \notin Task
ASSUME SliceAssumption == TimeSlice \in Nat \ {0} /\ MaxSleep \in Nat \ {0}

VARIABLES
  ready,      \* ready_list, by run_node
  sleeping,   \* sleep_list, by run_node
  blocked,    \* tasks in neither list that something else will make ready
  curr,       \* task_manager.curr_task
  state,      \* task_t.state
  slice,      \* task_t.slice_ticks
  sleepTicks, \* task_t.sleep_ticks
  tail,       \* tasks switched out at task.c:346, inside the clock handler
  cursor      \* position in sleep_list of the running scan, 0 when none runs

schedVars == <<ready, sleeping, blocked, curr, state, slice, sleepTicks, tail, cursor>>

AllTask == Task \cup {Idle}
TaskState == {"created", "running", "sleep", "ready", "waiting", "zombie"}

(* list_remove of a node that is linked in s. *)
Unlink(s, t) ==
  LET i == CHOOSE j \in DOMAIN s : s[j] = t
  IN  [j \in 1 .. Len(s) - 1 |-> IF j < i THEN s[j] ELSE s[j + 1]]

(* task_next_run *)
NextRun(rdy) == IF rdy = <<>> THEN Idle ELSE Head(rdy)

(* Faulty variant of Enqueue: inserts at the head. *)
EnqueueAtHead(s, t) == <<t>> \o s

(* list_insert_last *)
Enqueue(s, t) == Append(s, t)

(* Faulty variant of Rotated: the running task stays at the head. *)
RotateKeepsHead == ready

(* task_set_block and task_set_ready of the running task: neither does      *)
(* anything to the idle task.                                               *)
Rotated == IF curr = Idle THEN ready ELSE Enqueue(Unlink(ready, curr), curr)
RotatedState == IF curr = Idle THEN state ELSE [state EXCEPT ![curr] = "ready"]

-----------------------------------------------------------------------------
Init ==
  /\ ready = <<First>>
  /\ sleeping = <<>>
  /\ blocked = {}
  /\ curr = First
  /\ state = [t \in AllTask |-> IF t = First THEN "ready" ELSE "created"]
  /\ slice = [t \in AllTask |-> TimeSlice]
  /\ sleepTicks = [t \in Task |-> 0]
  /\ tail = {}
  /\ cursor = 0

(* task_dispatch over the ready list rdy and task states st.  A task        *)
(* switched out leaves behind the rest of its handler (`frozen'); one that  *)
(* is switched to and had left a scan behind starts it now.  When the       *)
(* running task goes on running, its own handler goes on at position `on'.  *)
DispatchSwitch(rdy, st, frozen) ==
  /\ NextRun(rdy) # curr
  /\ curr' = NextRun(rdy)
  /\ state' = [st EXCEPT ![NextRun(rdy)] = "running"]
  /\ cursor' = IF NextRun(rdy) \in tail THEN 1 ELSE 0
  /\ tail' = (tail \cup frozen) \ {NextRun(rdy)}

Dispatch(rdy, st, frozen, on) ==
  /\ ready' = rdy
  /\ \/ DispatchSwitch(rdy, st, frozen)
     \/ /\ NextRun(rdy) = curr
        /\ state' = st
        /\ cursor' = on
        /\ UNCHANGED <<curr, tail>>

-----------------------------------------------------------------------------
(* The clock interrupt, task_time_tick, up to its first dispatch.           *)
TickCount ==
  /\ cursor = 0
  /\ slice[curr] > 1
  /\ slice' = [slice EXCEPT ![curr] = @ - 1]
  /\ cursor' = 1
  /\ UNCHANGED <<ready, sleeping, blocked, curr, state, sleepTicks, tail>>

TickExpire ==
  /\ cursor = 0
  /\ slice[curr] = 1
  /\ slice' = [slice EXCEPT ![curr] = TimeSlice]
  /\ Dispatch(Rotated, RotatedState, {curr}, 1)
  /\ UNCHANGED <<sleeping, blocked, sleepTicks>>

(* Faulty variant of ScanWake: no list_remove from sleep_list. *)
ScanWakeKeepsNode ==
  /\ cursor \in DOMAIN sleeping
  /\ sleepTicks[sleeping[cursor]] = 1
  /\ ready' = Enqueue(ready, sleeping[cursor])
  /\ state' = [state EXCEPT ![sleeping[cursor]] = "ready"]
  /\ sleepTicks' = [sleepTicks EXCEPT ![sleeping[cursor]] = 0]
  /\ cursor' = cursor + 1
  /\ UNCHANGED <<sleeping, blocked, curr, slice, tail>>

(* The scan of sleep_list, one node per step, and the dispatch that ends    *)
(* the handler.                                                             *)
ScanWake ==
  /\ cursor \in DOMAIN sleeping
  /\ sleepTicks[sleeping[cursor]] = 1
  /\ sleeping' = Unlink(sleeping, sleeping[cursor])
  /\ ready' = Enqueue(ready, sleeping[cursor])
  /\ state' = [state EXCEPT ![sleeping[cursor]] = "ready"]
  /\ sleepTicks' = [sleepTicks EXCEPT ![sleeping[cursor]] = 0]
  /\ UNCHANGED <<blocked, curr, slice, tail, cursor>>

(* Faulty variant of ScanCount: the tick is not counted. *)
ScanSkips ==
  /\ cursor \in DOMAIN sleeping
  /\ sleepTicks[sleeping[cursor]] > 1
  /\ cursor' = cursor + 1
  /\ UNCHANGED <<ready, sleeping, blocked, curr, state, slice, sleepTicks, tail>>

ScanCount ==
  /\ cursor \in DOMAIN sleeping
  /\ sleepTicks[sleeping[cursor]] > 1
  /\ sleepTicks' = [sleepTicks EXCEPT ![sleeping[cursor]] = @ - 1]
  /\ cursor' = cursor + 1
  /\ UNCHANGED <<ready, sleeping, blocked, curr, state, slice, tail>>

ScanEnd ==
  /\ cursor = Len(sleeping) + 1
  /\ Dispatch(ready, state, {}, 0)
  /\ UNCHANGED <<sleeping, blocked, slice, sleepTicks>>

-----------------------------------------------------------------------------
(* What the running task does.  The idle task only halts.                   *)
InTask == cursor = 0 /\ curr \in Task

Yield ==
  /\ InTask
  /\ Len(ready) > 1
  /\ Dispatch(Rotated, RotatedState, {}, 0)
  /\ UNCHANGED <<sleeping, blocked, slice, sleepTicks>>

(* Faulty variant of Sleep: TASK_SLEEP is not set. *)
SleepStateKept(n) ==
  /\ InTask
  /\ sleeping' = Enqueue(sleeping, curr)
  /\ sleepTicks' = [sleepTicks EXCEPT ![curr] = n]
  /\ Dispatch(Unlink(ready, curr), state, {}, 0)
  /\ UNCHANGED <<blocked, slice>>

(* sys_sleep for n ticks; msleep of the application library returns before  *)
(* the call when the time is not positive, so n is never 0.                 *)
Sleep(n) ==
  /\ InTask
  /\ sleeping' = Enqueue(sleeping, curr)
  /\ sleepTicks' = [sleepTicks EXCEPT ![curr] = n]
  /\ Dispatch(Unlink(ready, curr), [state EXCEPT ![curr] = "sleep"], {}, 0)
  /\ UNCHANGED <<blocked, slice>>

(* task_set_block and task_dispatch as mutex_lock and sem_wait call them:   *)
(* the state of the blocked task is left as it was.                         *)
Block ==
  /\ InTask
  /\ blocked' = blocked \cup {curr}
  /\ Dispatch(Unlink(ready, curr), state, {}, 0)
  /\ UNCHANGED <<sleeping, slice, sleepTicks>>

(* The same in sys_wait, where the state becomes TASK_WAITING.              *)
BlockWaiting ==
  /\ InTask
  /\ blocked' = blocked \cup {curr}
  /\ Dispatch(Unlink(ready, curr), [state EXCEPT ![curr] = "waiting"], {}, 0)
  /\ UNCHANGED <<sleeping, slice, sleepTicks>>

(* Faulty variant of Wake: no dispatch after task_set_ready. *)
WakeNoDispatch(t) ==
  /\ cursor = 0
  /\ t \in blocked
  /\ state[t] # "waiting"
  /\ blocked' = blocked \ {t}
  /\ ready' = Enqueue(ready, t)
  /\ state' = [state EXCEPT ![t] = "ready"]
  /\ UNCHANGED <<sleeping, curr, slice, sleepTicks, tail, cursor>>

(* task_set_ready and task_dispatch as mutex_unlock and sem_notify call     *)
(* them, from a task or from an interrupt handler.                          *)
Wake(t) ==
  /\ cursor = 0
  /\ t \in blocked
  /\ state[t] # "waiting"
  /\ blocked' = blocked \ {t}
  /\ Dispatch(Enqueue(ready, t), [state EXCEPT ![t] = "ready"], {}, 0)
  /\ UNCHANGED <<sleeping, slice, sleepTicks>>

(* task_init and task_start of a table slot, by the running task in fork.   *)
Start(t) ==
  /\ InTask
  /\ state[t] = "created"
  /\ ready' = Enqueue(ready, t)
  /\ state' = [state EXCEPT ![t] = "ready"]
  /\ slice' = [slice EXCEPT ![t] = TimeSlice]
  /\ sleepTicks' = [sleepTicks EXCEPT ![t] = 0]
  /\ UNCHANGED <<sleeping, blocked, curr, tail, cursor>>

(* The two wake-ups in sys_exit: the first task when it inherited a zombie, *)
(* then the parent, each only if it is TASK_WAITING.                        *)
Waiting == {t \in Task : state[t] = "waiting"}
ExitWakes ==
  {<<>>} \cup {<<p>> : p \in Waiting}
         \cup {<<f, p>> : f \in Waiting \cap {First}, p \in Waiting \ {First}}

(* The last, protected part of sys_exit.  The first task never exits.       *)
Exit(wakes) ==
  /\ InTask
  /\ curr # First
  /\ blocked' = blocked \ Range(wakes)
  /\ Dispatch(Unlink(ready \o wakes, curr),
              [t \in AllTask |-> CASE t = curr -> "zombie"
                                   [] t \in Range(wakes) -> "ready"
                                   [] OTHER -> state[t]],
              {}, 0)
  /\ UNCHANGED <<sleeping, slice, sleepTicks>>

(* sys_wait clears the slot of a zombie (kernel_memset of its task_t).      *)
Reap(t) ==
  /\ InTask
  /\ state[t] = "zombie"
  /\ state' = [state EXCEPT ![t] = "created"]
  /\ UNCHANGED <<ready, sleeping, blocked, curr, slice, sleepTicks, tail, cursor>>

-----------------------------------------------------------------------------
Handler == TickCount \/ TickExpire \/ ScanWake \/ ScanCount \/ ScanEnd

Next ==
  \/ TickCount \/ TickExpire \/ ScanWake \/ ScanCount \/ ScanEnd
  \/ Yield \/ Block \/ BlockWaiting
  \/ \E n \in 1 .. MaxSleep : Sleep(n)
  \/ \E t \in Task : Wake(t) \/ Start(t) \/ Reap(t)
  \/ \E w \in ExitWakes : Exit(w)

Spec == Init /\ [][Next]_schedVars

(* The timer goes on interrupting, and a handler that runs goes on; nothing *)
(* is assumed of the tasks themselves.                                      *)
FairSpec == Spec /\ WF_schedVars(Handler)

-----------------------------------------------------------------------------
TypeOK ==
  /\ ready \in Seq(Task)
  /\ sleeping \in Seq(Task)
  /\ blocked \subseteq Task
  /\ curr \in AllTask
  /\ state \in [AllTask -> TaskState]
  /\ slice \in [AllTask -> 1 .. TimeSlice]
  /\ sleepTicks \in [Task -> 0 .. MaxSleep]
  /\ tail \subseteq Task
  /\ cursor \in Nat

(* Between handlers the running task is the head of the ready list, or the  *)
(* idle task when that list is empty; inside the rest of a clock handler    *)
(* only the idle task can be running while others are ready.  This is what  *)
(* lets mutex_lock, sem_wait, sys_sleep, sys_wait and sys_exit unlink the   *)
(* running task from ready_list without looking for it.                     *)
CurrIsHead ==
  /\ curr # Idle => ready # <<>> /\ Head(ready) = curr
  /\ curr = Idle /\ cursor = 0 => ready = <<>>

(* run_node is one node shared by ready_list and sleep_list: a task that is *)
(* linked twice, in one list or in both, or that is linked while it waits   *)
(* elsewhere or is not alive, corrupts a list.  And a live task is never    *)
(* in no place at all, where nothing could run it again.                    *)
Dormant == {t \in Task : state[t] \in {"created", "zombie"}}
OnePlace ==
  /\ IsInjective(ready)
  /\ IsInjective(sleeping)
  /\ Range(ready) \cap Range(sleeping) = {}
  /\ blocked \cap (Range(ready) \cup Range(sleeping)) = {}
  /\ Dormant \cap (Range(ready) \cup Range(sleeping) \cup blocked) = {}
  /\ Task = Range(ready) \cup Range(sleeping) \cup blocked \cup Dormant

(* task_t.state agrees with the list the task is linked in, although the    *)
(* two are written by different functions; sleep_ticks is positive exactly  *)
(* while a task is asleep, so --sleep_ticks never passes 0.                 *)
StateAgrees ==
  /\ \A t \in Task : state[t] = "sleep" <=> t \in Range(sleeping)
  /\ \A t \in Task : sleepTicks[t] > 0 <=> t \in Range(sleeping)
  /\ \A t \in Task : state[t] = "waiting" => t \in blocked
  /\ \A t \in Range(ready) : state[t] \in {"ready", "running"}

(* A task that was switched out in the middle of the clock handler is       *)
(* always ready to be switched to again: it never blocks, sleeps or exits   *)
(* with the rest of a handler on its stack, so no tick of the sleepers is   *)
(* lost.                                                                    *)
TailsAreReady ==
  /\ tail \subseteq Range(ready) \ {curr}
  /\ cursor \in 0 .. Len(sleeping) + 1

(* A ready task gets the CPU, even when the others never give it up; and a  *)
(* sleeping task is made ready again although the scans that count its      *)
(* ticks are left behind on the stacks of preempted tasks.                  *)
EveryTaskRuns ==
  \A t \in Task :
    /\ t \in Range(ready) ~> curr = t
    /\ t \in Range(sleeping) ~> t \in Range(ready)

=============================================================================
