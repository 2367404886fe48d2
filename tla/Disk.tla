-------------------------------- MODULE Disk --------------------------------
(***************************************************************************)
(* Requests to the IDE disk, dev/disk.c: one mutex, one semaphore that the *)
(* interrupt handler notifies, and a status register that is polled after  *)
(* every wait.  The device and the interrupt controller are external: a    *)
(* sector that is ready, or an error, raises the interrupt, and an edge    *)
(* that comes while one is pending is merged with it.  The device takes    *)
(* the first sector of a write as soon as it has the command.              *)
(* Before the first task runs (booted = FALSE) interrupts are off and the  *)
(* requests of the boot code only poll.  disk->mutex is exclusive; that it *)
(* is handed over in order is the subject of Ipc.                          *)
(***************************************************************************)
EXTENDS Integers

CONSTANTS
  Task,
  MaxSectors   \* bound: sectors in one call

ASSUME DiskAssumption == MaxSectors \in Nat \ {0}

VARIABLES
  req,        \* of each task: where it is in disk_read or disk_write
  dev,        \* the status register and the sectors still to transfer
  irq,        \* whether the interrupt controller has an edge pending
  sem,        \* op_sem.count
  task_on_op,
  booted      \* task_current() is not 0

vars == <<req, dev, irq, sem, task_on_op, booted>>

Idle == [phase |-> "idle", op |-> "none", left |-> 0]

Init ==
  /\ req = [t \in Task |-> Idle]
  /\ dev = [status |-> "idle", op |-> "none", left |-> 0]
  /\ irq = FALSE /\ sem = 0 /\ task_on_op = 0 /\ booted = FALSE

(* interrupts come on with the first task; no request is under way then.    *)
Boot ==
  /\ ~ booted
  /\ \A t \in Task : req[t] = Idle
  /\ booted' = TRUE
  /\ UNCHANGED <<req, dev, irq, sem, task_on_op>>

Call(t, op, n) ==
  /\ req[t] = Idle
  /\ booted \/ \A u \in Task : req[u] = Idle
  /\ req' = [req EXCEPT ![t] = [phase |-> "lock", op |-> op, left |-> n]]
  /\ UNCHANGED <<dev, irq, sem, task_on_op, booted>>

Holding(t) == req[t].phase \notin {"idle", "lock"}

(* Faulty variant of Command: the mutex is not taken. *)
CommandUnlocked(t) ==
  /\ req[t].phase = "lock"
  /\ task_on_op' = 1
  /\ dev' = [status |-> IF req[t].op = "read" THEN "busy" ELSE "drq",
             op |-> req[t].op, left |-> req[t].left]
  /\ req' = [req EXCEPT ![t].phase = IF req[t].op = "read" THEN "wait" ELSE "move"]
  /\ UNCHANGED <<irq, sem, booted>>

(* disk_send_cmd, under the mutex. *)
Command(t) ==
  /\ req[t].phase = "lock"
  /\ \A u \in Task : ~ Holding(u)
  /\ task_on_op' = 1
  /\ dev' = [status |-> IF req[t].op = "read" THEN "busy" ELSE "drq",
             op |-> req[t].op, left |-> req[t].left]
  /\ req' = [req EXCEPT ![t].phase = IF req[t].op = "read" THEN "wait" ELSE "move"]
  /\ UNCHANGED <<irq, sem, booted>>

(* sem_wait, unless there is no task yet. *)
SemWait(t) ==
  /\ req[t].phase = "wait"
  /\ booted => sem > 0
  /\ sem' = IF booted THEN sem - 1 ELSE sem
  /\ req' = [req EXCEPT ![t].phase = "poll"]
  /\ UNCHANGED <<dev, irq, task_on_op, booted>>

(* Faulty variant of PollError: the rest is asked for again. *)
PollErrorRetries(t) ==
  /\ req[t].phase = "poll" /\ dev.status = "err"
  /\ req' = [req EXCEPT ![t].phase = "lock", ![t].left = IF @ = 0 THEN 1 ELSE @]
  /\ UNCHANGED <<dev, irq, sem, task_on_op, booted>>

(* disk_wait_data finds the device not busy: an error ends the call with    *)
(* the sectors done so far; a sector that was read is fetched, one that was *)
(* written is done.                                                         *)
PollError(t) ==
  /\ req[t].phase = "poll" /\ dev.status = "err"
  /\ req' = [req EXCEPT ![t] = Idle]
  /\ UNCHANGED <<dev, irq, sem, task_on_op, booted>>

PollReady(t) ==
  /\ req[t].phase = "poll" /\ dev.status \notin {"busy", "err"}
  /\ req' = IF req[t].op = "write" /\ req[t].left = 0
               THEN [req EXCEPT ![t] = Idle]
               ELSE [req EXCEPT ![t].phase = "move"]
  /\ UNCHANGED <<dev, irq, sem, task_on_op, booted>>

(* disk_read_data and disk_write_data: a sector through the data port.  The *)
(* device takes or gives it only if it asked for it.                        *)
Moved ==
  IF dev.status # "drq" THEN dev
  ELSE [dev EXCEPT !.left = @ - 1,
                   !.status = IF dev.op = "read" /\ dev.left = 1 THEN "idle" ELSE "busy"]
Move(t) ==
  /\ req[t].phase = "move"
  /\ dev' = Moved
  /\ req' = IF req[t].op = "read" /\ req[t].left = 1
               THEN [req EXCEPT ![t] = Idle]
               ELSE [req EXCEPT ![t].left = @ - 1, ![t].phase = "wait"]
  /\ UNCHANGED <<irq, sem, task_on_op, booted>>

(* The device, external: a sector is in its buffer or on the disk. *)
Ready ==
  /\ dev.status = "busy"
  /\ dev' = [dev EXCEPT !.status = IF dev.left = 0 THEN "idle" ELSE "drq"]
  /\ irq' = TRUE
  /\ UNCHANGED <<req, sem, task_on_op, booted>>

Failed ==
  /\ dev.status = "busy"
  /\ dev' = [dev EXCEPT !.status = "err"]
  /\ irq' = TRUE
  /\ UNCHANGED <<req, sem, task_on_op, booted>>

(* do_handler_ide_primary *)
Handler ==
  /\ irq /\ booted
  /\ irq' = FALSE
  /\ sem' = IF task_on_op = 1 THEN sem + 1 ELSE sem
  /\ UNCHANGED <<req, dev, task_on_op, booted>>

Next ==
  \/ Boot \/ Ready \/ Failed \/ Handler
  \/ \E t \in Task :
       \/ \E op \in {"read", "write"}, n \in 1 .. MaxSectors : Call(t, op, n)
       \/ Command(t) \/ SemWait(t) \/ PollError(t) \/ PollReady(t) \/ Move(t)

Spec == Init /\ [][Next]_vars

(* The device answers, interrupts are taken (TicksHandled of Interrupts),   *)
(* tasks are scheduled (EveryTaskRuns of Sched) and disk->mutex is handed   *)
(* over in order (LocksAreQueues of Ipc).                                   *)
LiveSpec ==
  /\ Spec
  /\ WF_vars(Ready \/ Failed) /\ WF_vars(Handler) /\ WF_vars(Boot)
  /\ \A t \in Task :
       /\ SF_vars(Command(t)) /\ WF_vars(SemWait(t))
       /\ WF_vars(PollError(t) \/ PollReady(t)) /\ WF_vars(Move(t))

-----------------------------------------------------------------------------
TypeOK ==
  /\ req \in [Task -> [phase : {"idle", "lock", "wait", "poll", "move"},
                       op : {"none", "read", "write"}, left : 0 .. MaxSectors]]
  /\ dev \in [status : {"idle", "busy", "drq", "err"},
              op : {"none", "read", "write"}, left : 0 .. MaxSectors]
  /\ irq \in BOOLEAN /\ sem \in Nat /\ task_on_op \in {0, 1} /\ booted \in BOOLEAN

(* The holder and the device agree on how far the command is, so the data   *)
(* port is used only when the device asks for it, whatever number of        *)
(* interrupts op_sem still remembers; and of those there is at most one too *)
(* many, the one the boot code left behind, however requests and errors     *)
(* follow each other.                                                       *)
Owed == IF \E t \in Task : req[t].phase = "wait" /\ dev.status # "busy" THEN 1 ELSE 0
Remembered == sem + (IF irq /\ booted THEN 1 ELSE 0)
InStep ==
  /\ \A t \in Task :
       Holding(t) /\ dev.status # "err" => dev.op = req[t].op /\ dev.left = req[t].left
  /\ Remembered <= Owed + 1

(* Every request ends, with all its sectors or with an error. *)
RequestsEnd == \A t \in Task : req[t].phase # "idle" ~> req[t].phase = "idle"

=============================================================================
