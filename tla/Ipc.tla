--------------------------------- MODULE Ipc ---------------------------------
(***************************************************************************)
(* The mutexes (ipc/mutex.c) and semaphores (ipc/sem.c) on top of the       *)
(* scheduler.  Both keep a FIFO of blocked tasks, linked by the task's one  *)
(* wait_node; both hand over directly: mutex_unlock makes the first waiter  *)
(* the owner, sem_notify lets it pass without raising the count.  Every     *)
(* operation runs with interrupts off, so it is one step.                   *)
(***************************************************************************)
EXTENDS Sched, Integers

CONSTANTS
  Mutex, Sem,
  NoTask,     \* the null owner
  InitCount,  \* the count sem_init is called with
  MaxDepth,   \* bound on nested mutex_lock calls of one owner
  MaxCount    \* bound on a semaphore's count

ASSUME NoTaskAssumption == NoTask \notin Task /\ Mutex \cap Sem = {}
ASSUME BoundAssumption == /\ MaxDepth \in Nat \ {0}
                          /\ MaxCount \in Nat
                          /\ InitCount \in [Sem -> 0 .. MaxCount]

VARIABLES
  owner,   \* mutex_t.owner
  depth,   \* mutex_t.locked_count
  lockq,   \* mutex_t.wait_list
  count,   \* sem_t.count
  semq     \* sem_t.wait_list

mutexVars == <<owner, depth, lockq>>
semVars == <<count, semq>>
ipcVars == <<schedVars, mutexVars, semVars>>

IpcInit ==
  /\ Init
  /\ owner = [m \in Mutex |-> NoTask]
  /\ depth = [m \in Mutex |-> 0]
  /\ lockq = [m \in Mutex |-> <<>>]
  /\ count = InitCount
  /\ semq = [s \in Sem |-> <<>>]

-----------------------------------------------------------------------------
LockFree(m) ==
  /\ InTask
  /\ depth[m] = 0
  /\ owner' = [owner EXCEPT ![m] = curr]
  /\ depth' = [depth EXCEPT ![m] = 1]
  /\ UNCHANGED <<schedVars, lockq, semVars>>

LockAgain(m) ==
  /\ InTask
  /\ owner[m] = curr
  /\ depth[m] < MaxDepth
  /\ depth' = [depth EXCEPT ![m] = @ + 1]
  /\ UNCHANGED <<schedVars, owner, lockq, semVars>>

LockBusy(m) ==
  /\ Block
  /\ depth[m] > 0
  /\ owner[m] # curr
  /\ lockq' = [lockq EXCEPT ![m] = Enqueue(@, curr)]
  /\ UNCHANGED <<owner, depth, semVars>>

UnlockInner(m) ==
  /\ InTask
  /\ owner[m] = curr
  /\ depth[m] > 1
  /\ depth' = [depth EXCEPT ![m] = @ - 1]
  /\ UNCHANGED <<schedVars, owner, lockq, semVars>>

UnlockFree(m) ==
  /\ InTask
  /\ owner[m] = curr
  /\ depth[m] = 1
  /\ lockq[m] = <<>>
  /\ owner' = [owner EXCEPT ![m] = NoTask]
  /\ depth' = [depth EXCEPT ![m] = 0]
  /\ UNCHANGED <<schedVars, lockq, semVars>>

(* Faulty variant of HandOver: the woken waiter is not made the owner. *)
HandOverUnowned(m) ==
  /\ InTask
  /\ owner[m] = curr
  /\ depth[m] = 1
  /\ lockq[m] # <<>>
  /\ Wake(Head(lockq[m]))
  /\ lockq' = [lockq EXCEPT ![m] = Tail(@)]
  /\ owner' = [owner EXCEPT ![m] = NoTask]
  /\ depth' = [depth EXCEPT ![m] = 0]
  /\ UNCHANGED semVars

HandOver(m) ==
  /\ InTask
  /\ owner[m] = curr
  /\ depth[m] = 1
  /\ lockq[m] # <<>>
  /\ Wake(Head(lockq[m]))
  /\ lockq' = [lockq EXCEPT ![m] = Tail(@)]
  /\ owner' = [owner EXCEPT ![m] = Head(lockq[m])]
  /\ UNCHANGED <<depth, semVars>>

-----------------------------------------------------------------------------
SemPass(s) ==
  /\ InTask
  /\ count[s] > 0
  /\ count' = [count EXCEPT ![s] = @ - 1]
  /\ UNCHANGED <<schedVars, mutexVars, semq>>

SemBlock(s) ==
  /\ Block
  /\ count[s] = 0
  /\ semq' = [semq EXCEPT ![s] = Enqueue(@, curr)]
  /\ UNCHANGED <<mutexVars, count>>

(* Faulty variant of SemWake: the waiter stays in the list. *)
SemWakeKeepsNode(s) ==
  /\ semq[s] # <<>>
  /\ Wake(Head(semq[s]))
  /\ UNCHANGED <<mutexVars, semVars>>

(* sem_notify, from a task or from the keyboard or disk interrupt handler,  *)
(* which may interrupt the idle task.                                       *)
SemWake(s) ==
  /\ semq[s] # <<>>
  /\ Wake(Head(semq[s]))
  /\ semq' = [semq EXCEPT ![s] = Tail(@)]
  /\ UNCHANGED <<mutexVars, count>>

(* Faulty variant of SemRaise: counts although a task waits. *)
SemRaiseAnyway(s) ==
  /\ cursor = 0
  /\ count[s] < MaxCount
  /\ count' = [count EXCEPT ![s] = @ + 1]
  /\ UNCHANGED <<schedVars, mutexVars, semq>>

SemRaise(s) ==
  /\ cursor = 0
  /\ semq[s] = <<>>
  /\ count[s] < MaxCount
  /\ count' = [count EXCEPT ![s] = @ + 1]
  /\ UNCHANGED <<schedVars, mutexVars, semq>>

-----------------------------------------------------------------------------
(* sys_sched_yield, sys_sleep, sys_wait's block and the end of sys_exit are *)
(* reached from a system call with no mutex held.                           *)
HoldsNone == \A m \in Mutex : owner[m] # curr

TaskStep ==
  \/ /\ HoldsNone
     /\ \/ Yield
        \/ BlockWaiting
        \/ \E n \in 1 .. MaxSleep : Sleep(n)
        \/ \E w \in ExitWakes : Exit(w)
  \/ \E t \in Task : Start(t) \/ Reap(t)

MutexLock(m) == LockFree(m) \/ LockAgain(m) \/ LockBusy(m)
MutexUnlock(m) == UnlockInner(m) \/ UnlockFree(m) \/ HandOver(m)
SemWait(s) == SemPass(s) \/ SemBlock(s)
SemNotify(s) == SemWake(s) \/ SemRaise(s)

IpcNext ==
  \/ Handler /\ UNCHANGED <<mutexVars, semVars>>
  \/ TaskStep /\ UNCHANGED <<mutexVars, semVars>>
  \/ \E m \in Mutex : MutexLock(m) \/ MutexUnlock(m)
  \/ \E s \in Sem : SemWait(s) \/ SemNotify(s)

IpcSpec == IpcInit /\ [][IpcNext]_ipcVars

(* An owner that gets the CPU again and again releases the mutex in the     *)
(* end (kernel sections under a mutex terminate), and the timer runs.       *)
LockFairness ==
  /\ WF_ipcVars(Handler /\ UNCHANGED <<mutexVars, semVars>>)
  /\ \A m \in Mutex, t \in Task :
       /\ SF_ipcVars(curr = t /\ UnlockInner(m))
       /\ SF_ipcVars(curr = t /\ (UnlockFree(m) \/ HandOver(m)))

(* A device or a task goes on notifying the semaphore, at which an owner of *)
(* a mutex may wait.                                                        *)
NotifyFairness == \A s \in Sem : SF_ipcVars(SemNotify(s))

FairIpcSpec == IpcSpec /\ LockFairness /\ NotifyFairness

-----------------------------------------------------------------------------
Queues == [q \in Mutex \cup Sem |-> IF q \in Mutex THEN lockq[q] ELSE semq[q]]

IpcTypeOK ==
  /\ owner \in [Mutex -> Task \cup {NoTask}]
  /\ depth \in [Mutex -> 0 .. MaxDepth]
  /\ lockq \in [Mutex -> Seq(Task)]
  /\ count \in [Sem -> 0 .. MaxCount]
  /\ semq \in [Sem -> Seq(Task)]

(* wait_node is shared by every wait list, and a task is made ready by the  *)
(* list it waits in: the blocked tasks are those waiting for a child and    *)
(* those in exactly one place of exactly one wait list.  A task out of all  *)
(* lists would never run again, one in two lists would be made ready twice. *)
BlockedIsQueued ==
  /\ blocked = Waiting \cup UNION {Range(Queues[q]) : q \in Mutex \cup Sem}
  /\ \A q \in Mutex \cup Sem :
       /\ IsInjective(Queues[q])
       /\ Range(Queues[q]) \cap Waiting = {}
       /\ \A r \in (Mutex \cup Sem) \ {q} : Range(Queues[q]) \cap Range(Queues[r]) = {}

(* Each mutex is a queue lock: no task slips in between an unlock and the   *)
(* waiter that unlock woke, although that waiter runs only later.           *)
QLock == INSTANCE QueueLock WITH
  Client <- Task,
  Lock <- Mutex,
  line <- [m \in Mutex |-> IF owner[m] = NoTask THEN <<>> ELSE <<owner[m]>> \o lockq[m]]
LocksAreQueues == QLock!LockSpec

(* Each semaphore is a credit: no notification is lost or counted twice,    *)
(* and no task waits while the count is positive.                           *)
Credit == INSTANCE CreditSem WITH
  Client <- Task,
  Sema <- Sem,
  InitCredit <- InitCount,
  credit <- [s \in Sem |-> count[s] - Len(semq[s])],
  line <- semq
SemsAreCredits == Credit!CreditSpec

(* Whoever waits for a mutex owns it in the end. *)
LockGranted ==
  \A m \in Mutex, t \in Task : t \in Range(lockq[m]) ~> owner[m] = t

=============================================================================
