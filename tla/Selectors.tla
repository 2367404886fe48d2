----------------------------- MODULE Selectors -----------------------------
(***************************************************************************)
(* The descriptors of the GDT under the life of processes: tss_init of       *)
(* core/task.c finds a free descriptor under gdt_mutex (cpu/cpu.c) and       *)
(* marks it used only after it released the mutex.  Nothing gives back the   *)
(* selector of a process that is reaped.                                     *)
(***************************************************************************)
EXTENDS TaskLife

CONSTANTS
  NSel   \* descriptors of the GDT that are free after boot

ASSUME SelAssumption == NSel \in Nat

Sel == 1 .. NSel
NoSel == 0

VARIABLES
  tss,     \* base of each descriptor: the slot with its TSS, NoTask while attr is 0
  selOf,   \* task_t.tss_sel of each slot
  local,   \* tss_sel in tss_init, of each task in sys_fork
  built,   \* where each task is in tss_init
  reaped,  \* history: processes whose slot was cleared with their selector
  shared   \* history: selectors that were returned to two forks at once

selVars == <<tss, selOf, local, built, reaped, shared>>
lifeVars == <<vars, selVars>>

SelInit ==
  /\ Init
  /\ tss = [i \in Sel |-> NoTask]
  /\ selOf = [s \in Slot |-> NoSel]
  /\ local = [t \in Task |-> NoSel]
  /\ built = [t \in Task |-> "no"]
  /\ reaped = 0
  /\ shared = {}

Building(t, place) == pc[t] = "forkInit" /\ built[t] = place

(* gdt_alloc_desc: the first descriptor whose attr is 0, at one instant     *)
(* because none is given back while a scan is under way.                    *)
GdtAllocDesc(t) ==
  /\ Building(t, "no")
  /\ \E i \in Sel :
       /\ tss[i] = NoTask /\ \A j \in Sel : j < i => tss[j] # NoTask
       /\ local' = [local EXCEPT ![t] = i]
       /\ shared' = shared \cup (IF \E u \in Task : local[u] = i THEN {i} ELSE {})
  /\ built' = [built EXCEPT ![t] = "found"]
  /\ UNCHANGED <<vars, tss, selOf, reaped>>

(* The GDT is full: tss_init fails and task_init goes on all the same.      *)
GdtFull(t) ==
  /\ Building(t, "no")
  /\ \A i \in Sel : tss[i] # NoTask
  /\ built' = [built EXCEPT ![t] = "failed"]
  /\ UNCHANGED <<vars, tss, selOf, local, reaped, shared>>

SegmentDescSet(t) ==
  /\ Building(t, "found")
  /\ tss' = [tss EXCEPT ![local[t]] = pick[t]]
  /\ built' = [built EXCEPT ![t] = "set"]
  /\ UNCHANGED <<vars, selOf, local, reaped, shared>>

(* Faulty variant of TssFailed: gdt_free_sel is not called. *)
TssFailedKeeps(t) ==
  /\ Building(t, "set")
  /\ local' = [local EXCEPT ![t] = NoSel]
  /\ built' = [built EXCEPT ![t] = "failed"]
  /\ UNCHANGED <<vars, tss, selOf, reaped, shared>>

(* tss_init_failed: gdt_free_sel. *)
TssFailed(t) ==
  /\ Building(t, "set")
  /\ tss' = [tss EXCEPT ![local[t]] = NoTask]
  /\ local' = [local EXCEPT ![t] = NoSel]
  /\ built' = [built EXCEPT ![t] = "failed"]
  /\ UNCHANGED <<vars, selOf, reaped, shared>>

(* The rest of tss_init, once it has its pages, and of task_init, which      *)
(* does not look at its result.                                             *)
TaskNamed(t) ==
  /\ built[t] \in {"set", "failed"}
  /\ TaskInit(t)
  /\ selOf' = [selOf EXCEPT ![pick[t]] = local[t]]
  /\ local' = [local EXCEPT ![t] = NoSel]
  /\ built' = [built EXCEPT ![t] = "no"]
  /\ UNCHANGED <<tss, reaped, shared>>

(* sys_wait clears the task_t, tss_sel with it, and not the descriptor. *)
Reap(t) ==
  /\ WaitReap(t)
  /\ reaped' = reaped + (IF selOf[idx[t]] = NoSel THEN 0 ELSE 1)
  /\ selOf' = [selOf EXCEPT ![idx[t]] = NoSel]
  /\ UNCHANGED <<tss, local, built, shared>>

(* A process without a TSS, or two with one, are never switched to as they  *)
(* should be: the model stops when such a one is ready to run.              *)
Runs(s) == state[s] \in {"ready", "waiting"}
Wrecked ==
  clashed \/ \E s \in Slot : Runs(s) /\ (selOf[s] = NoSel \/ \E r \in Slot : r # s /\ selOf[r] = selOf[s])

SelStep(t) ==
  \/ GdtAllocDesc(t) \/ GdtFull(t) \/ SegmentDescSet(t) \/ TssFailed(t)
  \/ TaskNamed(t) \/ Reap(t)
  \/ OtherStep(t) /\ UNCHANGED selVars

SelNext ==
  /\ ~ Wrecked
  /\ \E t \in Task :
       \/ SelStep(t)
       \/ Call(t) /\ UNCHANGED selVars

SelSpec == SelInit /\ [][SelNext]_lifeVars
FairSelSpec == SelSpec /\ \A t \in Task : WF_lifeVars(~ Wrecked /\ SelStep(t))

-----------------------------------------------------------------------------
OwnTss(s) == tss[selOf[s]] = s \/ selOf[s] \in shared
InUse == {i \in Sel : tss[i] # NoTask}
Known == {selOf[s] : s \in Slot} \cup {local[t] : t \in Task}

(* The processor switches to a process through its own TSS: the descriptor  *)
(* of every process that can run points to its own slot, unless two forks   *)
(* found the same descriptor free at once.  And every descriptor in use     *)
(* belongs to a process or to a fork under way, but for one per process     *)
(* reaped: a failing fork gives its descriptor back, and the GDT runs out   *)
(* by forking and waiting, never faster.                                    *)
DescriptorsExact ==
  /\ \A s \in Slot : Runs(s) /\ selOf[s] # NoSel => OwnTss(s)
  /\ Cardinality(InUse \ Known) <= reaped

(* The calls that need nobody else end: fork and exit finish, and a scan of *)
(* sys_wait comes to a child or to its block, whatever the others do, as    *)
(* long as the processor can switch to every process.                       *)
CallsEnd ==
  \A t \in Task : []<>(Wrecked \/ pc[t] \in {"none", "user", "waitBlocked", "gone"})

=============================================================================
